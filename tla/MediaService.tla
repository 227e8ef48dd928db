----------------------------- MODULE MediaService -----------------------------
(***************************************************************************)
(* What a media agent promises the clients of a desktop: one of them at a  *)
(* time is on the air, in the order in which they were told OK, and is     *)
(* sent what is made for it from the first chunk on.  When its turn ends,  *)
(* everybody who waits is turned away.  A client told the end of its       *)
(* stream was sent all that was made for it, unless the agent died in its  *)
(* turn.                                                                   *)
(***************************************************************************)
EXTENDS Naturals, Sequences

CONSTANTS Viewer, NoViewer

VARIABLES
    client, \* how far each client is: "new", "open", "eof" or "ended"
    queue,  \* who was told OK and waits for its turn
    onAir,  \* whose turn it is, or NoViewer
    had,    \* who has had a turn
    made,   \* how many chunks were made for each
    got,    \* what each was sent
    cut     \* whose turn the agent's death ended

vars == <<client, queue, onAir, had, made, got, cut>>

Becomes(v, state) == client' = [client EXCEPT ![v] = state]

Open(v) ==
    /\ client[v] = "new"
    /\ Becomes(v, "open") /\ queue' = Append(queue, v)
    /\ UNCHANGED <<onAir, had, made, got, cut>>

(* Refused, timed out, hung up, or turned away.                            *)
End(v) ==
    /\ client[v] \in {"new", "open"}
    /\ Becomes(v, "ended")
    /\ UNCHANGED <<queue, onAir, had, made, got, cut>>

(* A turn begins, even if the client has left meanwhile.                   *)
GoOnAir ==
    /\ onAir = NoViewer /\ queue # <<>> /\ Head(queue) \notin had
    /\ onAir' = Head(queue) /\ queue' = Tail(queue) /\ had' = had \cup {Head(queue)}
    /\ UNCHANGED <<client, made, got, cut>>

Make ==
    /\ onAir # NoViewer
    /\ made' = [made EXCEPT ![onAir] = @ + 1]
    /\ UNCHANGED <<client, queue, onAir, had, got, cut>>

(* Chunks go to a client in order, none left out, during its turn or after.*)
Send(v) ==
    /\ client[v] = "open" /\ Len(got[v]) < made[v]
    /\ got' = [got EXCEPT ![v] = Append(@, Len(@) + 1)]
    /\ UNCHANGED <<client, queue, onAir, had, made, cut>>

(* The agent starts a new round, or dies: in somebody's turn or in none.   *)
TurnEnds ==
    /\ onAir' = NoViewer /\ queue' = <<>>
    /\ cut' \in {cut, cut \cup ({onAir} \ {NoViewer})}
    /\ UNCHANGED <<client, had, made, got>>

Finish(v) ==
    /\ client[v] = "open" /\ v \in had /\ onAir # v
    /\ v \notin cut => Len(got[v]) = made[v]
    /\ Becomes(v, "eof")
    /\ UNCHANGED <<queue, onAir, had, made, got, cut>>

Init ==
    /\ client = [v \in Viewer |-> "new"]
    /\ queue = <<>> /\ onAir = NoViewer /\ had = {} /\ cut = {}
    /\ made = [v \in Viewer |-> 0] /\ got = [v \in Viewer |-> <<>>]

Next == \/ GoOnAir \/ Make \/ TurnEnds
        \/ \E v \in Viewer : Open(v) \/ End(v) \/ Send(v) \/ Finish(v)

Spec == Init /\ [][Next]_vars
===============================================================================
