--------------------------- MODULE MediaRelayProofs ---------------------------
(***************************************************************************)
(* Theorems of MediaRelay, for any number of viewers and any buffers: what *)
(* the status promises of the socket, that a withdrawn node costs one      *)
(* viewer, and that a client is sent one encoder's output, whole.          *)
(***************************************************************************)
EXTENDS MediaRelay, SequenceTheorems, TLAPS

LEMMA LoopSteps ==
    Loop <=> \/ Look \/ RemoveStaleSocket \/ Bind \/ Announce \/ Accept \/ Spawn
             \/ AnnounceStream \/ Copy \/ CopyEnds \/ Reap \/ Report \/ NextRound
BY Zenon DEF Loop

LEMMA Limits == PipeLimit \in Nat /\ PipeLimit > 0 /\ SocketLimit \in Nat /\ SocketLimit > 0
BY LimitAssumption

-----------------------------------------------------------------------------
(* The agent's variables among themselves: what is there at which place of *)
(* the loop.                                                               *)
Serving == {"spawn", "spawned", "copy", "reap", "report", "sleep"}

RelayInv ==
    /\ pc \in Serving <=> relay # NoViewer
    /\ path = "live" <=> pc \in Serving \cup {"announce", "accept"}
    /\ backlog # <<>> => path = "live"
    /\ encoder # "none" => pc \in {"spawned", "copy", "reap"}
    /\ pipe # <<>> => encoder # "none"

TInv == TypeOK /\ RelayInv

(* Between two listeners the status no longer says ready.                  *)
StatusInv ==
    /\ pc \in {"look", "unlink", "bind"} /\ announced => status \notin {"encoding", "streaming"}
    /\ pc \in {"report", "sleep"} => status \in {"exited", "ended"}

(* What the file names, and what the agent took from it, has not been      *)
(* given in vain since the file last named it.                             *)
NodeInv ==
    /\ captured \notin wasted
    /\ kind = "video" /\ pc \in {"unlink", "bind", "announce", "accept", "spawn"}
            => node \notin wasted

LEMMA InitInv == Init => TInv /\ StatusInv /\ NodeInv
<1>. SUFFICES ASSUME Init PROVE TInv /\ StatusInv /\ NodeInv
  OBVIOUS
<1>1. \A S : <<>> \in Seq(S) /\ Len(<<>>) = 0
  OBVIOUS
<1>2. kind \in {"video", "audio"}
  BY KindAssumption DEF Init
<1>3. pipe \in Seq(Nat) /\ Len(pipe) <= PipeLimit /\ backlog \in Seq(Viewer)
  BY <1>1, Limits DEF Init
<1>4. /\ wire \in [Viewer -> Seq(Nat)] /\ got \in [Viewer -> Seq(Nat)]
      /\ \A v \in Viewer : Len(wire[v]) <= SocketLimit
  BY <1>1, Limits DEF Init
<1>5. TypeOK
  BY <1>2, <1>3, <1>4 DEF Init, TypeOK
<1>6. RelayInv /\ StatusInv /\ NodeInv
  BY DEF Init, RelayInv, Serving, StatusInv, NodeInv
<1>7. QED BY <1>5, <1>6 DEF TInv

(* A step of a thread that streams changes these three variables.          *)
LEMMA StreamTypes ==
    ASSUME TypeOK,
           UNCHANGED <<kind, graph, pc, place, status, channel, coding, faults>>,
           viewer' \in [Viewer -> {"idle", "checked", "open", "eof", "ended"}],
           wire' \in [Viewer -> Seq(Nat)], got' \in [Viewer -> Seq(Nat)],
           \A v \in Viewer : Len(wire'[v]) <= SocketLimit
    PROVE  TypeOK'
BY DEF TypeOK, graph, place, channel, coding, faults

(* One step per action.                                                    *)
LEMMA TypeStep == TInv /\ [Next]_vars => TypeOK'
<1>. SUFFICES ASSUME TInv, [Next]_vars PROVE TypeOK'
  OBVIOUS
<1>. USE Limits DEF TInv, TypeOK, vars, graph, place, channel, coding, daemon, faults
<1>1. CASE UNCHANGED vars
  BY <1>1
<1>2. CASE SourceAppears BY <1>2 DEF SourceAppears
<1>3. CASE SourceGoes    BY <1>3 DEF SourceGoes
<1>4. CASE PublishNode   BY <1>4 DEF PublishNode
<1>5. CASE Start         BY <1>5 DEF Start
<1>6. CASE Loop
  <2>1. CASE Look
    <3>1. CASE LookForNode  BY ZenonT(60), <2>1, <3>1 DEF Look, LookForNode, Wait
    <3>2. CASE EnsureVirtualSink
      <4>0. \/ pc' = "unlink" /\ UNCHANGED <<status, announced>>
            \/ pc' = pc /\ status' = "waiting" /\ announced' = TRUE
        BY <3>2, Zenon DEF EnsureVirtualSink, Wait
      <4>1. source' \in Nat /\ sources' \in Nat
        BY <3>2 DEF EnsureVirtualSink
      <4>2. /\ node' = node
            /\ UNCHANGED <<kind, captured, wasted, path, channel, coding, daemon, wire, faults>>
        BY <2>1, <3>2 DEF Look, EnsureVirtualSink
      <4>3. QED BY ZenonT(60), <4>0, <4>1, <4>2
    <3>3. QED BY <2>1, <3>1, <3>2 DEF Look
  <2>2. CASE RemoveStaleSocket BY <2>2 DEF RemoveStaleSocket
  <2>3. CASE Bind        BY <2>3 DEF Bind
  <2>4. CASE Announce    BY <2>4 DEF Announce
  <2>5. CASE Accept      BY SMTT(30), <2>5 DEF Accept
  <2>6. CASE Spawn       BY <2>6 DEF Spawn
  <2>7. CASE AnnounceStream BY <2>7 DEF AnnounceStream
  <2>8. CASE Copy
    <3>1. relay \in Viewer /\ pipe \in Seq(Nat) /\ pipe # <<>>
      BY <2>8 DEF Copy, RelayInv, Serving
    <3>2. Tail(pipe) \in Seq(Nat) /\ Len(Tail(pipe)) <= PipeLimit /\ Head(pipe) \in Nat
      BY <3>1
    <3>3. wire' \in [Viewer -> Seq(Nat)] /\ \A v \in Viewer : Len(wire'[v]) <= SocketLimit
      <4>1. CASE wire' = wire
        BY <4>1
      <4>2. CASE /\ Len(wire[relay]) < SocketLimit
                 /\ wire' = [wire EXCEPT ![relay] = Append(@, Head(pipe))]
        <5>1. /\ Append(wire[relay], Head(pipe)) \in Seq(Nat)
              /\ Len(Append(wire[relay], Head(pipe))) <= SocketLimit
          BY <3>1, <3>2, <4>2
        <5>2. QED BY <3>1, <4>2, <5>1
      <4>3. QED BY <2>8, <4>1, <4>2 DEF Copy
    <3>4. QED BY ZenonT(60), <2>8, <3>2, <3>3 DEF Copy
  <2>9. CASE CopyEnds    BY <2>9 DEF CopyEnds
  <2>10. CASE Reap       BY <2>10 DEF Reap
  <2>11. CASE Report     BY <2>11 DEF Report
  <2>12. CASE NextRound  BY <2>12 DEF NextRound, LetGo
  <2>13. QED BY <1>6, <2>1, <2>2, <2>3, <2>4, <2>5, <2>6, <2>7, <2>8, <2>9, <2>10, <2>11,
                <2>12, LoopSteps
<1>7. CASE Crash
  <2>1. backlog' \in Seq(Viewer) /\ pipe' \in Seq(Nat) /\ Len(pipe') <= PipeLimit
    BY <1>7 DEF Crash, LetGo
  <2>2. path' \in {"none", "live", "dead"} /\ cut' \subseteq Viewer /\ failed' \in BOOLEAN
    BY <1>7 DEF Crash, LetGo
  <2>3. QED BY <1>7, <2>1, <2>2 DEF Crash, LetGo
<1>8. CASE Encode
  <2>1. relay \in Viewer /\ made[relay] \in Nat
    BY <1>8 DEF Encode, RelayInv, Serving
  <2>2. pipe' \in Seq(Nat) /\ Len(pipe') <= PipeLimit
    BY <1>8, <2>1 DEF Encode
  <2>3. made' \in [Viewer -> Nat]
    BY <1>8, <2>1 DEF Encode
  <2>4. QED BY <1>8, <2>2, <2>3 DEF Encode
<1>9. CASE EncoderExits  BY <1>9 DEF EncoderExits
<1>10. ASSUME NEW v \in Viewer, OpenRelay(v) \/ Stream(v) PROVE TypeOK'
  <2>. USE DEF Becomes, Ends
  <2>1. CASE CheckStatus(v) BY <2>1 DEF CheckStatus
  <2>2. CASE Connect(v)
    <3>1. Append(backlog, v) \in Seq(Viewer)
      OBVIOUS
    <3>2. backlog' = Append(backlog, v) \/ backlog' = backlog
      BY <2>2 DEF Connect
    <3>3. backlog' \in Seq(Viewer)
      BY <3>1, <3>2
    <3>4. viewer' \in [Viewer -> {"idle", "checked", "open", "eof", "ended"}]
      BY <2>2 DEF Connect
    <3>5. UNCHANGED <<kind, graph, pc, place, status, relay, accepted, coding, got, wire, faults>>
      BY <2>2 DEF Connect
    <3>6. QED BY SMTT(30), <3>3, <3>4, <3>5
  <2>3. CASE Forward(v)
    <3>1. wire[v] \in Seq(Nat) /\ got[v] \in Seq(Nat) /\ wire[v] # <<>>
      BY <2>3 DEF Forward
    <3>2. /\ Tail(wire[v]) \in Seq(Nat) /\ Len(Tail(wire[v])) <= SocketLimit
          /\ Append(got[v], Head(wire[v])) \in Seq(Nat)
          /\ <<>> \in Seq(Nat) /\ Len(<<>>) <= SocketLimit
      BY SMTT(30), <3>1
    <3>3. /\ wire' \in [Viewer -> Seq(Nat)] /\ got' \in [Viewer -> Seq(Nat)]
          /\ \A u \in Viewer : Len(wire'[u]) <= SocketLimit
      <4>1. CASE /\ got' = [got EXCEPT ![v] = Append(@, Head(wire[v]))]
                 /\ wire' = [wire EXCEPT ![v] = Tail(@)]
        BY <3>2, <4>1
      <4>2. CASE wire' = [wire EXCEPT ![v] = <<>>] /\ got' = got
        BY <3>2, <4>2
      <4>3. QED BY <2>3, <4>1, <4>2 DEF Forward
    <3>4. viewer' \in [Viewer -> {"idle", "checked", "open", "eof", "ended"}]
      BY <2>3 DEF Forward
    <3>5. UNCHANGED <<kind, graph, pc, place, status, channel, coding, faults>>
      BY <2>3 DEF Forward
    <3>6. QED BY <3>3, <3>4, <3>5, StreamTypes
  <2>4. CASE ReadEnd(v)   BY <2>4 DEF ReadEnd
  <2>5. CASE TimeOut(v)   BY <2>5 DEF TimeOut
  <2>6. QED BY <1>10, <2>1, <2>2, <2>3, <2>4, <2>5, Zenon DEF OpenRelay, Stream
<1>11. QED BY <1>1, <1>2, <1>3, <1>4, <1>5, <1>6, <1>7, <1>8, <1>9, <1>10, Zenon DEF Next

LEMMA AgentStep ==
    TInv /\ StatusInv /\ NodeInv /\ [Next]_vars => RelayInv' /\ StatusInv' /\ NodeInv'
<1>. SUFFICES ASSUME TInv, StatusInv, NodeInv, [Next]_vars PROVE RelayInv' /\ StatusInv' /\ NodeInv'
  OBVIOUS
<1>. TypeOK
  BY DEF TInv
<1>. USE ViewerAssumption
     DEF TInv, RelayInv, Serving, StatusInv, NodeInv, vars, graph, place, channel, coding, daemon, faults
<1>1. CASE UNCHANGED vars
  BY <1>1
<1>2. CASE SourceAppears BY <1>2 DEF SourceAppears
<1>3. CASE SourceGoes    BY <1>3 DEF SourceGoes
<1>4. CASE PublishNode   BY <1>4 DEF PublishNode
<1>5. CASE Start         BY <1>5 DEF Start
<1>6. CASE Loop
  <2>1. CASE Look        BY <2>1 DEF TypeOK, Look, LookForNode, EnsureVirtualSink, Wait
  <2>2. CASE RemoveStaleSocket BY <2>2 DEF RemoveStaleSocket
  <2>3. CASE Bind        BY <2>3 DEF Bind
  <2>4. CASE Announce    BY <2>4 DEF Announce
  <2>5. CASE Accept      BY SMTT(30), <2>5 DEF TypeOK, Accept
  <2>6. CASE Spawn       BY <2>6 DEF Spawn
  <2>7. CASE AnnounceStream BY <2>7 DEF AnnounceStream
  <2>8. CASE Copy        BY <2>8 DEF Copy
  <2>9. CASE CopyEnds    BY <2>9 DEF CopyEnds
  <2>10. CASE Reap       BY <2>10 DEF Reap
  <2>11. CASE Report     BY <2>11 DEF Report
  <2>12. CASE NextRound  BY <2>12 DEF NextRound, LetGo
  <2>13. QED BY <1>6, <2>1, <2>2, <2>3, <2>4, <2>5, <2>6, <2>7, <2>8, <2>9, <2>10, <2>11,
                <2>12, LoopSteps
<1>7. CASE Crash         BY <1>7 DEF TypeOK, Crash, LetGo
<1>8. CASE Encode        BY <1>8 DEF Encode
<1>9. CASE EncoderExits  BY <1>9 DEF EncoderExits
<1>10. ASSUME NEW v \in Viewer, OpenRelay(v) \/ Stream(v) PROVE RelayInv' /\ StatusInv' /\ NodeInv'
  BY <1>10 DEF OpenRelay, Stream, CheckStatus, Connect, Forward, ReadEnd, TimeOut
<1>11. QED BY <1>1, <1>2, <1>3, <1>4, <1>5, <1>6, <1>7, <1>8, <1>9, <1>10, Zenon DEF Next

LEMMA AgentAlways == Spec => [](TInv /\ StatusInv /\ NodeInv)
<1>1. TInv /\ StatusInv /\ NodeInv /\ [Next]_vars => (TInv /\ StatusInv /\ NodeInv)'
  BY TypeStep, AgentStep DEF TInv
<1>2. QED BY <1>1, InitInv, PTL DEF Spec

(* The agent, its files, the encoder and the daemon's threads keep their   *)
(* types, and no buffer holds more than its limit (media_agent.rs 14-94).  *)
THEOREM TypeCorrect == Spec => []TypeOK
<1>1. TInv => TypeOK
  BY DEF TInv
<1>2. QED BY <1>1, AgentAlways, PTL

(* The daemon is only invited to a socket that listens (media_agent.rs     *)
(* 27-33, 75-94; session.rs 317).                                          *)
THEOREM ReadyListens == Spec => []ReadyIsListening
<1>1. TInv /\ StatusInv => ReadyIsListening
  BY DEF TInv, TypeOK, RelayInv, Serving, StatusInv, ReadyIsListening
<1>2. QED BY <1>1, AgentAlways, PTL

(* A node that the capture agent no longer names costs one viewer, and no  *)
(* other until it is named again (media_agent.rs 21-34, 93-94).            *)
THEOREM WithdrawnCostsOne == Spec => WithdrawnOnce
<1>1. NodeInv /\ [Next]_vars
        => [pc = "spawn" /\ pc' = "spawned" /\ kind = "video" /\ node # captured
                => node \notin wasted]_vars
  BY DEF NodeInv
<1>2. QED BY <1>1, AgentAlways, PTL DEF Spec, WithdrawnOnce

-----------------------------------------------------------------------------
(* Connections come from the daemon's threads, one each, and are accepted  *)
(* once; an end in order is the end of a relay that was let go.            *)
QueueInv ==
    /\ \A i \in DOMAIN backlog : /\ backlog[i] \notin accepted
                                 /\ viewer[backlog[i]] \notin {"idle", "checked", "eof"}
    /\ \A i, j \in DOMAIN backlog : backlog[i] = backlog[j] => i = j
    /\ \A v \in Viewer : viewer[v] \in {"idle", "checked"} => v \notin accepted
    /\ \A v \in Viewer : viewer[v] = "eof" => v \in accepted /\ relay # v
    /\ relay # NoViewer => relay \in accepted /\ relay \notin cut
    /\ cut \subseteq accepted

(* Chunks that follow the n-th.                                            *)
Follows(s, n) == \A i \in 1..Len(s) : s[i] = n + i

(* Three pieces of one stream, from its first chunk on.                    *)
Line(g, w, p) == Follows(g, 0) /\ Follows(w, Len(g)) /\ Follows(p, Len(g) + Len(w))
Total(g, w, p) == Len(g) + Len(w) + Len(p)

(* What the agent's pipe holds for a client.                               *)
Pending(v) == IF viewer[v] = "open" /\ relay = v THEN pipe ELSE <<>>

(* The chunks on their way to a client continue what it was sent, and all  *)
(* that the encoder made for it was sent or is on its way, unless the      *)
(* client left or the agent died.                                          *)
StreamInv(v) ==
    /\ v \notin accepted => made[v] = 0 /\ wire[v] = <<>> /\ got[v] = <<>>
    /\ Line(got[v], wire[v], Pending(v))
    /\ Total(got[v], wire[v], Pending(v)) <= made[v]
    /\ viewer[v] \in {"open", "eof"} /\ v \notin cut
            => Total(got[v], wire[v], Pending(v)) = made[v]
    /\ viewer[v] # "open" => wire[v] = <<>>
    /\ viewer[v] = "open" /\ relay = v /\ pc = "reap" => encoder = "exited" /\ pipe = <<>>

IInv == TInv /\ StatusInv /\ NodeInv /\ QueueInv /\ \A v \in Viewer : StreamInv(v)

-----------------------------------------------------------------------------
LEMMA FollowsAppend ==
    ASSUME NEW s \in Seq(Nat), NEW n \in Nat, Follows(s, n)
    PROVE  Follows(Append(s, n + Len(s) + 1), n)
<1>. DEFINE t == Append(s, n + Len(s) + 1)
<1>1. /\ t \in Seq(Nat) /\ Len(t) = Len(s) + 1 /\ t[Len(s) + 1] = n + Len(s) + 1
      /\ \A i \in 1..Len(s) : t[i] = s[i]
  OBVIOUS
<1>. HIDE DEF t
<1>2. ASSUME NEW i \in 1..Len(t) PROVE t[i] = n + i
  <2>1. CASE i \in 1..Len(s)
    BY <1>1, <2>1 DEF Follows
  <2>2. CASE i = Len(s) + 1
    BY <1>1, <2>2
  <2>3. QED BY <1>1, <2>1, <2>2
<1>3. Follows(t, n)
  BY <1>2 DEF Follows
<1>4. QED BY <1>3 DEF t

LEMMA FollowsTail ==
    ASSUME NEW s \in Seq(Nat), NEW n \in Nat, Follows(s, n), s # <<>>
    PROVE  /\ Head(s) = n + 1 /\ Follows(Tail(s), n + 1)
           /\ Tail(s) \in Seq(Nat) /\ Len(Tail(s)) + 1 = Len(s)
<1>1. /\ Len(s) \in Nat \ {0} /\ Head(s) = s[1] /\ Tail(s) \in Seq(Nat)
      /\ Len(Tail(s)) = Len(s) - 1 /\ \A i \in 1..Len(Tail(s)) : Tail(s)[i] = s[i + 1]
  OBVIOUS
<1>2. ASSUME NEW i \in 1..Len(Tail(s)) PROVE Tail(s)[i] = (n + 1) + i
  <2>1. i + 1 \in 1..Len(s) /\ n + (i + 1) = (n + 1) + i
    BY <1>1
  <2>2. QED BY <1>1, <2>1 DEF Follows
<1>3. QED BY <1>1, <1>2 DEF Follows

LEMMA FollowsNothing == \A n : Follows(<<>>, n)
BY DEF Follows

(* A stream in two parts is one stream, and one from the first chunk on is *)
(* what Count says.                                                        *)
LEMMA FollowsConcat ==
    ASSUME NEW s \in Seq(Nat), NEW t \in Seq(Nat), Follows(s, 0), Follows(t, Len(s))
    PROVE  s \o t \in Seq(Nat) /\ Len(s \o t) = Len(s) + Len(t) /\ Follows(s \o t, 0)
<1>. DEFINE u == s \o t
<1>1. /\ u \in Seq(Nat) /\ Len(u) = Len(s) + Len(t) /\ Len(s) \in Nat /\ Len(t) \in Nat
      /\ \A i \in 1..Len(u) : u[i] = IF i <= Len(s) THEN s[i] ELSE t[i - Len(s)]
  BY ConcatProperties
<1>. HIDE DEF u
<1>2. ASSUME NEW i \in 1..Len(u) PROVE u[i] = 0 + i
  <2>0. i \in Nat /\ i > 0 /\ i <= Len(s) + Len(t)
    BY <1>1
  <2>1. CASE i <= Len(s)
    <3>1. i \in 1..Len(s) /\ u[i] = s[i]
      BY <1>1, <2>0, <2>1
    <3>2. s[i] = 0 + i
      BY <3>1 DEF Follows
    <3>3. QED BY <3>1, <3>2
  <2>2. CASE ~(i <= Len(s))
    <3>1. PICK j \in 1..Len(t) : i = Len(s) + j /\ u[i] = t[j]
      <4>1. i - Len(s) \in 1..Len(t) /\ i = Len(s) + (i - Len(s)) /\ u[i] = t[i - Len(s)]
        BY <1>1, <2>0, <2>2
      <4>2. QED BY <4>1
    <3>2. t[j] = Len(s) + j
      BY <3>1 DEF Follows
    <3>3. QED BY <2>0, <3>1, <3>2
  <2>3. QED BY <2>1, <2>2
<1>3. QED BY <1>1, <1>2 DEF u, Follows

LEMMA FollowsCount ==
    ASSUME NEW s \in Seq(Nat), Follows(s, 0)
    PROVE  s = Count(Len(s))
<1>1. s = [i \in 1..Len(s) |-> s[i]]
  OBVIOUS
<1>2. \A i \in 1..Len(s) : s[i] = i
  BY DEF Follows
<1>3. QED BY <1>1, <1>2 DEF Count

(* A chunk that goes from one piece to the one before leaves the stream as *)
(* it is; one more at the end continues it; and its last pieces can go.    *)
LEMMA PipeToWire ==
    ASSUME NEW g \in Seq(Nat), NEW w \in Seq(Nat), NEW p \in Seq(Nat), Line(g, w, p), p # <<>>
    PROVE  /\ Line(g, Append(w, Head(p)), Tail(p))
           /\ Total(g, Append(w, Head(p)), Tail(p)) = Total(g, w, p)
<1>. DEFINE n == Len(g) + Len(w)
            x == Append(w, Head(p))
            q == Tail(p)
<1>1. Len(g) \in Nat /\ Len(w) \in Nat /\ n \in Nat
  OBVIOUS
<1>2. Head(p) = n + 1 /\ Follows(q, n + 1) /\ q \in Seq(Nat) /\ Len(q) + 1 = Len(p)
  BY <1>1, FollowsTail DEF Line
<1>3. Follows(x, Len(g)) /\ Len(x) = Len(w) + 1
  BY <1>1, <1>2, FollowsAppend DEF Line
<1>4. /\ Len(g) + Len(x) = n + 1
      /\ Len(g) + Len(x) + Len(q) = Len(g) + Len(w) + Len(p)
  <2>1. Len(q) \in Nat /\ Len(p) \in Nat
    BY <1>2
  <2>2. QED BY <1>1, <1>2, <1>3, <2>1
<1>. HIDE DEF x, q
<1>5. Line(g, x, q)
  BY <1>2, <1>3, <1>4 DEF Line
<1>6. Total(g, x, q) = Total(g, w, p)
  BY <1>4 DEF Total
<1>7. QED BY <1>5, <1>6 DEF x, q

LEMMA WireToClient ==
    ASSUME NEW g \in Seq(Nat), NEW w \in Seq(Nat), NEW p \in Seq(Nat), Line(g, w, p), w # <<>>
    PROVE  /\ Line(Append(g, Head(w)), Tail(w), p)
           /\ Total(Append(g, Head(w)), Tail(w), p) = Total(g, w, p)
<1>. DEFINE h == Append(g, Head(w))
            x == Tail(w)
<1>1. Len(g) \in Nat /\ Len(w) \in Nat /\ Len(p) \in Nat
  OBVIOUS
<1>2. /\ Head(w) = Len(g) + 1 /\ Follows(x, Len(g) + 1) /\ x \in Seq(Nat)
      /\ Len(x) + 1 = Len(w)
  BY <1>1, FollowsTail DEF Line
<1>3. Follows(h, 0) /\ Len(h) = Len(g) + 1
  BY <1>1, <1>2, FollowsAppend DEF Line
<1>4. Len(x) \in Nat /\ Len(h) + Len(x) = Len(g) + Len(w)
  BY <1>1, <1>2, <1>3
<1>. HIDE DEF h, x
<1>5. Line(h, x, p)
  BY <1>2, <1>3, <1>4 DEF Line
<1>6. Total(h, x, p) = Total(g, w, p)
  BY <1>4 DEF Total
<1>7. QED BY <1>5, <1>6 DEF h, x

LEMMA IntoPipe ==
    ASSUME NEW g \in Seq(Nat), NEW w \in Seq(Nat), NEW p \in Seq(Nat), Line(g, w, p)
    PROVE  /\ Line(g, w, Append(p, Total(g, w, p) + 1))
           /\ Total(g, w, Append(p, Total(g, w, p) + 1)) = Total(g, w, p) + 1
<1>. DEFINE n == Len(g) + Len(w)
            q == Append(p, Total(g, w, p) + 1)
<1>1. n \in Nat /\ Len(p) \in Nat /\ Total(g, w, p) + 1 = n + Len(p) + 1
  BY DEF Total
<1>2. Follows(q, n) /\ Len(q) = Len(p) + 1
  BY <1>1, FollowsAppend DEF Line
<1>. HIDE DEF q
<1>3. QED BY <1>1, <1>2 DEF q, Line, Total

LEMMA Pieces ==
    ASSUME NEW g \in Seq(Nat), NEW w \in Seq(Nat), NEW p \in Seq(Nat), Line(g, w, p)
    PROVE  /\ Line(g, w, <<>>) /\ Line(g, <<>>, <<>>) /\ Total(g, w, p) \in Nat
           /\ Total(g, w, <<>>) \in Nat /\ Total(g, w, <<>>) <= Total(g, w, p)
           /\ Total(g, <<>>, <<>>) <= Total(g, w, <<>>) /\ Total(g, <<>>, <<>>) = Len(g)
<1>1. Len(g) \in Nat /\ Len(w) \in Nat /\ Len(p) \in Nat /\ Len(<<>>) = 0
  OBVIOUS
<1>2. QED BY <1>1, FollowsNothing DEF Line, Total

LEMMA NoStream == Line(<<>>, <<>>, <<>>) /\ Total(<<>>, <<>>, <<>>) = 0
<1>1. Len(<<>>) = 0
  OBVIOUS
<1>2. QED BY <1>1, FollowsNothing DEF Line, Total

(* The pieces together are what Count says.                                *)
LEMMA LineIsCount ==
    ASSUME NEW g \in Seq(Nat), NEW w \in Seq(Nat), NEW p \in Seq(Nat), Line(g, w, p)
    PROVE  Len(g \o (w \o p)) = Total(g, w, p) /\ g \o (w \o p) = Count(Total(g, w, p))
<1>0. (g \o w) \o p = g \o (w \o p)
  BY SMTT(30), ConcatAssociative
<1>. DEFINE u == g \o w
            s == u \o p
<1>1. u \in Seq(Nat) /\ Len(u) = Len(g) + Len(w) /\ Follows(u, 0)
  BY FollowsConcat DEF Line
<1>2. g \o (w \o p) = s
  BY <1>0
<1>. HIDE DEF u
<1>3. s \in Seq(Nat) /\ Len(s) = Len(u) + Len(p) /\ Follows(s, 0)
  BY <1>1, FollowsConcat DEF Line
<1>. HIDE DEF s
<1>4. s = Count(Len(s)) /\ Len(s) = Total(g, w, p)
  BY <1>1, <1>3, FollowsCount DEF Total
<1>5. QED BY <1>2, <1>4

LEMMA InitStreams == Init => QueueInv /\ \A v \in Viewer : StreamInv(v)
<1>. SUFFICES ASSUME Init PROVE QueueInv /\ \A v \in Viewer : StreamInv(v)
  OBVIOUS
<1>1. QueueInv
  BY DEF Init, QueueInv
<1>2. ASSUME NEW v \in Viewer PROVE StreamInv(v)
  BY ViewerAssumption, NoStream DEF Init, StreamInv, Pending
<1>3. QED BY <1>1, <1>2

-----------------------------------------------------------------------------
(* What most steps leave alone.                                            *)
Quiet == /\ UNCHANGED <<backlog, relay, accepted, pipe, made, viewer, got, wire, cut>>
         /\ pc' = "reap" => pc = "reap" /\ encoder' = encoder

LEMMA QuietSteps ==
    ASSUME \/ UNCHANGED vars
           \/ SourceAppears \/ SourceGoes \/ PublishNode \/ Start
           \/ Look \/ RemoveStaleSocket \/ Bind \/ Announce \/ Spawn \/ AnnounceStream \/ Report
    PROVE  Quiet
<1>. USE DEF Quiet, vars, graph, place, channel, coding, daemon, faults
<1>1. CASE UNCHANGED vars   BY <1>1
<1>2. CASE SourceAppears    BY <1>2 DEF SourceAppears
<1>3. CASE SourceGoes       BY <1>3 DEF SourceGoes
<1>4. CASE PublishNode      BY <1>4 DEF PublishNode
<1>5. CASE Start            BY <1>5 DEF Start
<1>6. CASE Look
  <2>1. UNCHANGED <<channel, coding, daemon, wire, faults>> /\ pc = "look"
    BY <1>6 DEF Look
  <2>2. pc' \in {"look", "unlink"}
    BY <1>6 DEF Look, LookForNode, EnsureVirtualSink, Wait
  <2>3. QED BY <2>1, <2>2
<1>7. CASE RemoveStaleSocket BY <1>7 DEF RemoveStaleSocket
<1>8. CASE Bind             BY <1>8 DEF Bind
<1>9. CASE Announce         BY <1>9 DEF Announce
<1>10. CASE Spawn           BY <1>10 DEF Spawn
<1>11. CASE AnnounceStream  BY <1>11 DEF AnnounceStream
<1>12. CASE Report          BY <1>12 DEF Report
<1>13. QED BY <1>1, <1>2, <1>3, <1>4, <1>5, <1>6, <1>7, <1>8, <1>9, <1>10, <1>11, <1>12

LEMMA QueueStep == TInv /\ QueueInv /\ [Next]_vars => QueueInv'
<1>. SUFFICES ASSUME TInv, QueueInv, [Next]_vars PROVE QueueInv'
  OBVIOUS
<1>. DEFINE Same == UNCHANGED <<backlog, relay, accepted, viewer, cut>>
<1>1. Same => QueueInv'
  BY DEF QueueInv
<1>2. CASE Quiet
  BY <1>1, <1>2 DEF Quiet
<1>3. CASE Copy \/ CopyEnds \/ Reap \/ Encode \/ EncoderExits
  BY <1>1, <1>3 DEF Copy, CopyEnds, Reap, Encode, EncoderExits, graph, place, channel, coding,
                    daemon, faults
<1>. TypeOK
  BY DEF TInv
<1>4. CASE Accept
  <2>1. /\ backlog \in Seq(Viewer) /\ backlog # <<>> /\ relay' = backlog[1]
        /\ backlog' = Tail(backlog) /\ accepted' = accepted \cup {backlog[1]}
        /\ UNCHANGED <<viewer, cut>>
    BY <1>4 DEF Accept, TypeOK, daemon, faults
  <2>2. /\ DOMAIN backlog = 1..Len(backlog) /\ 1 \in DOMAIN backlog
        /\ DOMAIN backlog' = 1..(Len(backlog) - 1)
        /\ \A i \in DOMAIN backlog' : i + 1 \in DOMAIN backlog /\ backlog'[i] = backlog[i + 1]
    BY <2>1
  <2>3. \A i \in DOMAIN backlog' : backlog'[i] # backlog[1]
    BY <2>2 DEF QueueInv
  <2>4. \A i, j \in DOMAIN backlog' : backlog'[i] = backlog'[j] => i = j
    <3>1. ASSUME NEW i \in DOMAIN backlog', NEW j \in DOMAIN backlog', backlog'[i] = backlog'[j]
          PROVE  i = j
      <4>1. i + 1 = j + 1
        BY <2>2, <3>1 DEF QueueInv
      <4>2. QED BY <2>2, <4>1
    <3>2. QED BY <3>1
  <2>5. backlog[1] \notin accepted /\ viewer[backlog[1]] \notin {"idle", "checked", "eof"}
    BY <2>2 DEF QueueInv
  <2>6. QED BY <2>1, <2>2, <2>3, <2>4, <2>5 DEF QueueInv
<1>5. CASE NextRound
  <2>1. backlog' = <<>> /\ relay' = NoViewer /\ UNCHANGED <<accepted, viewer, cut>>
    BY <1>5 DEF NextRound, LetGo, daemon, faults
  <2>2. QED BY <2>1, ViewerAssumption DEF QueueInv
<1>6. CASE Crash
  <2>1. /\ backlog' = <<>> /\ relay' = NoViewer /\ cut' \subseteq cut \cup {relay}
        /\ cut' \subseteq Viewer /\ UNCHANGED <<accepted, viewer>>
    BY <1>6 DEF Crash, LetGo, TypeOK, daemon
  <2>2. cut' \subseteq accepted
    BY <2>1, ViewerAssumption DEF QueueInv
  <2>3. QED BY <2>1, <2>2, ViewerAssumption DEF QueueInv
<1>7. ASSUME NEW u \in Viewer, CheckStatus(u) PROVE QueueInv'
  <2>1. /\ UNCHANGED <<backlog, relay, accepted, cut>> /\ viewer[u] = "idle"
        /\ \A v \in Viewer : v # u => viewer'[v] = viewer[v]
        /\ viewer'[u] \in {"checked", "ended"}
    BY <1>7 DEF CheckStatus, Becomes, TypeOK, channel, faults
  <2>2. \A i \in DOMAIN backlog : backlog[i] \in Viewer /\ backlog[i] # u
    BY <2>1 DEF TypeOK, QueueInv
  <2>3. QED BY <2>1, <2>2 DEF QueueInv
<1>8. ASSUME NEW u \in Viewer, Connect(u) PROVE QueueInv'
  <2>1. /\ UNCHANGED <<relay, accepted, cut>> /\ viewer[u] = "checked" /\ u \notin accepted
        /\ viewer' \in [Viewer -> {"idle", "checked", "open", "eof", "ended"}]
        /\ viewer'[u] \in {"open", "ended"}
        /\ \A v \in Viewer : v # u => viewer'[v] = viewer[v]
    BY <1>8 DEF Connect, Becomes, TypeOK, QueueInv, faults
  <2>2. backlog \in Seq(Viewer) /\ \A i \in DOMAIN backlog : backlog[i] \in Viewer /\ backlog[i] # u
    BY <2>1 DEF TypeOK, QueueInv
  <2>3. CASE backlog' = backlog
    BY <2>1, <2>2, <2>3 DEF QueueInv
  <2>4. CASE backlog' = Append(backlog, u)
    <3>1. /\ DOMAIN backlog' = DOMAIN backlog \cup {Len(backlog) + 1}
          /\ Len(backlog) + 1 \notin DOMAIN backlog /\ backlog'[Len(backlog) + 1] = u
          /\ \A i \in DOMAIN backlog : backlog'[i] = backlog[i]
      BY <2>2, <2>4
    <3>2. QED BY <2>1, <2>2, <3>1 DEF QueueInv
  <2>5. QED BY <1>8, <2>3, <2>4 DEF Connect
<1>9. ASSUME NEW u \in Viewer, Stream(u) PROVE QueueInv'
  <2>1. /\ UNCHANGED <<backlog, relay, accepted, cut>> /\ viewer[u] = "open"
        /\ \A v \in Viewer : v # u => viewer'[v] = viewer[v]
        /\ viewer'[u] \in {"open", "ended", "eof"}
    <3>1. CASE Forward(u) BY <3>1 DEF Forward, Ends, Becomes, TypeOK, channel, faults
    <3>2. CASE ReadEnd(u) BY <3>2 DEF ReadEnd, Ends, Becomes, TypeOK, channel, faults
    <3>3. CASE TimeOut(u) BY <3>3 DEF TimeOut, Ends, Becomes, TypeOK, channel, faults
    <3>4. QED BY <1>9, <3>1, <3>2, <3>3 DEF Stream
  <2>2. viewer'[u] = "eof" => /\ u \in accepted /\ relay # u
                              /\ \A i \in DOMAIN backlog : backlog[i] # u
    <3>1. CASE ReadEnd(u)
      BY <3>1 DEF ReadEnd, Attached, ToSet, Ends, Becomes, TypeOK
    <3>2. CASE Forward(u) \/ TimeOut(u)
      BY <3>2 DEF Forward, TimeOut, Ends, Becomes, TypeOK
    <3>3. QED BY <1>9, <3>1, <3>2 DEF Stream
  <2>3. \A i \in DOMAIN backlog : backlog[i] \in Viewer
    BY DEF TypeOK
  <2>4. QED BY <2>1, <2>2, <2>3 DEF QueueInv
<1>10. QED BY <1>2, <1>3, <1>4, <1>5, <1>6, <1>7, <1>8, <1>9, QuietSteps, LoopSteps, Zenon
       DEF Next, OpenRelay

-----------------------------------------------------------------------------
(* What a step leaves alone of a stream.                                   *)
Untouched(v) == /\ viewer'[v] = viewer[v] /\ made'[v] = made[v]
                /\ wire'[v] = wire[v] /\ got'[v] = got[v]
                /\ v \in accepted' <=> v \in accepted
                /\ v \in cut' <=> v \in cut

LEMMA OtherStreams ==
    ASSUME NEW v \in Viewer, StreamInv(v), Untouched(v), relay # v, relay' # v
    PROVE  StreamInv(v)'
BY DEF StreamInv, Pending, Untouched

LEMMA QuietStreams ==
    ASSUME NEW v \in Viewer, StreamInv(v), Untouched(v), relay' = relay, pipe' = pipe,
           pc' = "reap" => pc = "reap" /\ encoder' = encoder
    PROVE  StreamInv(v)'
BY DEF StreamInv, Pending, Untouched

(* The agent's steps.                                                      *)
LEMMA AcceptStep ==
    ASSUME TypeOK, RelayInv, QueueInv, Accept, NEW v \in Viewer, StreamInv(v)
    PROVE  StreamInv(v)'
<1>1. /\ relay' = Head(backlog) /\ accepted' = accepted \cup {Head(backlog)}
      /\ backlog # <<>> /\ pc = "accept" /\ pc' = "spawn"
      /\ UNCHANGED <<viewer, made, wire, got, cut, pipe>>
  BY DEF Accept, daemon, coding, faults
<1>2. Head(backlog) \notin accepted
  <2>1. 1 \in DOMAIN backlog /\ Head(backlog) = backlog[1]
    BY <1>1 DEF TypeOK
  <2>2. QED BY <2>1 DEF QueueInv
<1>3. relay = NoViewer /\ pipe = <<>>
  BY <1>1 DEF RelayInv, Serving
<1>4. CASE Head(backlog) # v
  BY <1>1, <1>3, <1>4, ViewerAssumption, OtherStreams DEF Untouched
<1>5. CASE Head(backlog) = v
  <2>1. made[v] = 0 /\ wire[v] = <<>> /\ got[v] = <<>> /\ Pending(v)' = <<>>
    BY <1>1, <1>2, <1>3, <1>5 DEF StreamInv, Pending
  <2>2. QED BY <1>1, <1>5, <2>1, NoStream DEF StreamInv
<1>6. QED BY <1>4, <1>5

LEMMA CopyStep ==
    ASSUME TypeOK, RelayInv, QueueInv, Copy, NEW v \in Viewer, StreamInv(v)
    PROVE  StreamInv(v)'
<1>1. /\ UNCHANGED <<viewer, made, got, accepted, cut, relay>> /\ relay \in Viewer
      /\ pipe # <<>> /\ pipe' = Tail(pipe)
  BY DEF Copy, RelayInv, Serving, TypeOK, coding, channel, daemon, faults
<1>2. relay # v => wire'[v] = wire[v]
  BY <1>1 DEF Copy, TypeOK
<1>3. CASE relay # v
  BY <1>1, <1>2, <1>3, OtherStreams DEF Untouched
<1>4. CASE relay = v /\ Gone(v)
  <2>1. wire'[v] = wire[v] /\ Pending(v)' = Pending(v) /\ viewer[v] # "open"
    BY <1>1, <1>4 DEF Copy, Gone, Pending
  <2>2. QED BY <1>1, <2>1 DEF StreamInv
<1>5. CASE relay = v /\ ~Gone(v)
  <2>1. /\ viewer[v] = "open" /\ v \in accepted /\ pc' # "reap"
        /\ wire'[v] = Append(wire[v], Head(pipe)) /\ Pending(v) = pipe /\ Pending(v)' = Tail(pipe)
    BY <1>1, <1>5, ViewerAssumption DEF Copy, Gone, TypeOK, Pending, QueueInv
  <2>2. got[v] \in Seq(Nat) /\ wire[v] \in Seq(Nat) /\ pipe \in Seq(Nat)
    BY DEF TypeOK
  <2>3. /\ Line(got[v], wire'[v], Tail(pipe))
        /\ Total(got[v], wire'[v], Tail(pipe)) = Total(got[v], wire[v], pipe)
    BY <1>1, <2>1, <2>2, PipeToWire DEF StreamInv
  <2>4. QED BY <1>1, <2>1, <2>3 DEF StreamInv
<1>6. QED BY <1>3, <1>4, <1>5

LEMMA EndingSteps ==
    ASSUME TypeOK, RelayInv, QueueInv, CopyEnds \/ Reap \/ NextRound \/ Crash \/ EncoderExits,
           NEW v \in Viewer, StreamInv(v)
    PROVE  StreamInv(v)'
<1>1. CASE CopyEnds
  BY <1>1 DEF CopyEnds, Exhausted, StreamInv, Pending, coding, channel, daemon, faults
<1>2. CASE Reap
  <2>1. UNCHANGED <<viewer, made, wire, got, accepted, cut, relay>> /\ pc = "reap" /\ pc' # "reap"
    BY <1>2 DEF Reap, channel, daemon, faults
  <2>2. Pending(v)' = Pending(v)
    BY <1>2, <2>1 DEF Reap, StreamInv, Pending
  <2>3. QED BY <2>1, <2>2 DEF StreamInv
<1>3. CASE NextRound
  <2>1. UNCHANGED <<viewer, made, wire, got, accepted, cut>> /\ relay' = NoViewer /\ pc' # "reap"
    BY <1>3 DEF NextRound, LetGo, coding, daemon, faults
  <2>2. Pending(v)' = Pending(v)
    BY <1>3, <2>1, ViewerAssumption DEF NextRound, RelayInv, Pending
  <2>3. QED BY <2>1, <2>2 DEF StreamInv
<1>4. CASE Crash
  <2>1. /\ UNCHANGED <<viewer, made, wire, got, accepted>> /\ relay' = NoViewer /\ pc' # "reap"
        /\ cut' = cut \cup ({relay} \cap Viewer)
    BY <1>4 DEF Crash, LetGo, daemon
  <2>2. CASE relay = v
    <3>1. /\ Pending(v)' = <<>> /\ v \in cut' /\ made[v] \in Nat
          /\ got[v] \in Seq(Nat) /\ wire[v] \in Seq(Nat) /\ Pending(v) \in Seq(Nat)
      BY <2>1, <2>2, ViewerAssumption DEF Pending, TypeOK
    <3>2. /\ Line(got[v], wire[v], <<>>)
          /\ Total(got[v], wire[v], <<>>) <= made[v]
      <4>1. /\ Line(got[v], wire[v], <<>>) /\ Total(got[v], wire[v], Pending(v)) \in Nat
            /\ Total(got[v], wire[v], <<>>) <= Total(got[v], wire[v], Pending(v))
            /\ Total(got[v], wire[v], <<>>) \in Nat
        <5>1. Line(got[v], wire[v], Pending(v))
          BY DEF StreamInv
        <5>2. QED BY <3>1, <5>1, Pieces
      <4>2. QED BY <3>1, <4>1 DEF StreamInv
    <3>3. QED BY <2>1, <3>1, <3>2 DEF StreamInv
  <2>3. CASE relay # v
    BY <2>1, <2>3, ViewerAssumption, OtherStreams DEF Untouched
  <2>4. QED BY <2>2, <2>3
<1>5. CASE EncoderExits
  BY <1>5 DEF EncoderExits, StreamInv, Pending, channel, daemon, faults
<1>6. QED BY <1>1, <1>2, <1>3, <1>4, <1>5

LEMMA EncodeStep ==
    ASSUME TypeOK, RelayInv, QueueInv, Encode, NEW v \in Viewer, StreamInv(v)
    PROVE  StreamInv(v)'
<1>1. /\ UNCHANGED <<viewer, got, wire, accepted, cut, relay, pc>> /\ encoder = "running"
      /\ relay \in Viewer /\ pipe' = Append(pipe, made[relay] + 1)
      /\ made' = [made EXCEPT ![relay] = @ + 1]
  BY DEF Encode, RelayInv, Serving, TypeOK, channel, daemon, faults
<1>2. CASE relay # v
  BY <1>1, <1>2, OtherStreams DEF Untouched, TypeOK
<1>3. CASE relay = v /\ viewer[v] # "open"
  <2>1. /\ made'[v] = made[v] + 1 /\ Pending(v) = <<>> /\ Pending(v)' = <<>>
        /\ viewer[v] # "eof" /\ v \in accepted /\ made[v] \in Nat
    BY <1>1, <1>3, ViewerAssumption DEF TypeOK, Pending, QueueInv
  <2>2. Total(got[v], wire[v], <<>>) \in Nat
    <3>1. got[v] \in Seq(Nat) /\ wire[v] \in Seq(Nat) /\ <<>> \in Seq(Nat)
      BY DEF TypeOK
    <3>2. Line(got[v], wire[v], <<>>)
      BY <2>1 DEF StreamInv
    <3>3. QED BY <3>1, <3>2, Pieces
  <2>3. QED BY <1>1, <1>3, <2>1, <2>2 DEF StreamInv
<1>4. CASE relay = v /\ viewer[v] = "open"
  <2>1. /\ made'[v] = made[v] + 1 /\ Pending(v) = pipe /\ Pending(v)' = Append(pipe, made[v] + 1)
        /\ v \in accepted /\ v \notin cut /\ made[v] \in Nat /\ pc # "reap"
        /\ got[v] \in Seq(Nat) /\ wire[v] \in Seq(Nat) /\ pipe \in Seq(Nat)
    BY <1>1, <1>4, ViewerAssumption DEF TypeOK, Pending, QueueInv, StreamInv
  <2>2. Line(got[v], wire[v], pipe) /\ Total(got[v], wire[v], pipe) = made[v]
    BY <1>4, <2>1 DEF StreamInv
  <2>3. /\ Line(got[v], wire[v], Append(pipe, made[v] + 1))
        /\ Total(got[v], wire[v], Append(pipe, made[v] + 1)) = made[v] + 1
    BY <2>1, <2>2, IntoPipe
  <2>4. QED BY <1>1, <1>4, <2>1, <2>3 DEF StreamInv
<1>5. QED BY <1>2, <1>3, <1>4

(* The daemon's steps.                                                     *)
LEMMA OpenStep ==
    ASSUME TypeOK, QueueInv, NEW u \in Viewer, OpenRelay(u), NEW v \in Viewer, StreamInv(v)
    PROVE  StreamInv(v)'
<1>1. /\ UNCHANGED <<pc, relay, accepted, encoder, pipe, made, got, wire, cut>>
      /\ viewer[u] \in {"idle", "checked"} /\ u \notin accepted
      /\ viewer'[u] \in {"checked", "open", "ended"}
      /\ \A w \in Viewer : w # u => viewer'[w] = viewer[w]
  BY DEF OpenRelay, CheckStatus, Connect, Becomes, TypeOK, QueueInv, channel, coding, faults
<1>2. CASE u # v
  BY <1>1, <1>2, QuietStreams DEF Untouched
<1>3. CASE u = v
  <2>1. /\ made[v] = 0 /\ wire[v] = <<>> /\ got[v] = <<>> /\ relay # v /\ Pending(v)' = <<>>
    BY <1>1, <1>3, ViewerAssumption DEF StreamInv, QueueInv, Pending
  <2>2. QED BY <1>1, <2>1, NoStream DEF StreamInv
<1>4. QED BY <1>2, <1>3

LEMMA StreamingStep ==
    ASSUME TypeOK, QueueInv, NEW u \in Viewer, Stream(u), NEW v \in Viewer, StreamInv(v)
    PROVE  StreamInv(v)'
<1>1. /\ UNCHANGED <<pc, relay, accepted, encoder, pipe, made, cut>> /\ viewer[u] = "open"
      /\ \A w \in Viewer : w # u => /\ viewer'[w] = viewer[w] /\ wire'[w] = wire[w]
                                    /\ got'[w] = got[w]
  <2>1. CASE Forward(u)
    BY <2>1 DEF Forward, Ends, Becomes, TypeOK, channel, coding, faults
  <2>2. CASE ReadEnd(u)
    BY <2>2 DEF ReadEnd, Ends, Becomes, TypeOK, channel, coding, faults
  <2>3. CASE TimeOut(u)
    BY <2>3 DEF TimeOut, Ends, Becomes, TypeOK, channel, coding, faults
  <2>4. QED BY <2>1, <2>2, <2>3 DEF Stream
<1>. /\ got[v] \in Seq(Nat) /\ wire[v] \in Seq(Nat) /\ Pending(v) \in Seq(Nat)
     /\ made[v] \in Nat
  BY DEF TypeOK, Pending
<1>2. CASE u # v
  BY <1>1, <1>2, QuietStreams DEF Untouched
<1>3. CASE u = v /\ viewer'[v] = "open"
  <2>1. /\ wire[v] # <<>> /\ wire'[v] = Tail(wire[v])
        /\ got'[v] = Append(got[v], Head(wire[v]))
    BY <1>3 DEF Stream, Forward, ReadEnd, TimeOut, Ends, Becomes, TypeOK
  <2>2. Pending(v)' = Pending(v) /\ v \in accepted
    BY <1>1, <1>3, <2>1 DEF Pending, StreamInv
  <2>3. /\ Line(got'[v], wire'[v], Pending(v))
        /\ Total(got'[v], wire'[v], Pending(v)) = Total(got[v], wire[v], Pending(v))
    BY <2>1, WireToClient DEF StreamInv
  <2>4. QED BY <1>1, <1>3, <2>2, <2>3 DEF StreamInv
<1>4. CASE u = v /\ viewer'[v] # "open"
  <2>1. /\ wire'[v] = <<>> /\ got'[v] = got[v]
        /\ viewer'[v] = "eof" => v \in accepted /\ relay # v /\ wire[v] = <<>>
    BY <1>4 DEF Stream, Forward, ReadEnd, TimeOut, Ends, Becomes, Attached, TypeOK
  <2>2. Pending(v)' = <<>> /\ (relay # v => Pending(v) = <<>>)
    BY <1>4 DEF Pending
  <2>3. Line(got[v], <<>>, <<>>) /\ Total(got[v], <<>>, <<>>) <= made[v]
    <3>1. /\ Line(got[v], <<>>, <<>>) /\ Total(got[v], wire[v], Pending(v)) \in Nat
          /\ Total(got[v], wire[v], <<>>) <= Total(got[v], wire[v], Pending(v))
          /\ Total(got[v], <<>>, <<>>) <= Total(got[v], wire[v], <<>>)
          /\ Total(got[v], <<>>, <<>>) \in Nat /\ Total(got[v], wire[v], <<>>) \in Nat
      <4>1. Line(got[v], wire[v], Pending(v)) /\ Len(got[v]) \in Nat
        BY DEF StreamInv
      <4>2. QED BY <4>1, Pieces
    <3>2. QED BY <3>1 DEF StreamInv
  <2>4. QED BY <1>1, <1>4, <2>1, <2>2, <2>3 DEF StreamInv
<1>5. QED BY <1>2, <1>3, <1>4

LEMMA StreamStep ==
    ASSUME TInv, QueueInv, [Next]_vars, NEW v \in Viewer, StreamInv(v)
    PROVE  StreamInv(v)'
<1>. TypeOK /\ RelayInv
  BY DEF TInv
<1>1. CASE Quiet
  BY <1>1, QuietStreams DEF Quiet, Untouched
<1>2. QED BY <1>1, QuietSteps, LoopSteps, AcceptStep, CopyStep, EndingSteps, EncodeStep, OpenStep,
             StreamingStep, Zenon DEF Next

LEMMA StreamsAlways == Spec => []IInv
<1>1. Init => IInv
  BY InitInv, InitStreams DEF IInv
<1>2. IInv /\ [Next]_vars => IInv'
  <2>1. IInv /\ [Next]_vars => (TInv /\ StatusInv /\ NodeInv /\ QueueInv)'
    BY TypeStep, AgentStep, QueueStep DEF IInv, TInv
  <2>2. IInv /\ [Next]_vars => \A v \in Viewer : StreamInv(v)'
    BY StreamStep DEF IInv
  <2>3. QED BY <2>1, <2>2 DEF IInv
<1>3. QED BY <1>1, <1>2, PTL DEF Spec

(* Whoever was served before, a client is sent the output of one encoder   *)
(* from its first byte on (media_agent.rs 34-94, protocol.rs 238-248).     *)
THEOREM StreamsWhole == Spec => []StreamIsWhole
<1>1. ASSUME IInv, NEW v \in Viewer
      PROVE  LET rest == IF viewer[v] # "open" THEN <<>>
                         ELSE wire[v] \o (IF relay = v THEN pipe ELSE <<>>)
                 stream == got[v] \o rest
             IN  stream = Count(Len(stream)) /\ Len(stream) <= made[v]
  <2>. DEFINE stream == got[v] \o (wire[v] \o Pending(v))
  <2>1. /\ got[v] \in Seq(Nat) /\ wire[v] \in Seq(Nat) /\ Pending(v) \in Seq(Nat) /\ StreamInv(v)
    BY <1>1 DEF IInv, TInv, TypeOK, Pending
  <2>2. stream = Count(Len(stream)) /\ Len(stream) <= made[v]
    <3>1. /\ Line(got[v], wire[v], Pending(v))
          /\ Total(got[v], wire[v], Pending(v)) <= made[v]
      BY <2>1 DEF StreamInv
    <3>2. /\ Len(stream) = Total(got[v], wire[v], Pending(v))
          /\ stream = Count(Total(got[v], wire[v], Pending(v)))
      BY <2>1, <3>1, LineIsCount
    <3>. HIDE DEF stream
    <3>3. QED BY <3>1, <3>2
  <2>3. CASE viewer[v] # "open"
    <3>1. wire[v] = <<>> /\ Pending(v) = <<>> /\ <<>> \o <<>> = <<>>
      BY <2>1, <2>3 DEF StreamInv, Pending
    <3>2. QED BY <2>2, <2>3, <3>1
  <2>4. CASE viewer[v] = "open"
    BY <2>2, <2>4 DEF Pending
  <2>5. QED BY <2>3, <2>4
<1>2. IInv => StreamIsWhole
  BY <1>1 DEF StreamIsWhole
<1>3. QED BY <1>2, StreamsAlways, PTL

(* A stream that ends in order was sent to its end (media_agent.rs 68-83,  *)
(* protocol.rs 239-242), unless the agent died over it.                    *)
THEOREM EndsWhole == Spec => []EofIsWhole
<1>1. ASSUME IInv, NEW v \in Viewer, viewer[v] = "eof", v \notin cut
      PROVE  got[v] = Count(made[v])
  <2>1. got[v] \in Seq(Nat) /\ Line(got[v], <<>>, <<>>) /\ Total(got[v], <<>>, <<>>) = made[v]
    BY <1>1 DEF IInv, TInv, TypeOK, StreamInv, Pending
  <2>2. Len(got[v]) = made[v] /\ Follows(got[v], 0)
    <3>0. <<>> \in Seq(Nat)
      OBVIOUS
    <3>1. Total(got[v], <<>>, <<>>) = Len(got[v])
      BY <2>1, <3>0, Pieces
    <3>2. QED BY <2>1, <3>1 DEF Line
  <2>3. QED BY <2>1, <2>2, FollowsCount
<1>2. IInv => EofIsWhole
  BY <1>1 DEF EofIsWhole
<1>3. QED BY <1>2, StreamsAlways, PTL

-----------------------------------------------------------------------------
(* The refinement of MediaService: what a step does to the service.        *)
Seen == <<Told, backlog, relay, accepted, made, got, cut>>

(* A client's place as the service has it follows its thread's.            *)
ToldAs(s) == IF s \in {"idle", "checked"} THEN "new" ELSE s

LEMMA ToldFollows ==
    ASSUME TypeOK, NEW v \in Viewer, NEW s, Becomes(v, s)
    PROVE  Told' = [Told EXCEPT ![v] = ToldAs(s)] /\ Told[v] = ToldAs(viewer[v])
<1>1. viewer' = [viewer EXCEPT ![v] = s]
  BY DEF Becomes
<1>2. \A u \in Viewer : viewer'[u] = IF u = v THEN s ELSE viewer[u]
  BY <1>1 DEF TypeOK
<1>3. Told' = [u \in Viewer |-> ToldAs(viewer'[u])]
  BY DEF Told, ToldAs
<1>4. Told = [u \in Viewer |-> ToldAs(viewer[u])]
  BY DEF Told, ToldAs
<1>5. QED BY <1>2, <1>3, <1>4

LEMMA NothingToSee ==
    ASSUME TypeOK, Quiet \/ Copy \/ CopyEnds \/ Reap \/ EncoderExits
    PROVE  UNCHANGED Seen
<1>1. UNCHANGED <<viewer, backlog, relay, accepted, made, got, cut>>
  BY DEF Quiet, Copy, CopyEnds, Reap, EncoderExits, channel, coding, daemon, faults
<1>2. QED BY <1>1 DEF Seen, Told

LEMMA TurnsMap ==
    ASSUME IInv, Accept \/ NextRound \/ Crash \/ Encode
    PROVE  Service!Next
<1>. TypeOK /\ RelayInv /\ QueueInv
  BY DEF IInv, TInv
<1>1. CASE Accept
  <2>1. /\ relay' = Head(backlog) /\ backlog' = Tail(backlog) /\ backlog # <<>>
        /\ accepted' = accepted \cup {Head(backlog)} /\ pc = "accept"
        /\ UNCHANGED <<viewer, made, got, cut>>
    BY <1>1 DEF Accept, coding, daemon, faults
  <2>2. Head(backlog) \notin accepted
    <3>1. 1 \in DOMAIN backlog /\ Head(backlog) = backlog[1]
      BY <2>1 DEF TypeOK
    <3>2. QED BY <3>1 DEF QueueInv
  <2>3. relay = NoViewer /\ UNCHANGED Told
    BY <2>1 DEF RelayInv, Serving, Told
  <2>4. QED BY <2>1, <2>2, <2>3 DEF Service!Next, Service!GoOnAir
<1>2. CASE NextRound
  <2>1. relay' = NoViewer /\ backlog' = <<>> /\ UNCHANGED <<viewer, accepted, made, got, cut>>
    BY <1>2 DEF NextRound, LetGo, coding, daemon, faults
  <2>2. QED BY <2>1 DEF Service!Next, Service!TurnEnds, Told
<1>3. CASE Crash
  <2>1. /\ relay' = NoViewer /\ backlog' = <<>> /\ UNCHANGED <<viewer, accepted, made, got>>
        /\ cut' = cut \cup ({relay} \cap Viewer)
    BY <1>3 DEF Crash, LetGo, daemon
  <2>2. {relay} \cap Viewer = {relay} \ {NoViewer}
    BY ViewerAssumption DEF TypeOK
  <2>3. QED BY <2>1, <2>2 DEF Service!Next, Service!TurnEnds, Told
<1>4. CASE Encode
  <2>1. /\ relay # NoViewer /\ made' = [made EXCEPT ![relay] = @ + 1]
        /\ UNCHANGED <<viewer, backlog, relay, accepted, got, cut>>
    BY <1>4 DEF Encode, RelayInv, Serving, channel, daemon, faults
  <2>2. QED BY <2>1 DEF Service!Next, Service!Make, Told
<1>5. QED BY <1>1, <1>2, <1>3, <1>4

LEMMA OpeningMaps ==
    ASSUME IInv, NEW v \in Viewer, OpenRelay(v)
    PROVE  Service!Next \/ UNCHANGED Seen
<1>. TypeOK
  BY DEF IInv, TInv
<1>1. UNCHANGED <<relay, accepted, made, got, cut>>
  BY DEF OpenRelay, CheckStatus, Connect, channel, coding, faults
<1>2. ASSUME Becomes(v, "ended"), viewer[v] \in {"idle", "checked"}, backlog' = backlog
      PROVE  Service!Next
  <2>1. Told' = [Told EXCEPT ![v] = "ended"] /\ Told[v] = "new"
    BY <1>2, ToldFollows DEF ToldAs
  <2>2. QED BY <1>1, <1>2, <2>1 DEF Service!Next, Service!End, Service!Becomes
<1>3. CASE CheckStatus(v)
  <2>1. ASSUME Becomes(v, "checked"), viewer[v] = "idle", backlog' = backlog
        PROVE  UNCHANGED Seen
    <3>1. Told' = [Told EXCEPT ![v] = "new"] /\ Told[v] = "new"
      BY <2>1, ToldFollows DEF ToldAs
    <3>2. UNCHANGED Told
      BY <3>1 DEF Told
    <3>3. QED BY <1>1, <2>1, <3>2 DEF Seen
  <2>2. QED BY <1>2, <1>3, <2>1 DEF CheckStatus, channel
<1>4. CASE Connect(v)
  <2>1. ASSUME Becomes(v, "open"), viewer[v] = "checked", backlog' = Append(backlog, v)
        PROVE  Service!Next
    <3>1. Told' = [Told EXCEPT ![v] = "open"] /\ Told[v] = "new"
      BY <2>1, ToldFollows DEF ToldAs
    <3>2. QED BY <1>1, <2>1, <3>1 DEF Service!Next, Service!Open, Service!Becomes
  <2>2. QED BY <1>2, <1>4, <2>1 DEF Connect
<1>5. QED BY <1>3, <1>4 DEF OpenRelay

LEMMA StreamingMaps ==
    ASSUME IInv, NEW v \in Viewer, Stream(v)
    PROVE  Service!Next
<1>. TypeOK /\ StreamInv(v)
  BY DEF IInv, TInv
<1>. /\ got[v] \in Seq(Nat) /\ wire[v] \in Seq(Nat) /\ Pending(v) \in Seq(Nat)
     /\ made[v] \in Nat
  BY DEF TypeOK, Pending
<1>1. UNCHANGED <<backlog, relay, accepted, made, cut>> /\ viewer[v] = "open" /\ Told[v] = "open"
  BY DEF Stream, Forward, ReadEnd, TimeOut, channel, coding, faults, Told
<1>2. ASSUME Becomes(v, "ended"), got' = got PROVE Service!Next
  <2>1. Told' = [Told EXCEPT ![v] = "ended"]
    BY <1>2, ToldFollows DEF ToldAs
  <2>2. QED BY <1>1, <1>2, <2>1 DEF Service!Next, Service!End, Service!Becomes
<1>3. ASSUME wire[v] # <<>>, got' = [got EXCEPT ![v] = Append(@, Head(wire[v]))],
             viewer' = viewer
      PROVE  Service!Next
  <2>1. Line(got[v], wire[v], Pending(v)) /\ Total(got[v], wire[v], Pending(v)) <= made[v]
    BY DEF StreamInv
  <2>2. Head(wire[v]) = Len(got[v]) + 1
    BY SMTT(30), <1>3, <2>1, FollowsTail DEF Line
  <2>3. Len(got[v]) < made[v]
    <3>1. Len(got[v]) \in Nat /\ Len(wire[v]) \in Nat \ {0} /\ Len(Pending(v)) \in Nat
      BY <1>3
    <3>2. \A g, w, p, m \in Nat : w # 0 /\ g + w + p <= m => g < m
      OBVIOUS
    <3>3. QED BY <2>1, <3>1, <3>2 DEF Total
  <2>4. UNCHANGED Told
    BY <1>3 DEF Told
  <2>5. QED BY <1>1, <1>3, <2>2, <2>3, <2>4 DEF Service!Next, Service!Send
<1>4. ASSUME Becomes(v, "eof"), got' = got, v \in accepted, ~Attached(v), wire[v] = <<>>
      PROVE  Service!Next
  <2>1. Told' = [Told EXCEPT ![v] = "eof"]
    BY <1>4, ToldFollows DEF ToldAs
  <2>2. relay # v
    BY <1>4 DEF Attached
  <2>3. v \notin cut => Len(got[v]) = made[v]
    <3>1. Pending(v) = <<>> /\ Line(got[v], <<>>, <<>>)
      BY <1>4, <2>2 DEF Pending, StreamInv
    <3>2. Total(got[v], <<>>, <<>>) = Len(got[v])
      <4>1. <<>> \in Seq(Nat)
        OBVIOUS
      <4>2. QED BY <3>1, <4>1, Pieces
    <3>3. QED BY <1>1, <1>4, <3>1, <3>2 DEF StreamInv
  <2>4. QED BY <1>1, <1>4, <2>1, <2>2, <2>3 DEF Service!Next, Service!Finish, Service!Becomes
<1>5. CASE Forward(v)
  BY <1>2, <1>3, <1>5 DEF Forward, Ends
<1>6. CASE ReadEnd(v)
  BY <1>2, <1>4, <1>6 DEF ReadEnd, Ends
<1>7. CASE TimeOut(v)
  BY <1>2, <1>7 DEF TimeOut, Ends
<1>8. QED BY <1>5, <1>6, <1>7 DEF Stream

LEMMA ServiceStep == IInv /\ [Next]_vars => [Service!Next]_Seen
<1>. SUFFICES ASSUME IInv, [Next]_vars PROVE Service!Next \/ UNCHANGED Seen
  OBVIOUS
<1>. TypeOK
  BY DEF IInv, TInv
<1>1. CASE UNCHANGED vars \/ SourceAppears \/ SourceGoes \/ PublishNode \/ Start \/ EncoderExits
  BY <1>1, QuietSteps, NothingToSee
<1>2. CASE Loop
  BY <1>2, LoopSteps, QuietSteps, NothingToSee, TurnsMap
<1>3. CASE Crash \/ Encode
  BY <1>3, TurnsMap
<1>4. ASSUME NEW v \in Viewer, OpenRelay(v) \/ Stream(v) PROVE Service!Next \/ UNCHANGED Seen
  BY <1>4, OpeningMaps, StreamingMaps
<1>5. QED BY <1>1, <1>2, <1>3, <1>4, Zenon DEF Next

(* The agent and the daemon's threads serve one client at a time, first    *)
(* come first served, each from an encoder of its own and to its end, or   *)
(* tell it of no good end (media_agent.rs 14-94, session.rs 305-354,       *)
(* protocol.rs 229-272).                                                   *)
THEOREM ServiceRefinement == Spec => ImplementsService
<1>1. Init => Service!Init
  BY DEF Init, Service!Init, Told
<1>2. IInv /\ [Next]_vars => [Service!Next]_Seen
  BY ServiceStep
<1>3. QED BY <1>1, <1>2, StreamsAlways, PTL DEF Spec, ImplementsService, Service!Spec,
             Service!vars, Seen
===============================================================================
