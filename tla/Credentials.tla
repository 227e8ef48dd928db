----------------------------- MODULE Credentials -----------------------------
(***************************************************************************)
(* What the pairing store promises, as if each of its answers were one     *)
(* step: a code that was offered for a desktop is taken once and gives one *)
(* token of that desktop at most; a token is good from when it is stored   *)
(* until a revocation of its desktop removes it, and never again; a        *)
(* connection is served, from the moment its token is found, as the        *)
(* desktop of a token that is good then; and a revocation is answered when *)
(* all tokens that were good as it began, of the desktop or of the device  *)
(* it names, are gone.                                                     *)
(***************************************************************************)
EXTENDS Naturals

CONSTANTS Thread, Code, Token, Desktop, Nothing, Legacy, LegacyDesktop

VARIABLES
    offer,  \* the desktop a code is offered for, or Nothing
    spent,  \* codes that were taken
    token,  \* how far each token is: "free", "drawn", "good" or "gone"
    owner,  \* the desktop of each token that was drawn
    doing,  \* what each thread is at: <<>>, or what and for whom
    revoked \* tokens whose revocation was answered

vars == <<offer, spent, token, owner, doing, revoked>>

Doing(t, what) == doing[t] # <<>> /\ doing[t][1] = what
Turns(t, work) == doing' = [doing EXCEPT ![t] = work]

Offer(c, d) ==
    /\ offer[c] = Nothing /\ c \notin spent
    /\ offer' = [offer EXCEPT ![c] = d]
    /\ UNCHANGED <<spent, token, owner, doing, revoked>>

Take(t, c) ==
    /\ offer[c] # Nothing
    /\ Turns(t, <<"claim", offer[c]>>)
    /\ offer' = [offer EXCEPT ![c] = Nothing] /\ spent' = spent \cup {c}
    /\ UNCHANGED <<token, owner, revoked>>

Draw(t, x) ==
    /\ Doing(t, "claim") /\ token[x] = "free"
    /\ Turns(t, <<"store", x>>)
    /\ token' = [token EXCEPT ![x] = "drawn"] /\ owner' = [owner EXCEPT ![x] = doing[t][2]]
    /\ UNCHANGED <<offer, spent, revoked>>

Store(t, x) ==
    /\ doing[t] = <<"store", x>> /\ token[x] = "drawn"
    /\ Turns(t, <<>>)
    /\ token' = [token EXCEPT ![x] = "good"]
    /\ UNCHANGED <<offer, spent, owner, revoked>>

Serve(t, x) ==
    /\ doing[t] = <<>> /\ token[x] = "good"
    /\ Turns(t, <<"serve", x, owner[x]>>)
    /\ UNCHANGED <<offer, spent, token, owner, revoked>>

(* Of all devices of a desktop, or of the one it names.                    *)
Good(d) == {x \in Token : token[x] = "good" /\ owner[x] = d}
Revoke(t, d) ==
    /\ doing[t] = <<>>
    /\ \E X \in {Good(d), {}} \cup {{x} : x \in Good(d)} : Turns(t, <<"revoke", d, X>>)
    /\ UNCHANGED <<offer, spent, token, owner, revoked>>

Removes(d) ==
    \/ token' = token
    \/ \E x \in Good(d) : token' = [token EXCEPT ![x] = "gone"]

Remove(t) ==
    /\ Doing(t, "revoke")
    /\ Removes(doing[t][2])
    /\ UNCHANGED <<offer, spent, owner, doing, revoked>>

Answer(t) ==
    /\ Doing(t, "revoke")
    /\ Removes(doing[t][2]) /\ \A x \in doing[t][3] : token'[x] = "gone"
    /\ Turns(t, <<>>) /\ revoked' = revoked \cup doing[t][3]
    /\ UNCHANGED <<offer, spent, owner>>

(* Refused, failed, expired, or over.                                      *)
End(t) ==
    /\ Turns(t, <<>>)
    /\ UNCHANGED <<offer, spent, token, owner, revoked>>

Die ==
    /\ doing' = [t \in Thread |-> <<>>]
    /\ UNCHANGED <<offer, spent, token, owner, revoked>>

Init ==
    /\ offer = [c \in Code |-> Nothing] /\ spent = {} /\ revoked = {}
    /\ token = [x \in Token |-> IF x \in Legacy THEN "good" ELSE "free"]
    /\ owner = [x \in Token |-> IF x \in Legacy THEN LegacyDesktop ELSE Nothing]
    /\ doing = [t \in Thread |-> <<>>]

Next ==
    \/ Die
    \/ \E c \in Code, d \in Desktop : Offer(c, d)
    \/ \E t \in Thread :
          \/ End(t) \/ Remove(t) \/ Answer(t)
          \/ \E c \in Code : Take(t, c)
          \/ \E x \in Token : Draw(t, x) \/ Store(t, x) \/ Serve(t, x)
          \/ \E d \in Desktop : Revoke(t, d)

Spec == Init /\ [][Next]_vars
===============================================================================
