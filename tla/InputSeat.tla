------------------------------- MODULE InputSeat -------------------------------
(***************************************************************************)
(* What the input agent promises the desktop: a seat that one connection   *)
(* occupies at a time.  Keys and buttons go down only for the occupant,    *)
(* some of them may come up on their own (the compositor paused a device), *)
(* and leaving the seat, for whatever reason, lifts them all.              *)
(***************************************************************************)
CONSTANTS Conn, NoConn, Code

VARIABLES
    owner,  \* the connection in the seat, or NoConn
    down    \* the codes logically down in the desktop

Init == owner = NoConn /\ down = {}

Take(c) ==
    /\ owner = NoConn
    /\ owner' = c
    /\ UNCHANGED down

Press(k) ==
    /\ owner # NoConn
    /\ down' = down \cup {k}
    /\ UNCHANGED owner

Lift ==
    /\ owner # NoConn
    /\ down' \in SUBSET down
    /\ UNCHANGED owner

Leave ==
    /\ owner # NoConn
    /\ owner' = NoConn
    /\ down' = {}

Next == \/ \E c \in Conn : Take(c)
        \/ \E k \in Code : Press(k)
        \/ Lift \/ Leave

Spec == Init /\ [][Next]_<<owner, down>>
=============================================================================
