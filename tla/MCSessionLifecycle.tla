-------------------------- MODULE MCSessionLifecycle --------------------------
(* Either two threads with any request each, or one with any request and   *)
(* one that only provisions.                                               *)
EXTENDS SessionLifecycle

CONSTANTS t1, t2

Anything == [t \in Thread |-> Operation]
OneAtATime == [t \in Thread |-> IF t = t1 THEN Operation ELSE {"PROVISION"}]
=============================================================================
