-------------------------- MODULE MCControlProtocol --------------------------
(* Connections from one address; the limiter keeps no state between        *)
(* addresses.                                                              *)
EXTENDS ControlProtocol

CONSTANTS t1, t2, p1

OneOrigin == [t \in Thread |-> p1]
=============================================================================
