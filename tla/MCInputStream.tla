---------------------------- MODULE MCInputStream ----------------------------
(* A client that sends events of each length, and frames that are no       *)
(* events.                                                                 *)
EXTENDS InputStream

Press  == [op |-> "button", code |-> 272, pressed |-> TRUE]
Scroll == [op |-> "scroll", x |-> -1, y |-> 256]

Payload(bytes) == [header |-> "input", length |-> Len(bytes), payload |-> bytes]

Frames == {Framed(Press), Framed(Scroll), Framed(Reset),
           Payload(<<1, 1, 255, 255>>),
           [Payload(<<5>>) EXCEPT !.header = "other"],
           Payload(<<2, 0, 0, 0, 0, 0>>)}
=============================================================================
