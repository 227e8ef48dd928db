----------------------------- MODULE MCInputAgent -----------------------------
(* Small instances of InputAgent for TLC.                                  *)
EXTENDS InputAgent, TLC

CONSTANTS d1, d2, k1, c1, c2

OneDevice == {d1}
OneDeviceCaps == d1 :> Capability

TwoDevices == {d1, d2}
SplitCaps == d1 :> {"keyboard"} @@ d2 :> {"pointer", "button", "scroll"}
TwoKeyboardCaps == d1 :> Capability @@ d2 :> {"keyboard"}

OneKey == {k1}
OneKeyCaps == k1 :> "keyboard"

Plain(op) == [op |-> op, code |-> NoCode]
Presses == [op : {"press", "release"}, code : Code] \cup {Plain("malformed")}
KeyEvents == [op : {"press", "release"}, code : Code]

TwoConns == {c1, c2}
OneConn == {c1}
=============================================================================
