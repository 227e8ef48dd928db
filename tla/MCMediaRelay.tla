----------------------------- MODULE MCMediaRelay -----------------------------
(* Two viewers of one agent, video or audio.                               *)
EXTENDS MediaRelay

CONSTANTS v1, v2
=============================================================================
