--------------------------- MODULE MCAsyncSockets ---------------------------
(* Instances of AsyncSockets for TLC.  Clients and workers are model values. *)
EXTENDS AsyncSockets

CONSTANTS c1, c2, w1, w2, w3
=============================================================================
