--------------------------- MODULE MCAsyncioRunner ---------------------------
(* Instances of AsyncioRunner for TLC. *)
EXTENDS AsyncioRunner
CONSTANTS t1, t2, t3, r1, r2
=============================================================================
