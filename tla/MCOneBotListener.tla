-------------------------- MODULE MCOneBotListener --------------------------
(* Instances of OneBotListener for TLC. *)
EXTENDS OneBotListener
CONSTANTS c1, c2, e1, e2
=============================================================================
