--------------------------- MODULE MCPluginManager ---------------------------
(* Instances of PluginManager for TLC. *)
EXTENDS PluginManagerInv
CONSTANTS m1, t1, t2, t3, p1, p2, p3
=============================================================================
