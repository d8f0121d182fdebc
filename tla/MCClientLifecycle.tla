-------------------------- MODULE MCClientLifecycle --------------------------
(* Instances of ClientLifecycle for TLC. *)
EXTENDS ClientLifecycle, TLC
CONSTANTS m1, m2, t1, t2, p1, p2
RankOfTwo == m1 :> 1 @@ m2 :> 2
RankOfOne == m1 :> 1
=============================================================================
