------------------------- MODULE MCReactorScheduler -------------------------
(* Model values and symmetry for ReactorScheduler.                         *)
EXTENDS ReactorScheduler, TLC

Symmetry == Permutations(Threads) \cup Permutations(Posts)
              \cup Permutations(IoOps)
=============================================================================
