------------------------------ MODULE MCUring ------------------------------
(***************************************************************************)
(* The io_uring back end: its I/O objects, its run loop and its acceptor.   *)
(* They meet in the ring, the run queue and the count of work, which each   *)
(* model has; a behaviour explores one of them and `part` says which.       *)
(***************************************************************************)
EXTENDS UringIo, UringScheduler, UringAcceptor, TLC

VARIABLE part    \* "io", "loop" or "acceptor"

MCInit == /\ UringInit /\ LoopInit /\ AccInit /\ part \in {"io", "loop", "acceptor"}
          /\ (part # "io" => kind = CHOOSE k \in UringKinds : TRUE)
MCNext == \/ part = "io" /\ UringNext /\ UNCHANGED <<part, loop_vars, acc_vars>>
          \/ part = "loop" /\ LoopNext /\ UNCHANGED <<part, ring_vars, acc_vars>>
          \/ part = "acceptor" /\ AccNext /\ UNCHANGED <<part, ring_vars, loop_vars>>
mc_vars == <<part, ring_vars, loop_vars, acc_vars>>
MCSpec == MCInit /\ [][MCNext]_mc_vars

MCCalls == [k \in UringKinds |-> IF k = "tcp" THEN 3 ELSE 2]
MCStarts == [k \in UringKinds |-> IF k = "raf" THEN 2 ELSE 1]
Symmetry == Permutations(UringWorkers) \cup Permutations(Runners)
=============================================================================
