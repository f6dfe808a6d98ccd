------------------------------- MODULE MCIocp -------------------------------
(***************************************************************************)
(* The Windows back end: the I/O objects and the scheduler.  They meet only *)
(* in the packets of the port and the count of work, which both models      *)
(* have, so a behaviour explores the one or the other and `part` says which. *)
(***************************************************************************)
EXTENDS IocpIo, IocpScheduler, TLC

VARIABLE part    \* "io" or "scheduler"

mc_vars == <<part, io_vars, sched_vars>>
MCInit == IocpInit /\ SchedInit /\ part \in {"io", "scheduler"}
                   /\ (part = "scheduler" => kind = CHOOSE k \in Kinds : TRUE)
MCNext == \/ part = "io" /\ IocpNext /\ UNCHANGED <<part, sched_vars>>
          \/ part = "scheduler" /\ SchedNext /\ UNCHANGED <<part, io_vars>>
MCSpec == MCInit /\ [][MCNext]_mc_vars

\* The runners of the scheduler are interchangeable, and so are the handlers and
\* the threads that serve the I/O objects
Symmetry == Permutations(Workers) \cup Permutations(Runners) \cup Permutations(Handlers)
=============================================================================
