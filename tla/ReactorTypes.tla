--------------------------- MODULE ReactorTypes ----------------------------
(***************************************************************************)
(* The inductive form of TypeOK (ReactorScheduler), its conjuncts grouped  *)
(* by what they are about, and what a step does to the control states.     *)
(***************************************************************************)
EXTENDS ReactorScheduler

PCs == ThreadPCs \cup PosterPCs

\* What every step of an actor a does to the control states: a goes to next,
\* and of the others only threads blocked in the condition variable move.
Moves(a, next) ==
  /\ pc' \in [Actors -> PCs]
  /\ pc'[a] = next
  /\ \A b \in Actors \ {a} :
       pc'[b] = pc[b] \/ (b \in Threads /\ pc[b] = "parked" /\ pc'[b] = "woken")

\* The statement a queued operation makes about its poster: cur names it.
PosterCur ==
  \A p \in Posters : pc[p] \in {"post", "post_claimed"} => cur[p] \in Ops

\* The conjuncts of TypeOK, by what they are about.
DataOK ==
  /\ completed_ops \in Seq(Ops \cup {Task, Desc})
  /\ outstanding_work \in Int
  /\ waiters \in Int
  /\ kernel \subseteq IoOps \cup Timers
  /\ ready_events \subseteq IoOps
  /\ st \in [Ops -> Statuses]
  /\ private_queue \in [Threads -> Seq(Ops)]
  /\ private_work \in [Threads -> Nat]
  /\ local_ops \in [Threads -> Seq({Desc})]

FlagsOK ==
  /\ stopped \in BOOLEAN /\ task_running \in BOOLEAN
  /\ task_interrupted \in BOOLEAN /\ signaled \in BOOLEAN
  /\ armed \in BOOLEAN /\ wakefd \in BOOLEAN /\ enqueued \in BOOLEAN

ControlOK ==
  /\ mutex \in Threads \cup {None}
  /\ guard \in [Posters -> BOOLEAN]
  /\ pc \in [Actors -> PCs]
  /\ mode \in [Threads -> RunVariants]
  /\ cur \in [Actors -> Ops \cup {Desc, None}]
  /\ PosterCur

TypeInv == DataOK /\ FlagsOK /\ ControlOK
=============================================================================
