------------------------ MODULE UringSchedulerProofs ------------------------
(***************************************************************************)
(* The io_uring run loop, for any number of threads, any choice of calls   *)
(* and any number of operations.                                           *)
(*                                                                         *)
(* Leadership, the work count and the wake-ups of stop() are inductive     *)
(* together once two facts about threads in a stop are added.  That no     *)
(* queued operation is left to a sleeping context needs to know who will   *)
(* see it: Stirred names that thread.  A leader that has not entered the   *)
(* kernel yet counts only if the eventfd or a completion will bring it     *)
(* back, and a post() that has not written the eventfd yet counts by       *)
(* itself.                                                                 *)
(***************************************************************************)
EXTENDS UringScheduler, FiniteSetTheorems, TLAPS

LoopPCs == {"out", "top", "pump", "expire", "loop", "wait", "woken", "submit",
            "kernel", "drain", "expired", "relinquish", "handler", "finish",
            "stop", "stop_out", "write", "write_out"}
LoopModes == {"run", "run_one", "wait_one", "poll", "poll_one"}
OtherPCs == {"idle", "post_wake", "submit_post", "cancel_stage", "stop_notify",
             "stop_wake"}
RunPCs == {"handler", "finish"}

LoopTypes ==
  /\ LoopTypeOK
  /\ pc \in [Runners -> LoopPCs] /\ mode \in [Runners -> LoopModes]
  /\ other \in OtherPCs /\ made \in Nat

Leaders == {t \in Runners : pc[t] \in LeaderAt}
Running == {t \in Runners : pc[t] \in RunPCs}

-----------------------------------------------------------------------------
(* How the control states move.                                            *)

\* What a step of thread t does to the control states: it goes to l, and of
\* the others only threads that wait on cond_ move.
Moved(t, l) ==
  /\ pc' \in [Runners -> LoopPCs]
  /\ pc'[t] = l
  /\ \A u \in Runners \ {t} :
       pc'[u] = pc[u] \/ (pc[u] = "wait" /\ pc'[u] = "woken")

\* A thread that goes on by itself moves nobody else.
LEMMA GotoMoves ==
  ASSUME pc \in [Runners -> LoopPCs], NEW t \in Runners, NEW l \in LoopPCs,
         Goto(t, l)
  PROVE  Moved(t, l) /\ \A u \in Runners \ {t} : pc'[u] = pc[u]
BY Zenon DEF Goto, Moved

\* notify_one moves the thread and at most one follower.
LEMMA NotifyMoves ==
  ASSUME pc \in [Runners -> LoopPCs], NEW t \in Runners, NEW l \in LoopPCs,
         pc[t] # "wait", NotifyOne(t, l)
  PROVE  Moved(t, l)
<1>1. CASE Waiters = {}
  BY <1>1, GotoMoves, Zenon DEF NotifyOne
<1>2. CASE Waiters # {}
  <2>1. PICK w \in Waiters : pc' = [pc EXCEPT ![t] = l, ![w] = "woken"]
    BY <1>2, Zenon DEF NotifyOne
  <2>2. w \in Runners /\ pc[w] = "wait" /\ w # t
    BY Zenon DEF Waiters
  <2> QED BY <2>1, <2>2, Zenon DEF Moved, LoopPCs
<1> QED BY <1>1, <1>2, Zenon

\* notify_all leaves no other thread waiting.
LEMMA NotifyAllMoves ==
  ASSUME pc \in [Runners -> LoopPCs], NEW t \in Runners, NEW l \in LoopPCs,
         pc' = [Notified(pc) EXCEPT ![t] = l]
  PROVE  /\ Moved(t, l)
         /\ \A u \in Runners \ {t} : pc'[u] # "wait"
BY Zenon DEF Notified, Moved, LoopPCs

\* The sets that the invariants count follow the thread that moves.
LEMMA SetsMove ==
  ASSUME NEW t \in Runners, NEW l \in LoopPCs, Moved(t, l),
         pc \in [Runners -> LoopPCs]
  PROVE  /\ Leaders' = (Leaders \ {t}) \cup (IF l \in LeaderAt THEN {t} ELSE {})
         /\ Running' = (Running \ {t}) \cup (IF l \in RunPCs THEN {t} ELSE {})
         /\ Waiters' \subseteq (Waiters \ {t}) \cup (IF l = "wait" THEN {t} ELSE {})
BY Zenon DEF Moved, Leaders, Running, Waiters, LeaderAt, RunPCs

-----------------------------------------------------------------------------
(* Counting.                                                               *)

\* Sets of threads are finite, and are counted as one expects.
LEMMA CountThreads ==
  ASSUME NEW S, S \subseteq Runners
  PROVE  /\ IsFiniteSet(S) /\ Cardinality(S) \in Nat
         /\ Cardinality(S) = 0 <=> S = {}
         /\ \A t \in Runners \ S : Cardinality(S \cup {t}) = Cardinality(S) + 1
         /\ \A t \in S : Cardinality(S \ {t}) = Cardinality(S) - 1
<1>1. IsFiniteSet(S)
  BY RunnersAssumption, FS_Subset, Zenon
<1>2. Cardinality(S) \in Nat
  BY <1>1, FS_CardinalityType, Zenon
<1>3. Cardinality(S) = 0 <=> S = {}
  BY <1>1, FS_EmptySet, Zenon
<1>4. \A t \in Runners \ S : Cardinality(S \cup {t}) = Cardinality(S) + 1
  BY <1>1, FS_AddElement, Zenon
<1>5. \A t \in S : Cardinality(S \ {t}) = Cardinality(S) - 1
  BY <1>1, FS_RemoveElement, Zenon
<1> QED BY <1>1, <1>2, <1>3, <1>4, <1>5, Zenon

\* task_running_ and the leader.
LeaderIs ==
  /\ leading => \E t \in Runners : Leaders = {t}
  /\ ~leading => Leaders = {}

\* OneLeader, without a cardinality.
LEMMA LeaderIsOne == leading \in BOOLEAN => (LeaderIs <=> OneLeader)
<1> SUFFICES ASSUME leading \in BOOLEAN PROVE LeaderIs <=> OneLeader
  BY Zenon
<1>1. Leaders \subseteq Runners /\ IsFiniteSet(Leaders)
  BY CountThreads, Zenon DEF Leaders
<1>2. Cardinality(Leaders) = 1 <=> \E t : Leaders = {t}
  BY <1>1, FS_Singleton, Zenon
<1>3. Cardinality(Leaders) = 0 <=> Leaders = {}
  BY <1>1, CountThreads, Zenon
<1>4. OneLeader <=> Cardinality(Leaders) = (IF leading THEN 1 ELSE 0)
  BY Zenon DEF OneLeader, Leaders
<1>5. (\E t : Leaders = {t}) <=> (\E t \in Runners : Leaders = {t})
  BY <1>1, Zenon
<1> QED BY <1>2, <1>3, <1>4, <1>5, Zenon DEF LeaderIs

TimerWork == IF timer = "none" THEN 0 ELSE 1
RunWork(t) == IF pc[t] \in RunPCs THEN 1 ELSE 0

\* The work count changes by what the operations and the thread that moves
\* bring.
LEMMA WorkMoves ==
  ASSUME LoopTypes, LoopTypes', LoopWork, NEW t \in Runners, NEW l \in LoopPCs,
         Moved(t, l),
         owork' - queued' - staged' - kernel' - cqes' - TimerWork' - RunWork(t)'
           = owork - queued - staged - kernel - cqes - TimerWork - RunWork(t)
  PROVE  LoopWork'
<1>1. Running' = (Running \ {t}) \cup (IF l \in RunPCs THEN {t} ELSE {})
  BY SetsMove, Zenon DEF LoopTypes
<1>2. Running \subseteq Runners
  BY Zenon DEF Running
<1>3. Cardinality(Running') = Cardinality(Running) - RunWork(t) + RunWork(t)'
  <2>1. pc'[t] = l
    BY Zenon DEF Moved
  <2>2. (t \in Running <=> RunWork(t) = 1) /\ (t \notin Running <=> RunWork(t) = 0)
    BY DEF Running, RunWork
  <2>3. CASE t \in Running /\ l \in RunPCs
    <3>1. Running' = Running BY <1>1, <2>3, Zenon
    <3> QED BY <1>2, <2>1, <2>2, <2>3, <3>1, CountThreads DEF RunWork
  <2>4. CASE t \in Running /\ l \notin RunPCs
    <3>1. Running' = Running \ {t} BY <1>1, <2>4, Zenon
    <3> QED BY <1>2, <2>1, <2>2, <2>4, <3>1, CountThreads DEF RunWork
  <2>5. CASE t \notin Running /\ l \in RunPCs
    <3>1. Running' = Running \cup {t} BY <1>1, <2>5, Zenon
    <3> QED BY <1>2, <2>1, <2>2, <2>5, <3>1, CountThreads DEF RunWork
  <2>6. CASE t \notin Running /\ l \notin RunPCs
    <3>1. Running' = Running BY <1>1, <2>6, Zenon
    <3> QED BY <1>2, <2>1, <2>2, <2>6, <3>1, CountThreads DEF RunWork
  <2> QED BY <2>3, <2>4, <2>5, <2>6, Zenon
<1>4. owork = queued + staged + kernel + cqes + TimerWork + Cardinality(Running)
  BY Zenon DEF LoopWork, TimerWork, Running, RunPCs
<1>5. Cardinality(Running) \in Nat
  BY <1>2, CountThreads, Zenon
<1>6. owork' = queued' + staged' + kernel' + cqes' + TimerWork'
                 + Cardinality(Running')
  BY <1>3, <1>4, <1>5 DEF LoopTypes, LoopTypeOK, TimerWork, RunWork
<1> QED BY <1>6, Zenon DEF LoopWork, TimerWork, Running, RunPCs

-----------------------------------------------------------------------------
(* The invariant.                                                          *)

StopPCs == {"stop", "stop_out", "write", "write_out"}
Resting == {"out", "wait", "submit", "kernel"}

\* Thread t comes to the queue of its own accord: it is between two waits, or
\* it leads and an entry of the ring brings it back.
Awake(t) ==
  \/ pc[t] \notin Resting
  \/ pc[t] = "submit" /\ (cqes > 0 \/ wake)
  \/ pc[t] = "kernel" /\ (roused \/ cqes > 0 \/ wake)
Stirred == other = "post_wake" \/ \E t \in Runners : Awake(t)
AllRun == \A t \in Runners : mode[t] \in {"run", "poll"}
NotStranded == ~stopped /\ AllRun /\ queued > 0 /\ Inside # {} => Stirred

\* A thread that is stopping the context has set the flag.
StoppersStopped == \A t \in Runners : pc[t] \in StopPCs => stopped

LoopInv ==
  /\ LoopTypes
  /\ LeaderIs
  /\ LoopWork
  /\ FollowersHaveLeader
  /\ StopWakesFollowers
  /\ StoppersStopped
  /\ NotStranded

\* The invariant holds before the first call.
LEMMA LoopInvInit == LoopInit => LoopInv
<1> SUFFICES ASSUME LoopInit PROVE LoopInv
  BY Zenon
<1>1. LoopTypes
  BY Zenon DEF LoopInit, LoopTypes, LoopTypeOK, LoopPCs, LoopModes, OtherPCs
<1>2. LeaderIs /\ FollowersHaveLeader /\ StopWakesFollowers /\ StoppersStopped
  BY Zenon DEF LoopInit, LeaderIs, Leaders, LeaderAt, FollowersHaveLeader,
         StopWakesFollowers, StoppersStopped, StopPCs
<1>3. NotStranded
  BY Zenon DEF LoopInit, NotStranded, Inside
<1>4. LoopWork
  <2>1. {t \in Runners : pc[t] \in {"handler", "finish"}} = {}
    BY Zenon DEF LoopInit
  <2> QED BY <2>1, FS_EmptySet DEF LoopInit, LoopWork
<1> QED BY <1>1, <1>2, <1>3, <1>4, Zenon DEF LoopInv

-----------------------------------------------------------------------------
(* What most steps of a thread have in common.                             *)

\* The step neither takes nor gives up leadership, waits only behind a leader,
\* and does not undo a stop.
Steady(t, l) ==
  /\ other' = other /\ leading' = leading
  /\ pc[t] \notin {"stop", "stop_out"}
  /\ l \in LeaderAt <=> pc[t] \in LeaderAt
  /\ l = "wait" => leading /\ ~stopped'
  /\ stopped => stopped'
  /\ stopped' # stopped => l \in {"stop", "stop_out"}
  /\ l \in StopPCs => stopped'

\* The step leaves no queue behind: t goes on, or there is nothing to do.
Attended(t, l) ==
  \/ l \notin Resting
  \/ stopped'
  \/ queued' = 0
  \/ mode'[t] \notin {"run", "poll"}

\* The work count follows the operations, the timer and the handler of t.
Balanced(t) ==
  owork' - queued' - staged' - kernel' - cqes' - TimerWork' - RunWork(t)'
    = owork - queued - staged - kernel - cqes - TimerWork - RunWork(t)

\* A step that neither takes nor gives up leadership keeps the leader.
LEMMA LeaderKept ==
  ASSUME LoopTypes, LeaderIs, NEW t \in Runners, NEW l \in LoopPCs, Moved(t, l),
         leading' = leading, l \in LeaderAt <=> pc[t] \in LeaderAt
  PROVE  LeaderIs'
<1>1. Leaders' = Leaders
  <2>1. Leaders' = (Leaders \ {t}) \cup (IF l \in LeaderAt THEN {t} ELSE {})
    BY SetsMove, Zenon DEF LoopTypes
  <2>2. t \in Leaders <=> l \in LeaderAt
    BY Zenon DEF Leaders
  <2> QED BY <2>1, <2>2, Zenon
<1> QED BY <1>1, Zenon DEF LeaderIs

\* Thread t is outside its waits: the queue has somebody.
LEMMA ThreadStirs ==
  ASSUME NEW t \in Runners, pc'[t] \notin Resting
  PROVE  NotStranded'
BY Zenon DEF NotStranded, Stirred, Awake

\* A steady step keeps the leader, the work count and what a stop owes.
LEMMA SteadyKeeps ==
  ASSUME LoopInv, LoopTypes', NEW t \in Runners, NEW l \in LoopPCs, Moved(t, l),
         Steady(t, l), Balanced(t)
  PROVE  /\ LeaderIs' /\ LoopWork' /\ FollowersHaveLeader'
         /\ StoppersStopped' /\ StopWakesFollowers'
<1>1. LeaderIs'
  BY LeaderKept, Zenon DEF LoopInv, Steady
<1>2. LoopWork'
  BY WorkMoves, Zenon DEF LoopInv, Balanced
<1>3. FollowersHaveLeader'
  BY Zenon DEF LoopInv, FollowersHaveLeader, Moved, Steady
<1>4. StoppersStopped'
  BY Zenon DEF LoopInv, StoppersStopped, Moved, Steady, StopPCs
<1>5. StopWakesFollowers'
  <2> SUFFICES ASSUME stopped', ~Stopping' PROVE Waiters' = {}
    BY Zenon DEF StopWakesFollowers
  <2>1. stopped
    BY Zenon DEF Steady, Stopping, Moved
  <2>2. ~Stopping
    <3>1. other # "stop_notify"
      BY Zenon DEF Stopping, Steady
    <3>2. ASSUME NEW u \in Runners, pc[u] \in {"stop", "stop_out"} PROVE FALSE
      <4>1. u # t
        BY <3>2, Zenon DEF Steady
      <4>2. pc'[u] = pc[u]
        BY <3>2, <4>1, Zenon DEF Moved
      <4> QED BY <3>2, <4>2, Zenon DEF Stopping
    <3> QED BY <3>1, <3>2, Zenon DEF Stopping
  <2>3. Waiters = {}
    BY <2>1, <2>2, Zenon DEF LoopInv, StopWakesFollowers
  <2>4. Waiters' \subseteq (Waiters \ {t}) \cup (IF l = "wait" THEN {t} ELSE {})
    BY SetsMove, Zenon DEF LoopInv, LoopTypes
  <2>5. l # "wait"
    BY Zenon DEF Steady
  <2> QED BY <2>3, <2>4, <2>5, Zenon
<1> QED BY <1>1, <1>2, <1>3, <1>4, <1>5, Zenon

\* A steady step that leaves no queue behind keeps the invariant.
LEMMA ThreadKeeps ==
  ASSUME LoopInv, LoopTypes', NEW t \in Runners, NEW l \in LoopPCs, Moved(t, l),
         Steady(t, l), Attended(t, l), Balanced(t)
  PROVE  LoopInv'
<1>1. NotStranded'
  <2>1. CASE l \notin Resting
    BY <2>1, ThreadStirs, Zenon DEF Moved
  <2>2. CASE stopped' \/ queued' = 0 \/ mode'[t] \notin {"run", "poll"}
    BY <2>2 DEF NotStranded, AllRun
  <2> QED BY <2>1, <2>2, Zenon DEF Attended
<1> QED BY <1>1, SteadyKeeps, Zenon DEF LoopInv

\* The calls that move a thread while they wake another or the leader.
LEMMA DrainedMoves ==
  ASSUME LoopTypes, NEW t \in Runners, NEW l \in LoopPCs, pc[t] # "wait",
         Drained(cqes, t, l)
  PROVE  Moved(t, l) /\ cqes' = 0 /\ wake' \in BOOLEAN /\ queued' = queued + cqes
BY GotoMoves, NotifyMoves, Zenon DEF Drained, LoopTypes

WakesSomebody(t, l) ==
  IF leading THEN Interrupt /\ Goto(t, l)
  ELSE NotifyOne(t, l) /\ UNCHANGED <<wake, roused>>

\* post() wakes the leader or one follower.
LEMMA WakeMoves ==
  ASSUME LoopTypes, NEW t \in Runners, NEW l \in LoopPCs, pc[t] # "wait",
         WakesSomebody(t, l)
  PROVE  Moved(t, l) /\ wake' \in BOOLEAN /\ roused' \in BOOLEAN
<1>1. CASE leading
  <2>1. wake' \in BOOLEAN
    BY <1>1, Zenon DEF WakesSomebody, Interrupt
  <2>2. roused' \in BOOLEAN
    BY <1>1, Zenon DEF WakesSomebody, Interrupt, InKernel
  <2>3. Goto(t, l)
    BY <1>1, Zenon DEF WakesSomebody
  <2> QED BY <2>1, <2>2, <2>3, GotoMoves, Zenon DEF LoopTypes
<1>2. CASE ~leading
  BY <1>2, NotifyMoves, Zenon DEF WakesSomebody, LoopTypes, LoopTypeOK
<1> QED BY <1>1, <1>2, Zenon

\* process_expired turns a due timer into a queued operation.
LEMMA ExpireMoves ==
  ASSUME LoopTypes, NEW t \in Runners, NEW l \in LoopPCs, pc[t] # "wait",
         Expire(t, l)
  PROVE  /\ Moved(t, l) /\ wake' \in BOOLEAN /\ roused' \in BOOLEAN
         /\ \/ timer = "due" /\ timer' = "none" /\ queued' = queued + 1
            \/ timer' = timer /\ queued' = queued
<1>1. CASE timer = "due"
  <2>1. WakesSomebody(t, l) /\ timer' = "none" /\ queued' = queued + 1
    BY <1>1, Zenon DEF Expire, WakesSomebody
  <2> QED BY <1>1, <2>1, WakeMoves, Zenon
<1>2. CASE timer # "due"
  BY <1>2, GotoMoves, Zenon DEF Expire, LoopTypes, LoopTypeOK
<1> QED BY <1>1, <1>2, Zenon

\* A thread that runs a handler is counted.
LEMMA RunnerHasWork ==
  ASSUME LoopInv, NEW t \in Runners, pc[t] \in RunPCs
  PROVE  owork > 0
<1>1. Running \subseteq Runners /\ t \in Running
  BY Zenon DEF Running
<1>2. Cardinality(Running) \in Nat /\ Cardinality(Running) # 0
  BY <1>1, CountThreads, Zenon
<1>3. owork = queued + staged + kernel + cqes + TimerWork + Cardinality(Running)
  BY Zenon DEF LoopInv, LoopWork, TimerWork, Running, RunPCs
<1> QED BY <1>2, <1>3 DEF LoopInv, LoopTypes, LoopTypeOK, TimerWork

-----------------------------------------------------------------------------
(* The steps of a thread.                                                  *)

\* run() and the others: without work the context is stopped.
LEMMA EnterKeeps ==
  ASSUME LoopInv, NEW t \in Runners, Enter(t)
  PROVE  LoopInv'
<1> DEFINE l == (IF owork = 0 THEN "stop_out" ELSE "top")
<1>0. LoopTypes /\ mode[t] \in LoopModes
  BY Zenon DEF LoopInv, LoopTypes
<1>1. l \in LoopPCs
  BY Zenon DEF LoopPCs
<1>2. Moved(t, l)
  BY <1>0, <1>1, GotoMoves, Zenon DEF Enter, LoopTypes
<1>5. LoopTypes'
  BY <1>0, <1>2, RunnersAssumption
     DEF Enter, Moved, LoopTypes, LoopTypeOK, LoopModes
<1>6. Steady(t, l) /\ Attended(t, l)
  BY <1>0, <1>1, <1>2, Zenon
     DEF Enter, Goto, Moved, Steady, Attended, LoopInv, StoppersStopped,
         StopPCs, LeaderAt, Resting, LoopTypes, LoopTypeOK, LoopModes
<1>7. Balanced(t)
  BY <1>0, <1>2, Zenon
     DEF Enter, Goto, Moved, Balanced, RunWork, RunPCs, TimerWork, LoopTypes,
         LoopTypeOK
<1> QED BY <1>2, <1>5, <1>6, <1>7, <1>1, ThreadKeeps, Zenon

\* A stopped context is left; otherwise do_one begins.
LEMMA TopKeeps ==
  ASSUME LoopInv, NEW t \in Runners, Top(t)
  PROVE  LoopInv'
<1> DEFINE l == (IF stopped THEN After(mode[t], 0) ELSE "pump")
<1>0. LoopTypes /\ mode[t] \in LoopModes
  BY Zenon DEF LoopInv, LoopTypes
<1>1. l \in LoopPCs
  BY <1>0, Zenon DEF LoopPCs, After
<1>2. Moved(t, l)
  BY <1>0, <1>1, GotoMoves, Zenon DEF Top, LoopTypes
<1>5. LoopTypes'
  BY <1>0, <1>2, RunnersAssumption, Zenon DEF Top, Moved, LoopTypes, LoopTypeOK
<1>6. Steady(t, l) /\ Attended(t, l)
  BY <1>0, <1>1, <1>2, Zenon
     DEF Top, After, Moved, Steady, Attended, LoopInv, StoppersStopped,
         StopPCs, LeaderAt, Resting, LoopTypes, LoopTypeOK, LoopModes
<1>7. Balanced(t)
  BY <1>0, <1>2, Zenon
     DEF Top, After, Moved, Balanced, RunWork, RunPCs, TimerWork, LoopTypes,
         LoopTypeOK
<1> QED BY <1>2, <1>5, <1>6, <1>7, <1>1, ThreadKeeps, Zenon

\* The ring's entries become queued operations before the queue is read.
LEMMA PumpFirstKeeps ==
  ASSUME LoopInv, NEW t \in Runners, PumpFirst(t)
  PROVE  LoopInv'
<1>0. LoopTypes /\ mode[t] \in LoopModes
  BY Zenon DEF LoopInv, LoopTypes
<1>2. Moved(t, "expire") /\ cqes' = 0 /\ wake' \in BOOLEAN /\ queued' = queued + cqes
  BY <1>0, DrainedMoves, Zenon DEF PumpFirst, LoopPCs
<1>5. LoopTypes'
  BY <1>0, <1>2, RunnersAssumption
     DEF PumpFirst, Moved, LoopTypes, LoopTypeOK
<1>6. Steady(t, "expire") /\ Attended(t, "expire")
  BY <1>0, <1>2, Zenon
     DEF PumpFirst, Moved, Steady, Attended, LoopInv, StoppersStopped, StopPCs,
         LeaderAt, Resting, LoopTypes, LoopTypeOK, LoopModes
<1>7. Balanced(t)
  BY <1>0, <1>2
     DEF PumpFirst, Moved, Balanced, RunWork, RunPCs, TimerWork, LoopTypes,
         LoopTypeOK
<1> QED BY <1>2, <1>5, <1>6, <1>7, ThreadKeeps, Zenon DEF LoopPCs

\* So do the timers that are due.
LEMMA ExpireFirstKeeps ==
  ASSUME LoopInv, NEW t \in Runners, ExpireFirst(t)
  PROVE  LoopInv'
<1>0. LoopTypes /\ mode[t] \in LoopModes
  BY Zenon DEF LoopInv, LoopTypes
<1>2. /\ Moved(t, "loop") /\ wake' \in BOOLEAN /\ roused' \in BOOLEAN
      /\ \/ timer = "due" /\ timer' = "none" /\ queued' = queued + 1
         \/ timer' = timer /\ queued' = queued
  BY <1>0, ExpireMoves, Zenon DEF ExpireFirst, LoopPCs
<1>5. LoopTypes'
  BY <1>0, <1>2, RunnersAssumption
     DEF ExpireFirst, Moved, LoopTypes, LoopTypeOK
<1>6. Steady(t, "loop") /\ Attended(t, "loop")
  BY <1>0, <1>2, Zenon
     DEF ExpireFirst, Moved, Steady, Attended, LoopInv, StoppersStopped,
         StopPCs, LeaderAt, Resting, LoopTypes, LoopTypeOK, LoopModes
<1>7. Balanced(t)
  BY <1>0, <1>2
     DEF ExpireFirst, Moved, Balanced, RunWork, RunPCs, TimerWork, LoopTypes,
         LoopTypeOK
<1> QED BY <1>2, <1>5, <1>6, <1>7, ThreadKeeps, Zenon DEF LoopPCs

\* An operation that is popped becomes the handler of its thread.
LEMMA PopKeeps ==
  ASSUME LoopInv, NEW t \in Runners, Pop(t)
  PROVE  LoopInv'
<1>0. LoopTypes /\ mode[t] \in LoopModes
  BY Zenon DEF LoopInv, LoopTypes
<1>2. Moved(t, "handler")
  BY <1>0, GotoMoves, NotifyMoves, Zenon DEF Pop, LoopTypes, LoopPCs
<1>5. LoopTypes'
  BY <1>0, <1>2, RunnersAssumption
     DEF Pop, Moved, LoopTypes, LoopTypeOK
<1>6. Steady(t, "handler") /\ Attended(t, "handler")
  BY <1>0, <1>2, Zenon
     DEF Pop, Moved, Steady, Attended, LoopInv, StoppersStopped, StopPCs,
         LeaderAt, Resting, LoopTypes, LoopTypeOK, LoopModes
<1>7. Balanced(t)
  BY <1>0, <1>2
     DEF Pop, Moved, Balanced, RunWork, RunPCs, TimerWork, LoopTypes, LoopTypeOK
<1> QED BY <1>2, <1>5, <1>6, <1>7, ThreadKeeps, Zenon DEF LoopPCs

\* do_one returns without a handler only if nothing is queued.
LEMMA GiveUpKeeps ==
  ASSUME LoopInv, NEW t \in Runners, GiveUp(t)
  PROVE  LoopInv'
<1> DEFINE l == After(mode[t], 0)
<1>0. LoopTypes /\ mode[t] \in LoopModes
  BY Zenon DEF LoopInv, LoopTypes
<1>1. l \in LoopPCs
  BY <1>0, Zenon DEF LoopPCs, After
<1>2. Moved(t, l)
  BY <1>0, <1>1, GotoMoves, Zenon DEF GiveUp, LoopTypes
<1>5. LoopTypes'
  BY <1>0, <1>2, RunnersAssumption, Zenon
     DEF GiveUp, Moved, LoopTypes, LoopTypeOK
<1>6. Steady(t, l) /\ Attended(t, l)
  BY <1>0, <1>1, <1>2, Zenon
     DEF GiveUp, After, Moved, Steady, Attended, LoopInv, StoppersStopped,
         StopPCs, LeaderAt, Resting, LoopTypes, LoopTypeOK, LoopModes
<1>7. Balanced(t)
  BY <1>0, <1>2, Zenon
     DEF GiveUp, After, Moved, Balanced, RunWork, RunPCs, TimerWork, LoopTypes,
         LoopTypeOK
<1> QED BY <1>2, <1>5, <1>6, <1>7, <1>1, ThreadKeeps, Zenon

\* A thread waits on cond_ only while another leads and nothing is queued.
LEMMA FollowKeeps ==
  ASSUME LoopInv, NEW t \in Runners, Follow(t)
  PROVE  LoopInv'
<1>0. LoopTypes /\ mode[t] \in LoopModes
  BY Zenon DEF LoopInv, LoopTypes
<1>2. Moved(t, "wait")
  BY <1>0, GotoMoves, Zenon DEF Follow, LoopTypes, LoopPCs
<1>5. LoopTypes'
  BY <1>0, <1>2, RunnersAssumption, Zenon
     DEF Follow, Moved, LoopTypes, LoopTypeOK
<1>6. Steady(t, "wait") /\ Attended(t, "wait")
  BY <1>0, <1>2, Zenon
     DEF Follow, Moved, Steady, Attended, LoopInv, StoppersStopped, StopPCs,
         LeaderAt, Resting, LoopTypes, LoopTypeOK, LoopModes
<1>7. Balanced(t)
  BY <1>0, <1>2, Zenon
     DEF Follow, Moved, Balanced, RunWork, RunPCs, TimerWork, LoopTypes,
         LoopTypeOK
<1> QED BY <1>2, <1>5, <1>6, <1>7, ThreadKeeps, Zenon DEF LoopPCs

\* A woken follower looks at the queue again.
LEMMA FollowerWakesKeeps ==
  ASSUME LoopInv, NEW t \in Runners, FollowerWakes(t)
  PROVE  LoopInv'
<1> DEFINE l == (IF mode[t] = "wait_one" /\ queued = 0 /\ ~stopped THEN "out" ELSE "loop")
<1>0. LoopTypes /\ mode[t] \in LoopModes
  BY Zenon DEF LoopInv, LoopTypes
<1>1. l \in LoopPCs
  BY Zenon DEF LoopPCs
<1>2. Moved(t, l)
  BY <1>0, <1>1, GotoMoves, Zenon DEF FollowerWakes, LoopTypes
<1>5. LoopTypes'
  BY <1>0, <1>2, RunnersAssumption, Zenon
     DEF FollowerWakes, Moved, LoopTypes, LoopTypeOK
<1>6. Steady(t, l) /\ Attended(t, l)
  BY <1>0, <1>1, <1>2, Zenon
     DEF FollowerWakes, Moved, Steady, Attended, LoopInv, StoppersStopped,
         StopPCs, LeaderAt, Resting, LoopTypes, LoopTypeOK, LoopModes
<1>7. Balanced(t)
  BY <1>0, <1>2, Zenon
     DEF FollowerWakes, Moved, Balanced, RunWork, RunPCs, TimerWork, LoopTypes,
         LoopTypeOK
<1> QED BY <1>2, <1>5, <1>6, <1>7, <1>1, ThreadKeeps, Zenon

\* The leader returns from the kernel to drain the ring.
LEMMA KernelReturnsKeeps ==
  ASSUME LoopInv, NEW t \in Runners, KernelReturns(t)
  PROVE  LoopInv'
<1>0. LoopTypes /\ mode[t] \in LoopModes
  BY Zenon DEF LoopInv, LoopTypes
<1>2. Moved(t, "drain")
  BY <1>0, GotoMoves, Zenon DEF KernelReturns, LoopTypes, LoopPCs
<1>5. LoopTypes'
  BY <1>0, <1>2, RunnersAssumption, Zenon
     DEF KernelReturns, Moved, LoopTypes, LoopTypeOK
<1>6. Steady(t, "drain") /\ Attended(t, "drain")
  BY <1>0, <1>2, Zenon
     DEF KernelReturns, Moved, Steady, Attended, LoopInv, StoppersStopped,
         StopPCs, LeaderAt, Resting, LoopTypes, LoopTypeOK, LoopModes
<1>7. Balanced(t)
  BY <1>0, <1>2, Zenon
     DEF KernelReturns, Moved, Balanced, RunWork, RunPCs, TimerWork, LoopTypes,
         LoopTypeOK
<1> QED BY <1>2, <1>5, <1>6, <1>7, ThreadKeeps, Zenon DEF LoopPCs

\* It drains the ring while it still leads.
LEMMA DrainPhaseKeeps ==
  ASSUME LoopInv, NEW t \in Runners, DrainPhase(t)
  PROVE  LoopInv'
<1>0. LoopTypes /\ mode[t] \in LoopModes
  BY Zenon DEF LoopInv, LoopTypes
<1>2. Moved(t, "expired") /\ cqes' = 0 /\ wake' \in BOOLEAN /\ queued' = queued + cqes
  BY <1>0, DrainedMoves, Zenon DEF DrainPhase, LoopPCs
<1>5. LoopTypes'
  BY <1>0, <1>2, RunnersAssumption
     DEF DrainPhase, Moved, LoopTypes, LoopTypeOK
<1>6. Steady(t, "expired") /\ Attended(t, "expired")
  BY <1>0, <1>2, Zenon
     DEF DrainPhase, Moved, Steady, Attended, LoopInv, StoppersStopped,
         StopPCs, LeaderAt, Resting, LoopTypes, LoopTypeOK, LoopModes
<1>7. Balanced(t)
  BY <1>0, <1>2
     DEF DrainPhase, Moved, Balanced, RunWork, RunPCs, TimerWork, LoopTypes,
         LoopTypeOK
<1> QED BY <1>2, <1>5, <1>6, <1>7, ThreadKeeps, Zenon DEF LoopPCs

\* It serves the timers while it still leads.
LEMMA ExpireAgainKeeps ==
  ASSUME LoopInv, NEW t \in Runners, ExpireAgain(t)
  PROVE  LoopInv'
<1>0. LoopTypes /\ mode[t] \in LoopModes
  BY Zenon DEF LoopInv, LoopTypes
<1>2. /\ Moved(t, "relinquish") /\ wake' \in BOOLEAN /\ roused' \in BOOLEAN
      /\ \/ timer = "due" /\ timer' = "none" /\ queued' = queued + 1
         \/ timer' = timer /\ queued' = queued
  BY <1>0, ExpireMoves, Zenon DEF ExpireAgain, LoopPCs
<1>5. LoopTypes'
  BY <1>0, <1>2, RunnersAssumption
     DEF ExpireAgain, Moved, LoopTypes, LoopTypeOK
<1>6. Steady(t, "relinquish") /\ Attended(t, "relinquish")
  BY <1>0, <1>2, Zenon
     DEF ExpireAgain, Moved, Steady, Attended, LoopInv, StoppersStopped,
         StopPCs, LeaderAt, Resting, LoopTypes, LoopTypeOK, LoopModes
<1>7. Balanced(t)
  BY <1>0, <1>2
     DEF ExpireAgain, Moved, Balanced, RunWork, RunPCs, TimerWork, LoopTypes,
         LoopTypeOK
<1> QED BY <1>2, <1>5, <1>6, <1>7, ThreadKeeps, Zenon DEF LoopPCs

\* work_finished of the last operation stops the context.
LEMMA FinishWorkKeeps ==
  ASSUME LoopInv, NEW t \in Runners, FinishWork(t)
  PROVE  LoopInv'
<1> DEFINE l == (IF owork = 1 THEN "stop" ELSE After(mode[t], 1))
<1>0. LoopTypes /\ mode[t] \in LoopModes
  BY Zenon DEF LoopInv, LoopTypes
<1>1. l \in LoopPCs
  BY <1>0, Zenon DEF LoopPCs, After
<1>2. Moved(t, l)
  BY <1>0, <1>1, GotoMoves, Zenon DEF FinishWork, LoopTypes
<1>4. owork > 0
  BY RunnerHasWork, Zenon DEF FinishWork, RunPCs
<1>5. LoopTypes'
  BY <1>0, <1>4, <1>2, RunnersAssumption
     DEF FinishWork, Moved, LoopTypes, LoopTypeOK
<1>6. Steady(t, l) /\ Attended(t, l)
  BY <1>0, <1>1, <1>2, Zenon
     DEF FinishWork, After, Moved, Steady, Attended, LoopInv, StoppersStopped,
         StopPCs, LeaderAt, Resting, LoopTypes, LoopTypeOK, LoopModes
<1>7. Balanced(t)
  BY <1>0, <1>4, <1>2
     DEF FinishWork, After, Moved, Balanced, RunWork, RunPCs, TimerWork,
         LoopTypes, LoopTypeOK
<1> QED BY <1>2, <1>5, <1>6, <1>7, <1>1, ThreadKeeps, Zenon

\* After its notify_all a stop writes the eventfd.
LEMMA StopWriteKeeps ==
  ASSUME LoopInv, NEW t \in Runners, StopWrite(t)
  PROVE  LoopInv'
<1> DEFINE l == (IF pc[t] = "write" THEN After(mode[t], 1) ELSE "out")
<1>0. LoopTypes /\ mode[t] \in LoopModes
  BY Zenon DEF LoopInv, LoopTypes
<1>1. l \in LoopPCs
  BY <1>0, Zenon DEF LoopPCs, After
<1>2. Moved(t, l) /\ wake' = TRUE
  BY <1>0, <1>1, GotoMoves, Zenon DEF StopWrite, Interrupt, LoopTypes
<1>3. roused' \in BOOLEAN
  BY Zenon DEF StopWrite, Interrupt, InKernel
<1>5. LoopTypes'
  BY <1>0, <1>3, <1>2, RunnersAssumption, Zenon
     DEF StopWrite, Moved, LoopTypes, LoopTypeOK
<1>6. Steady(t, l) /\ Attended(t, l)
  BY <1>0, <1>1, <1>2, Zenon
     DEF StopWrite, After, Moved, Steady, Attended, LoopInv, StoppersStopped,
         StopPCs, LeaderAt, Resting, LoopTypes, LoopTypeOK, LoopModes
<1>7. Balanced(t)
  BY <1>0, <1>3, <1>2, Zenon
     DEF StopWrite, After, Moved, Balanced, RunWork, RunPCs, TimerWork,
         LoopTypes, LoopTypeOK
<1> QED BY <1>2, <1>5, <1>6, <1>7, <1>1, ThreadKeeps, Zenon

\* A handler that does nothing.
LEMMA HandlerEndsKeeps ==
  ASSUME LoopInv, NEW t \in Runners, HandlerEnds(t)
  PROVE  LoopInv'
<1>0. LoopTypes /\ mode[t] \in LoopModes
  BY Zenon DEF LoopInv, LoopTypes
<1>2. Moved(t, "finish")
  BY <1>0, GotoMoves, Zenon DEF HandlerEnds, LoopTypes, LoopPCs
<1>5. LoopTypes'
  BY <1>0, <1>2, RunnersAssumption, Zenon
     DEF HandlerEnds, Moved, LoopTypes, LoopTypeOK
<1>6. Steady(t, "finish") /\ Attended(t, "finish")
  BY <1>0, <1>2, Zenon
     DEF HandlerEnds, Moved, Steady, Attended, LoopInv, StoppersStopped,
         StopPCs, LeaderAt, Resting, LoopTypes, LoopTypeOK, LoopModes
<1>7. Balanced(t)
  BY <1>0, <1>2, Zenon
     DEF HandlerEnds, Moved, Balanced, RunWork, RunPCs, TimerWork, LoopTypes,
         LoopTypeOK
<1> QED BY <1>2, <1>5, <1>6, <1>7, ThreadKeeps, Zenon DEF LoopPCs

\* submit_sqes_op flushes and drains the ring from a handler.
LEMMA HandlerSubmitsKeeps ==
  ASSUME LoopInv, NEW t \in Runners, HandlerSubmits(t)
  PROVE  LoopInv'
<1>0. LoopTypes /\ mode[t] \in LoopModes
  BY Zenon DEF LoopInv, LoopTypes
<1>2. Moved(t, "finish") /\ cqes' = 0 /\ wake' \in BOOLEAN /\ queued' = queued + cqes
  BY <1>0, DrainedMoves, Zenon DEF HandlerSubmits, LoopPCs
<1>5. LoopTypes'
  BY <1>0, <1>2, RunnersAssumption
     DEF HandlerSubmits, Moved, LoopTypes, LoopTypeOK
<1>6. Steady(t, "finish") /\ Attended(t, "finish")
  BY <1>0, <1>2, Zenon
     DEF HandlerSubmits, Moved, Steady, Attended, LoopInv, StoppersStopped,
         StopPCs, LeaderAt, Resting, LoopTypes, LoopTypeOK, LoopModes
<1>7. Balanced(t)
  BY <1>0, <1>2
     DEF HandlerSubmits, Moved, Balanced, RunWork, RunPCs, TimerWork,
         LoopTypes, LoopTypeOK
<1> QED BY <1>2, <1>5, <1>6, <1>7, ThreadKeeps, Zenon DEF LoopPCs

\* A handler posts.
LEMMA HandlerPostsKeeps ==
  ASSUME LoopInv, NEW t \in Runners, HandlerPosts(t)
  PROVE  LoopInv'
<1>0. LoopTypes /\ mode[t] \in LoopModes
  BY Zenon DEF LoopInv, LoopTypes
<1>2. Moved(t, "finish") /\ wake' \in BOOLEAN /\ roused' \in BOOLEAN
  BY <1>0, WakeMoves, Zenon DEF HandlerPosts, WakesSomebody, LoopPCs
<1>5. LoopTypes'
  BY <1>0, <1>2, RunnersAssumption
     DEF HandlerPosts, Make, Moved, LoopTypes, LoopTypeOK
<1>6. Steady(t, "finish") /\ Attended(t, "finish")
  BY <1>0, <1>2, Zenon
     DEF HandlerPosts, Make, Moved, Steady, Attended, LoopInv, StoppersStopped,
         StopPCs, LeaderAt, Resting, LoopTypes, LoopTypeOK, LoopModes
<1>7. Balanced(t)
  BY <1>0, <1>2
     DEF HandlerPosts, Make, Moved, Balanced, RunWork, RunPCs, TimerWork,
         LoopTypes, LoopTypeOK
<1> QED BY <1>2, <1>5, <1>6, <1>7, ThreadKeeps, Zenon DEF LoopPCs

\* A handler starts an operation, and posts submit_op_ with it.
LEMMA HandlerStartsKeeps ==
  ASSUME LoopInv, NEW t \in Runners, HandlerStarts(t)
  PROVE  LoopInv'
<1>0. LoopTypes /\ mode[t] \in LoopModes
  BY Zenon DEF LoopInv, LoopTypes
<1>2. Moved(t, "finish") /\ wake' \in BOOLEAN /\ roused' \in BOOLEAN
  BY <1>0, WakeMoves, Zenon DEF HandlerStarts, WakesSomebody, LoopPCs
<1>5. LoopTypes'
  BY <1>0, <1>2, RunnersAssumption
     DEF HandlerStarts, Make, Moved, LoopTypes, LoopTypeOK
<1>6. Steady(t, "finish") /\ Attended(t, "finish")
  BY <1>0, <1>2, Zenon
     DEF HandlerStarts, Make, Moved, Steady, Attended, LoopInv,
         StoppersStopped, StopPCs, LeaderAt, Resting, LoopTypes, LoopTypeOK,
         LoopModes
<1>7. Balanced(t)
  BY <1>0, <1>2
     DEF HandlerStarts, Make, Moved, Balanced, RunWork, RunPCs, TimerWork,
         LoopTypes, LoopTypeOK
<1> QED BY <1>2, <1>5, <1>6, <1>7, ThreadKeeps, Zenon DEF LoopPCs

\* A handler queues a completed operation and comes back to it.
LEMMA HandlerQueuesKeeps ==
  ASSUME LoopInv, NEW t \in Runners, HandlerQueues(t)
  PROVE  LoopInv'
<1>0. LoopTypes /\ mode[t] \in LoopModes
  BY Zenon DEF LoopInv, LoopTypes
<1>2. Moved(t, "finish")
  BY <1>0, GotoMoves, Zenon DEF HandlerQueues, LoopTypes, LoopPCs
<1>5. LoopTypes'
  BY <1>0, <1>2, RunnersAssumption
     DEF HandlerQueues, Make, Moved, LoopTypes, LoopTypeOK
<1>6. Steady(t, "finish") /\ Attended(t, "finish")
  BY <1>0, <1>2, Zenon
     DEF HandlerQueues, Make, Moved, Steady, Attended, LoopInv,
         StoppersStopped, StopPCs, LeaderAt, Resting, LoopTypes, LoopTypeOK,
         LoopModes
<1>7. Balanced(t)
  BY <1>0, <1>2
     DEF HandlerQueues, Make, Moved, Balanced, RunWork, RunPCs, TimerWork,
         LoopTypes, LoopTypeOK
<1> QED BY <1>2, <1>5, <1>6, <1>7, ThreadKeeps, Zenon DEF LoopPCs

\* A handler sets a timer.
LEMMA HandlerSetsTimerKeeps ==
  ASSUME LoopInv, NEW t \in Runners, HandlerSetsTimer(t)
  PROVE  LoopInv'
<1>0. LoopTypes /\ mode[t] \in LoopModes
  BY Zenon DEF LoopInv, LoopTypes
<1>2. Moved(t, "finish") /\ wake' = TRUE
  BY <1>0, GotoMoves, Zenon DEF HandlerSetsTimer, Interrupt, LoopTypes, LoopPCs
<1>3. roused' \in BOOLEAN
  BY Zenon DEF HandlerSetsTimer, Interrupt, InKernel
<1>5. LoopTypes'
  BY <1>0, <1>3, <1>2, RunnersAssumption
     DEF HandlerSetsTimer, Make, Moved, LoopTypes, LoopTypeOK
<1>6. Steady(t, "finish") /\ Attended(t, "finish")
  BY <1>0, <1>2, Zenon
     DEF HandlerSetsTimer, Make, Moved, Steady, Attended, LoopInv,
         StoppersStopped, StopPCs, LeaderAt, Resting, LoopTypes, LoopTypeOK,
         LoopModes
<1>7. Balanced(t)
  BY <1>0, <1>3, <1>2
     DEF HandlerSetsTimer, Make, Moved, Balanced, RunWork, RunPCs, TimerWork,
         LoopTypes, LoopTypeOK
<1> QED BY <1>2, <1>5, <1>6, <1>7, ThreadKeeps, Zenon DEF LoopPCs

\* Leadership is taken only when nobody leads and nothing is queued.
LEMMA LeadKeeps ==
  ASSUME LoopInv, NEW t \in Runners, Lead(t)
  PROVE  LoopInv'
<1>1. LoopTypes /\ Moved(t, "submit")
  BY GotoMoves, Zenon DEF LoopInv, Lead, LoopTypes, LoopPCs
<1>2. LoopTypes'
  BY <1>1, Zenon DEF Lead, Limit, Moved, LoopTypes, LoopTypeOK
<1>3. LeaderIs'
  <2>1. Leaders = {}
    BY Zenon DEF LoopInv, LeaderIs, Lead
  <2>2. Leaders' = {t}
    BY <1>1, <2>1, SetsMove DEF LoopTypes, LeaderAt, LoopPCs
  <2> QED BY <2>2, Zenon DEF Lead, LeaderIs
<1>4. LoopWork'
  <2>1. Balanced(t)
    BY <1>1, Zenon
       DEF Lead, Moved, Balanced, RunWork, RunPCs, TimerWork, LoopTypes,
           LoopTypeOK
  <2> QED BY <1>1, <1>2, <2>1, WorkMoves, Zenon DEF LoopInv, Balanced, LoopPCs
<1>5. FollowersHaveLeader' /\ StopWakesFollowers' /\ NotStranded'
  BY DEF Lead, FollowersHaveLeader, StopWakesFollowers, NotStranded
<1>6. StoppersStopped'
  BY <1>1, Zenon DEF LoopInv, Lead, Moved, StoppersStopped, StopPCs
<1> QED BY <1>2, <1>3, <1>4, <1>5, <1>6, Zenon DEF LoopInv

\* The leader that enters the kernel sees what arrived before.
LEMMA SubmitPhaseKeeps ==
  ASSUME LoopInv, NEW t \in Runners, SubmitPhase(t)
  PROVE  LoopInv'
<1>1. LoopTypes /\ Moved(t, "kernel") /\ \A u \in Runners \ {t} : pc'[u] = pc[u]
  BY GotoMoves, Zenon DEF LoopInv, SubmitPhase, LoopTypes, LoopPCs
<1>2. roused' \in BOOLEAN
  BY Zenon DEF SubmitPhase
<1>3. LoopTypes'
  BY <1>1, <1>2 DEF SubmitPhase, Moved, LoopTypes, LoopTypeOK
<1>4. Steady(t, "kernel")
  BY Zenon DEF SubmitPhase, Steady, LeaderAt, StopPCs
<1>5. Balanced(t)
  BY <1>1
     DEF SubmitPhase, Moved, Balanced, RunWork, RunPCs, TimerWork, LoopTypes,
         LoopTypeOK
<1>6. NotStranded'
  <2> SUFFICES ASSUME ~stopped', AllRun', queued' > 0 PROVE Stirred'
    BY Zenon DEF NotStranded
  <2>1. t \in Inside
    BY Zenon DEF SubmitPhase, Inside
  <2>2. Stirred
    BY <2>1, Zenon DEF LoopInv, NotStranded, AllRun, SubmitPhase
  <2>3. CASE other = "post_wake"
    BY <2>3, Zenon DEF SubmitPhase, Stirred
  <2>4. ASSUME NEW u \in Runners, Awake(u) PROVE Awake(u)'
    <3>1. CASE u = t
      <4>1. cqes > 0 \/ wake
        BY <2>4, <3>1, Zenon DEF Awake, SubmitPhase, Resting
      <4> QED BY <1>1, <3>1, <4>1, Zenon DEF Awake, SubmitPhase, Moved
    <3>2. CASE u # t
      <4>1. t \in Leaders
        BY Zenon DEF SubmitPhase, Leaders, LeaderAt
      <4>2. u \notin Leaders
        BY <3>2, <4>1 DEF LoopInv, LeaderIs, LoopTypes, LoopTypeOK
      <4>3. pc[u] \notin Resting
        BY <2>4, <4>2, Zenon DEF Awake, Leaders, LeaderAt
      <4> QED BY <1>1, <3>2, <4>3, Zenon DEF Awake
    <3> QED BY <3>1, <3>2, Zenon
  <2> QED BY <2>2, <2>3, <2>4, Zenon DEF Stirred
<1> QED BY <1>1, <1>3, <1>4, <1>5, <1>6, SteadyKeeps, Zenon DEF LoopInv, LoopPCs

\* Whoever gives up leadership wakes every follower, and goes on itself if
\* something is queued.
LEMMA RelinquishKeeps ==
  ASSUME LoopInv, NEW t \in Runners, Relinquish(t)
  PROVE  LoopInv'
<1> DEFINE l == IF mode[t] \in {"poll", "poll_one", "wait_one"} /\ queued = 0
                THEN After(mode[t], 0) ELSE "loop"
<1>0. LoopTypes
  BY Zenon DEF LoopInv
<1>1. l \in {"top", "out", "loop"}
  BY Zenon DEF After
<1>2. Moved(t, l) /\ \A u \in Runners \ {t} : pc'[u] # "wait"
  BY <1>0, <1>1, NotifyAllMoves, Zenon DEF Relinquish, LoopTypes, LoopPCs
<1>3. LoopTypes'
  BY <1>0, <1>2, Zenon DEF Relinquish, Moved, LoopTypes, LoopTypeOK
<1>4. LeaderIs'
  <2>1. t \in Leaders
    BY Zenon DEF Relinquish, Leaders, LeaderAt
  <2>2. Leaders = {t}
    BY <2>1, Zenon DEF LoopInv, LeaderIs, LoopTypes, LoopTypeOK
  <2>3. Leaders' = {}
    <3>1. l \in LoopPCs /\ l \notin LeaderAt
      BY <1>1, Zenon DEF LoopPCs, LeaderAt
    <3> QED BY <1>0, <1>2, <2>2, <3>1, SetsMove DEF LoopTypes
  <2> QED BY <2>3, Zenon DEF Relinquish, LeaderIs
<1>5. LoopWork'
  <2>1. Balanced(t)
    BY <1>0, <1>1, <1>2, Zenon
       DEF Relinquish, Moved, Balanced, RunWork, RunPCs, TimerWork, LoopTypes,
           LoopTypeOK
  <2>2. l \in LoopPCs
    BY <1>1, Zenon DEF LoopPCs
  <2> QED
    BY <1>0, <1>2, <1>3, <2>1, <2>2, WorkMoves, Zenon DEF LoopInv, Balanced
<1>6. \A u \in Runners : pc'[u] # "wait"
  BY <1>1, <1>2, Zenon DEF Moved
<1>7. FollowersHaveLeader' /\ StopWakesFollowers'
  BY <1>6, Zenon DEF FollowersHaveLeader, StopWakesFollowers, Waiters
<1>8. StoppersStopped'
  BY <1>1, <1>2, Zenon DEF LoopInv, Relinquish, Moved, StoppersStopped, StopPCs
<1>9. NotStranded'
  <2>1. CASE queued = 0
    BY <2>1 DEF NotStranded, Relinquish
  <2>2. CASE queued # 0
    BY <1>2, <2>2, ThreadStirs, Zenon DEF Moved, Resting
  <2> QED BY <2>1, <2>2, Zenon
<1> QED BY <1>3, <1>4, <1>5, <1>7, <1>8, <1>9, Zenon DEF LoopInv

\* notify_all of a stop leaves no follower waiting.
LEMMA StopNotifyKeeps ==
  ASSUME LoopInv, NEW t \in Runners, StopNotify(t)
  PROVE  LoopInv'
<1> DEFINE l == IF pc[t] = "stop" THEN "write" ELSE "write_out"
<1>0. LoopTypes /\ stopped
  BY Zenon DEF LoopInv, StoppersStopped, StopNotify, StopPCs
<1>1. l \in {"write", "write_out"}
  BY Zenon
<1>2. Moved(t, l) /\ \A u \in Runners \ {t} : pc'[u] # "wait"
  BY <1>0, <1>1, NotifyAllMoves, Zenon DEF StopNotify, LoopTypes, LoopPCs
<1>3. LoopTypes'
  BY <1>0, <1>2, Zenon DEF StopNotify, Moved, LoopTypes, LoopTypeOK
<1>4. l \in LoopPCs
  BY <1>1, Zenon DEF LoopPCs
<1>5. LeaderIs'
  BY <1>0, <1>1, <1>2, <1>4, LeaderKept, Zenon DEF LoopInv, StopNotify, LeaderAt
<1>6. LoopWork'
  <2>1. Balanced(t)
    BY <1>0, <1>1, <1>2, Zenon
       DEF StopNotify, Moved, Balanced, RunWork, RunPCs, TimerWork, LoopTypes,
           LoopTypeOK
  <2> QED
    BY <1>0, <1>2, <1>3, <1>4, <2>1, WorkMoves, Zenon DEF LoopInv, Balanced
<1>7. \A u \in Runners : pc'[u] # "wait"
  BY <1>1, <1>2, Zenon DEF Moved
<1>8. FollowersHaveLeader' /\ StopWakesFollowers'
  BY <1>7, Zenon DEF FollowersHaveLeader, StopWakesFollowers, Waiters
<1>9. StoppersStopped' /\ NotStranded'
  BY <1>0, Zenon DEF StopNotify, StoppersStopped, NotStranded
<1> QED BY <1>3, <1>5, <1>6, <1>8, <1>9, Zenon DEF LoopInv

-----------------------------------------------------------------------------
(* The steps of the program, the kernel and the clock.                     *)

\* No thread of the loop moves, except that followers may be woken.
Nudged ==
  /\ pc' \in [Runners -> LoopPCs]
  /\ \A u \in Runners : pc'[u] = pc[u] \/ (pc[u] = "wait" /\ pc'[u] = "woken")

\* The step is not one of a thread: the loop's flags stay, and the work count
\* follows the operations.
Apart ==
  /\ Nudged /\ leading' = leading /\ mode' = mode
  /\ stopped => stopped'
  /\ owork' - queued' - staged' - kernel' - cqes' - TimerWork'
       = owork - queued - staged - kernel - cqes - TimerWork

\* What a stop owes to the followers, across such a step.
StopOwes ==
  stopped' => \/ Stopping'
              \/ stopped /\ ~Stopping
              \/ Waiters' = {}

\* A step of somebody else keeps the invariant if it settles the stop and the queue.
LEMMA ApartKeeps ==
  ASSUME LoopInv, LoopTypes', Apart, StopOwes, NotStranded'
  PROVE  LoopInv'
<1>1. LeaderIs'
  <2>1. Leaders' = Leaders
    BY Zenon DEF Apart, Nudged, Leaders, LeaderAt
  <2> QED BY <2>1, Zenon DEF LoopInv, LeaderIs, Apart
<1>2. LoopWork'
  <2>1. Running' = Running
    BY Zenon DEF Apart, Nudged, Running, RunPCs
  <2>2. owork = queued + staged + kernel + cqes + TimerWork + Cardinality(Running)
    BY Zenon DEF LoopInv, LoopWork, TimerWork, Running, RunPCs
  <2>3. Cardinality(Running) \in Nat
    BY CountThreads, Zenon DEF Running
  <2>4. owork' = queued' + staged' + kernel' + cqes' + TimerWork'
                   + Cardinality(Running')
    BY <2>1, <2>2, <2>3 DEF Apart, LoopInv, LoopTypes, LoopTypeOK, TimerWork
  <2> QED BY <2>4, Zenon DEF LoopWork, TimerWork, Running, RunPCs
<1>3. FollowersHaveLeader'
  BY Zenon DEF LoopInv, FollowersHaveLeader, Apart, Nudged
<1>4. StoppersStopped'
  BY Zenon DEF LoopInv, StoppersStopped, StopPCs, Apart, Nudged
<1>5. StopWakesFollowers'
  <2>1. Waiters' \subseteq Waiters
    BY Zenon DEF Waiters, Apart, Nudged
  <2> QED BY <2>1, Zenon DEF LoopInv, StopWakesFollowers, StopOwes
<1> QED BY <1>1, <1>2, <1>3, <1>4, <1>5, Zenon DEF LoopInv

\* Who is awake stays awake while the ring only gains entries.
LEMMA StirredKept ==
  ASSUME LoopInv, LoopTypes', Apart, queued' = queued,
         cqes' >= cqes, wake => wake', roused => roused',
         other = "post_wake" => other' = "post_wake"
  PROVE  NotStranded'
<1> SUFFICES ASSUME ~stopped', AllRun', queued' > 0, Inside' # {} PROVE Stirred'
  BY Zenon DEF NotStranded
<1>1. Inside # {}
  BY Zenon DEF Inside, Apart, Nudged
<1>2. Stirred
  BY <1>1, Zenon DEF LoopInv, NotStranded, AllRun, Apart
<1>3. ASSUME NEW u \in Runners, Awake(u) PROVE Awake(u)'
  <2>1. CASE pc[u] \notin Resting
    BY <2>1, Zenon DEF Awake, Apart, Nudged, Resting
  <2>2. CASE pc[u] \in Resting
    <3>1. pc'[u] = pc[u]
      BY <1>3, <2>2, Zenon DEF Awake, Apart, Nudged, Resting
    <3>2. cqes > 0 => cqes' > 0
      BY DEF LoopInv, LoopTypes, LoopTypeOK
    <3> QED BY <1>3, <2>2, <3>1, <3>2, Zenon DEF Awake
  <2> QED BY <2>1, <2>2, Zenon
<1> QED BY <1>2, <1>3, Zenon DEF Stirred

\* A post() while a thread leads is followed by a write of the eventfd; while
\* none leads, a thread inside the loop is on its way to the queue.
LEMMA PostKeeps ==
  ASSUME LoopInv, OtherPosts \/ OtherPostsSubmit
  PROVE  LoopInv'
<1>0. LoopTypes
  BY Zenon DEF LoopInv
<1>1. Nudged /\ (~leading => other' = "idle") /\ (leading => other' = "post_wake")
  <2>1. CASE leading \/ Waiters = {}
    BY <1>0, <2>1, Zenon DEF OtherPosts, OtherPostsSubmit, Nudged, LoopTypes
  <2>2. CASE ~(leading \/ Waiters = {})
    <3>1. PICK w \in Waiters : pc' = [pc EXCEPT ![w] = "woken"]
      BY <2>2, Zenon DEF OtherPosts, OtherPostsSubmit
    <3> QED
      BY <1>0, <2>2, <3>1, Zenon
         DEF OtherPosts, OtherPostsSubmit, Nudged, Waiters, LoopTypes, LoopPCs
  <2> QED BY <2>1, <2>2, Zenon
<1>2. LoopTypes'
  BY <1>0, <1>1, RunnersAssumption
     DEF OtherPosts, OtherPostsSubmit, Make, Nudged, LoopTypes, LoopTypeOK,
         OtherPCs
<1>3. Apart
  BY <1>0, <1>1
     DEF OtherPosts, OtherPostsSubmit, Apart, TimerWork, LoopTypes, LoopTypeOK
<1>4. StopOwes
  BY <1>1, Zenon DEF OtherPosts, OtherPostsSubmit, StopOwes, Stopping, Nudged
<1>5. NotStranded'
  <2> SUFFICES ASSUME Inside' # {} PROVE Stirred'
    BY Zenon DEF NotStranded
  <2>1. CASE leading
    BY <1>1, <2>1, Zenon DEF Stirred
  <2>2. CASE ~leading
    <3>1. PICK u \in Runners : pc'[u] # "out"
      BY Zenon DEF Inside
    <3>2. pc[u] # "wait" /\ pc[u] \notin LeaderAt
      BY <2>2, Zenon DEF LoopInv, FollowersHaveLeader, LeaderIs, Leaders
    <3>3. pc'[u] \notin Resting
      BY <1>1, <3>1, <3>2, Zenon DEF Nudged, Resting, LeaderAt
    <3> QED BY <3>3, Zenon DEF Stirred, Awake
  <2> QED BY <1>0, <2>1, <2>2, Zenon DEF LoopTypes, LoopTypeOK
<1> QED BY <1>2, <1>3, <1>4, <1>5, ApartKeeps, Zenon

\* The eventfd brings the leader back; behind it nobody waits.
LEMMA WakeKeeps ==
  ASSUME LoopInv, OtherWakes
  PROVE  LoopInv'
<1>0. LoopTypes
  BY Zenon DEF LoopInv
<1>1. wake' = TRUE /\ pc' = pc
  BY Zenon DEF OtherWakes, Interrupt
<1>2. roused' \in BOOLEAN
  BY Zenon DEF OtherWakes, Interrupt, InKernel
<1>3. LoopTypes'
  BY <1>0, <1>1, <1>2, Zenon DEF OtherWakes, LoopTypes, LoopTypeOK, OtherPCs
<1>4. Apart
  BY <1>0, <1>1, Zenon
     DEF OtherWakes, Apart, Nudged, TimerWork, LoopTypes, LoopTypeOK
<1>5. StopOwes
  BY <1>1, Zenon DEF OtherWakes, StopOwes, Stopping
<1>6. NotStranded'
  <2> SUFFICES ASSUME Inside' # {} PROVE Stirred'
    BY Zenon DEF NotStranded
  <2>1. PICK u \in Runners : pc[u] # "out"
    BY <1>1, Zenon DEF Inside
  <2>2. CASE pc[u] # "wait"
    BY <1>1, <2>1, <2>2, Zenon DEF Stirred, Awake, Resting
  <2>3. CASE pc[u] = "wait"
    <3>1. PICK v \in Runners : pc[v] \in LeaderAt
      BY <2>3, Zenon DEF LoopInv, FollowersHaveLeader, LeaderIs, Leaders
    <3> QED BY <1>1, <3>1, Zenon DEF Stirred, Awake, Resting, LeaderAt
  <2> QED BY <2>2, <2>3, Zenon
<1> QED BY <1>3, <1>4, <1>5, <1>6, ApartKeeps, Zenon

\* stop(): the flag is set before the followers are notified.
LEMMA StopKeeps ==
  ASSUME LoopInv, OtherStops \/ OtherNotifies
  PROVE  LoopInv'
<1>0. LoopTypes
  BY Zenon DEF LoopInv
<1>1. Nudged
  BY <1>0, Zenon
     DEF OtherStops, OtherNotifies, Notified, Nudged, LoopTypes, LoopPCs
<1>2. LoopTypes'
  <2>1. stopped' \in BOOLEAN /\ other' \in OtherPCs /\ made' \in Nat
    <3>1. made' = made \/ made' = made + 1
      BY Zenon DEF OtherStops, OtherNotifies, Make
    <3>2. stopped' = TRUE \/ stopped' = stopped
      BY Zenon DEF OtherStops, OtherNotifies
    <3>3. other' = "stop_notify" \/ other' = "stop_wake"
      BY Zenon DEF OtherStops, OtherNotifies
    <3>4. made' \in Nat /\ other' \in OtherPCs
      BY <1>0, <3>1, <3>3 DEF LoopTypes, OtherPCs
    <3> QED BY <1>0, <3>2, <3>4, Zenon DEF LoopTypes, LoopTypeOK
  <2>2. UNCHANGED <<mode, limit, queued, owork, leading, staged, cancels, kernel, cqes,
                    wake, roused, timer>>
    BY Zenon DEF OtherStops, OtherNotifies
  <2> QED BY <1>0, <1>1, <2>1, <2>2, Zenon DEF Nudged, LoopTypes, LoopTypeOK
<1>3. Apart
  BY <1>0, <1>1, Zenon
     DEF OtherStops, OtherNotifies, Apart, TimerWork, LoopTypes, LoopTypeOK
<1>4. StopOwes
  BY Zenon DEF OtherStops, OtherNotifies, Notified, StopOwes, Stopping, Waiters
<1>5. NotStranded'
  <2>1. CASE OtherStops
    BY <2>1, Zenon DEF OtherStops, NotStranded
  <2>2. CASE OtherNotifies
    BY <1>0, <1>2, <1>3, <2>2, StirredKept
       DEF OtherNotifies, LoopTypes, LoopTypeOK
  <2> QED BY <2>1, <2>2, Zenon
<1> QED BY <1>2, <1>3, <1>4, <1>5, ApartKeeps, Zenon

\* Staging, cancelling, the kernel and the clock only add entries.
LEMMA RestKeeps ==
  ASSUME LoopInv,
         OtherStages \/ OtherCancels \/ OtherStagesCancel \/ KernelFinishesOp \/ TimerDue
  PROVE  LoopInv'
<1>0. LoopTypes
  BY Zenon DEF LoopInv
<1>1. pc' = pc /\ mode' = mode /\ leading' = leading /\ stopped' = stopped
      /\ queued' = queued /\ limit' = limit
  BY Zenon
     DEF OtherStages, OtherCancels, OtherStagesCancel, KernelFinishesOp,
         TimerDue
<1>2. roused' \in BOOLEAN /\ (roused => roused')
  <2>1. roused' = roused \/ roused' = (roused \/ InKernel)
    BY Zenon
       DEF OtherStages, OtherCancels, OtherStagesCancel, KernelFinishesOp,
           TimerDue, Interrupt
  <2>2. roused \in BOOLEAN /\ InKernel \in BOOLEAN
    BY <1>0, Zenon DEF LoopTypes, LoopTypeOK, InKernel
  <2> QED BY <2>1, <2>2, Zenon
<1>3. wake' \in BOOLEAN /\ (wake => wake')
  BY <1>0, Zenon
     DEF OtherStages, OtherCancels, OtherStagesCancel, KernelFinishesOp,
         TimerDue, Interrupt, LoopTypes, LoopTypeOK
<1>4. LoopTypes'
  BY <1>0, <1>1, <1>2, <1>3, RunnersAssumption
     DEF OtherStages, OtherCancels, OtherStagesCancel, KernelFinishesOp,
         TimerDue, Make, LoopTypes, LoopTypeOK, OtherPCs
<1>5. Apart
  BY <1>0, <1>1
     DEF OtherStages, OtherCancels, OtherStagesCancel, KernelFinishesOp,
         TimerDue, Apart, Nudged, TimerWork, LoopTypes, LoopTypeOK
<1>6. cqes' >= cqes /\ (other = "post_wake" => other' = "post_wake")
  <2>1. cqes' = cqes \/ cqes' = cqes + 1
    BY Zenon
       DEF OtherStages, OtherCancels, OtherStagesCancel, KernelFinishesOp,
           TimerDue
  <2>2. other # "post_wake" \/ other' = other
    BY Zenon
       DEF OtherStages, OtherCancels, OtherStagesCancel, KernelFinishesOp,
           TimerDue
  <2> QED BY <1>0, <2>1, <2>2 DEF LoopTypes, LoopTypeOK
<1>7. StopOwes
  BY <1>1, Zenon
     DEF OtherStages, OtherCancels, OtherStagesCancel, KernelFinishesOp,
         TimerDue, StopOwes, Stopping
<1>8. NotStranded'
  BY <1>1, <1>2, <1>3, <1>4, <1>5, <1>6, StirredKept, Zenon
<1> QED BY <1>4, <1>5, <1>7, <1>8, ApartKeeps, Zenon

\* restart() comes when no thread is inside.
LEMMA RestartKeeps ==
  ASSUME LoopInv, Restart
  PROVE  LoopInv'
<1>1. LoopTypes'
  BY Zenon DEF LoopInv, Restart, LoopTypes, LoopTypeOK
<1>2. \A t \in Runners : pc'[t] = "out"
  BY Zenon DEF Restart
<1>3. LeaderIs' /\ LoopWork' /\ FollowersHaveLeader'
  BY Zenon
     DEF LoopInv, Restart, LeaderIs, Leaders, LoopWork, FollowersHaveLeader
<1>4. StopWakesFollowers' /\ StoppersStopped' /\ NotStranded'
  BY <1>2, Zenon
     DEF StopWakesFollowers, Waiters, StoppersStopped, StopPCs, NotStranded,
         Inside
<1> QED BY <1>1, <1>3, <1>4, Zenon DEF LoopInv

-----------------------------------------------------------------------------
\* Every step of the run loop keeps the invariant.
LEMMA LoopInvStep == LoopInv /\ [LoopNext]_loop_vars => LoopInv'
<1> SUFFICES ASSUME LoopInv, [LoopNext]_loop_vars PROVE LoopInv'
  BY Zenon
<1>1. ASSUME NEW t \in Runners, LoopStep(t) PROVE LoopInv'
  BY <1>1, EnterKeeps, TopKeeps, PumpFirstKeeps, ExpireFirstKeeps, PopKeeps,
     GiveUpKeeps, FollowKeeps, FollowerWakesKeeps, LeadKeeps, SubmitPhaseKeeps,
     KernelReturnsKeeps, DrainPhaseKeeps, ExpireAgainKeeps, RelinquishKeeps,
     FinishWorkKeeps, StopNotifyKeeps, StopWriteKeeps, HandlerEndsKeeps,
     HandlerSubmitsKeeps, HandlerPostsKeeps, HandlerStartsKeeps,
     HandlerQueuesKeeps, HandlerSetsTimerKeeps, Zenon DEF LoopStep
<1>2. CASE UNCHANGED loop_vars
  BY <1>2
     DEF loop_vars, LoopInv, LoopTypes, LoopTypeOK, LeaderIs, Leaders,
         LoopWork, FollowersHaveLeader, StopWakesFollowers, Stopping, Waiters,
         StoppersStopped, NotStranded, AllRun, Inside, Stirred, Awake
<1> QED
  BY <1>1, <1>2, PostKeeps, WakeKeeps, StopKeeps, RestKeeps, RestartKeeps,
     Zenon DEF LoopNext

(***************************************************************************)
(* The io_uring run loop, whatever the threads, the calls they make and    *)
(* the operations: one thread at a time is in the leader's section and     *)
(* task_running_ says so, somebody leads whenever a thread waits on cond_, *)
(* outstanding_work_ is exact, stop() leaves no follower waiting, and with *)
(* every thread in run() or poll() no operation stays in completed_ops_    *)
(* while the whole context sleeps.                                         *)
(***************************************************************************)
THEOREM UringLoopHolds == LoopSpec => []UringLoop
<1>1. LoopInv => UringLoop
  <2> SUFFICES ASSUME LoopInv PROVE UringLoop
    BY Zenon
  <2>1. LoopTypeOK /\ OneLeader
    BY LeaderIsOne, Zenon DEF LoopInv, LoopTypes, LoopTypeOK
  <2>2. NoStrandedOp
    <3> SUFFICES ASSUME AllBlocked, ~stopped, AllRun PROVE queued = 0
      BY Zenon DEF NoStrandedOp, AllRun
    <3>1. ~Stirred
      BY DEF AllBlocked, Blocked, Inside, Stirred, Awake, Resting, LoopInv,
             LoopTypes, LoopTypeOK
    <3> QED BY <3>1 DEF LoopInv, NotStranded, AllBlocked, LoopTypes, LoopTypeOK
  <2> QED BY <2>1, <2>2, Zenon DEF LoopInv, UringLoop
<1> QED BY <1>1, LoopInvInit, LoopInvStep, PTL DEF LoopSpec
=============================================================================
