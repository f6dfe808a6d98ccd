------------------------ MODULE ReactorSchedulerProofs ------------------------
(***************************************************************************)
(* The types of ReactorScheduler, and the sentinel, the mutex and the      *)
(* count of waiters, for any number of threads, posters and operations.    *)
(***************************************************************************)
EXTENDS ReactorTypes, FiniteSetTheorems, TLAPS

-----------------------------------------------------------------------------
(* Sequences.                                                              *)

\* An enumeration of a finite set of operations, as process_expired() and
\* invoke_deferred_io() build one, is a sequence over it.
LEMMA EnumerationType ==
  ASSUME NEW S, IsFiniteSet(S), NEW order \in Orders(S)
  PROVE  /\ order \in Seq(S)
         /\ S # {} => order # <<>>
<1>1. Cardinality(S) \in Nat
  BY FS_CardinalityType, Zenon
<1>2. order \in [1..Cardinality(S) -> S]
  BY Zenon DEF Orders, Bijection, Injection
<1>3. S # {} => Cardinality(S) > 0
  BY <1>1, FS_EmptySet
<1> QED
  BY <1>1, <1>2, <1>3

\* Splicing a private queue into completed_ops_.
LEMMA SpliceType ==
  ASSUME NEW A, NEW B, B \subseteq A, NEW s \in Seq(A), NEW u \in Seq(B)
  PROVE  s \o u \in Seq(A)
OBVIOUS

LEMMA TypeInit == Init => TypeOK /\ PosterCur
<1> SUFFICES ASSUME Init PROVE TypeOK /\ PosterCur
  BY Zenon
<1>1. completed_ops \in Seq(Ops \cup {Task, Desc})
  BY DEF Init
<1>2. st \in [Ops -> Statuses] /\ guard \in [Posters -> BOOLEAN]
  BY Zenon DEF Init, Statuses
<1>3. pc \in [Actors -> ThreadPCs \cup PosterPCs]
  BY Zenon DEF Init, ThreadPCs
<1>4. mode \in [Threads -> RunVariants]
  BY Zenon DEF Init, RunVariants
<1>5. PosterCur
  BY Zenon DEF Init, PosterCur, Actors
<1>6. /\ cur \in [Actors -> Ops \cup {Desc, None}]
      /\ private_queue \in [Threads -> Seq(Ops)]
      /\ private_work \in [Threads -> Nat]
      /\ local_ops \in [Threads -> Seq({Desc})]
  BY DEF Init
<1>7. /\ stopped \in BOOLEAN /\ task_running \in BOOLEAN
      /\ task_interrupted \in BOOLEAN /\ signaled \in BOOLEAN
      /\ armed \in BOOLEAN /\ wakefd \in BOOLEAN /\ enqueued \in BOOLEAN
  BY Zenon DEF Init
<1>8. /\ mutex \in Threads \cup {None}
      /\ outstanding_work \in Int /\ waiters \in Int
      /\ kernel \subseteq IoOps \cup Timers /\ ready_events \subseteq IoOps
  BY DEF Init
<1> QED
  BY <1>1, <1>2, <1>3, <1>4, <1>5, <1>6, <1>7, <1>8, Zenon DEF TypeOK

-----------------------------------------------------------------------------
(* Control.                                                                *)

LEMMA Moves0 ==
  ASSUME pc \in [Actors -> PCs], NEW a \in Actors, NEW next \in PCs,
         pc' = [pc EXCEPT ![a] = next]
  PROVE  Moves(a, next)
BY Zenon DEF Moves

LEMMA Moves1 ==
  ASSUME pc \in [Actors -> PCs], NEW a \in Actors, NEW next \in PCs,
         pc[a] # "parked", GotoAndNotifyOne(a, next)
  PROVE  Moves(a, next)
BY Zenon DEF Moves, GotoAndNotifyOne, Parked, Actors, PCs, ThreadPCs

LEMMA MovesAll ==
  ASSUME pc \in [Actors -> PCs], NEW a \in Actors, NEW next \in PCs,
         pc[a] # "parked", GotoAndNotifyAll(a, next)
  PROVE  Moves(a, next)
BY Zenon DEF Moves, GotoAndNotifyAll, Parked, Actors, PCs, ThreadPCs

LEMMA MovesSignal ==
  ASSUME pc \in [Actors -> PCs], NEW a \in Actors, NEW next \in PCs,
         pc[a] # "parked", unlock_and_signal_one(a, next)
  PROVE  Moves(a, next) /\ signaled' \in BOOLEAN
BY Moves0, Moves1, Zenon DEF unlock_and_signal_one

LEMMA MovesWake ==
  ASSUME pc \in [Actors -> PCs], NEW a \in Actors, NEW next \in PCs,
         pc[a] # "parked", wake_one_thread_and_unlock(a, next)
  PROVE  Moves(a, next)
BY Moves0, Moves1, Zenon DEF wake_one_thread_and_unlock

LEMMA MovesStop ==
  ASSUME pc \in [Actors -> PCs], NEW a \in Actors, NEW next \in PCs,
         pc[a] # "parked", stop(a, next)
  PROVE  Moves(a, next)
BY Moves0, MovesAll, Zenon DEF stop

LEMMA TypeGroups == TypeOK /\ PosterCur <=> TypeInv
BY Zenon DEF TypeInv, TypeOK, DataOK, FlagsOK, ControlOK, PCs

LEMMA TypeFacts ==
  ASSUME DataOK
  PROVE  /\ private_queue \in [Threads -> Seq(Ops)]
         /\ private_work \in [Threads -> Nat]
         /\ local_ops \in [Threads -> Seq({Desc})]
         /\ completed_ops \in Seq(Ops \cup {Task, Desc})
         /\ outstanding_work \in Int
BY Zenon DEF DataOK

\* The loop of do_one(), and the reactor's turn.
LEMMA TypeLoop ==
  ASSUME TypeInv, NEW t \in Threads,
         \/ Lock(t) \/ DoOneStopped(t) \/ DoOneTaskIdle(t) \/ DoOneTask(t)
         \/ RunTask(t) \/ PollReturn(t) \/ PollInterrupted(t) \/ Disarm(t)
         \/ FinishTask(t)
  PROVE  TypeInv'
<1> USE DEF sharedVars, kernelVars, threadVars
<1>0. DataOK /\ FlagsOK /\ ControlOK
  BY Zenon DEF TypeInv
<1>1. CASE Lock(t)
  <2> USE <1>1
  <2>1. DataOK'
    BY <1>0, Zenon DEF Lock, DataOK, Statuses, Ops
  <2>2. FlagsOK'
    BY <1>0, Zenon DEF Lock, FlagsOK
  <2>3. ControlOK'
    BY <1>0, SortsAssumption, Zenon
       DEF Lock, ControlOK, PosterCur, PCs, ThreadPCs, PosterPCs, Actors, Ops
  <2> QED
    BY <2>1, <2>2, <2>3, Zenon DEF TypeInv
<1>2. CASE DoOneStopped(t)
  <2> USE <1>2
  <2>1. DataOK'
    BY <1>0, Zenon DEF DoOneStopped, DataOK, Statuses, Ops
  <2>2. FlagsOK'
    BY <1>0, Zenon DEF DoOneStopped, FlagsOK
  <2>3. ControlOK'
    BY <1>0, SortsAssumption, Zenon
       DEF DoOneStopped, ControlOK, PosterCur, PCs, ThreadPCs, PosterPCs,
           Actors, Ops
  <2> QED
    BY <2>1, <2>2, <2>3, Zenon DEF TypeInv
<1>3. CASE DoOneTaskIdle(t)
  <2> USE <1>3
  <2>1. DataOK'
    BY <1>0, Zenon DEF DoOneTaskIdle, DataOK, Statuses, Ops
  <2>2. FlagsOK'
    BY <1>0, Zenon DEF DoOneTaskIdle, FlagsOK
  <2>3. ControlOK'
    BY <1>0, SortsAssumption, Zenon
       DEF DoOneTaskIdle, ControlOK, PosterCur, PCs, ThreadPCs, PosterPCs,
           Actors, Ops
  <2> QED
    BY <2>1, <2>2, <2>3, Zenon DEF TypeInv
<1>4. CASE DoOneTask(t)
  <2> USE <1>4
  <2> USE SortsAssumption DEF Actors, Ops, sharedVars, kernelVars, threadVars
  <2>1. DataOK'
    BY <1>0 DEF DoOneTask, AtHead, unlock_and_signal_one, DataOK, Statuses
  <2>2. FlagsOK'
    BY <1>0, Zenon DEF DoOneTask, AtHead, unlock_and_signal_one, FlagsOK
  <2>3. ControlOK'
    <3>1. Moves(t, "run_task")
      BY <1>0, Moves0, MovesSignal, Zenon
         DEF DoOneTask, AtHead, ControlOK, PCs, ThreadPCs
    <3> QED
      BY <1>0, <3>1, Zenon DEF DoOneTask, ControlOK, PosterCur, Moves
  <2> QED
    BY <2>1, <2>2, <2>3, Zenon DEF TypeInv
<1>5. CASE RunTask(t)
  <2> USE <1>5
  <2>1. DataOK'
    BY <1>0, Zenon DEF RunTask, DataOK, Statuses, Ops
  <2>2. FlagsOK'
    BY <1>0, Zenon DEF RunTask, FlagsOK
  <2>3. ControlOK'
    BY <1>0, SortsAssumption, Zenon
       DEF RunTask, ControlOK, PosterCur, PCs, ThreadPCs, PosterPCs, Actors,
           Ops
  <2> QED
    BY <2>1, <2>2, <2>3, Zenon DEF TypeInv
<1>6. CASE PollReturn(t)
  <2> USE <1>6
  <2> USE SortsAssumption DEF Actors, Ops, sharedVars, kernelVars, threadVars
  <2>1. DataOK'
    <3> DEFINE fired == {o \in kernel \cap Timers : st[o] = "pending"}
    <3>1. IsFiniteSet(fired) /\ fired \subseteq Ops
      BY FS_Subset
    <3>2. Cardinality(fired) \in Nat
      BY <3>1, FS_CardinalityType, Zenon
    <3>3. PICK order \in Orders(fired) :
            private_queue' = [private_queue EXCEPT ![t] = @ \o order]
      BY Zenon DEF PollReturn
    <3>4. order \in Seq(fired)
      BY <3>1, EnumerationType, Zenon
    <3>5. private_queue[t] \o order \in Seq(Ops)
      BY <1>0, <3>1, <3>4, SpliceType, Zenon DEF DataOK
    <3>6. private_queue' \in [Threads -> Seq(Ops)]
      BY <1>0, <3>3, <3>5, Zenon DEF DataOK
    <3>7. private_work' \in [Threads -> Nat]
      BY <1>0, <3>2 DEF DataOK, PollReturn
    <3>8. local_ops' \in [Threads -> Seq({Desc})]
      <4>1. PICK q \in {<<Desc>>, <<>>} :
              local_ops' = [local_ops EXCEPT ![t] = q]
        BY Zenon DEF PollReturn
      <4>2. <<Desc>> \in Seq({Desc})
        OBVIOUS
      <4>3. <<>> \in Seq({Desc})
        OBVIOUS
      <4> QED
        BY TypeFacts, <1>0, <4>1, <4>2, <4>3, Zenon
    <3>9. st' \in [Ops -> Statuses]
      <4>1. st' = [o \in Ops |-> IF o \in fired THEN "queued" ELSE st[o]]
        BY Zenon DEF PollReturn
      <4> HIDE DEF fired
      <4> QED
        BY <1>0, <4>1, Zenon DEF DataOK, Statuses
    <3> HIDE DEF fired
    <3> QED
      BY <1>0, <3>6, <3>7, <3>8, <3>9, Zenon DEF PollReturn, DataOK
  <2>2. FlagsOK'
    BY <1>0, Zenon DEF PollReturn, FlagsOK
  <2>3. ControlOK'
    BY <1>0, Zenon
       DEF PollReturn, ControlOK, PosterCur, PCs, ThreadPCs, PosterPCs
  <2> QED
    BY <2>1, <2>2, <2>3, Zenon DEF TypeInv
<1>7. CASE PollInterrupted(t)
  <2> USE <1>7
  <2>1. DataOK'
    BY <1>0, Zenon DEF PollInterrupted, DataOK, Statuses, Ops
  <2>2. FlagsOK'
    BY <1>0, Zenon DEF PollInterrupted, FlagsOK
  <2>3. ControlOK'
    BY <1>0, SortsAssumption, Zenon
       DEF PollInterrupted, ControlOK, PosterCur, PCs, ThreadPCs, PosterPCs,
           Actors, Ops
  <2> QED
    BY <2>1, <2>2, <2>3, Zenon DEF TypeInv
<1>8. CASE Disarm(t)
  <2> USE <1>8
  <2>1. DataOK'
    BY <1>0, Zenon DEF Disarm, DataOK, Statuses, Ops
  <2>2. FlagsOK'
    BY <1>0, Zenon DEF Disarm, FlagsOK
  <2>3. ControlOK'
    BY <1>0, SortsAssumption, Zenon
       DEF Disarm, ControlOK, PosterCur, PCs, ThreadPCs, PosterPCs, Actors, Ops
  <2> QED
    BY <2>1, <2>2, <2>3, Zenon DEF TypeInv
<1>9. CASE FinishTask(t)
  <2> USE <1>9
  <2> USE SortsAssumption DEF Actors, Ops, sharedVars, kernelVars, threadVars
  <2>1. DataOK'
    <3>1. /\ completed_ops \in Seq(Ops \cup {Task, Desc})
          /\ local_ops[t] \in Seq(Ops \cup {Task, Desc})
          /\ private_queue[t] \in Seq(Ops \cup {Task, Desc})
          /\ outstanding_work \in Int /\ private_work[t] \in Nat
      BY <1>0 DEF DataOK
    <3>2. completed_ops' \in Seq(Ops \cup {Task, Desc}) /\ outstanding_work' \in Int
      BY <3>1 DEF FinishTask
    <3>3. /\ private_queue' \in [Threads -> Seq(Ops)]
          /\ private_work' \in [Threads -> Nat]
          /\ local_ops' \in [Threads -> Seq({Desc})]
      <4>1. <<>> \in Seq(Ops) /\ <<>> \in Seq({Desc}) /\ 0 \in Nat
        OBVIOUS
      <4> QED
        BY <1>0, <4>1, Zenon DEF FinishTask, DataOK
    <3> QED
      BY <1>0, <3>2, <3>3, Zenon DEF FinishTask, DataOK
  <2>2. FlagsOK'
    BY <1>0, Zenon DEF FinishTask, FlagsOK
  <2>3. ControlOK'
    BY <1>0, Zenon
       DEF FinishTask, ControlOK, PosterCur, PCs, ThreadPCs, PosterPCs
  <2> QED
    BY <2>1, <2>2, <2>3, Zenon DEF TypeInv
<1> QED BY <1>1, <1>2, <1>3, <1>4, <1>5, <1>6, <1>7, <1>8, <1>9, Zenon

\* A thread takes an entry, waits for one, or runs a handler.
LEMMA TypeHandlers ==
  ASSUME TypeInv, NEW t \in Threads,
         \/ DoOneEntry(t) \/ DoOneEmpty(t) \/ SpuriousWake(t) \/ Woken(t)
         \/ HandlerReturn(t) \/ InvokeDeferredIo(t) \/ TimerComplete(t)
  PROVE  TypeInv'
<1> USE DEF sharedVars, kernelVars, threadVars
<1>0. DataOK /\ FlagsOK /\ ControlOK
  BY Zenon DEF TypeInv
<1>1. CASE DoOneEntry(t)
  <2> USE <1>1
  <2> USE SortsAssumption DEF Actors, Ops, sharedVars, kernelVars, threadVars
  <2>1. DataOK'
    BY <1>0 DEF DoOneEntry, AtHead, unlock_and_signal_one, DataOK, Statuses
  <2>2. FlagsOK'
    BY <1>0, Zenon DEF DoOneEntry, AtHead, unlock_and_signal_one, FlagsOK
  <2>3. ControlOK'
    <3>1. Moves(t, "handler")
      BY <1>0, Moves0, MovesSignal, Zenon
         DEF DoOneEntry, AtHead, ControlOK, PCs, ThreadPCs
    <3>2. cur' \in [Actors -> Ops \cup {Desc, None}]
      BY <1>0, Zenon DEF DoOneEntry, AtHead, ControlOK
    <3> QED
      BY <1>0, <3>1, <3>2, Zenon DEF DoOneEntry, ControlOK, PosterCur, Moves
  <2> QED
    BY <2>1, <2>2, <2>3, Zenon DEF TypeInv
<1>2. CASE DoOneEmpty(t)
  <2> USE <1>2
  <2> USE SortsAssumption DEF Actors, Ops, sharedVars, kernelVars, threadVars
  <2>1. DataOK'
    <3>1. private_queue[t] \in Seq(Ops \cup {Task, Desc})
      BY <1>0 DEF DataOK
    <3>2. outstanding_work' \in Int /\ waiters' \in Int
      BY <1>0 DEF DoOneEmpty, DataOK
    <3>3. private_queue' \in [Threads -> Seq(Ops)]
      BY <1>0 DEF DoOneEmpty, DataOK
    <3>4. private_work' \in [Threads -> Nat]
      <4>1. \/ private_work' = [private_work EXCEPT ![t] = 0]
            \/ private_work' = private_work
        BY Zenon DEF DoOneEmpty
      <4>2. 0 \in Nat
        BY Zenon
      <4> QED
        BY TypeFacts, <1>0, <4>1, <4>2, Zenon
    <3> QED
      BY <1>0, <3>1, <3>2, <3>3, <3>4, Zenon DEF DoOneEmpty, DataOK
  <2>2. FlagsOK'
    BY <1>0, Zenon DEF DoOneEmpty, FlagsOK
  <2>3. ControlOK'
    BY <1>0 DEF DoOneEmpty, ControlOK, PosterCur, PCs, ThreadPCs, PosterPCs
  <2> QED
    BY <2>1, <2>2, <2>3, Zenon DEF TypeInv
<1>3. CASE SpuriousWake(t)
  <2> USE <1>3
  <2>1. DataOK'
    BY <1>0, Zenon DEF SpuriousWake, DataOK, Statuses, Ops
  <2>2. FlagsOK'
    BY <1>0, Zenon DEF SpuriousWake, FlagsOK
  <2>3. ControlOK'
    BY <1>0, SortsAssumption, Zenon
       DEF SpuriousWake, ControlOK, PosterCur, PCs, ThreadPCs, PosterPCs,
           Actors, Ops
  <2> QED
    BY <2>1, <2>2, <2>3, Zenon DEF TypeInv
<1>4. CASE Woken(t)
  <2> USE <1>4
  <2> USE SortsAssumption DEF Actors, Ops, sharedVars, kernelVars, threadVars
  <2>1. DataOK'
    BY <1>0 DEF Woken, DataOK, Statuses
  <2>2. FlagsOK'
    BY <1>0, Zenon DEF Woken, FlagsOK
  <2>3. ControlOK'
    BY <1>0 DEF Woken, ControlOK, PosterCur, PCs, ThreadPCs, PosterPCs
  <2> QED
    BY <2>1, <2>2, <2>3, Zenon DEF TypeInv
<1>5. CASE HandlerReturn(t)
  <2> USE <1>5
  <2>1. DataOK'
    BY <1>0, Zenon DEF HandlerReturn, DataOK, Statuses, Ops
  <2>2. FlagsOK'
    BY <1>0, Zenon DEF HandlerReturn, FlagsOK
  <2>3. ControlOK'
    BY <1>0, SortsAssumption, Zenon
       DEF HandlerReturn, ControlOK, PosterCur, PCs, ThreadPCs, PosterPCs,
           Actors, Ops
  <2> QED
    BY <2>1, <2>2, <2>3, Zenon DEF TypeInv
<1>6. CASE InvokeDeferredIo(t)
  <2> USE <1>6
  <2> USE SortsAssumption DEF Actors, Ops, sharedVars, kernelVars, threadVars
  <2> DEFINE completed == {o \in ready_events : st[o] = "pending"}
  <2>a. completed \subseteq Ops /\ IsFiniteSet(completed)
    BY <1>0, FS_Subset, Zenon DEF DataOK
  <2>b. ASSUME NEW order \in Orders(completed), completed # {}
        PROVE  Head(order) \in Ops /\ Tail(order) \in Seq(Ops)
    BY <2>a, <2>b, EnumerationType
  <2>c. completed # {} => \E order \in Orders(completed) :
          /\ cur' = [cur EXCEPT ![t] = Head(order)]
          /\ private_queue' = [private_queue EXCEPT ![t] = @ \o Tail(order)]
    BY Zenon DEF InvokeDeferredIo
  <2>1. DataOK'
    <3>1. private_queue' \in [Threads -> Seq(Ops)]
      <4>1. CASE completed = {}
        BY <1>0, <4>1, Zenon DEF InvokeDeferredIo, DataOK
      <4>2. CASE completed # {}
        <5>1. PICK order \in Orders(completed) :
                private_queue' = [private_queue EXCEPT ![t] = @ \o Tail(order)]
          BY <2>c, <4>2, Zenon
        <5>2. private_queue[t] \o Tail(order) \in Seq(Ops)
          BY <1>0, <2>b, <4>2, SpliceType, Zenon DEF DataOK
        <5> QED
          BY <1>0, <5>1, <5>2, Zenon DEF DataOK
      <4> QED
        BY <4>1, <4>2, Zenon
    <3>2. private_work' \in [Threads -> Nat]
      <4>1. \/ private_work' = [private_work EXCEPT ![t] = @ + 1]
            \/ private_work' = private_work
        BY Zenon DEF InvokeDeferredIo
      <4>2. private_work \in [Threads -> Nat]
        BY TypeFacts, <1>0, Zenon
      <4> HIDE DEF completed
      <4> QED
        BY <4>1, <4>2
    <3>3. st' \in [Ops -> Statuses]
      <4>1. st' = [o \in Ops |-> IF o \in completed THEN "queued" ELSE st[o]]
        BY Zenon DEF InvokeDeferredIo
      <4> HIDE DEF completed
      <4> QED
        BY <1>0, <4>1, Zenon DEF DataOK, Statuses
    <3> HIDE DEF completed
    <3> QED
      BY <1>0, <3>1, <3>2, <3>3, Zenon DEF InvokeDeferredIo, DataOK
  <2>2. FlagsOK'
    BY <1>0, Zenon DEF InvokeDeferredIo, FlagsOK
  <2>3. ControlOK'
    <3>0. cur' = cur \/ \E o \in Ops : cur' = [cur EXCEPT ![t] = o]
      BY <2>b, <2>c, Zenon DEF InvokeDeferredIo
    <3>1. cur' \in [Actors -> Ops \cup {Desc, None}]
      BY <1>0, <3>0, Zenon DEF ControlOK
    <3>2. \A p \in Posters : cur'[p] = cur[p]
      BY <1>0, <3>0, Zenon DEF ControlOK
    <3>3. pc' \in [Actors -> PCs] /\ \A p \in Posters : pc'[p] = pc[p]
      BY <1>0, Zenon DEF InvokeDeferredIo, ControlOK, PCs, ThreadPCs
    <3> HIDE DEF completed
    <3> QED
      BY <1>0, <3>1, <3>2, <3>3, Zenon
         DEF InvokeDeferredIo, ControlOK, PosterCur
  <2> QED
    BY <2>1, <2>2, <2>3, Zenon DEF TypeInv
<1>7. CASE TimerComplete(t)
  <2> USE <1>7
  <2> USE SortsAssumption DEF Actors, Ops, sharedVars, kernelVars, threadVars
  <2>1. DataOK'
    BY <1>0 DEF TimerComplete, work_finished, TimerFired, DataOK, Statuses
  <2>2. FlagsOK'
    BY <1>0, Zenon DEF TimerComplete, work_finished, TimerFired, FlagsOK
  <2>3. ControlOK'
    BY <1>0, Zenon
       DEF TimerComplete, work_finished, TimerFired, ControlOK, PosterCur, PCs,
           ThreadPCs, PosterPCs
  <2> QED
    BY <2>1, <2>2, <2>3, Zenon DEF TypeInv
<1> QED BY <1>1, <1>2, <1>3, <1>4, <1>5, <1>6, <1>7, Zenon

\* A thread leaves a handler or a run variant, begins one, or posts.
LEMMA TypeCalls ==
  ASSUME TypeInv, NEW t \in Threads,
         \/ WorkCleanup(t) \/ Splice(t) \/ Exit(t) \/ (\E m \in Modes : Call(t, m))
         \/ (\E o \in Posts : HandlerPost(t, o))
  PROVE  TypeInv'
<1> USE DEF sharedVars, kernelVars, threadVars
<1>0. DataOK /\ FlagsOK /\ ControlOK
  BY Zenon DEF TypeInv
<1>1. CASE WorkCleanup(t)
  <2> USE <1>1
  <2> USE SortsAssumption DEF Actors, Ops, sharedVars, kernelVars, threadVars
  <2>1. DataOK'
    BY <1>0 DEF WorkCleanup, work_finished, DataOK, Statuses
  <2>2. FlagsOK'
    BY <1>0, Zenon DEF WorkCleanup, work_finished, FlagsOK
  <2>3. ControlOK'
    BY <1>0
       DEF WorkCleanup, work_finished, ControlOK, PosterCur, PCs, ThreadPCs,
           PosterPCs
  <2> QED
    BY <2>1, <2>2, <2>3, Zenon DEF TypeInv
<1>2. CASE Splice(t)
  <2> USE <1>2
  <2> USE SortsAssumption DEF Actors, Ops, sharedVars, kernelVars, threadVars
  <2>1. DataOK'
    <3>1. completed_ops \o private_queue[t] \in Seq(Ops \cup {Task, Desc})
      BY <1>0, SpliceType, Zenon DEF DataOK
    <3>2. \/ completed_ops' = completed_ops /\ private_queue' = private_queue
          \/ /\ completed_ops' = completed_ops \o private_queue[t]
             /\ private_queue' = [private_queue EXCEPT ![t] = <<>>]
      BY Zenon DEF Splice
    <3>3. /\ completed_ops' \in Seq(Ops \cup {Task, Desc})
          /\ private_queue' \in [Threads -> Seq(Ops)]
      <4>1. <<>> \in Seq(Ops)
        OBVIOUS
      <4>2. CASE completed_ops' = completed_ops /\ private_queue' = private_queue
        BY TypeFacts, <1>0, TypeFacts, <1>0, <4>2, Zenon
      <4>3. CASE /\ completed_ops' = completed_ops \o private_queue[t]
                 /\ private_queue' = [private_queue EXCEPT ![t] = <<>>]
        BY TypeFacts, <1>0, <3>1, <4>1, <4>3, Zenon
      <4> QED
        BY <3>2, <4>2, <4>3, Zenon
    <3> QED
      BY <1>0, <3>3, Zenon DEF Splice, DataOK
  <2>2. FlagsOK'
    BY <1>0, Zenon DEF Splice, FlagsOK
  <2>3. ControlOK'
    BY <1>0 DEF Splice, ControlOK, PosterCur, PCs, ThreadPCs, PosterPCs
  <2> QED
    BY <2>1, <2>2, <2>3, Zenon DEF TypeInv
<1>3. CASE Exit(t)
  <2> USE <1>3
  <2> USE SortsAssumption DEF Actors, Ops, sharedVars, kernelVars, threadVars
  <2>1. DataOK'
    <3>1. completed_ops \o private_queue[t] \in Seq(Ops \cup {Task, Desc})
      BY <1>0, SpliceType, Zenon DEF DataOK
    <3>2. \/ completed_ops' = completed_ops /\ UNCHANGED outstanding_work
          \/ /\ completed_ops' = completed_ops \o private_queue[t]
             /\ outstanding_work' = outstanding_work + private_work[t]
      BY Zenon DEF Exit
    <3>3. /\ completed_ops' \in Seq(Ops \cup {Task, Desc})
          /\ outstanding_work' \in Int
      <4>1. private_work[t] \in Nat
        BY TypeFacts, <1>0, Zenon
      <4>2. outstanding_work' \in Int
        BY TypeFacts, <1>0, <3>2, <4>1
      <4> QED
        BY TypeFacts, <1>0, <3>1, <3>2, <4>2, Zenon
    <3>4. /\ private_queue' \in [Threads -> Seq(Ops)]
          /\ private_work' \in [Threads -> Nat]
      BY <1>0 DEF Exit, DataOK
    <3> QED
      BY <1>0, <3>3, <3>4, Zenon DEF Exit, DataOK
  <2>2. FlagsOK'
    BY <1>0, Zenon DEF Exit, unlock_and_signal_one, FlagsOK
  <2>3. ControlOK'
    <3>1. Moves(t, "idle")
      BY <1>0, Moves0, MovesSignal, Zenon DEF Exit, ControlOK, PCs, ThreadPCs
    <3> QED
      BY <1>0, <3>1, Zenon DEF Exit, ControlOK, PosterCur, Moves
  <2> QED
    BY <2>1, <2>2, <2>3, Zenon DEF TypeInv
<1>4. ASSUME NEW m \in Modes, Call(t, m) PROVE TypeInv'
  <2> USE <1>4
  <2> USE SortsAssumption DEF Actors, Ops, sharedVars, kernelVars, threadVars
  <2>1. DataOK'
    BY <1>0, Zenon DEF Call, DataOK, Statuses
  <2>2. FlagsOK'
    BY <1>0, Zenon DEF Call, FlagsOK
  <2>3. ControlOK'
    BY <1>0, ModesAssumption, Zenon
       DEF Call, ControlOK, PosterCur, PCs, ThreadPCs
  <2> QED
    BY <2>1, <2>2, <2>3, Zenon DEF TypeInv
<1>5. ASSUME NEW o \in Posts, HandlerPost(t, o) PROVE TypeInv'
  <2> USE <1>5
  <2>1. DataOK'
    BY <1>0 DEF HandlerPost, DataOK, Statuses, Ops
  <2>2. FlagsOK'
    BY <1>0, Zenon DEF HandlerPost, FlagsOK
  <2>3. ControlOK'
    BY <1>0, SortsAssumption, Zenon
       DEF HandlerPost, ControlOK, PosterCur, PCs, ThreadPCs, PosterPCs,
           Actors, Ops
  <2> QED
    BY <2>1, <2>2, <2>3, Zenon DEF TypeInv
<1> QED BY <1>1, <1>2, <1>3, <1>4, <1>5, Zenon

LEMMA TypeStop ==
  ASSUME TypeInv, NEW a \in Actors, Stop(a)
  PROVE  TypeInv'
<1> USE SortsAssumption DEF Actors, Ops, sharedVars, kernelVars, threadVars
<1>0. DataOK /\ FlagsOK /\ ControlOK
  BY Zenon DEF TypeInv
<1>1. DataOK'
  BY <1>0, Zenon DEF Stop, stop, interrupt_reactor, AfterStop, DataOK, Statuses
<1>2. FlagsOK'
  BY <1>0, Zenon DEF Stop, stop, interrupt_reactor, AfterStop, FlagsOK
<1>3. ControlOK'
  <2>1. /\ AfterStop[pc[a]] \in {"idle", "splice", "cleanup"}
        /\ pc[a] # "parked"
    BY DEF Stop, AfterStop
  <2>2. Moves(a, AfterStop[pc[a]])
    BY <1>0, <2>1, MovesStop, Zenon DEF Stop, ControlOK, PCs, ThreadPCs
  <2>3. mutex' = mutex
    BY Zenon DEF Stop, stop
  <2> QED
    BY <1>0, <2>1, <2>2, <2>3, Zenon DEF Stop, ControlOK, PosterCur, Moves
<1> QED
  BY <1>1, <1>2, <1>3, Zenon DEF TypeInv

\* The steps of a poster.
LEMMA TypePosters ==
  ASSUME TypeInv, NEW p \in Posters,
         \/ PostPush(p) \/ CancelFinish(p) \/ WorkGuardStart(p)
         \/ WorkGuardFinish(p) \/ UserStop(p) \/ Restart(p)
         \/ (\E o \in Posts : PostBegin(p, o)) \/ (\E o \in IoOps : CancelOp(p, o))
  PROVE  TypeInv'
<1> USE DEF sharedVars, kernelVars, threadVars
<1>0. DataOK /\ FlagsOK /\ ControlOK
  BY Zenon DEF TypeInv
<1>1. CASE PostPush(p)
  <2> USE <1>1
  <2> USE SortsAssumption DEF Actors, Ops, sharedVars, kernelVars, threadVars
  <2>1. DataOK'
    <3>1. cur[p] \in Ops
      BY <1>0, Zenon DEF PostPush, ControlOK, PosterCur
    <3>2. Append(completed_ops, cur[p]) \in Seq(Ops \cup {Task, Desc})
      BY <1>0, <3>1 DEF DataOK
    <3>3. st' \in [Ops -> Statuses]
      BY <1>0, Zenon DEF PostPush, DataOK, Statuses
    <3> QED
      BY <1>0, <3>2, <3>3, Zenon DEF PostPush, DataOK
  <2>2. FlagsOK'
    BY <1>0, Zenon
       DEF PostPush, wake_one_thread_and_unlock, interrupt_reactor, FlagsOK
  <2>3. ControlOK'
    <3> DEFINE next == IF pc[p] = "post" THEN "idle" ELSE "finish"
    <3>1. Moves(p, next)
      BY <1>0, MovesWake, Zenon
         DEF PostPush, ControlOK, PCs, ThreadPCs, PosterPCs
    <3> QED
      BY <1>0, <3>1, Zenon DEF PostPush, ControlOK, PosterCur, Moves
  <2> QED
    BY <2>1, <2>2, <2>3, Zenon DEF TypeInv
<1>2. CASE CancelFinish(p)
  <2> USE <1>2
  <2> USE SortsAssumption DEF Actors, Ops, sharedVars, kernelVars, threadVars
  <2>1. DataOK'
    BY <1>0 DEF CancelFinish, work_finished, DataOK, Statuses
  <2>2. FlagsOK'
    BY <1>0, Zenon DEF CancelFinish, work_finished, FlagsOK
  <2>3. ControlOK'
    BY <1>0, Zenon
       DEF CancelFinish, work_finished, ControlOK, PosterCur, PCs, ThreadPCs,
           PosterPCs
  <2> QED
    BY <2>1, <2>2, <2>3, Zenon DEF TypeInv
<1>3. CASE WorkGuardStart(p)
  <2> USE <1>3
  <2>1. DataOK'
    BY <1>0 DEF WorkGuardStart, DataOK, Statuses, Ops
  <2>2. FlagsOK'
    BY <1>0, Zenon DEF WorkGuardStart, FlagsOK
  <2>3. ControlOK'
    BY <1>0, SortsAssumption, Zenon
       DEF WorkGuardStart, ControlOK, PosterCur, PCs, ThreadPCs, PosterPCs,
           Actors, Ops
  <2> QED
    BY <2>1, <2>2, <2>3, Zenon DEF TypeInv
<1>4. CASE WorkGuardFinish(p)
  <2> USE <1>4
  <2> USE SortsAssumption DEF Actors, Ops, sharedVars, kernelVars, threadVars
  <2>1. DataOK'
    BY <1>0 DEF WorkGuardFinish, work_finished, DataOK, Statuses
  <2>2. FlagsOK'
    BY <1>0, Zenon DEF WorkGuardFinish, work_finished, FlagsOK
  <2>3. ControlOK'
    BY <1>0, Zenon
       DEF WorkGuardFinish, work_finished, ControlOK, PosterCur, PCs,
           ThreadPCs, PosterPCs
  <2> QED
    BY <2>1, <2>2, <2>3, Zenon DEF TypeInv
<1>5. CASE UserStop(p)
  <2> USE <1>5
  <2> USE SortsAssumption DEF Actors, Ops, sharedVars, kernelVars, threadVars
  <2>1. DataOK'
    BY <1>0, Zenon DEF UserStop, stop, interrupt_reactor, DataOK, Statuses
  <2>2. FlagsOK'
    BY <1>0, Zenon DEF UserStop, stop, interrupt_reactor, FlagsOK
  <2>3. ControlOK'
    <3>1. Moves(p, "idle")
      BY <1>0, MovesStop, Zenon DEF UserStop, ControlOK, PCs, ThreadPCs
    <3>2. mutex' = mutex
      BY Zenon DEF UserStop, stop
    <3> QED
      BY <1>0, <3>1, <3>2, Zenon DEF UserStop, ControlOK, PosterCur, Moves
  <2> QED
    BY <2>1, <2>2, <2>3, Zenon DEF TypeInv
<1>6. CASE Restart(p)
  <2> USE <1>6
  <2>1. DataOK'
    BY <1>0, Zenon DEF Restart, DataOK, Statuses, Ops
  <2>2. FlagsOK'
    BY <1>0, Zenon DEF Restart, FlagsOK
  <2>3. ControlOK'
    BY <1>0, SortsAssumption, Zenon
       DEF Restart, ControlOK, PosterCur, PCs, ThreadPCs, PosterPCs, Actors,
           Ops
  <2> QED
    BY <2>1, <2>2, <2>3, Zenon DEF TypeInv
<1>7. ASSUME NEW o \in Posts, PostBegin(p, o) PROVE TypeInv'
  <2> USE <1>7
  <2>1. DataOK'
    BY <1>0 DEF PostBegin, DataOK, Statuses, Ops
  <2>2. FlagsOK'
    BY <1>0, Zenon DEF PostBegin, FlagsOK
  <2>3. ControlOK'
    BY <1>0, SortsAssumption, Zenon
       DEF PostBegin, ControlOK, PosterCur, PCs, ThreadPCs, PosterPCs, Actors,
           Ops
  <2> QED
    BY <2>1, <2>2, <2>3, Zenon DEF TypeInv
<1>8. ASSUME NEW o \in IoOps, CancelOp(p, o) PROVE TypeInv'
  <2> USE <1>8
  <2>1. DataOK'
    BY <1>0 DEF CancelOp, DataOK, Statuses, Ops
  <2>2. FlagsOK'
    BY <1>0, Zenon DEF CancelOp, FlagsOK
  <2>3. ControlOK'
    BY <1>0, SortsAssumption, Zenon
       DEF CancelOp, ControlOK, PosterCur, PCs, ThreadPCs, PosterPCs, Actors,
           Ops
  <2> QED
    BY <2>1, <2>2, <2>3, Zenon DEF TypeInv
<1> QED BY <1>1, <1>2, <1>3, <1>4, <1>5, <1>6, <1>7, <1>8, Zenon

\* An operation starts, or becomes ready.
LEMMA TypeOperations ==
  ASSUME TypeInv, NEW o \in IoOps \cup Timers,
         \/ StartOp(o) \/ KernelReady(o)
  PROVE  TypeInv'
<1> USE DEF sharedVars, kernelVars, threadVars
<1>0. DataOK /\ FlagsOK /\ ControlOK
  BY Zenon DEF TypeInv
<1>1. CASE StartOp(o)
  <2> USE <1>1
  <2>1. DataOK'
    BY <1>0 DEF StartOp, DataOK, Statuses, Ops
  <2>2. FlagsOK'
    BY <1>0, Zenon DEF StartOp, FlagsOK
  <2>3. ControlOK'
    BY <1>0, SortsAssumption, Zenon
       DEF StartOp, ControlOK, PosterCur, PCs, ThreadPCs, PosterPCs, Actors,
           Ops
  <2> QED
    BY <2>1, <2>2, <2>3, Zenon DEF TypeInv
<1>2. CASE KernelReady(o)
  <2> USE <1>2
  <2>1. DataOK'
    BY <1>0, Zenon DEF KernelReady, DataOK, Statuses, Ops
  <2>2. FlagsOK'
    BY <1>0, Zenon DEF KernelReady, FlagsOK
  <2>3. ControlOK'
    BY <1>0, SortsAssumption, Zenon
       DEF KernelReady, ControlOK, PosterCur, PCs, ThreadPCs, PosterPCs,
           Actors, Ops
  <2> QED
    BY <2>1, <2>2, <2>3, Zenon DEF TypeInv
<1> QED BY <1>1, <1>2, Zenon

LEMMA TypeStep ==
  ASSUME TypeInv, [Next]_vars
  PROVE  TypeInv'
<1>1. ASSUME NEW t \in Threads, ThreadStep(t) PROVE TypeInv'
  <2>1. t \in Actors
    BY Zenon DEF Actors
  <2> QED
    BY <1>1, <2>1, TypeLoop, TypeHandlers, TypeCalls, TypeStop, Zenon
       DEF ThreadStep, TimedOut
<1>2. ASSUME NEW p \in Posters, PosterStep(p) PROVE TypeInv'
  <2>1. p \in Actors
    BY Zenon DEF Actors
  <2> QED
    BY <1>2, <2>1, TypePosters, TypeStop, Zenon DEF PosterStep
<1>3. CASE UNCHANGED vars
  BY <1>3, Zenon DEF vars, sharedVars, kernelVars, threadVars, TypeInv, DataOK,
     FlagsOK, ControlOK, PosterCur
<1> QED
  BY <1>1, <1>2, <1>3, TypeLoop, TypeHandlers, TypeCalls, TypePosters,
     TypeOperations, Zenon DEF Next

\* Every reachable state of the scheduler is well typed, for any number of
\* threads, posters and operations and whatever mix of run variants.
THEOREM TypeCorrect == Spec => []TypeOK
<1>1. Init => TypeInv
  BY TypeInit, TypeGroups, Zenon
<1>2. TypeInv /\ [Next]_vars => TypeInv'
  BY TypeStep, Zenon
<1>3. TypeInv => TypeOK
  BY TypeGroups, Zenon
<1> QED
  BY <1>1, <1>2, <1>3, PTL DEF Spec

-----------------------------------------------------------------------------
(* The sentinel, the mutex and the count of waiters.                       *)

\* Entries that are not the sentinel may be spliced behind it ...
LEMMA NoTaskSplice ==
  ASSUME NEW s \in Seq(Ops \cup {Task, Desc}), NEW u \in Seq(Ops \cup {Desc})
  PROVE  /\ NoTask(s \o u) <=> NoTask(s)
         /\ TaskOnce(s) => TaskOnce(s \o u)
<1>1. \A i \in DOMAIN u : u[i] # Task
  BY SortsAssumption
<1>2. /\ DOMAIN (s \o u) = 1..(Len(s) + Len(u))
      /\ DOMAIN s = 1..Len(s) /\ DOMAIN u = 1..Len(u)
      /\ Len(s) \in Nat /\ Len(u) \in Nat
  OBVIOUS
<1>3. \A i \in DOMAIN (s \o u) :
        (s \o u)[i] = IF i <= Len(s) THEN s[i] ELSE u[i - Len(s)]
  OBVIOUS
<1>4. \A i \in DOMAIN (s \o u) :
        (s \o u)[i] = Task => i \in DOMAIN s /\ s[i] = Task
  BY <1>1, <1>2, <1>3
<1>5. \A i \in DOMAIN s : i \in DOMAIN (s \o u) /\ (s \o u)[i] = s[i]
  BY <1>2, <1>3
<1> QED
  BY <1>4, <1>5, Zenon DEF NoTask, TaskOnce

\* ... and taken from in front of it.
LEMMA NoTaskTail ==
  ASSUME NEW s \in Seq(Ops \cup {Task, Desc}), s # <<>>, TaskOnce(s)
  PROVE  /\ TaskOnce(Tail(s))
         /\ Head(s) = Task => NoTask(Tail(s))
         /\ Head(s) # Task => (NoTask(Tail(s)) <=> NoTask(s))
<1>1. /\ DOMAIN Tail(s) = 1..(Len(s) - 1)
      /\ DOMAIN s = 1..Len(s) /\ Len(s) \in Nat /\ Len(s) >= 1
      /\ Head(s) = s[1]
  OBVIOUS
<1>2. \A i \in DOMAIN Tail(s) : Tail(s)[i] = s[i + 1]
  OBVIOUS
<1>3. \A i \in DOMAIN s : i # 1 => i - 1 \in DOMAIN Tail(s)
                                   /\ Tail(s)[i - 1] = s[i]
  BY <1>1, <1>2
<1>4. \A i \in DOMAIN Tail(s) : i + 1 \in DOMAIN s /\ i + 1 # 1
  BY <1>1
<1>5. TaskOnce(Tail(s))
  <2> SUFFICES ASSUME NEW i \in DOMAIN Tail(s), NEW j \in DOMAIN Tail(s),
                      Tail(s)[i] = Task, Tail(s)[j] = Task
               PROVE  i = j
    BY Zenon DEF TaskOnce
  <2>1. s[i + 1] = Task /\ s[j + 1] = Task
    BY <1>2, Zenon
  <2>2. i + 1 = j + 1
    BY <1>4, <2>1, Zenon DEF TaskOnce
  <2> QED
    BY <1>1, <2>2
<1>6. ASSUME Head(s) = Task, NEW i \in DOMAIN Tail(s), Tail(s)[i] = Task
      PROVE  FALSE
  BY <1>1, <1>2, <1>4, <1>6 DEF TaskOnce
<1>7. ASSUME Head(s) # Task PROVE NoTask(Tail(s)) <=> NoTask(s)
  <2>1. NoTask(s) => NoTask(Tail(s))
    BY <1>2, <1>4, Zenon DEF NoTask
  <2>2. ASSUME NoTask(Tail(s)), NEW i \in DOMAIN s PROVE s[i] # Task
    BY <1>1, <1>3, <1>7, <2>2, Zenon DEF NoTask
  <2> QED
    BY <2>1, <2>2, Zenon DEF NoTask
<1> QED
  BY <1>5, <1>6, <1>7, Zenon DEF NoTask

\* The sentinel comes back behind a queue that does not hold it.
LEMMA TaskBack ==
  ASSUME NEW s \in Seq(Ops \cup {Task, Desc}), NoTask(s)
  PROVE  /\ TaskOnce(s \o <<Task>>)
         /\ ~NoTask(s \o <<Task>>)
<1>1. /\ DOMAIN (s \o <<Task>>) = 1..(Len(s) + 1)
      /\ DOMAIN s = 1..Len(s) /\ Len(s) \in Nat
      /\ (s \o <<Task>>)[Len(s) + 1] = Task
  OBVIOUS
<1>2. \A i \in DOMAIN s : (s \o <<Task>>)[i] = s[i]
  OBVIOUS
<1> QED
  BY <1>1, <1>2 DEF NoTask, TaskOnce

\* What a step of actor a, going to next, may do to the mutex: leave it to
\* somebody else, carry it into run_task() or around do_one()'s loop,
\* release it, or take it when it is free.
LockStep(a, next) ==
  \/ mutex' = mutex /\ mutex # a /\ next # "do_one"
  \/ mutex' = mutex /\ mutex = a /\ next \in {"run_task", "do_one"}
  \/ mutex' = None /\ mutex \in {a, None} /\ next # "do_one"
  \/ mutex = None /\ mutex' = a /\ next = "do_one"

LEMMA LockKept ==
  ASSUME ControlOK, LockDiscipline, NEW a \in Actors, NEW next \in PCs,
         Moves(a, next), LockStep(a, next)
  PROVE  LockDiscipline'
BY SortsAssumption DEF ControlOK, LockDiscipline, Moves, LockStep, Actors

\* A step that neither takes the sentinel nor gives it back.
SentinelStep(a, next) ==
  /\ task_running' = task_running
  /\ NoTask(completed_ops') <=> NoTask(completed_ops)
  /\ TaskOnce(completed_ops')
  /\ a \in Threads => (next \in PollPCs <=> Polling(a))

LEMMA SentinelKept ==
  ASSUME ControlOK, SentinelOnce, NEW a \in Actors, NEW next \in PCs,
         Moves(a, next), SentinelStep(a, next)
  PROVE  SentinelOnce'
<1>1. \A t \in Threads : Polling(t)' <=> Polling(t)
  BY Zenon DEF ControlOK, Moves, SentinelStep, Polling, PollPCs, Actors
<1>2. /\ TaskOnce(completed_ops)'
      /\ NoTask(completed_ops)' <=> NoTask(completed_ops)
  BY Zenon DEF SentinelStep, NoTask, TaskOnce
<1> QED
  BY <1>1, <1>2, Zenon DEF SentinelOnce, SentinelStep

\* A step that neither joins nor leaves the waiters.
CountStep(a, next) ==
  /\ waiters' = waiters
  /\ a \in Threads => (next \in WaitPCs <=> pc[a] \in WaitPCs)

LEMMA CountKept ==
  ASSUME ControlOK, WaiterCount, NEW a \in Actors, NEW next \in PCs,
         Moves(a, next), CountStep(a, next)
  PROVE  WaiterCount'
<1>1. Waiting' = Waiting
  BY Zenon DEF ControlOK, Moves, CountStep, Waiting, WaitPCs, Actors
<1> QED
  BY <1>1, Zenon DEF WaiterCount, CountStep

Safe == LockDiscipline /\ SentinelOnce /\ WaiterCount

\* The steps that are quiet for all three.
LEMMA SafeKept ==
  ASSUME ControlOK, Safe, NEW a \in Actors, NEW next \in PCs, Moves(a, next),
         LockStep(a, next), SentinelStep(a, next), CountStep(a, next)
  PROVE  Safe'
BY LockKept, SentinelKept, CountKept, Zenon DEF Safe

\* The queue is the same, or it has changed behind or in front of the sentinel.
LEMMA QueueKept ==
  ASSUME DataOK, SentinelOnce,
         \/ completed_ops' = completed_ops
         \/ \E u \in Seq(Ops) : completed_ops' = completed_ops \o u
         \/ /\ completed_ops # <<>> /\ Head(completed_ops) # Task
            /\ completed_ops' = Tail(completed_ops)
  PROVE  /\ NoTask(completed_ops') <=> NoTask(completed_ops)
         /\ TaskOnce(completed_ops')
<1>1. completed_ops \in Seq(Ops \cup {Task, Desc})
  BY Zenon DEF DataOK
<1>2. TaskOnce(completed_ops)
  BY Zenon DEF SentinelOnce
<1>3. \A u \in Seq(Ops) : u \in Seq(Ops \cup {Desc})
  OBVIOUS
<1> QED
  BY <1>1, <1>2, <1>3, NoTaskSplice, NoTaskTail, Zenon

\* The steps of do_one() and of the reactor's turn that leave the sentinel and
\* the waiters alone.
LEMMA SafeLoop ==
  ASSUME DataOK, ControlOK, Safe, NEW t \in Threads,
         \/ Lock(t) \/ DoOneStopped(t) \/ DoOneTaskIdle(t) \/ RunTask(t)
         \/ PollReturn(t) \/ PollInterrupted(t) \/ Disarm(t) \/ DoOneEntry(t)
         \/ (\E m \in Modes : Call(t, m))
  PROVE  Safe'
<1>1. CASE Lock(t)
  <2> USE <1>1
  <2> USE SortsAssumption DEF Actors, Ops, sharedVars, kernelVars, threadVars
  <2> DEFINE next == "do_one"
  <2>1. next \in PCs
    BY Zenon DEF Lock, PCs, ThreadPCs, PosterPCs, ControlOK
  <2>2. Moves(t, next)
    BY <2>1, Moves0, Zenon DEF Lock, ControlOK
  <2>3. LockStep(t, next)
    BY Zenon DEF Lock, Free, LockStep
  <2>4. SentinelStep(t, next)
    BY QueueKept, Zenon DEF Lock, SentinelStep, Polling, PollPCs, Safe
  <2>5. CountStep(t, next)
    BY DEF Lock, CountStep, WaitPCs
  <2> HIDE DEF next
  <2> QED
    BY <2>1, <2>2, <2>3, <2>4, <2>5, SafeKept, Zenon
<1>2. CASE DoOneStopped(t)
  <2> USE <1>2
  <2> USE SortsAssumption DEF Actors, Ops, sharedVars, kernelVars, threadVars
  <2> DEFINE next == "exit"
  <2>1. next \in PCs
    BY Zenon DEF DoOneStopped, PCs, ThreadPCs, PosterPCs, ControlOK
  <2>2. Moves(t, next)
    BY <2>1, Moves0, Zenon DEF DoOneStopped, ControlOK
  <2>3. LockStep(t, next)
    BY Zenon DEF DoOneStopped, LockStep, Safe, LockDiscipline, ControlOK
  <2>4. SentinelStep(t, next)
    BY QueueKept, Zenon DEF DoOneStopped, SentinelStep, Polling, PollPCs, Safe
  <2>5. CountStep(t, next)
    BY Zenon DEF DoOneStopped, CountStep, WaitPCs
  <2> HIDE DEF next
  <2> QED
    BY <2>1, <2>2, <2>3, <2>4, <2>5, SafeKept, Zenon
<1>3. CASE DoOneTaskIdle(t)
  <2> USE <1>3
  <2> USE SortsAssumption DEF Actors, Ops, sharedVars, kernelVars, threadVars
  <2> DEFINE next == "exit"
  <2>1. next \in PCs
    BY Zenon DEF DoOneTaskIdle, AtHead, PCs, ThreadPCs, PosterPCs, ControlOK
  <2>2. Moves(t, next)
    BY <2>1, Moves0, Zenon DEF DoOneTaskIdle, AtHead, ControlOK
  <2>3. LockStep(t, next)
    BY Zenon
       DEF DoOneTaskIdle, AtHead, LockStep, Safe, LockDiscipline, ControlOK
  <2>4. SentinelStep(t, next)
    BY QueueKept, Zenon
       DEF DoOneTaskIdle, AtHead, SentinelStep, Polling, PollPCs, Safe
  <2>5. CountStep(t, next)
    BY Zenon DEF DoOneTaskIdle, AtHead, CountStep, WaitPCs
  <2> HIDE DEF next
  <2> QED
    BY <2>1, <2>2, <2>3, <2>4, <2>5, SafeKept, Zenon
<1>4. CASE RunTask(t)
  <2> USE <1>4
  <2> USE SortsAssumption DEF Actors, Ops, sharedVars, kernelVars, threadVars
  <2> DEFINE next == IF task_interrupted THEN "poll_now" ELSE "poll"
  <2>1. next \in PCs
    BY Zenon DEF RunTask, PCs, ThreadPCs, PosterPCs, ControlOK
  <2>2. Moves(t, next)
    BY <2>1, Moves0, Zenon DEF RunTask, ControlOK
  <2>3. LockStep(t, next)
    BY Zenon DEF RunTask, LockStep, Safe, LockDiscipline, ControlOK
  <2>4. SentinelStep(t, next)
    BY QueueKept, Zenon DEF RunTask, SentinelStep, Polling, PollPCs, Safe
  <2>5. CountStep(t, next)
    BY DEF RunTask, CountStep, WaitPCs
  <2> HIDE DEF next
  <2> QED
    BY <2>1, <2>2, <2>3, <2>4, <2>5, SafeKept, Zenon
<1>5. CASE PollReturn(t)
  <2> USE <1>5
  <2> USE SortsAssumption DEF Actors, Ops, sharedVars, kernelVars, threadVars
  <2> DEFINE next == IF wakefd THEN "disarm" ELSE "relock"
  <2>1. next \in PCs
    BY Zenon DEF PollReturn, PCs, ThreadPCs, PosterPCs, ControlOK
  <2>2. Moves(t, next)
    BY <2>1, Moves0, Zenon DEF PollReturn, ControlOK
  <2>3. LockStep(t, next)
    BY Zenon DEF PollReturn, LockStep, Safe, LockDiscipline, ControlOK
  <2>4. SentinelStep(t, next)
    BY QueueKept, Zenon DEF PollReturn, SentinelStep, Polling, PollPCs, Safe
  <2>5. CountStep(t, next)
    BY DEF PollReturn, CountStep, WaitPCs
  <2> HIDE DEF next
  <2> QED
    BY <2>1, <2>2, <2>3, <2>4, <2>5, SafeKept, Zenon
<1>6. CASE PollInterrupted(t)
  <2> USE <1>6
  <2> USE SortsAssumption DEF Actors, Ops, sharedVars, kernelVars, threadVars
  <2> DEFINE next == "relock"
  <2>1. next \in PCs
    BY Zenon DEF PollInterrupted, PCs, ThreadPCs, PosterPCs, ControlOK
  <2>2. Moves(t, next)
    BY <2>1, Moves0, Zenon DEF PollInterrupted, ControlOK
  <2>3. LockStep(t, next)
    BY Zenon DEF PollInterrupted, LockStep, Safe, LockDiscipline, ControlOK
  <2>4. SentinelStep(t, next)
    BY QueueKept, Zenon
       DEF PollInterrupted, SentinelStep, Polling, PollPCs, Safe
  <2>5. CountStep(t, next)
    BY Zenon DEF PollInterrupted, CountStep, WaitPCs
  <2> HIDE DEF next
  <2> QED
    BY <2>1, <2>2, <2>3, <2>4, <2>5, SafeKept, Zenon
<1>7. CASE Disarm(t)
  <2> USE <1>7
  <2> USE SortsAssumption DEF Actors, Ops, sharedVars, kernelVars, threadVars
  <2> DEFINE next == "relock"
  <2>1. next \in PCs
    BY Zenon DEF Disarm, PCs, ThreadPCs, PosterPCs, ControlOK
  <2>2. Moves(t, next)
    BY <2>1, Moves0, Zenon DEF Disarm, ControlOK
  <2>3. LockStep(t, next)
    BY Zenon DEF Disarm, LockStep, Safe, LockDiscipline, ControlOK
  <2>4. SentinelStep(t, next)
    BY QueueKept, Zenon DEF Disarm, SentinelStep, Polling, PollPCs, Safe
  <2>5. CountStep(t, next)
    BY Zenon DEF Disarm, CountStep, WaitPCs
  <2> HIDE DEF next
  <2> QED
    BY <2>1, <2>2, <2>3, <2>4, <2>5, SafeKept, Zenon
<1>8. CASE DoOneEntry(t)
  <2> USE <1>8
  <2> USE SortsAssumption DEF Actors, Ops, sharedVars, kernelVars, threadVars
  <2> DEFINE next == "handler"
  <2>1. next \in PCs
    BY Zenon DEF DoOneEntry, AtHead, PCs, ThreadPCs, PosterPCs, ControlOK
  <2>2. Moves(t, next)
    BY <2>1, Moves0, MovesSignal, Zenon DEF DoOneEntry, AtHead, ControlOK
  <2>3. LockStep(t, next)
    BY Zenon DEF DoOneEntry, AtHead, LockStep, Safe, LockDiscipline, ControlOK
  <2>4. SentinelStep(t, next)
    BY QueueKept, Zenon
       DEF DoOneEntry, AtHead, SentinelStep, Polling, PollPCs, Safe
  <2>5. CountStep(t, next)
    BY DEF DoOneEntry, AtHead, CountStep, WaitPCs
  <2> HIDE DEF next
  <2> QED
    BY <2>1, <2>2, <2>3, <2>4, <2>5, SafeKept, Zenon
<1>9. ASSUME NEW m \in Modes, Call(t, m) PROVE Safe'
  <2> USE <1>9
  <2> USE SortsAssumption DEF Actors, Ops, sharedVars, kernelVars, threadVars
  <2> DEFINE next == IF outstanding_work = 0 THEN "stop_return" ELSE "lock"
  <2>1. next \in PCs
    BY Zenon DEF Call, PCs, ThreadPCs, PosterPCs, ControlOK
  <2>2. Moves(t, next)
    BY <2>1, Moves0, Zenon DEF Call, ControlOK
  <2>3. LockStep(t, next)
    BY Zenon DEF Call, LockStep, Safe, LockDiscipline, ControlOK
  <2>4. SentinelStep(t, next)
    BY QueueKept, Zenon DEF Call, SentinelStep, Polling, PollPCs, Safe
  <2>5. CountStep(t, next)
    BY Zenon DEF Call, CountStep, WaitPCs
  <2> HIDE DEF next
  <2> QED
    BY <2>1, <2>2, <2>3, <2>4, <2>5, SafeKept
<1> QED BY <1>1, <1>2, <1>3, <1>4, <1>5, <1>6, <1>7, <1>8, <1>9, Zenon

\* The steps of a handler, and those that end the loop.
LEMMA SafeHandlers ==
  ASSUME DataOK, ControlOK, Safe, NEW t \in Threads,
         \/ SpuriousWake(t) \/ HandlerReturn(t) \/ TimerComplete(t) \/ Exit(t)
         \/ (\E o \in Posts : HandlerPost(t, o))
  PROVE  Safe'
<1>1. CASE SpuriousWake(t)
  <2> USE <1>1
  <2> USE SortsAssumption DEF Actors, Ops, sharedVars, kernelVars, threadVars
  <2> DEFINE next == "woken"
  <2>1. next \in PCs
    BY Zenon DEF SpuriousWake, PCs, ThreadPCs, PosterPCs, ControlOK
  <2>2. Moves(t, next)
    BY <2>1, Moves0, Zenon DEF SpuriousWake, ControlOK
  <2>3. LockStep(t, next)
    BY Zenon DEF SpuriousWake, LockStep, Safe, LockDiscipline, ControlOK
  <2>4. SentinelStep(t, next)
    BY QueueKept, Zenon DEF SpuriousWake, SentinelStep, Polling, PollPCs, Safe
  <2>5. CountStep(t, next)
    BY DEF SpuriousWake, CountStep, WaitPCs
  <2> HIDE DEF next
  <2> QED
    BY <2>1, <2>2, <2>3, <2>4, <2>5, SafeKept, Zenon
<1>2. CASE HandlerReturn(t)
  <2> USE <1>2
  <2> USE SortsAssumption DEF Actors, Ops, sharedVars, kernelVars, threadVars
  <2> DEFINE next == "cleanup"
  <2>1. next \in PCs
    BY Zenon DEF HandlerReturn, PCs, ThreadPCs, PosterPCs, ControlOK
  <2>2. Moves(t, next)
    BY <2>1, Moves0, Zenon DEF HandlerReturn, ControlOK
  <2>3. LockStep(t, next)
    BY Zenon
       DEF HandlerReturn, UserCode, LockStep, Safe, LockDiscipline, ControlOK
  <2>4. SentinelStep(t, next)
    BY QueueKept, Zenon
       DEF HandlerReturn, UserCode, SentinelStep, Polling, PollPCs, Safe
  <2>5. CountStep(t, next)
    BY DEF HandlerReturn, UserCode, CountStep, WaitPCs
  <2> HIDE DEF next
  <2> QED
    BY <2>1, <2>2, <2>3, <2>4, <2>5, SafeKept, Zenon
<1>3. CASE TimerComplete(t)
  <2> USE <1>3
  <2> USE SortsAssumption DEF Actors, Ops, sharedVars, kernelVars, threadVars
  <2> DEFINE next == IF outstanding_work = 1 THEN "stop_handler" ELSE "cleanup"
  <2>1. next \in PCs
    BY Zenon
       DEF TimerComplete, work_finished, PCs, ThreadPCs, PosterPCs, ControlOK
  <2>2. Moves(t, next)
    BY <2>1, Moves0, Zenon DEF TimerComplete, work_finished, ControlOK
  <2>3. LockStep(t, next)
    BY Zenon DEF TimerComplete, work_finished, LockStep, Safe, LockDiscipline,
           ControlOK
  <2>4. SentinelStep(t, next)
    BY QueueKept, Zenon
       DEF TimerComplete, work_finished, SentinelStep, Polling, PollPCs, Safe
  <2>5. CountStep(t, next)
    BY DEF TimerComplete, work_finished, CountStep, WaitPCs
  <2> HIDE DEF next
  <2> QED
    BY <2>1, <2>2, <2>3, <2>4, <2>5, SafeKept, Zenon
<1>4. CASE Exit(t)
  <2> USE <1>4
  <2> USE SortsAssumption DEF Actors, Ops, sharedVars, kernelVars, threadVars
  <2> DEFINE next == "idle"
  <2>1. next \in PCs
    BY Zenon DEF Exit, PCs, ThreadPCs, PosterPCs, ControlOK
  <2>2. Moves(t, next)
    BY <2>1, Moves0, MovesSignal, Zenon DEF Exit, ControlOK
  <2>3. LockStep(t, next)
    BY Zenon DEF Exit, LockStep, Safe, LockDiscipline, ControlOK
  <2>4. SentinelStep(t, next)
    <3>1. private_queue[t] \in Seq(Ops)
      BY Zenon DEF DataOK
    <3>2. \/ completed_ops' = completed_ops
          \/ completed_ops' = completed_ops \o private_queue[t]
      BY Zenon DEF Exit
    <3> QED
      BY <3>1, <3>2, QueueKept, Zenon
         DEF Exit, SentinelStep, Polling, PollPCs, Safe
  <2>5. CountStep(t, next)
    BY Zenon DEF Exit, CountStep, WaitPCs
  <2> HIDE DEF next
  <2> QED
    BY <2>1, <2>2, <2>3, <2>4, <2>5, SafeKept, Zenon
<1>5. ASSUME NEW o \in Posts, HandlerPost(t, o) PROVE Safe'
  <2> USE <1>5
  <2> USE SortsAssumption DEF Actors, Ops, sharedVars, kernelVars, threadVars
  <2> DEFINE next == pc[t]
  <2>1. next \in PCs
    BY Zenon DEF HandlerPost, PCs, ThreadPCs, PosterPCs, ControlOK
  <2>2. Moves(t, next)
    BY <2>1, Moves0 DEF HandlerPost, ControlOK
  <2>3. LockStep(t, next)
    BY Zenon DEF HandlerPost, LockStep, Safe, LockDiscipline, ControlOK
  <2>4. SentinelStep(t, next)
    BY QueueKept, Zenon DEF HandlerPost, SentinelStep, Polling, PollPCs, Safe
  <2>5. CountStep(t, next)
    BY Zenon DEF HandlerPost, CountStep, WaitPCs
  <2> HIDE DEF next
  <2> QED
    BY <2>1, <2>2, <2>3, <2>4, <2>5, SafeKept, Zenon
<1> QED BY <1>1, <1>2, <1>3, <1>4, <1>5, Zenon

LEMMA SafeStop ==
  ASSUME DataOK, ControlOK, Safe, NEW a \in Actors, Stop(a)
  PROVE  Safe'
<1> USE SortsAssumption DEF Actors, Ops, sharedVars, kernelVars, threadVars
<1> DEFINE next == AfterStop[pc[a]]
<1>1. next \in PCs
  BY DEF Stop, stop, AfterStop, PCs, ThreadPCs, PosterPCs, ControlOK
<1>2. Moves(a, next)
  BY <1>1, Moves0, MovesStop, Zenon DEF Stop, AfterStop, ControlOK
<1>3. LockStep(a, next)
  BY DEF Stop, stop, AfterStop, LockStep, Safe, LockDiscipline, ControlOK
<1>4. SentinelStep(a, next)
  BY QueueKept DEF Stop, stop, AfterStop, SentinelStep, Polling, PollPCs, Safe
<1>5. CountStep(a, next)
  BY DEF Stop, stop, AfterStop, CountStep, WaitPCs
<1> HIDE DEF next
<1> QED
  BY <1>1, <1>2, <1>3, <1>4, <1>5, SafeKept, Zenon

\* A poster posts an operation, or claims one to cancel it.
LEMMA SafePosts ==
  ASSUME DataOK, ControlOK, Safe, NEW p \in Posters,
         \/ PostPush(p) \/ CancelFinish(p) \/ (\E o \in Posts : PostBegin(p, o))
         \/ (\E o \in IoOps : CancelOp(p, o))
  PROVE  Safe'
<1>1. CASE PostPush(p)
  <2> USE <1>1
  <2> USE SortsAssumption DEF Actors, Ops, sharedVars, kernelVars, threadVars
  <2> DEFINE next == IF pc[p] = "post" THEN "idle" ELSE "finish"
  <2>1. next \in PCs
    BY Zenon DEF PostPush, PCs, ThreadPCs, PosterPCs, ControlOK
  <2>2. Moves(p, next)
    BY <2>1, Moves0, MovesWake, Zenon DEF PostPush, ControlOK
  <2>3. LockStep(p, next)
    BY Zenon DEF PostPush, LockStep, Safe, LockDiscipline, ControlOK
  <2>4. SentinelStep(p, next)
    <3>1. cur[p] \in Ops
      BY Zenon DEF PostPush, ControlOK, PosterCur
    <3>2. /\ completed_ops' = completed_ops \o <<cur[p]>>
          /\ <<cur[p]>> \in Seq(Ops)
      <4>1. /\ completed_ops \in Seq(Ops \cup {Task, Desc})
            /\ completed_ops' = Append(completed_ops, cur[p])
        BY Zenon DEF PostPush, DataOK
      <4>2. /\ Append(completed_ops, cur[p]) = completed_ops \o <<cur[p]>>
            /\ <<cur[p]>> \in Seq(Ops)
        BY <3>1, <4>1
      <4> QED
        BY <4>1, <4>2, Zenon
    <3> QED
      BY <3>2, QueueKept, Zenon DEF PostPush, SentinelStep, Safe
  <2>5. CountStep(p, next)
    BY Zenon DEF PostPush, CountStep, WaitPCs
  <2> HIDE DEF next
  <2> QED
    BY <2>1, <2>2, <2>3, <2>4, <2>5, SafeKept, Zenon
<1>2. CASE CancelFinish(p)
  <2> USE <1>2
  <2> USE SortsAssumption DEF Actors, Ops, sharedVars, kernelVars, threadVars
  <2> DEFINE next == IF outstanding_work = 1 THEN "stop_post" ELSE "idle"
  <2>1. next \in PCs
    BY Zenon
       DEF CancelFinish, work_finished, PCs, ThreadPCs, PosterPCs, ControlOK
  <2>2. Moves(p, next)
    BY <2>1, Moves0, Zenon DEF CancelFinish, work_finished, ControlOK
  <2>3. LockStep(p, next)
    BY Zenon DEF CancelFinish, work_finished, LockStep, Safe, LockDiscipline,
           ControlOK
  <2>4. SentinelStep(p, next)
    BY QueueKept, Zenon
       DEF CancelFinish, work_finished, SentinelStep, Polling, PollPCs, Safe
  <2>5. CountStep(p, next)
    BY Zenon DEF CancelFinish, work_finished, CountStep, WaitPCs
  <2> HIDE DEF next
  <2> QED
    BY <2>1, <2>2, <2>3, <2>4, <2>5, SafeKept, Zenon
<1>3. ASSUME NEW o \in Posts, PostBegin(p, o) PROVE Safe'
  <2> USE <1>3
  <2> USE SortsAssumption DEF Actors, Ops, sharedVars, kernelVars, threadVars
  <2> DEFINE next == "post"
  <2>1. next \in PCs
    BY Zenon DEF PostBegin, PCs, ThreadPCs, PosterPCs, ControlOK
  <2>2. Moves(p, next)
    BY <2>1, Moves0, Zenon DEF PostBegin, ControlOK
  <2>3. LockStep(p, next)
    BY Zenon DEF PostBegin, LockStep, Safe, LockDiscipline, ControlOK
  <2>4. SentinelStep(p, next)
    BY QueueKept, Zenon DEF PostBegin, SentinelStep, Polling, PollPCs, Safe
  <2>5. CountStep(p, next)
    BY Zenon DEF PostBegin, CountStep, WaitPCs
  <2> HIDE DEF next
  <2> QED
    BY <2>1, <2>2, <2>3, <2>4, <2>5, SafeKept, Zenon
<1>4. ASSUME NEW o \in IoOps, CancelOp(p, o) PROVE Safe'
  <2> USE <1>4
  <2> USE SortsAssumption DEF Actors, Ops, sharedVars, kernelVars, threadVars
  <2> DEFINE next == "post_claimed"
  <2>1. next \in PCs
    BY Zenon DEF CancelOp, PCs, ThreadPCs, PosterPCs, ControlOK
  <2>2. Moves(p, next)
    BY <2>1, Moves0, Zenon DEF CancelOp, ControlOK
  <2>3. LockStep(p, next)
    BY Zenon DEF CancelOp, LockStep, Safe, LockDiscipline, ControlOK
  <2>4. SentinelStep(p, next)
    BY QueueKept, Zenon DEF CancelOp, SentinelStep, Polling, PollPCs, Safe
  <2>5. CountStep(p, next)
    BY DEF CancelOp, CountStep, WaitPCs
  <2> HIDE DEF next
  <2> QED
    BY <2>1, <2>2, <2>3, <2>4, <2>5, SafeKept
<1> QED BY <1>1, <1>2, <1>3, <1>4, Zenon

\* A poster takes or returns a work guard, stops the scheduler or restarts it.
LEMMA SafeGuards ==
  ASSUME DataOK, ControlOK, Safe, NEW p \in Posters,
         \/ WorkGuardStart(p) \/ WorkGuardFinish(p) \/ UserStop(p) \/ Restart(p)
  PROVE  Safe'
<1>1. CASE WorkGuardStart(p)
  <2> USE <1>1
  <2> USE SortsAssumption DEF Actors, Ops, sharedVars, kernelVars, threadVars
  <2> DEFINE next == pc[p]
  <2>1. next \in PCs
    BY Zenon DEF WorkGuardStart, PCs, ThreadPCs, PosterPCs, ControlOK
  <2>2. Moves(p, next)
    BY <2>1, Moves0 DEF WorkGuardStart, ControlOK
  <2>3. LockStep(p, next)
    BY Zenon DEF WorkGuardStart, LockStep, Safe, LockDiscipline, ControlOK
  <2>4. SentinelStep(p, next)
    BY QueueKept, Zenon DEF WorkGuardStart, SentinelStep, Polling, PollPCs, Safe
  <2>5. CountStep(p, next)
    BY Zenon DEF WorkGuardStart, CountStep, WaitPCs
  <2> HIDE DEF next
  <2> QED
    BY <2>1, <2>2, <2>3, <2>4, <2>5, SafeKept, Zenon
<1>2. CASE WorkGuardFinish(p)
  <2> USE <1>2
  <2> USE SortsAssumption DEF Actors, Ops, sharedVars, kernelVars, threadVars
  <2> DEFINE next == IF outstanding_work = 1 THEN "stop_post" ELSE "idle"
  <2>1. next \in PCs
    BY Zenon
       DEF WorkGuardFinish, work_finished, PCs, ThreadPCs, PosterPCs, ControlOK
  <2>2. Moves(p, next)
    BY <2>1, Moves0, Zenon DEF WorkGuardFinish, work_finished, ControlOK
  <2>3. LockStep(p, next)
    BY Zenon DEF WorkGuardFinish, work_finished, LockStep, Safe, LockDiscipline,
           ControlOK
  <2>4. SentinelStep(p, next)
    BY QueueKept, Zenon
       DEF WorkGuardFinish, work_finished, SentinelStep, Polling, PollPCs, Safe
  <2>5. CountStep(p, next)
    BY Zenon DEF WorkGuardFinish, work_finished, CountStep, WaitPCs
  <2> HIDE DEF next
  <2> QED
    BY <2>1, <2>2, <2>3, <2>4, <2>5, SafeKept, Zenon
<1>3. CASE UserStop(p)
  <2> USE <1>3
  <2> USE SortsAssumption DEF Actors, Ops, sharedVars, kernelVars, threadVars
  <2> DEFINE next == "idle"
  <2>1. next \in PCs
    BY Zenon DEF UserStop, stop, PCs, ThreadPCs, PosterPCs, ControlOK
  <2>2. Moves(p, next)
    BY <2>1, Moves0, MovesStop, Zenon DEF UserStop, ControlOK
  <2>3. LockStep(p, next)
    BY Zenon DEF UserStop, stop, LockStep, Safe, LockDiscipline, ControlOK
  <2>4. SentinelStep(p, next)
    BY QueueKept, Zenon DEF UserStop, stop, SentinelStep, Polling, PollPCs, Safe
  <2>5. CountStep(p, next)
    BY DEF UserStop, stop, CountStep, WaitPCs
  <2> HIDE DEF next
  <2> QED
    BY <2>1, <2>2, <2>3, <2>4, <2>5, SafeKept, Zenon
<1>4. CASE Restart(p)
  <2> USE <1>4
  <2> USE SortsAssumption DEF Actors, Ops, sharedVars, kernelVars, threadVars
  <2> DEFINE next == pc[p]
  <2>1. next \in PCs
    BY Zenon DEF Restart, PCs, ThreadPCs, PosterPCs, ControlOK
  <2>2. Moves(p, next)
    BY <2>1, Moves0 DEF Restart, ControlOK
  <2>3. LockStep(p, next)
    BY Zenon DEF Restart, LockStep, Safe, LockDiscipline, ControlOK
  <2>4. SentinelStep(p, next)
    BY QueueKept, Zenon DEF Restart, SentinelStep, Polling, PollPCs, Safe
  <2>5. CountStep(p, next)
    BY Zenon DEF Restart, CountStep, WaitPCs
  <2> HIDE DEF next
  <2> QED
    BY <2>1, <2>2, <2>3, <2>4, <2>5, SafeKept, Zenon
<1> QED BY <1>1, <1>2, <1>3, <1>4, Zenon

-----------------------------------------------------------------------------
(* The steps that take the sentinel or give it back, join the waiters or    *)
(* leave them, and splice the queues.                                       *)

\* The steps that take the sentinel or give it back, and those that join the
\* waiters or leave them.
LEMMA SafeTurns ==
  ASSUME DataOK, ControlOK, Safe, NEW t \in Threads,
         \/ DoOneTask(t) \/ FinishTask(t) \/ DoOneEmpty(t) \/ Woken(t)
  PROVE  Safe'
\* The thread that takes the sentinel is the only one to poll.
<1>1. CASE DoOneTask(t)
  <2> USE <1>1
  <2> USE SortsAssumption DEF Actors, Ops, sharedVars, kernelVars, threadVars
  <2>1. Moves(t, "run_task")
    BY Moves0, MovesSignal, Zenon
       DEF DoOneTask, AtHead, ControlOK, PCs, ThreadPCs
  <2>2. LockDiscipline'
    <3>1. LockStep(t, "run_task")
      BY Zenon DEF DoOneTask, AtHead, LockStep, Safe, LockDiscipline
    <3> QED
      BY <2>1, <3>1, LockKept, Zenon DEF Safe, PCs, ThreadPCs
  <2>3. WaiterCount'
    <3>1. CountStep(t, "run_task")
      BY Zenon DEF DoOneTask, AtHead, CountStep, WaitPCs
    <3> QED
      BY <2>1, <3>1, CountKept, Zenon DEF Safe, PCs, ThreadPCs
  <2>4. SentinelOnce'
    <3>1. /\ completed_ops \in Seq(Ops \cup {Task, Desc}) /\ completed_ops # <<>>
          /\ Head(completed_ops) = Task /\ TaskOnce(completed_ops)
      BY Zenon DEF DataOK, DoOneTask, AtHead, Safe, SentinelOnce
    <3>2. NoTask(completed_ops') /\ TaskOnce(completed_ops')
      BY <3>1, NoTaskTail, Zenon DEF DoOneTask
    <3>3. ~NoTask(completed_ops)
      BY <3>1 DEF NoTask
    <3>4. \A u \in Threads : ~Polling(u)
      BY <3>3, Zenon DEF Safe, SentinelOnce
    <3>5. \A u \in Threads : Polling(u)' <=> u = t
      BY <2>1, <3>4, Zenon DEF Moves, Polling, PollPCs
    <3>6. task_running' = TRUE
      BY Zenon DEF DoOneTask
    <3>7. TaskOnce(completed_ops)' /\ NoTask(completed_ops)'
      BY <3>2, Zenon DEF NoTask, TaskOnce
    <3> QED
      BY <3>5, <3>6, <3>7, Zenon DEF SentinelOnce
  <2> QED
    BY <2>2, <2>3, <2>4, Zenon DEF Safe
\* The only thread that polls gives the sentinel back.
<1>2. CASE FinishTask(t)
  <2> USE <1>2
  <2> USE SortsAssumption DEF Actors, Ops, sharedVars, kernelVars, threadVars
  <2> DEFINE next == IF Timed(t) THEN "exit" ELSE "do_one"
  <2>0. next \in PCs
    BY Zenon DEF PCs, ThreadPCs
  <2>1. Moves(t, next)
    BY <2>0, Moves0, Zenon DEF FinishTask, ControlOK
  <2>2. LockDiscipline'
    <3>1. LockStep(t, next)
      BY Zenon DEF FinishTask, Free, LockStep
    <3> QED
      BY <2>0, <2>1, <3>1, LockKept, Zenon DEF Safe
  <2>3. WaiterCount'
    <3>1. CountStep(t, next)
      BY Zenon DEF FinishTask, CountStep, WaitPCs
    <3> QED
      BY <2>0, <2>1, <3>1, CountKept, Zenon DEF Safe
  <2>4. SentinelOnce'
    <3>1. Polling(t)
      BY Zenon DEF FinishTask, Polling, PollPCs
    <3>2. NoTask(completed_ops) /\ TaskOnce(completed_ops)
      BY <3>1, Zenon DEF Safe, SentinelOnce
    <3>3. /\ completed_ops \in Seq(Ops \cup {Task, Desc})
          /\ local_ops[t] \in Seq(Ops \cup {Desc})
          /\ private_queue[t] \in Seq(Ops \cup {Desc})
      BY DEF DataOK
    <3> DEFINE q1 == completed_ops \o local_ops[t]
    <3> DEFINE q2 == q1 \o private_queue[t]
    <3>4. q1 \in Seq(Ops \cup {Task, Desc}) /\ NoTask(q1)
      BY <3>2, <3>3, NoTaskSplice
    <3> HIDE DEF q1
    <3>5. q2 \in Seq(Ops \cup {Task, Desc}) /\ NoTask(q2)
      BY <3>3, <3>4, NoTaskSplice
    <3>6. completed_ops' = q2 \o <<Task>>
      BY Zenon DEF FinishTask, q1
    <3> HIDE DEF q2
    <3>7. TaskOnce(completed_ops') /\ ~NoTask(completed_ops')
      BY <3>5, <3>6, TaskBack, Zenon
    <3>8. \A u \in Threads : ~Polling(u)'
      BY <2>1, <3>1, Zenon DEF Moves, Polling, PollPCs, Safe, SentinelOnce
    <3>9. task_running' = FALSE
      BY Zenon DEF FinishTask
    <3>10. TaskOnce(completed_ops)' /\ ~NoTask(completed_ops)'
      BY <3>7, Zenon DEF NoTask, TaskOnce
    <3> QED
      BY <3>8, <3>9, <3>10, Zenon DEF SentinelOnce
  <2> QED
    BY <2>2, <2>3, <2>4, Zenon DEF Safe
\* The queue is empty, so the sentinel is out, and it stays out.
<1>3. CASE DoOneEmpty(t)
  <2> USE <1>3
  <2> USE SortsAssumption DEF Actors, Ops, sharedVars, kernelVars, threadVars
  <2>1. PICK next \in {"do_one", "exit", "parked"} :
          /\ pc' = [pc EXCEPT ![t] = next]
          /\ IF next = "do_one" THEN mutex' = mutex ELSE mutex' = None
          /\ waiters' = IF next = "parked" THEN waiters + 1 ELSE waiters
    <3>1. pc = [pc EXCEPT ![t] = "do_one"]
      BY Zenon DEF DoOneEmpty, ControlOK
    <3> QED
      BY <3>1, Zenon DEF DoOneEmpty
  <2>2. next \in PCs /\ Moves(t, next)
    BY <2>1, Moves0, Zenon DEF ControlOK, PCs, ThreadPCs
  <2>3. LockDiscipline'
    <3>1. LockStep(t, next)
      BY <2>1, Zenon DEF DoOneEmpty, LockStep, Safe, LockDiscipline
    <3> QED
      BY <2>2, <3>1, LockKept, Zenon DEF Safe
  <2>4. SentinelOnce'
    <3>1. NoTask(completed_ops)
      BY DEF DoOneEmpty, NoTask
    <3>2. private_queue[t] \in Seq(Ops)
      BY Zenon DEF DataOK
    <3>3. \A i \in DOMAIN private_queue[t] : private_queue[t][i] # Task
      BY <3>2
    <3>4. NoTask(completed_ops') /\ TaskOnce(completed_ops')
      BY <3>3, Zenon DEF DoOneEmpty, NoTask, TaskOnce
    <3>5. SentinelStep(t, next)
      BY <2>1, <3>1, <3>4, Zenon DEF DoOneEmpty, SentinelStep, Polling, PollPCs
    <3> QED
      BY <2>2, <3>5, SentinelKept, Zenon DEF Safe
  <2>5. WaiterCount'
    <3>1. CASE next # "parked"
      <4>1. CountStep(t, next)
        BY <2>1, <3>1, Zenon DEF DoOneEmpty, CountStep, WaitPCs
      <4> QED
        BY <2>2, <4>1, CountKept, Zenon DEF Safe
    <3>2. CASE next = "parked"
      <4>1. Waiting' = Waiting \cup {t} /\ t \notin Waiting
        BY <2>2, <3>2 DEF DoOneEmpty, Moves, Waiting, WaitPCs
      <4>2. IsFiniteSet(Waiting)
        BY FS_Subset, Zenon DEF Waiting
      <4>3. Cardinality(Waiting') = Cardinality(Waiting) + 1
        BY <4>1, <4>2, FS_AddElement, Zenon
      <4> QED
        BY <2>1, <3>2, <4>3, Zenon DEF Safe, WaiterCount
    <3> QED
      BY <3>1, <3>2, Zenon
  <2> QED
    BY <2>3, <2>4, <2>5, Zenon DEF Safe
<1>4. CASE Woken(t)
  <2> USE <1>4
  <2> USE SortsAssumption DEF Actors, Ops, sharedVars, kernelVars, threadVars
  <2>1. PICK next \in {"do_one", "parked"} :
          /\ pc' = [pc EXCEPT ![t] = next]
          /\ IF next = "do_one" THEN mutex' = t ELSE mutex' = mutex
          /\ waiters' = IF next = "do_one" THEN waiters - 1 ELSE waiters
    BY Zenon DEF Woken
  <2>2. next \in PCs /\ Moves(t, next)
    BY <2>1, Moves0, Zenon DEF ControlOK, PCs, ThreadPCs
  <2>3. LockDiscipline'
    <3>1. LockStep(t, next)
      BY <2>1, Zenon DEF Woken, Free, LockStep
    <3> QED
      BY <2>2, <3>1, LockKept, Zenon DEF Safe
  <2>4. SentinelOnce'
    <3>1. SentinelStep(t, next)
      BY <2>1, QueueKept, Zenon DEF Woken, SentinelStep, Polling, PollPCs, Safe
    <3> QED
      BY <2>2, <3>1, SentinelKept, Zenon DEF Safe
  <2>5. WaiterCount'
    <3>1. CASE next = "parked"
      <4>1. CountStep(t, next)
        BY <2>1, <3>1, Zenon DEF Woken, CountStep, WaitPCs
      <4> QED
        BY <2>2, <4>1, CountKept, Zenon DEF Safe
    <3>2. CASE next = "do_one"
      <4>1. Waiting' = Waiting \ {t} /\ t \in Waiting
        BY <2>2, <3>2, Zenon DEF Woken, Moves, Waiting, WaitPCs
      <4>2. IsFiniteSet(Waiting)
        BY FS_Subset, Zenon DEF Waiting
      <4>3. Cardinality(Waiting') = Cardinality(Waiting) - 1
        BY <4>1, <4>2, FS_RemoveElement, Zenon
      <4> QED
        BY <2>1, <3>2, <4>3, Zenon DEF Safe, WaiterCount
    <3> QED
      BY <3>1, <3>2, Zenon
  <2> QED
    BY <2>3, <2>4, <2>5, Zenon DEF Safe
<1> QED BY <1>1, <1>2, <1>3, <1>4, Zenon

\* The steps that splice the queues.
LEMMA SafeSplices ==
  ASSUME DataOK, ControlOK, Safe, NEW t \in Threads,
         \/ InvokeDeferredIo(t) \/ WorkCleanup(t) \/ Splice(t)
  PROVE  Safe'
<1>1. CASE InvokeDeferredIo(t)
  <2> USE <1>1
  <2> USE SortsAssumption DEF Actors, Ops, sharedVars, kernelVars, threadVars
  <2>1. PICK next \in {"cleanup", "handler"} : pc' = [pc EXCEPT ![t] = next]
    <3>1. pc = [pc EXCEPT ![t] = "handler"]
      BY Zenon DEF InvokeDeferredIo, ControlOK
    <3> QED
      BY <3>1, Zenon DEF InvokeDeferredIo
  <2>2. next \in PCs /\ Moves(t, next)
    BY <2>1, Moves0, Zenon DEF ControlOK, PCs, ThreadPCs
  <2>3. pc[t] = "handler" /\ UNCHANGED sharedVars
    BY Zenon DEF InvokeDeferredIo
  <2>4. LockStep(t, next)
    BY <2>1, <2>3, Zenon DEF LockStep, Safe, LockDiscipline, ControlOK
  <2>5. SentinelStep(t, next)
    BY <2>1, <2>3, QueueKept, Zenon DEF SentinelStep, Polling, PollPCs, Safe
  <2>6. CountStep(t, next)
    BY <2>1, <2>3, Zenon DEF CountStep, WaitPCs
  <2> QED
    BY <2>2, <2>4, <2>5, <2>6, SafeKept, Zenon
<1>2. CASE WorkCleanup(t)
  <2> USE <1>2
  <2> USE SortsAssumption DEF Actors, Ops, sharedVars, kernelVars, threadVars
  <2>1. PICK next \in {"splice", "stop_splice"} : pc' = [pc EXCEPT ![t] = next]
    BY Zenon DEF WorkCleanup, work_finished
  <2>2. next \in PCs /\ Moves(t, next)
    BY <2>1, Moves0, Zenon DEF ControlOK, PCs, ThreadPCs
  <2>3. /\ pc[t] = "cleanup"
        /\ UNCHANGED <<mutex, completed_ops, task_running, waiters>>
    BY Zenon DEF WorkCleanup
  <2>4. LockStep(t, next)
    BY <2>1, <2>3, Zenon DEF LockStep, Safe, LockDiscipline, ControlOK
  <2>5. SentinelStep(t, next)
    BY <2>1, <2>3, QueueKept, Zenon DEF SentinelStep, Polling, PollPCs, Safe
  <2>6. CountStep(t, next)
    BY <2>1, <2>3, Zenon DEF CountStep, WaitPCs
  <2> QED
    BY <2>2, <2>4, <2>5, <2>6, SafeKept, Zenon
<1>3. CASE Splice(t)
  <2> USE <1>3
  <2> USE SortsAssumption DEF Actors, Ops, sharedVars, kernelVars, threadVars
  <2>1. PICK next \in {"lock", "do_one", "exit"} :
          /\ pc' = [pc EXCEPT ![t] = next]
          /\ IF next = "do_one" THEN mutex = None /\ mutex' = t
             ELSE mutex' = mutex
    BY Zenon DEF Splice, Free
  <2>2. next \in PCs /\ Moves(t, next)
    BY <2>1, Moves0, Zenon DEF ControlOK, PCs, ThreadPCs
  <2>3. pc[t] = "splice" /\ UNCHANGED <<task_running, waiters>>
    BY Zenon DEF Splice
  <2>4. LockStep(t, next)
    BY <2>1, <2>3, Zenon DEF LockStep, Safe, LockDiscipline, ControlOK
  <2>5. SentinelStep(t, next)
    <3>1. private_queue[t] \in Seq(Ops)
      BY Zenon DEF DataOK
    <3>2. \/ completed_ops' = completed_ops
          \/ completed_ops' = completed_ops \o private_queue[t]
      BY Zenon DEF Splice
    <3> QED
      BY <2>1, <2>3, <3>1, <3>2, QueueKept, Zenon
         DEF SentinelStep, Polling, PollPCs, Safe
  <2>6. CountStep(t, next)
    BY <2>1, <2>3, Zenon DEF CountStep, WaitPCs
  <2> QED
    BY <2>2, <2>4, <2>5, <2>6, SafeKept
<1> QED BY <1>1, <1>2, <1>3, Zenon

\* Steps of the kernel, of whoever starts an operation, and stuttering.
LEMMA SafeIdle ==
  ASSUME Safe,
         UNCHANGED <<mutex, completed_ops, task_running, waiters, pc>>
  PROVE  Safe'
BY Zenon DEF Safe, LockDiscipline, SentinelOnce, TaskOnce, NoTask, Polling,
       WaiterCount, Waiting

\* The inductive invariant: the three properties with the types they need.
IInv == TypeInv /\ Safe

LEMMA SafeInit == Init => Safe
<1> SUFFICES ASSUME Init PROVE Safe
  BY Zenon
<1>1. Waiting = {}
  BY Zenon DEF Init, Waiting, WaitPCs, Actors
<1>2. WaiterCount
  BY <1>1, FS_EmptySet, Zenon DEF Init, WaiterCount
<1>3. LockDiscipline
  BY Zenon DEF Init, LockDiscipline, Actors
<1>4. SentinelOnce
  <2>1. \A t \in Threads : ~Polling(t)
    BY Zenon DEF Init, Polling, PollPCs, Actors
  <2>2. TaskOnce(completed_ops) /\ ~NoTask(completed_ops)
    BY DEF Init, TaskOnce, NoTask
  <2> QED
    BY <2>1, <2>2, Zenon DEF Init, SentinelOnce
<1> QED
  BY <1>2, <1>3, <1>4, Zenon DEF Safe

LEMMA SafeStep ==
  ASSUME IInv, [Next]_vars
  PROVE  Safe'
<1>0. DataOK /\ ControlOK /\ Safe
  BY Zenon DEF IInv, TypeInv
<1>1. ASSUME NEW t \in Threads, ThreadStep(t) PROVE Safe'
  <2>1. t \in Actors
    BY Zenon DEF Actors
  <2> QED
    BY <1>0, <1>1, <2>1, SafeLoop, SafeHandlers, SafeTurns, SafeSplices,
       SafeStop, Zenon DEF ThreadStep, TimedOut
<1>2. ASSUME NEW p \in Posters, PosterStep(p) PROVE Safe'
  <2>1. p \in Actors
    BY Zenon DEF Actors
  <2> QED
    BY <1>0, <1>2, <2>1, SafePosts, SafeStop, Zenon DEF PosterStep
<1>3. ASSUME NEW o \in IoOps \cup Timers, StartOp(o) \/ KernelReady(o)
      PROVE  Safe'
  BY <1>0, <1>3, SafeIdle, Zenon DEF StartOp, KernelReady, sharedVars
<1>4. CASE UNCHANGED vars
  BY <1>0, <1>4, SafeIdle, Zenon DEF vars, sharedVars
<1> QED
  BY <1>0, <1>1, <1>2, <1>3, <1>4, SafeLoop, SafeHandlers, SafePosts,
     SafeGuards, Zenon DEF Next

LEMMA Induction == Spec => []IInv
<1>1. Init => IInv
  BY TypeInit, TypeGroups, SafeInit, Zenon DEF IInv
<1>2. IInv /\ [Next]_vars => IInv'
  BY TypeStep, SafeStep, Zenon DEF IInv
<1> QED
  BY <1>1, <1>2, PTL DEF Spec

\* At any time either the sentinel is in completed_ops_, once, and no thread
\* polls, or it is out and exactly one thread is in run_task(): do_one() never
\* lets two threads into epoll_wait() nor loses the right to call it.
THEOREM SentinelUnique == Spec => []SentinelOnce
<1>1. IInv => SentinelOnce
  BY Zenon DEF IInv, Safe
<1> QED
  BY <1>1, Induction, PTL

\* The unique_lock passed through do_one(), run_task(), ~work_cleanup() and
\* the loops of run() and poll() is held exactly where the code relies on it.
THEOREM MutexHandedOver == Spec => []LockDiscipline
<1>1. IInv => LockDiscipline
  BY Zenon DEF IInv, Safe
<1> QED
  BY <1>1, Induction, PTL

\* state_ counts the threads in wait_for_signal(), spurious wake-ups, timeouts
\* and notifications notwithstanding.
THEOREM WaitersCounted == Spec => []WaiterCount
<1>1. IInv => WaiterCount
  BY Zenon DEF IInv, Safe
<1> QED
  BY <1>1, Induction, PTL

=============================================================================
