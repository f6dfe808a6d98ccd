-------------------------- MODULE ReactorStepProofs --------------------------
(***************************************************************************)
(* Every step of ReactorScheduler keeps its ledger: the steps that post,   *)
(* start, complete or finish an operation, and with ReactorLedgerProofs    *)
(* all the others (LedgerStep).                                            *)
(***************************************************************************)
EXTENDS ReactorLedgerProofs

-----------------------------------------------------------------------------
(* The steps that post, start, complete or finish an operation.            *)

LEMMA LedgerStartOp ==
  ASSUME Counting, TypeInv, TypeInv', LedgerInv, NEW o \in IoOps \cup Timers, StartOp(o)
  PROVE  LedgerInv'
<1> USE DEF sharedVars, kernelVars, threadVars
<1>0. o \in Ops /\ st \in [Ops -> Statuses] /\ outstanding_work \in Int /\ DataOK
  BY Zenon DEF Ops, TypeInv, DataOK
<1>1. /\ st[o] = "new" /\ st' = [st EXCEPT ![o] = "pending"]
      /\ outstanding_work' = outstanding_work + 1
      /\ UNCHANGED <<completed_ops, enqueued, guard, pc, cur, private_queue,
                     private_work, local_ops>>
  BY Zenon DEF StartOp
<1>2. \A x : N(x)' = N(x)
  BY <1>1, Zenon DEF N, Places
<1>3. EntryOK'
  BY <1>0, <1>1, <1>2 DEF LedgerInv, EntryOK, One
<1>4. ThreadsOK'
  BY <1>1, Zenon DEF LedgerInv, ThreadsOK, ThreadOK
<1>5. PosterOK'
  BY <1>0, <1>1 DEF LedgerInv, PosterOK, Ops
<1>6. Balance'
  <2>1. /\ Cardinality(LiveOps)' = Cardinality(LiveOps)
                                    + One("pending" \in Live) - One(st[o] \in Live)
        /\ Cardinality(FiredTimers)' = Cardinality(FiredTimers)
             + One(o \in Timers /\ "pending" = "queued")
             - One(o \in Timers /\ st[o] = "queued")
    BY <1>0, <1>1, LiveStep, Zenon
  <2>2. /\ One("pending" \in Live) = 1 /\ One(st[o] \in Live) = 0
        /\ One(o \in Timers /\ "pending" = "queued") = 0
        /\ One(o \in Timers /\ st[o] = "queued") = 0
    BY <1>1, Zenon DEF One, Live
  <2>3. Units' = Units /\ Units \in Nat
    BY <1>0, <1>1, UnitsSame
  <2>4. CleaningUp' = CleaningUp /\ Guards' = Guards /\ Claimers' = Claimers
    BY <1>1, Zenon DEF CleaningUp, Guards, Claimers
  <2>5. outstanding_work + Units
        = Cardinality(LiveOps) + Cardinality(FiredTimers) + Cardinality(CleaningUp)
          + Cardinality(Guards) + Cardinality(Claimers)
    BY Zenon DEF LedgerInv, Balance
  <2>6. outstanding_work' + Units
        = Cardinality(LiveOps)' + Cardinality(FiredTimers)' + Cardinality(CleaningUp)
          + Cardinality(Guards) + Cardinality(Claimers)
    BY <1>0, <1>1, <2>1, <2>2, <2>3, <2>5, CountsNat
  <2> QED
    BY <2>3, <2>4, <2>6 DEF Balance
<1> QED
  BY <1>3, <1>4, <1>5, <1>6 DEF LedgerInv

\* The operation a thread executes has its one place there.
LEMMA ExecutedOnce ==
  ASSUME Counting, TypeInv, TypeInv', LedgerInv, NEW t \in Threads, NEW next, Moves(t, next),
         Alone(t), pc[t] = "handler"
  PROVE  /\ cur[t] \in Entries
         /\ N(cur[t]) = 1
         /\ cur[t] \in Ops => st[cur[t]] \in {"queued", "resumed"}
<1>1. cur[t] \in Entries
  BY Zenon DEF LedgerInv, ThreadsOK, ThreadOK, Entries
<1> DEFINE x == cur[t]
<1>2. /\ N(x) \in Nat /\ Count(x, completed_ops) \in Nat
      /\ Count(x, private_queue[t]) \in Nat /\ Count(x, local_ops[t]) \in Nat
      /\ N(x) >= Count(x, completed_ops) + Count(x, private_queue[t])
                  + Count(x, local_ops[t]) + One(pc[t] = "handler" /\ cur[t] = x)
  BY <1>1, NThread, Zenon
<1>3. One(pc[t] = "handler" /\ cur[t] = x) = 1
  BY Zenon DEF One
<1>4. N(x) >= 1
  BY <1>2, <1>3
<1>5. /\ x \in Ops => N(x) = One(st[x] \in {"queued", "resumed"})
      /\ x = Desc => N(x) = One(enqueued)
  BY Zenon DEF LedgerInv, EntryOK
<1> QED
  BY <1>1, <1>2, <1>4, <1>5 DEF One, Entries

\* A handler posts or returns, or a timer completes.
LEMMA LedgerHandlers ==
  ASSUME Counting, TypeInv, TypeInv', LedgerInv, NEW t \in Threads,
         \/ (\E o \in Posts : HandlerPost(t, o)) \/ HandlerReturn(t)
         \/ TimerComplete(t)
  PROVE  LedgerInv'

\* A handler's post(): a new entry, and a unit, of the thread.
<1>1. ASSUME NEW o \in Posts, HandlerPost(t, o) PROVE LedgerInv'
  <2> USE <1>1
  <2> USE DEF sharedVars, kernelVars, threadVars
  <2>0. /\ o \in Ops /\ o \notin Timers /\ o # Desc /\ DataOK /\ t \in Actors
        /\ t \notin Posters /\ st \in [Ops -> Statuses] /\ outstanding_work \in Int
        /\ private_queue \in [Threads -> Seq(Ops)] /\ private_work \in [Threads -> Nat]
    BY SortsAssumption, Zenon DEF Ops, TypeInv, DataOK, Actors
  <2>1. /\ pc[t] = "handler" /\ st[o] = "new" /\ st' = [st EXCEPT ![o] = "queued"]
        /\ UNCHANGED <<completed_ops, outstanding_work, enqueued, guard, pc, cur, local_ops>>
    BY Zenon DEF HandlerPost, UserCode
  <2>2. /\ private_queue' = [private_queue EXCEPT ![t] = Append(@, o)]
        /\ private_work' = [private_work EXCEPT ![t] = @ + 1]
    BY Zenon DEF HandlerPost
  <2>3. Moves(t, "handler")
    BY <2>1, Zenon DEF Moves, TypeInv, ControlOK
  <2>4. /\ private_queue'[t] = private_queue[t] \o <<o>>
        /\ private_work'[t] = private_work[t] + 1 /\ Alone(t)
    BY <2>0, <2>1, <2>2 DEF Alone
  <2>5. EntryOK'
    <3>1. ASSUME NEW x \in Entries PROVE N(x)' = N(x) + One(o = x)
      <4>1. /\ N(x) \in Nat /\ N(x)' \in Nat
            /\ Count(x, completed_ops) \in Nat /\ Count(x, private_queue[t]) \in Nat
            /\ Count(x, local_ops[t]) \in Nat
            /\ N(x)' + Count(x, completed_ops) + Count(x, private_queue[t])
                    + Count(x, local_ops[t]) + One(pc[t] = "handler" /\ cur[t] = x)
               = N(x) + Count(x, completed_ops') + Count(x, private_queue'[t])
                    + Count(x, local_ops'[t]) + One("handler" = "handler" /\ cur'[t] = x)
        BY <2>3, <2>4, NThread, Zenon
      <4>2. One(pc[t] = "handler" /\ cur[t] = x) = One("handler" = "handler" /\ cur'[t] = x)
            /\ One(pc[t] = "handler" /\ cur[t] = x) \in Nat
        BY <2>1, Zenon DEF One
      <4>3. Count(x, private_queue'[t]) = Count(x, private_queue[t]) + Count(x, <<o>>)
        <5>1. private_queue[t] \in Seq(Ops) /\ <<o>> \in Seq(Ops)
          BY <2>0
        <5> QED
          BY <2>4, <5>1, CountConcat, ZenonT(60)
      <4>4. Count(x, <<o>>) = One(o = x) /\ One(o = x) \in Nat
        BY CountSmall, Zenon DEF One
      <4> QED
        BY <2>1, <4>1, <4>2, <4>3, <4>4
    <3>2. N(o) = 0
      BY <2>0, <2>1, Zenon DEF LedgerInv, EntryOK, One
    <3>3. \A x \in Entries : x # o => N(x)' = N(x)
      <4> SUFFICES ASSUME NEW x \in Entries, x # o PROVE N(x)' = N(x)
        BY Zenon
      <4>1. N(x) \in Nat
        BY <2>3, <2>4, NThread, Zenon
      <4> QED
        BY <3>1, <4>1 DEF One
    <3>4. N(o)' = 1
      BY <2>0, <3>1, <3>2 DEF One, Entries
    <3> QED
      BY <2>0, <2>1, <3>3, <3>4, Zenon DEF LedgerInv, EntryOK, One, Entries
  <2>6. ThreadsOK'
    <3>1. ThreadOK(t)'
      <4>1. ThreadOK(t) /\ pc'[t] = "handler" /\ Len(private_queue[t]) \in Nat
        BY <2>0, <2>1 DEF LedgerInv, ThreadsOK
      <4>2. Len(private_queue'[t]) = Len(private_queue[t]) + 1
        BY <2>0, <2>4
      <4>3. One(pc[t] \in CleanPCs) = 0 /\ One(pc'[t] \in CleanPCs) = 0
        BY <2>1, <4>1, Zenon DEF One, CleanPCs
      <4>4. private_work'[t] <= Len(private_queue'[t]) + One(pc'[t] \in CleanPCs)
        BY <2>0, <2>4, <4>1, <4>2, <4>3 DEF ThreadOK
      <4> QED
        BY <2>1, <4>1, <4>4, Zenon DEF ThreadOK, SplicePCs
    <3> QED
      BY <2>0, <2>3, <2>4, <3>1, OthersKept, Zenon DEF LedgerInv
  <2>7. PosterOK'
    <3>1. \A q \in Posters : pc[q] \in HoldPCs => st'[cur[q]] = "posting"
      BY <2>0, <2>1, Zenon DEF LedgerInv, PosterOK, Ops
    <3> QED
      BY <2>0, <2>1, <2>3, <3>1, PostersKept, Zenon DEF LedgerInv
  <2>8. Balance'
    <3>1. /\ Cardinality(LiveOps)' = Cardinality(LiveOps)
                                      + One("queued" \in Live) - One(st[o] \in Live)
          /\ Cardinality(FiredTimers)' = Cardinality(FiredTimers)
               + One(o \in Timers /\ "queued" = "queued")
               - One(o \in Timers /\ st[o] = "queued")
      BY <2>0, <2>1, LiveStep, Zenon
    <3>2. /\ One("queued" \in Live) = 1 /\ One(st[o] \in Live) = 0
          /\ One(o \in Timers /\ "queued" = "queued") = 0
          /\ One(o \in Timers /\ st[o] = "queued") = 0
      BY <2>0, <2>1, Zenon DEF One, Live
    <3>3. /\ Cardinality(LiveOps)' = Cardinality(LiveOps) + 1
          /\ Cardinality(FiredTimers)' = Cardinality(FiredTimers) + 0
      BY <3>1, <3>2, CountsNat
    <3>4. outstanding_work' + private_work'[t] + One(pc[t] \in CleanPCs)
          = outstanding_work + private_work[t] + One("handler" \in CleanPCs) + 1 + 0
      BY <2>0, <2>1, <2>4 DEF One
    <3> QED
      BY <2>1, <2>3, <2>4, <3>3, <3>4, BalanceThread DEF LedgerInv
  <2> QED
    BY <2>5, <2>6, <2>7, <2>8 DEF LedgerInv
<1>2. CASE HandlerReturn(t)
  <2> USE <1>2
  <2> USE DEF sharedVars, kernelVars, threadVars
  <2>0. PICK o : o = cur[t]
    BY Zenon
  <2>1. /\ o = cur[t] /\ pc[t] = "handler" /\ o # Desc /\ ~TimerFired(o)
        /\ st' = [st EXCEPT ![o] = "done"] /\ pc' = [pc EXCEPT ![t] = "cleanup"]
        /\ UNCHANGED <<completed_ops, outstanding_work, enqueued, guard, cur, private_queue,
                       private_work, local_ops>>
    BY <2>0, Zenon DEF HandlerReturn, UserCode
  <2>2. /\ DataOK /\ t \in Actors /\ t \notin Posters /\ st \in [Ops -> Statuses]
        /\ outstanding_work \in Int /\ private_work[t] \in Nat
        /\ Len(private_queue[t]) \in Nat
    <3>1. /\ DataOK /\ t \in Actors /\ t \notin Posters /\ st \in [Ops -> Statuses]
          /\ outstanding_work \in Int /\ private_work[t] \in Nat
          /\ private_queue[t] \in Seq(Ops)
      BY SortsAssumption, Zenon DEF TypeInv, DataOK, Actors
    <3>2. Len(private_queue[t]) \in Nat
      BY <3>1
    <3> QED
      BY <3>1, <3>2, Zenon
  <2>3. Moves(t, "cleanup") /\ Alone(t)
    BY <2>1, Goto, Zenon DEF PCs, ThreadPCs, Actors, TypeInv, ControlOK, Alone
  <2>4. o \in Ops /\ N(o) = 1 /\ st[o] \in {"queued", "resumed"}
    BY <2>1, <2>3, ExecutedOnce, Zenon DEF Entries
  <2>5. EntryOK'
    <3>1. ASSUME NEW x \in Entries
          PROVE  N(x) \in Nat /\ N(x)' \in Nat /\ N(x)' + One(o = x) = N(x)
      <4>1. /\ N(x) \in Nat /\ N(x)' \in Nat
            /\ Count(x, completed_ops) \in Nat /\ Count(x, private_queue[t]) \in Nat
            /\ Count(x, local_ops[t]) \in Nat
            /\ N(x)' + Count(x, completed_ops) + Count(x, private_queue[t])
                    + Count(x, local_ops[t]) + One(pc[t] = "handler" /\ cur[t] = x)
               = N(x) + Count(x, completed_ops') + Count(x, private_queue'[t])
                    + Count(x, local_ops'[t]) + One("cleanup" = "handler" /\ cur'[t] = x)
        BY <2>3, NThread
      <4>2. One(pc[t] = "handler" /\ cur[t] = x) = One(o = x) /\ One(o = x) \in Nat
            /\ One("cleanup" = "handler" /\ cur'[t] = x) = 0
        BY <2>1, Zenon DEF One
      <4> QED
        BY <2>1, <4>1, <4>2
    <3>2. N(o)' = 0
      BY <2>4, <3>1 DEF One, Entries
    <3>3. \A x \in Entries : x # o => N(x)' = N(x)
      BY <3>1 DEF One
    <3> QED
      BY <2>1, <2>2, <2>4, <3>2, <3>3, Zenon
         DEF LedgerInv, EntryOK, One, Entries
  <2>6. One(pc[t] \in CleanPCs) = 0 /\ One("cleanup" \in CleanPCs) = 1
    BY <2>1, Zenon DEF One, CleanPCs
  <2>7. ThreadsOK'
    <3>1. ThreadOK(t)'
      <4>1. ThreadOK(t) /\ pc'[t] = "cleanup"
        BY <2>3, Zenon DEF LedgerInv, ThreadsOK, Moves
      <4>2. private_work'[t] <= Len(private_queue'[t]) + One(pc'[t] \in CleanPCs)
        BY <2>1, <2>2, <2>6, <4>1 DEF ThreadOK
      <4> QED
        BY <2>1, <4>1, <4>2 DEF ThreadOK, SplicePCs, LocalPCs
    <3> QED
      BY <2>2, <2>3, <3>1, OthersKept DEF LedgerInv
  <2>8. PosterOK'
    <3>1. \A q \in Posters : pc[q] \in HoldPCs => st'[cur[q]] = "posting"
      BY <2>1, <2>2, <2>4 DEF LedgerInv, PosterOK, Ops
    <3> QED
      BY <2>1, <2>2, <2>3, <3>1, PostersKept DEF LedgerInv
  <2>9. Balance'
    <3>1. /\ Cardinality(LiveOps)' = Cardinality(LiveOps)
                                      + One("done" \in Live) - One(st[o] \in Live)
          /\ Cardinality(FiredTimers)' = Cardinality(FiredTimers)
               + One(o \in Timers /\ "done" = "queued")
               - One(o \in Timers /\ st[o] = "queued")
      BY <2>1, <2>2, <2>4, LiveStep, Zenon
    <3>2. /\ One("done" \in Live) = 0 /\ One(st[o] \in Live) = 1
          /\ One(o \in Timers /\ "done" = "queued") = 0
          /\ One(o \in Timers /\ st[o] = "queued") = 0
      BY <2>1, <2>4, Zenon DEF One, Live, TimerFired
    <3>3. /\ Cardinality(LiveOps)' = Cardinality(LiveOps) + (-1)
          /\ Cardinality(FiredTimers)' = Cardinality(FiredTimers) + 0
      BY <3>1, <3>2, CountsNat
    <3>4. outstanding_work' + private_work'[t] + One(pc[t] \in CleanPCs)
          = outstanding_work + private_work[t] + One("cleanup" \in CleanPCs) + (-1) + 0
      BY <2>1, <2>2, <2>6
    <3> QED
      BY <2>1, <2>3, <3>3, <3>4, BalanceThread DEF LedgerInv
  <2> QED
    BY <2>5, <2>7, <2>8, <2>9, Zenon DEF LedgerInv

\* The wait's completion_op goes from the handler to the private queue.
<1>3. CASE TimerComplete(t)
  <2> USE <1>3
  <2> USE DEF sharedVars, kernelVars, threadVars
  <2>0. PICK o : o = cur[t]
    BY Zenon
  <2>1. /\ o = cur[t] /\ pc[t] = "handler" /\ o \in Timers /\ st[o] = "queued"
        /\ st' = [st EXCEPT ![o] = "resumed"]
        /\ outstanding_work' = outstanding_work - 1
        /\ UNCHANGED <<completed_ops, enqueued, guard, cur, local_ops>>
    BY <2>0, Zenon DEF TimerComplete, TimerFired, work_finished
  <2>2. /\ private_queue' = [private_queue EXCEPT ![t] = Append(@, o)]
        /\ private_work' = [private_work EXCEPT ![t] = @ + 1]
    BY <2>0, Zenon DEF TimerComplete
  <2>3. PICK next \in {"cleanup", "stop_handler"} : pc' = [pc EXCEPT ![t] = next]
    BY Zenon DEF TimerComplete, work_finished
  <2>4. /\ DataOK /\ t \in Actors /\ t \notin Posters /\ st \in [Ops -> Statuses]
        /\ outstanding_work \in Int /\ private_queue \in [Threads -> Seq(Ops)]
        /\ private_work \in [Threads -> Nat] /\ o \in Ops
    BY <2>1, SortsAssumption, Zenon DEF TypeInv, DataOK, Actors, Ops
  <2>5. Moves(t, next)
    BY <2>3, Goto, Zenon DEF PCs, ThreadPCs, Actors, TypeInv, ControlOK
  <2>6. /\ private_queue'[t] = private_queue[t] \o <<o>>
        /\ private_work'[t] = private_work[t] + 1 /\ Alone(t)
    BY <2>1, <2>2, <2>4 DEF Alone
  <2>7. EntryOK'
    <3>1. ASSUME NEW x \in Entries PROVE N(x)' = N(x)
      <4>1. /\ N(x) \in Nat /\ N(x)' \in Nat
            /\ Count(x, completed_ops) \in Nat /\ Count(x, private_queue[t]) \in Nat
            /\ Count(x, local_ops[t]) \in Nat
            /\ N(x)' + Count(x, completed_ops) + Count(x, private_queue[t])
                    + Count(x, local_ops[t]) + One(pc[t] = "handler" /\ cur[t] = x)
               = N(x) + Count(x, completed_ops') + Count(x, private_queue'[t])
                    + Count(x, local_ops'[t]) + One(next = "handler" /\ cur'[t] = x)
        BY <2>5, <2>6, NThread, Zenon
      <4>2. One(pc[t] = "handler" /\ cur[t] = x) = One(o = x) /\ One(o = x) \in Nat
            /\ One(next = "handler" /\ cur'[t] = x) = 0
        BY <2>1, Zenon DEF One
      <4>3. Count(x, private_queue'[t]) = Count(x, private_queue[t]) + Count(x, <<o>>)
        <5>1. private_queue[t] \in Seq(Ops) /\ <<o>> \in Seq(Ops)
          BY <2>4
        <5> QED
          BY <2>6, <5>1, CountConcat, ZenonT(60)
      <4>4. Count(x, <<o>>) = One(o = x)
        BY CountSmall
      <4>5. PICK n \in Nat, m \in Nat, c \in Nat, q \in Nat, l \in Nat, e \in Nat :
              /\ n = N(x) /\ m = N(x)' /\ c = Count(x, completed_ops)
              /\ q = Count(x, private_queue[t]) /\ l = Count(x, local_ops[t]) /\ e = One(o = x)
        BY <4>1, <4>2, Zenon
      <4>6. m + c + q + l + e = n + c + (q + e) + l + 0
        BY <2>1, <4>1, <4>2, <4>3, <4>4, <4>5, Zenon
      <4>7. m = n
        BY <4>6
      <4> QED
        BY <4>5, <4>7, Zenon
    <3> QED
      BY <2>1, <2>4, <3>1, Zenon DEF LedgerInv, EntryOK, One, Entries
  <2>8. One(pc[t] \in CleanPCs) = 0 /\ One(next \in CleanPCs) = 1
    BY <2>1, Zenon DEF One, CleanPCs
  <2>9. ThreadsOK'
    <3>1. ThreadOK(t)'
      <4>1. ThreadOK(t) /\ pc'[t] = next /\ Len(private_queue[t]) \in Nat
        BY <2>4, <2>5 DEF LedgerInv, ThreadsOK, Moves
      <4>2. Len(private_queue'[t]) = Len(private_queue[t]) + 1
        BY <2>4, <2>6
      <4>3. private_work'[t] <= Len(private_queue'[t]) + One(pc'[t] \in CleanPCs)
        BY <2>4, <2>6, <2>8, <4>1, <4>2 DEF ThreadOK
      <4> QED
        BY <2>1, <4>1, <4>3 DEF ThreadOK, SplicePCs, LocalPCs
    <3> QED
      BY <2>4, <2>5, <2>6, <3>1, OthersKept DEF LedgerInv
  <2>10. PosterOK'
    <3>1. \A q \in Posters : pc[q] \in HoldPCs => st'[cur[q]] = "posting"
      BY <2>1, <2>4, Zenon DEF LedgerInv, PosterOK, Ops
    <3> QED
      BY <2>1, <2>4, <2>5, <3>1, PostersKept, Zenon DEF LedgerInv
  <2>11. Balance'
    <3>1. /\ Cardinality(LiveOps)' = Cardinality(LiveOps)
                                      + One("resumed" \in Live) - One(st[o] \in Live)
          /\ Cardinality(FiredTimers)' = Cardinality(FiredTimers)
               + One(o \in Timers /\ "resumed" = "queued")
               - One(o \in Timers /\ st[o] = "queued")
      BY <2>1, <2>4, LiveStep, Zenon
    <3>2. /\ One("resumed" \in Live) = 1 /\ One(st[o] \in Live) = 1
          /\ One(o \in Timers /\ "resumed" = "queued") = 0
          /\ One(o \in Timers /\ st[o] = "queued") = 1
      BY <2>1, Zenon DEF One, Live
    <3>3. /\ Cardinality(LiveOps)' = Cardinality(LiveOps) + 0
          /\ Cardinality(FiredTimers)' = Cardinality(FiredTimers) + (-1)
      BY <3>1, <3>2, CountsNat
    <3>4. outstanding_work' + private_work'[t] + One(pc[t] \in CleanPCs)
          = outstanding_work + private_work[t] + One(next \in CleanPCs) + 0 + (-1)
      <4>1. PICK w \in Int, n \in Nat : w = outstanding_work /\ n = private_work[t]
        BY <2>4, Zenon
      <4>2. outstanding_work' = w - 1 /\ private_work'[t] = n + 1
        BY <2>1, <2>6, <4>1, Zenon
      <4>3. (w - 1) + (n + 1) + 0 = w + n + 1 + 0 + (-1)
        OBVIOUS
      <4> QED
        BY <2>8, <4>1, <4>2, <4>3, Zenon
    <3> QED
      BY <2>1, <2>5, <2>6, <3>3, <3>4, BalanceThread DEF LedgerInv
  <2> QED
    BY <2>7, <2>9, <2>10, <2>11 DEF LedgerInv
<1> QED BY <1>1, <1>2, <1>3, Zenon

\* A poster posts an operation, or claims one to cancel it.
LEMMA LedgerPosts ==
  ASSUME Counting, TypeInv, TypeInv', LedgerInv, NEW p \in Posters,
         \/ (\E o \in Posts : PostBegin(p, o)) \/ (\E o \in IoOps : CancelOp(p, o))
         \/ PostPush(p)
  PROVE  LedgerInv'

\* A poster takes an operation that no poster holds.
<1>1. ASSUME NEW o \in Posts \cup IoOps, NEW next \in HoldPCs, pc[p] = "idle",
             st[o] \in {"new", "pending"}, outstanding_work' = outstanding_work + 1,
             st' = [st EXCEPT ![o] = "posting"], cur' = [cur EXCEPT ![p] = o],
             pc' = [pc EXCEPT ![p] = next],
             UNCHANGED <<completed_ops, enqueued, guard, private_queue, private_work, local_ops>>,
             next \in ClaimPCs <=> st[o] = "pending"
      PROVE  LedgerInv'
  <2> USE <1>1
  <2>0. /\ o \in Ops /\ o \notin Timers /\ o # Desc /\ DataOK /\ p \in Actors
        /\ p \notin Threads /\ st \in [Ops -> Statuses] /\ outstanding_work \in Int
        /\ cur \in [Actors -> Ops \cup {Desc, None}] /\ pc \in [Actors -> PCs]
    BY SortsAssumption DEF Ops, TypeInv, DataOK, ControlOK, Actors
  <2>1. next \in PCs /\ next \in {"post", "post_claimed"}
    BY Zenon DEF HoldPCs, PCs, PosterPCs
  <2>2. Moves(p, next)
    BY <2>0, <2>1, Goto, Zenon
  <2>3. cur'[p] = o /\ \A a \in Actors \ {p} : cur'[a] = cur[a]
    BY <2>0, Zenon
  <2>4. \A u \in Threads : cur'[u] = cur[u]
    BY <2>0, <2>3, Zenon DEF Actors
  <2>5. EntryOK'
    <3>1. ASSUME NEW x \in Entries PROVE N(x)' = N(x)
      <4>1. /\ N(x) \in Nat /\ Count(x, completed_ops) \in Nat
            /\ N(x)' = N(x) + Count(x, completed_ops') - Count(x, completed_ops)
        BY <2>2, <2>4, NPoster
      <4> QED
        BY <4>1
    <3> QED
      BY <2>0, <3>1, Zenon DEF LedgerInv, EntryOK, One, Entries
  <2>6. ThreadsOK'
    <3>1. Alone(p)
      BY <2>4, Zenon DEF Alone
    <3> QED
      BY <2>0, <2>2, <3>1, OthersKept DEF LedgerInv
  <2>7. PosterOK'
    <3>1. \A q \in Posters \ {p} : pc'[q] = pc[q] /\ cur'[q] = cur[q]
      BY <2>0, <2>3, Zenon DEF Actors
    <3>2. \A q \in Posters \ {p} : pc[q] \in HoldPCs =>
            cur[q] \in Posts \cup IoOps /\ cur[q] # o /\ st'[cur[q]] = "posting"
      BY <2>0, Zenon DEF LedgerInv, PosterOK, Ops
    <3>3. st'[o] = "posting"
      BY <2>0, Zenon
    <3> QED
      BY <2>3, <3>1, <3>2, <3>3 DEF LedgerInv, PosterOK
  <2>8. Balance'
    <3> DEFINE dl == 1 - One(st[o] \in Live)
    <3>1. /\ Cardinality(LiveOps)' = Cardinality(LiveOps)
                                      + One("posting" \in Live) - One(st[o] \in Live)
          /\ Cardinality(FiredTimers)' = Cardinality(FiredTimers)
               + One(o \in Timers /\ "posting" = "queued")
               - One(o \in Timers /\ st[o] = "queued")
      BY <2>0, LiveStep, Zenon
    <3>2. /\ One("posting" \in Live) = 1 /\ One(st[o] \in Live) \in Nat
          /\ One(o \in Timers /\ "posting" = "queued") = 0
          /\ One(o \in Timers /\ st[o] = "queued") = 0
      BY <2>0, Zenon DEF One, Live
    <3>3. /\ Cardinality(LiveOps)' = Cardinality(LiveOps) + dl /\ dl \in Int
          /\ Cardinality(FiredTimers)' = Cardinality(FiredTimers)
      BY <3>1, <3>2, CountsNat
    <3>4. One(pc[p] \in ClaimPCs) = 0 /\ One(next \in ClaimPCs) = One(st[o] \in Live)
      BY Zenon DEF One, ClaimPCs, Live
    <3>5. outstanding_work' + One(guard[p]) + One(pc[p] \in ClaimPCs)
          = outstanding_work + One(guard'[p]) + One(next \in ClaimPCs) + dl
      <4>1. One(guard[p]) \in Nat
        BY Zenon DEF One
      <4> QED
        BY <2>0, <3>2, <3>4, <4>1
    <3> HIDE DEF dl
    <3> QED
      BY <2>2, <3>3, <3>5, BalancePoster, Zenon DEF LedgerInv
  <2> QED
    BY <2>5, <2>6, <2>7, <2>8 DEF LedgerInv
<1>2. ASSUME NEW o \in Posts, PostBegin(p, o) PROVE LedgerInv'
  <2> USE <1>2
  <2> USE DEF kernelVars, threadVars
  <2>1. "post" \in HoldPCs /\ "post" \notin ClaimPCs
    BY Zenon DEF HoldPCs, ClaimPCs
  <2>2. /\ pc[p] = "idle" /\ st[o] = "new" /\ outstanding_work' = outstanding_work + 1
        /\ st' = [st EXCEPT ![o] = "posting"] /\ cur' = [cur EXCEPT ![p] = o]
        /\ pc' = [pc EXCEPT ![p] = "post"]
        /\ UNCHANGED <<completed_ops, enqueued, guard, private_queue, private_work,
                       local_ops>>
    BY Zenon DEF PostBegin
  <2> QED
    BY <2>1, <2>2, <1>1, Zenon
<1>3. ASSUME NEW o \in IoOps, CancelOp(p, o) PROVE LedgerInv'
  <2> USE <1>3
  <2> USE DEF kernelVars, threadVars
  <2>1. "post_claimed" \in HoldPCs /\ "post_claimed" \in ClaimPCs
    BY Zenon DEF HoldPCs, ClaimPCs
  <2>2. /\ pc[p] = "idle" /\ st[o] = "pending" /\ outstanding_work' = outstanding_work + 1
        /\ st' = [st EXCEPT ![o] = "posting"] /\ cur' = [cur EXCEPT ![p] = o]
        /\ pc' = [pc EXCEPT ![p] = "post_claimed"]
        /\ UNCHANGED <<completed_ops, enqueued, guard, private_queue, private_work,
                       local_ops>>
    BY Zenon DEF CancelOp
  <2> QED
    BY <2>1, <2>2, <1>1, Zenon

\* The operation a poster holds goes to the shared queue.
<1>4. CASE PostPush(p)
  <2> USE <1>4
  <2> USE DEF sharedVars, kernelVars, threadVars
  <2>0. PICK o : o = cur[p]
    BY Zenon
  <2> DEFINE next == IF pc[p] = "post" THEN "idle" ELSE "finish"
  <2>1. /\ o = cur[p] /\ pc[p] \in HoldPCs /\ completed_ops' = Append(completed_ops, o)
        /\ st' = [st EXCEPT ![o] = "queued"] /\ cur' = [cur EXCEPT ![p] = None]
        /\ wake_one_thread_and_unlock(p, next)
        /\ UNCHANGED <<outstanding_work, enqueued, guard, private_queue, private_work,
                       local_ops>>
    BY <2>0, Zenon DEF PostPush, HoldPCs
  <2>2. /\ DataOK /\ p \in Actors /\ p \notin Threads /\ st \in [Ops -> Statuses]
        /\ outstanding_work \in Int /\ completed_ops \in Seq(Ops \cup {Task, Desc})
        /\ cur \in [Actors -> Ops \cup {Desc, None}] /\ pc \in [Actors -> PCs]
    BY SortsAssumption, Zenon DEF TypeInv, DataOK, ControlOK, Actors
  <2>3. o \in Posts \cup IoOps /\ st[o] = "posting"
    BY <2>1, Zenon DEF LedgerInv, PosterOK
  <2>4. o \in Ops /\ o \notin Timers /\ o # Desc
    BY <2>3, SortsAssumption, Zenon DEF Ops
  <2>5. next \in PCs /\ pc[p] # "parked"
    BY <2>1, Zenon DEF PCs, ThreadPCs, PosterPCs, HoldPCs
  <2>6. Moves(p, next)
    BY <2>1, <2>2, <2>5, GotoWake
  <2>7. \A a \in Actors \ {p} : cur'[a] = cur[a]
    BY <2>1, <2>2, Zenon
  <2>8. \A u \in Threads : cur'[u] = cur[u]
    BY <2>2, <2>7, Zenon DEF Actors
  <2>9. completed_ops' = completed_ops \o <<o>>
    BY <2>1, <2>2, <2>4
  <2>10. EntryOK'
    <3>1. ASSUME NEW x \in Entries
          PROVE  N(x) \in Nat /\ N(x)' = N(x) + One(o = x)
      <4>1. /\ N(x) \in Nat /\ Count(x, completed_ops) \in Nat
            /\ N(x)' = N(x) + Count(x, completed_ops') - Count(x, completed_ops)
        BY <2>1, <2>6, <2>8, NPoster, Zenon
      <4>2. Count(x, completed_ops') = Count(x, completed_ops) + Count(x, <<o>>)
        <5>1. <<o>> \in Seq(Ops \cup {Task, Desc})
          BY <2>4
        <5> QED
          BY <2>2, <2>9, <5>1, CountConcat, Zenon
      <4>3. Count(x, <<o>>) = One(o = x) /\ One(o = x) \in Nat
        BY CountSmall, Zenon DEF One
      <4> QED
        BY <4>1, <4>2, <4>3
    <3>2. N(o) = 0
      BY <2>3, <2>4, Zenon DEF LedgerInv, EntryOK, One
    <3>3. N(o)' = 1
      BY <2>4, <3>1, <3>2 DEF One, Entries
    <3>4. \A x \in Entries : x # o => N(x)' = N(x)
      BY <3>1 DEF One
    <3> QED
      BY <2>1, <2>2, <2>4, <3>3, <3>4, Zenon
         DEF LedgerInv, EntryOK, One, Entries
  <2>11. ThreadsOK'
    <3>1. Alone(p)
      BY <2>1, <2>8, Zenon DEF Alone
    <3> QED
      BY <2>2, <2>6, <3>1, OthersKept, Zenon DEF LedgerInv
  <2>12. PosterOK'
    <3>1. next \notin HoldPCs
      BY Zenon DEF HoldPCs
    <3>2. \A q \in Posters \ {p} : pc[q] \in HoldPCs => st'[cur[q]] = "posting"
      BY <2>1, <2>2, <2>4, Zenon DEF LedgerInv, PosterOK, Ops
    <3>3. \A q \in Posters \ {p} : cur'[q] = cur[q]
      BY <2>7, Zenon DEF Actors
    <3> QED
      BY <2>2, <2>6, <3>1, <3>2, <3>3, PostersKept DEF LedgerInv
  <2>13. Balance'
    <3>1. /\ Cardinality(LiveOps)' = Cardinality(LiveOps)
                                      + One("queued" \in Live) - One(st[o] \in Live)
          /\ Cardinality(FiredTimers)' = Cardinality(FiredTimers)
               + One(o \in Timers /\ "queued" = "queued")
               - One(o \in Timers /\ st[o] = "queued")
      BY <2>1, <2>2, <2>4, LiveStep, Zenon
    <3>2. /\ One("queued" \in Live) = 1 /\ One(st[o] \in Live) = 1
          /\ One(o \in Timers /\ "queued" = "queued") = 0
          /\ One(o \in Timers /\ st[o] = "queued") = 0
      BY <2>3, <2>4, Zenon DEF One, Live
    <3>3. /\ Cardinality(LiveOps)' = Cardinality(LiveOps) + 0
          /\ Cardinality(FiredTimers)' = Cardinality(FiredTimers)
      BY <3>1, <3>2, CountsNat
    <3>4. One(pc[p] \in ClaimPCs) = One(next \in ClaimPCs) /\ One(pc[p] \in ClaimPCs) \in Nat
          /\ One(guard[p]) \in Nat
      BY <2>1, Zenon DEF One, ClaimPCs, HoldPCs
    <3>5. outstanding_work' + One(guard[p]) + One(pc[p] \in ClaimPCs)
          = outstanding_work + One(guard'[p]) + One(next \in ClaimPCs) + 0
      BY <2>1, <2>2, <3>4
    <3> QED
      BY <2>1, <2>6, <3>3, <3>5, BalancePoster DEF LedgerInv
  <2> QED
    BY <2>10, <2>11, <2>12, <2>13, Zenon DEF LedgerInv
<1> QED BY <1>1, <1>2, <1>3, <1>4, Zenon

\* Expired waits are appended to the private queue with a unit each; the
\* descriptor goes to local_ops when this call sets is_enqueued_.
LEMMA LedgerPollReturn ==
  ASSUME Counting, TypeInv, TypeInv', LedgerInv, NEW t \in Threads, PollReturn(t)
  PROVE  LedgerInv'
<1> USE DEF sharedVars, kernelVars, threadVars
<1> DEFINE fired == {o \in kernel \cap Timers : st[o] = "pending"}
           io == kernel \cap IoOps
           next == IF wakefd THEN "disarm" ELSE "relock"
           k == Cardinality(fired)
           new == IF io # {} /\ ~enqueued THEN <<Desc>> ELSE <<>>
<1>1. /\ pc[t] \in {"poll", "poll_now"} /\ pc' = [pc EXCEPT ![t] = next]
      /\ enqueued' = (enqueued \/ io # {})
      /\ local_ops' = [local_ops EXCEPT ![t] = new]
      /\ private_work' = [private_work EXCEPT ![t] = @ + k]
      /\ st' = [o \in Ops |-> IF o \in fired THEN "queued" ELSE st[o]]
      /\ UNCHANGED <<completed_ops, outstanding_work, guard, cur>>
  BY Zenon DEF PollReturn
<1>2. PICK order \in Orders(fired) :
        private_queue' = [private_queue EXCEPT ![t] = @ \o order]
  BY Zenon DEF PollReturn
<1>3. fired \subseteq Ops /\ fired \subseteq Timers /\ \A o \in fired : st[o] = "pending"
  BY Zenon DEF Ops
<1>4. IsFiniteSet(fired) /\ k \in Nat
  BY <1>3, SortsAssumption, FiniteParts, Zenon
<1> HIDE DEF fired, io, k
<1>5. order \in Seq(fired) /\ order \in Seq(Ops) /\ Len(order) = k
  <2>1. order \in Seq(fired)
    BY <1>4, CountOrder, Zenon
  <2>2. order \in [1..k -> fired]
    BY Zenon DEF Orders, Bijection, Injection, k
  <2> QED
    BY <1>3, <1>4, <2>1, <2>2
<1>6. /\ DataOK /\ t \in Actors /\ t \notin Posters /\ st \in [Ops -> Statuses]
      /\ outstanding_work \in Int /\ private_queue \in [Threads -> Seq(Ops)]
      /\ private_work \in [Threads -> Nat] /\ local_ops \in [Threads -> Seq({Desc})]
      /\ enqueued \in BOOLEAN
  BY SortsAssumption, Zenon DEF TypeInv, DataOK, FlagsOK, Actors
<1>7. Moves(t, next)
  BY <1>1, Goto, Zenon DEF PCs, ThreadPCs, Actors, TypeInv, ControlOK
<1>8. /\ private_queue'[t] = private_queue[t] \o order
      /\ private_work'[t] = private_work[t] + k
      /\ local_ops'[t] = new /\ Alone(t)
  BY <1>1, <1>2, <1>6 DEF Alone
<1>9. local_ops[t] = <<>>
  BY <1>1, Zenon DEF LedgerInv, ThreadsOK, ThreadOK, LocalPCs
<1>10. EntryOK'
  <2>1. ASSUME NEW x \in Entries
        PROVE  N(x) \in Nat /\ N(x)' = N(x) + One(x \in fired) + Count(x, new)
    <3>1. /\ N(x) \in Nat /\ N(x)' \in Nat
          /\ Count(x, completed_ops) \in Nat /\ Count(x, private_queue[t]) \in Nat
          /\ Count(x, local_ops'[t]) \in Nat
          /\ N(x)' + Count(x, completed_ops) + Count(x, private_queue[t])
                  + Count(x, local_ops[t]) + One(pc[t] = "handler" /\ cur[t] = x)
             = N(x) + Count(x, completed_ops') + Count(x, private_queue'[t])
                  + Count(x, local_ops'[t]) + One(next = "handler" /\ cur'[t] = x)
      BY <1>7, <1>8, NThread, ZenonT(60)
    <3>2. One(pc[t] = "handler" /\ cur[t] = x) = 0
          /\ One(next = "handler" /\ cur'[t] = x) = 0
      BY <1>1, Zenon DEF One
    <3>3. Count(x, private_queue'[t]) = Count(x, private_queue[t]) + Count(x, order)
      <4>1. private_queue[t] \in Seq(Ops)
        BY <1>6, Zenon
      <4> QED
        BY <1>5, <1>8, <4>1, CountConcat
    <3>4. Count(x, order) = One(x \in fired) /\ One(x \in fired) \in Nat
      BY <1>4, CountOrder, Zenon DEF One
    <3>5. Count(x, local_ops[t]) = 0
      BY <1>9, CountSmall, Zenon
    <3>6. PICK n \in Nat, m \in Nat, c \in Nat, q \in Nat, l \in Nat, e \in Nat :
            /\ n = N(x) /\ m = N(x)' /\ c = Count(x, completed_ops)
            /\ q = Count(x, private_queue[t]) /\ l = Count(x, local_ops'[t])
            /\ e = One(x \in fired)
      BY <3>1, <3>4, Zenon
    <3>7. m + c + q + 0 + 0 = n + c + (q + e) + l + 0
      BY <1>1, <3>1, <3>2, <3>3, <3>4, <3>5, <3>6, Zenon
    <3>8. m = n + e + l
      BY <3>7
    <3> QED
      BY <1>8, <3>6, <3>8
  <2>2. ASSUME NEW o \in Ops PROVE N(o)' = One(st'[o] \in {"queued", "resumed"})
    <3>1. o \in Entries /\ o # Desc
      BY SortsAssumption, Zenon DEF Entries
    <3>2. Count(o, new) = 0
      BY <3>1, CountSmall, Zenon DEF One
    <3>3. N(o) = One(st[o] \in {"queued", "resumed"})
      BY Zenon DEF LedgerInv, EntryOK
    <3>4. st'[o] = IF o \in fired THEN "queued" ELSE st[o]
      BY <1>1, Zenon
    <3>5. N(o) \in Nat /\ N(o)' = N(o) + One(o \in fired) + 0
      BY <2>1, <3>1, <3>2
    <3>6. CASE o \in fired
      BY <1>3, <3>3, <3>4, <3>5, <3>6 DEF One
    <3>7. CASE o \notin fired
      BY <3>3, <3>4, <3>5, <3>7 DEF One
    <3> QED
      BY <3>6, <3>7
  <2>3. N(Desc)' = One(enqueued')
    <3>1. Desc \in Entries /\ Desc \notin fired
      BY <1>3, SortsAssumption, Zenon DEF Entries
    <3>2. Count(Desc, new) = One(io # {} /\ ~enqueued)
      BY CountSmall, Zenon DEF One
    <3>3. N(Desc) = One(enqueued)
      BY Zenon DEF LedgerInv, EntryOK
    <3>4. N(Desc) \in Nat /\ N(Desc)' = N(Desc) + One(Desc \in fired) + One(io # {} /\ ~enqueued)
      BY <2>1, <3>1, <3>2
    <3>5. One(Desc \in fired) = 0
      BY <3>1, Zenon DEF One
    <3>6. One(enqueued') = One(enqueued) + One(io # {} /\ ~enqueued)
      <4>1. CASE enqueued
        <5>1. enqueued' /\ ~(io # {} /\ ~enqueued)
          BY <1>1, <4>1, Zenon
        <5> QED
          BY <4>1, <5>1 DEF One
      <4>2. CASE ~enqueued /\ io = {}
        <5>1. ~enqueued' /\ ~(io # {} /\ ~enqueued)
          BY <1>1, <4>2, Zenon
        <5> QED
          BY <4>2, <5>1 DEF One
      <4>3. CASE ~enqueued /\ io # {}
        <5>1. enqueued' = TRUE
          BY <1>1, <4>3, Zenon
        <5> QED
          BY <4>3, <5>1 DEF One
      <4> QED
        BY <4>1, <4>2, <4>3, Zenon
    <3>7. One(io # {} /\ ~enqueued) \in Nat
      BY Zenon DEF One
    <3>8. N(Desc)' = N(Desc) + One(io # {} /\ ~enqueued)
      BY <3>4, <3>5, <3>7
    <3> QED
      BY <3>3, <3>6, <3>8, Zenon
  <2> QED
    BY <2>2, <2>3, Zenon DEF EntryOK
<1>11. One(pc[t] \in CleanPCs) = 0 /\ One(next \in CleanPCs) = 0
  BY <1>1, Zenon DEF One, CleanPCs
<1>12. ThreadsOK'
  <2>1. ThreadOK(t)'
    <3>1. ThreadOK(t) /\ pc'[t] = next /\ Len(private_queue[t]) \in Nat
      BY <1>6, <1>7 DEF LedgerInv, ThreadsOK, Moves
    <3>2. Len(private_queue'[t]) = Len(private_queue[t]) + k
      <4>1. private_queue[t] \in Seq(Ops)
        BY <1>6, Zenon
      <4>2. Len(private_queue[t] \o order) = Len(private_queue[t]) + Len(order)
        BY <1>5, <4>1
      <4> QED
        BY <1>5, <1>8, <4>2, Zenon
    <3>3. private_work'[t] <= Len(private_queue'[t]) + One(pc'[t] \in CleanPCs)
      BY <1>4, <1>6, <1>8, <1>11, <3>1, <3>2 DEF ThreadOK
    <3> QED
      BY <3>1, <3>3, Zenon DEF ThreadOK, SplicePCs, LocalPCs
  <2> QED
    BY <1>6, <1>7, <1>8, <2>1, OthersKept DEF LedgerInv
<1>13. PosterOK'
  <2>1. \A q \in Posters : pc[q] \in HoldPCs => st'[cur[q]] = "posting"
    BY <1>1, <1>3, Zenon DEF LedgerInv, PosterOK, Ops
  <2> QED
    BY <1>1, <1>6, <1>7, <2>1, PostersKept, Zenon DEF LedgerInv
<1>14. Balance'
  <2>1. LiveOps' = LiveOps
    BY <1>1, <1>3, <1>6, Zenon DEF LiveOps, Live
  <2>2. FiredTimers' = FiredTimers \cup fired /\ FiredTimers \cap fired = {}
    BY <1>1, <1>3, <1>6, Zenon DEF FiredTimers, Ops
  <2>3. Cardinality(FiredTimers \cup fired) = Cardinality(FiredTimers) + k
    BY <1>4, <2>2, CountsFinite, Disjoint, Zenon DEF k
  <2>4. /\ Cardinality(LiveOps)' = Cardinality(LiveOps) + 0
        /\ Cardinality(FiredTimers)' = Cardinality(FiredTimers) + k
    BY <2>1, <2>2, <2>3, CountsNat
  <2>5. outstanding_work' + private_work'[t] + One(pc[t] \in CleanPCs)
        = outstanding_work + private_work[t] + One(next \in CleanPCs) + 0 + k
    BY <1>1, <1>4, <1>6, <1>8, <1>11
  <2> QED
    BY <1>1, <1>4, <1>7, <1>8, <2>4, <2>5, BalanceThread DEF LedgerInv
<1> QED
  BY <1>10, <1>12, <1>13, <1>14, Zenon DEF LedgerInv

\* The descriptor's handler: it performs nothing, or some operations end.
LEMMA LedgerDescriptor ==
  ASSUME Counting, TypeInv, TypeInv', LedgerInv, NEW t \in Threads,
         InvokeDeferredIo(t)
  PROVE  LedgerInv'

\* Nothing to complete: the descriptor leaves its handler, and the unit that
\* ~work_cleanup() will take is compensated.
<1>1. ASSUME pc[t] = "handler", cur[t] = Desc, enqueued' = FALSE,
             private_work' = [private_work EXCEPT ![t] = @ + 1],
             pc' = [pc EXCEPT ![t] = "cleanup"],
             UNCHANGED <<completed_ops, outstanding_work, guard, st, cur, private_queue, local_ops>>
      PROVE  LedgerInv'
  <2> USE <1>1
  <2>1. /\ DataOK /\ t \in Actors /\ t \notin Posters /\ outstanding_work \in Int
        /\ private_work \in [Threads -> Nat] /\ Len(private_queue[t]) \in Nat
    BY SortsAssumption DEF TypeInv, DataOK, Actors
  <2>2. Moves(t, "cleanup")
    BY Goto, Zenon DEF PCs, ThreadPCs, Actors, TypeInv, ControlOK
  <2>3. private_work'[t] = private_work[t] + 1 /\ Alone(t) /\ private_work[t] \in Nat
    BY <2>1, Zenon DEF Alone
  <2>4. EntryOK'
    <3>1. ASSUME NEW x \in Entries
          PROVE  N(x) \in Nat /\ N(x)' \in Nat /\ N(x)' + One(Desc = x) = N(x)
      <4>1. /\ N(x) \in Nat /\ N(x)' \in Nat
            /\ Count(x, completed_ops) \in Nat /\ Count(x, private_queue[t]) \in Nat
            /\ Count(x, local_ops[t]) \in Nat
            /\ N(x)' + Count(x, completed_ops) + Count(x, private_queue[t])
                    + Count(x, local_ops[t]) + One(pc[t] = "handler" /\ cur[t] = x)
               = N(x) + Count(x, completed_ops') + Count(x, private_queue'[t])
                    + Count(x, local_ops'[t]) + One("cleanup" = "handler" /\ cur'[t] = x)
        <5> HIDE <1>1
        <5> QED
          BY <2>2, <2>3, NThread, Zenon
      <4>2. One(pc[t] = "handler" /\ cur[t] = x) = One(Desc = x) /\ One(Desc = x) \in Nat
            /\ One("cleanup" = "handler" /\ cur'[t] = x) = 0
        BY Zenon DEF One
      <4> QED
        BY <4>1, <4>2
    <3>2. N(Desc) = 1
      BY <2>2, <2>3, ExecutedOnce, Zenon
    <3>3. N(Desc)' = 0
      BY <3>1, <3>2 DEF One, Entries
    <3>4. \A x \in Entries : x # Desc => N(x)' = N(x)
      BY <3>1 DEF One
    <3> QED
      BY <3>3, <3>4, SortsAssumption DEF LedgerInv, EntryOK, One, Entries
  <2>5. One(pc[t] \in CleanPCs) = 0 /\ One("cleanup" \in CleanPCs) = 1
    BY Zenon DEF One, CleanPCs
  <2>6. ThreadsOK'
    <3>1. ThreadOK(t)'
      <4>1. ThreadOK(t) /\ pc'[t] = "cleanup"
        BY <2>2, Zenon DEF LedgerInv, ThreadsOK, Moves
      <4>2. private_work'[t] <= Len(private_queue'[t]) + One(pc'[t] \in CleanPCs)
        BY <2>1, <2>3, <2>5, <4>1 DEF ThreadOK
      <4> QED
        BY <4>1, <4>2, Zenon DEF ThreadOK, SplicePCs, LocalPCs
    <3> QED
      BY <2>1, <2>2, <2>3, <3>1, OthersKept, Zenon DEF LedgerInv
  <2>7. PosterOK'
    <3>1. \A q \in Posters : pc[q] \in HoldPCs => st'[cur[q]] = "posting"
      BY Zenon DEF LedgerInv, PosterOK
    <3> QED
      BY <2>1, <2>2, <3>1, PostersKept, Zenon DEF LedgerInv
  <2>8. Balance'
    <3>1. LiveOps' = LiveOps /\ FiredTimers' = FiredTimers
      BY Zenon DEF LiveOps, FiredTimers
    <3>2. /\ Cardinality(LiveOps)' = Cardinality(LiveOps) + 0
          /\ Cardinality(FiredTimers)' = Cardinality(FiredTimers) + 0
      BY <3>1, CountsNat
    <3>3. outstanding_work' + private_work'[t] + One(pc[t] \in CleanPCs)
          = outstanding_work + private_work[t] + One("cleanup" \in CleanPCs) + 0 + 0
      BY <2>1, <2>3, <2>5
    <3> QED
      BY <2>2, <2>3, <3>2, <3>3, BalanceThread DEF LedgerInv
  <2> QED
    BY <2>4, <2>6, <2>7, <2>8, Zenon DEF LedgerInv

\* Of the completed operations the first takes the descriptor's place in the
\* handler and the others are queued; their units were counted when they
\* started.
<1>2. ASSUME pc[t] = "handler", cur[t] = Desc, enqueued' = FALSE,
             NEW completed \in SUBSET IoOps, \A o \in completed : st[o] = "pending",
             completed # {},
             st' = [o \in Ops |-> IF o \in completed THEN "queued" ELSE st[o]],
             NEW order \in Orders(completed),
             cur' = [cur EXCEPT ![t] = Head(order)],
             private_queue' = [private_queue EXCEPT ![t] = @ \o Tail(order)],
             UNCHANGED <<completed_ops, outstanding_work, guard, pc, private_work, local_ops>>
      PROVE  LedgerInv'
  <2> USE <1>2
  <2>1. /\ DataOK /\ t \in Actors /\ t \notin Posters /\ outstanding_work \in Int
        /\ private_work \in [Threads -> Nat] /\ private_queue \in [Threads -> Seq(Ops)]
        /\ st \in [Ops -> Statuses] /\ cur \in [Actors -> Ops \cup {Desc, None}]
        /\ completed \subseteq Ops
    BY SortsAssumption, Zenon DEF TypeInv, DataOK, ControlOK, Actors, Ops
  <2>2. IsFiniteSet(completed)
    BY <2>1, SortsAssumption, FiniteParts, Zenon
  <2>3. order \in Seq(completed) /\ order # <<>>
    BY <2>2, CountOrder, Zenon
  <2>4. order \in Seq(Ops) /\ Tail(order) \in Seq(Ops) /\ Head(order) \in Ops
    BY <2>1, <2>3
  <2>5. Moves(t, "handler")
    BY Zenon DEF Moves, TypeInv, ControlOK
  <2>6. /\ private_queue'[t] = private_queue[t] \o Tail(order)
        /\ cur'[t] = Head(order) /\ \A p \in Posters : cur'[p] = cur[p]
        /\ Alone(t)
    BY <2>1, SortsAssumption, Zenon DEF Alone, Actors
  <2>7. EntryOK'
    <3>1. ASSUME NEW x \in Entries
          PROVE  /\ N(x) \in Nat /\ N(x)' \in Nat
                 /\ N(x)' + One(Desc = x) = N(x) + One(x \in completed)
      <4>1. /\ N(x) \in Nat /\ N(x)' \in Nat
            /\ Count(x, completed_ops) \in Nat /\ Count(x, private_queue[t]) \in Nat
            /\ Count(x, local_ops[t]) \in Nat
            /\ N(x)' + Count(x, completed_ops) + Count(x, private_queue[t])
                    + Count(x, local_ops[t]) + One(pc[t] = "handler" /\ cur[t] = x)
               = N(x) + Count(x, completed_ops') + Count(x, private_queue'[t])
                    + Count(x, local_ops'[t]) + One("handler" = "handler" /\ cur'[t] = x)
        <5> HIDE <1>2
        <5> QED
          BY <2>5, <2>6, NThread, Zenon
      <4>2. One(pc[t] = "handler" /\ cur[t] = x) = One(Desc = x) /\ One(Desc = x) \in Nat
            /\ One("handler" = "handler" /\ cur'[t] = x) = One(Head(order) = x)
            /\ One(Head(order) = x) \in Nat
        BY <2>6, Zenon DEF One
      <4>3. Count(x, private_queue'[t]) = Count(x, private_queue[t]) + Count(x, Tail(order))
            /\ Count(x, Tail(order)) \in Nat
        <5>1. private_queue[t] \in Seq(Ops)
          BY <2>1, Zenon
        <5>2. Count(x, private_queue[t] \o Tail(order))
              = Count(x, private_queue[t]) + Count(x, Tail(order))
          BY <2>4, <5>1, CountConcat, Zenon
        <5>3. Count(x, Tail(order)) \in Nat
          BY <2>4, CountNat, Zenon
        <5> QED
          BY <2>4, <2>6, <5>1, <5>2, <5>3, Zenon
      <4>4. Count(x, order) = One(Head(order) = x) + Count(x, Tail(order))
        BY <2>3, <2>4, CountHead
      <4>5. Count(x, order) = One(x \in completed)
        BY <2>2, CountOrder
      <4>6. PICK n \in Nat, m \in Nat, c \in Nat, q \in Nat, l \in Nat :
              /\ n = N(x) /\ m = N(x)' /\ c = Count(x, completed_ops)
              /\ q = Count(x, private_queue[t]) /\ l = Count(x, local_ops[t])
        BY <4>1, Zenon
      <4>7. PICK d \in Nat, h \in Nat, r \in Nat :
              d = One(Desc = x) /\ h = One(Head(order) = x) /\ r = Count(x, Tail(order))
        BY <4>2, <4>3
      <4>8. m + c + q + l + d = n + c + (q + r) + l + h
        BY <4>1, <4>2, <4>3, <4>6, <4>7, Zenon
      <4>9. m + d = n + (h + r)
        BY <4>8
      <4> QED
        BY <4>1, <4>4, <4>5, <4>6, <4>7, <4>9, Zenon
    <3>2. N(Desc) = 1
      BY <2>5, <2>6, ExecutedOnce
    <3>3. N(Desc)' = 0
      <4>1. Desc \notin completed /\ Desc \in Entries
        BY <2>1, SortsAssumption DEF Entries
      <4> QED
        BY <3>1, <3>2, <4>1 DEF One
    <3>4. ASSUME NEW o \in Ops PROVE N(o)' = One(st'[o] \in {"queued", "resumed"})
      <4>1. o \in Entries /\ o # Desc
        BY SortsAssumption, Zenon DEF Entries
      <4>2. N(o) = One(st[o] \in {"queued", "resumed"})
        BY Zenon DEF LedgerInv, EntryOK
      <4>3. st'[o] = IF o \in completed THEN "queued" ELSE st[o]
        BY Zenon
      <4>4. N(o) \in Nat /\ N(o)' = N(o) + One(o \in completed)
        BY <3>1, <4>1 DEF One
      <4>5. CASE o \in completed
        BY <4>2, <4>3, <4>4, <4>5 DEF One
      <4>6. CASE o \notin completed
        BY <4>2, <4>3, <4>4, <4>6 DEF One
      <4> QED
        BY <4>5, <4>6
    <3> QED
      BY <3>3, <3>4, Zenon DEF EntryOK, One
  <2>8. ThreadsOK'
    <3>1. ThreadOK(t)'
      <4>1. ThreadOK(t) /\ pc'[t] = "handler" /\ Len(private_queue[t]) \in Nat
            /\ Len(Tail(order)) \in Nat /\ private_work[t] \in Nat
        BY <2>1, <2>4 DEF LedgerInv, ThreadsOK
      <4>2. Len(private_queue'[t]) = Len(private_queue[t]) + Len(Tail(order))
        BY <2>1, <2>4, <2>6
      <4>3. One(pc[t] \in CleanPCs) = 0 /\ One(pc'[t] \in CleanPCs) = 0
        BY <4>1, Zenon DEF One, CleanPCs
      <4>4. private_work'[t] <= Len(private_queue'[t]) + One(pc'[t] \in CleanPCs)
        BY <4>1, <4>2, <4>3 DEF ThreadOK
      <4> QED
        BY <2>4, <2>6, <4>1, <4>4 DEF ThreadOK, SplicePCs
    <3> QED
      BY <2>1, <2>5, <2>6, <3>1, OthersKept DEF LedgerInv
  <2>9. PosterOK'
    <3>1. \A q \in Posters : pc[q] \in HoldPCs => st'[cur[q]] = "posting"
      BY <2>1, Zenon DEF LedgerInv, PosterOK, Ops
    <3> QED
      BY <2>1, <2>5, <2>6, <3>1, PostersKept DEF LedgerInv
  <2>10. Balance'
    <3>1. LiveOps' = LiveOps
      BY <2>1, Zenon DEF LiveOps, Live
    <3>2. FiredTimers' = FiredTimers
      BY <2>1, SortsAssumption, Zenon DEF FiredTimers, Ops
    <3>3. /\ Cardinality(LiveOps)' = Cardinality(LiveOps) + 0
          /\ Cardinality(FiredTimers)' = Cardinality(FiredTimers) + 0
      BY <3>1, <3>2, CountsNat
    <3>4. outstanding_work' + private_work'[t] + One(pc[t] \in CleanPCs)
          = outstanding_work + private_work[t] + One("handler" \in CleanPCs) + 0 + 0
      BY <2>1 DEF One
    <3> QED
      <4>1. Balance /\ guard' = guard
        BY Zenon DEF LedgerInv
      <4>2. 0 \in Int
        OBVIOUS
      <4> HIDE <1>2
      <4> QED
        BY <2>5, <2>6, <3>3, <3>4, <4>1, <4>2, BalanceThread, Zenon
  <2> QED
    BY <2>7, <2>8, <2>9, <2>10, Zenon DEF LedgerInv
<1>3. CASE InvokeDeferredIo(t)
  <2> USE <1>3
  <2> USE DEF sharedVars, kernelVars, threadVars
  <2> DEFINE completed == {o \in ready_events : st[o] = "pending"}
  <2>1. /\ pc[t] = "handler" /\ cur[t] = Desc /\ enqueued' = FALSE
        /\ st' = [o \in Ops |-> IF o \in completed THEN "queued" ELSE st[o]]
        /\ UNCHANGED <<completed_ops, outstanding_work, guard, local_ops>>
    BY Zenon DEF InvokeDeferredIo
  <2>2. completed \subseteq IoOps /\ \A o \in completed : st[o] = "pending"
    BY Zenon DEF TypeInv, DataOK
  <2>3. CASE completed = {}
    <3>1. /\ private_work' = [private_work EXCEPT ![t] = @ + 1]
          /\ pc' = [pc EXCEPT ![t] = "cleanup"] /\ UNCHANGED <<private_queue, cur>>
      BY <2>3, Zenon DEF InvokeDeferredIo
    <3>2. st' = st
      <4>1. st \in [Ops -> Statuses]
        BY Zenon DEF TypeInv, DataOK
      <4> HIDE DEF completed
      <4> QED
        BY <2>1, <2>3, <4>1, Zenon
    <3> QED
      BY <2>1, <3>1, <3>2, <1>1, Zenon
  <2>4. CASE completed # {}
    <3>1. PICK order \in Orders(completed) :
            /\ cur' = [cur EXCEPT ![t] = Head(order)]
            /\ private_queue' = [private_queue EXCEPT ![t] = @ \o Tail(order)]
            /\ UNCHANGED <<private_work, pc>>
      BY <2>4, Zenon DEF InvokeDeferredIo
    <3> HIDE DEF completed
    <3> QED
      BY <2>1, <2>2, <2>4, <3>1, <1>2, Zenon
  <2> QED
    BY <2>3, <2>4, Zenon
<1> QED BY <1>1, <1>2, <1>3, Zenon

\* Every step keeps the ledger.
LEMMA LedgerStep ==
  ASSUME Counting, TypeInv, TypeInv', LedgerInv, [Next]_vars
  PROVE  LedgerInv'
<1>1. ASSUME NEW t \in Threads, ThreadStep(t) PROVE LedgerInv'
  <2>1. t \in Actors
    BY Zenon DEF Actors
  <2> QED
    BY <1>1, <2>1, LedgerLoop, LedgerTurns, LedgerFlushes, LedgerHandlers,
       LedgerPollReturn, LedgerDescriptor, LedgerStop, Zenon
       DEF ThreadStep, TimedOut
<1>2. ASSUME NEW p \in Posters, PosterStep(p) PROVE LedgerInv'
  <2>1. p \in Actors
    BY Zenon DEF Actors
  <2> QED
    BY <1>2, <2>1, LedgerPosts, LedgerGuards, LedgerStop, Zenon DEF PosterStep
<1>3. ASSUME NEW p \in Posters, Restart(p) PROVE LedgerInv'
  BY <1>3, LedgerSame, Zenon DEF Restart, kernelVars, threadVars
<1>4. ASSUME NEW o \in IoOps \cup Timers, KernelReady(o) PROVE LedgerInv'
  BY <1>4, LedgerSame, Zenon DEF KernelReady, sharedVars, threadVars
<1>5. CASE UNCHANGED vars
  BY <1>5, LedgerSame, Zenon DEF vars, sharedVars, kernelVars, threadVars
<1> QED
  BY <1>1, <1>2, <1>3, <1>4, <1>5, LedgerLoop, LedgerHandlers, LedgerPosts,
     LedgerGuards, LedgerStartOp, Zenon DEF Next
=============================================================================
