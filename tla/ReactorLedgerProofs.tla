------------------------- MODULE ReactorLedgerProofs -------------------------
(***************************************************************************)
(* What a step of ReactorScheduler does to its ledger (LedgerInv), for any *)
(* number of threads, posters and operations: how it moves the entries and *)
(* the units of work, what it leaves alone, and the steps that start no    *)
(* operation and end none.                                                 *)
(*                                                                         *)
(* The lemmas take from finite sets and sequences only what Counting       *)
(* states; ReactorBalanceProofs proves Counting.                           *)
(***************************************************************************)
EXTENDS ReactorLedger, TLAPS

-----------------------------------------------------------------------------
(* What Counting says.                                                     *)

LEMMA CountNat ==
  ASSUME Counting, NEW A, NEW q \in Seq(A), NEW x
  PROVE  Count(x, q) \in Nat
BY Zenon DEF Counting, CountNatLaw

LEMMA CountConcat ==
  ASSUME Counting, NEW A, NEW s \in Seq(A), NEW u \in Seq(A), NEW x
  PROVE  Count(x, s \o u) = Count(x, s) + Count(x, u)
BY Zenon DEF Counting, CountConcatLaw

LEMMA CountSmall ==
  ASSUME Counting, NEW x, NEW y
  PROVE  Count(x, <<>>) = 0 /\ Count(x, <<y>>) = One(y = x)
BY ZenonT(60) DEF Counting, CountSmallLaw

LEMMA CountHead ==
  ASSUME Counting, NEW A, NEW q \in Seq(A), q # <<>>, NEW x
  PROVE  Count(x, q) = One(Head(q) = x) + Count(x, Tail(q))
<1>1. Head(q) \in A /\ Tail(q) \in Seq(A) /\ <<Head(q)>> \in Seq(A)
  OBVIOUS
<1>2. q = <<Head(q)>> \o Tail(q)
  OBVIOUS
<1>3. Count(x, <<Head(q)>> \o Tail(q)) = Count(x, <<Head(q)>>) + Count(x, Tail(q))
  BY <1>1, CountConcat, Zenon
<1>4. Count(x, q) = Count(x, <<Head(q)>> \o Tail(q))
  BY <1>2, Zenon
<1>5. Count(x, <<Head(q)>>) = One(Head(q) = x)
  BY CountSmall
<1> QED
  BY <1>3, <1>4, <1>5, Zenon

\* An enumeration of a set holds each of its elements once.
LEMMA CountOrder ==
  ASSUME Counting, NEW S, IsFiniteSet(S), NEW order \in Orders(S), NEW x
  PROVE  /\ order \in Seq(S) /\ (S # {} => order # <<>>)
         /\ Count(x, order) = One(x \in S)
BY Zenon DEF Counting, CountOrderLaw

LEMMA FiniteParts ==
  ASSUME Counting, NEW S, IsFiniteSet(S)
  PROVE  Cardinality(S) \in Nat /\ \A R \in SUBSET S : IsFiniteSet(R)
BY Zenon DEF Counting, SetLaws

LEMMA Disjoint ==
  ASSUME Counting, NEW S, NEW R, IsFiniteSet(S), IsFiniteSet(R), S \cap R = {}
  PROVE  Cardinality(S \cup R) = Cardinality(S) + Cardinality(R)
BY Zenon DEF Counting, SetLaws

\* A set that changes in one element at most.
LEMMA SetStep ==
  ASSUME Counting, NEW S, IsFiniteSet(S), NEW R, NEW x,
         \A y : y # x => (y \in R <=> y \in S)
  PROVE  /\ IsFiniteSet(R)
         /\ Cardinality(S) \in Nat /\ Cardinality(R) \in Nat
         /\ Cardinality(R) = Cardinality(S) + One(x \in R) - One(x \in S)
BY Zenon DEF Counting, SetLaws

LEMMA QueueTypes ==
  ASSUME NEW c, NEW pq, NEW lo, Queues(c, pq, lo), NEW u \in Threads
  PROVE  pq[u] \in Seq(Ops \cup {Task, Desc}) /\ lo[u] \in Seq(Ops \cup {Task, Desc})
<1>1. pq[u] \in Seq(Ops) /\ lo[u] \in Seq({Desc})
  BY Zenon DEF Queues
<1> QED
  BY <1>1

LEMMA PlacesCount ==
  ASSUME Counting, NEW x, x # None, NEW c, NEW pq, NEW lo, Queues(c, pq, lo),
         NEW at, NEW e
  PROVE  /\ SharedSplit(x, c, pq, lo, at, e)
         /\ \A t \in Threads : ThreadSplit(x, c, pq, lo, at, e, t)
BY Zenon DEF Counting, PlaceLaws

-----------------------------------------------------------------------------
(* How a step moves an entry.                                              *)

LEMMA NVars ==
  ASSUME NEW x
  PROVE  /\ N(x) = Cardinality(PlacesOf({x}, completed_ops, private_queue, local_ops, pc, cur))
         /\ N(x)' = Cardinality(PlacesOf({x}, completed_ops', private_queue', local_ops', pc', cur'))
BY Zenon DEF N, Places, PlacesOf

LEMMA Shift ==
  ASSUME Counting, DataOK, DataOK', NEW t \in Threads, NEW x, x # None, Apart(t)
  PROVE  /\ N(x) \in Nat /\ N(x)' \in Nat
         /\ Here(t, x) \in Nat /\ Here(t, x)' \in Nat
         /\ N(x) >= Here(t, x)
         /\ N(x)' = N(x) + Here(t, x)' - Here(t, x)
<1> DEFINE R == Elsewhere(Threads \ {t}, x, private_queue, local_ops, pc, cur)
           S == Elsewhere(Threads \ {t}, x, private_queue', local_ops', pc', cur')
<1>1. Queues(completed_ops, private_queue, local_ops)
  BY Zenon DEF DataOK, Queues
<1>2. Queues(completed_ops', private_queue', local_ops')
  BY Zenon DEF DataOK, Queues
<1>3. \A u \in Threads \ {t} :
        OwnOf(u, x, private_queue', local_ops', pc', cur')
          = OwnOf(u, x, private_queue, local_ops, pc, cur)
  BY Zenon DEF Apart, Exec, OwnOf, Executing
<1>4. S = R
  BY <1>3, Zenon DEF Elsewhere
<1>5. /\ Cardinality(R) \in Nat
      /\ N(x) = Here(t, x) + Cardinality(R)
  <2>1. /\ Cardinality(R) \in Nat
        /\ Cardinality(PlacesOf({x}, completed_ops, private_queue, local_ops, pc, cur))
           = Count(x, completed_ops) + Count(x, private_queue[t]) + Count(x, local_ops[t])
             + One(Executing(pc[t], cur[t]) = x) + Cardinality(R)
    <3>1. ThreadSplit(x, completed_ops, private_queue, local_ops, pc, cur, t)
      BY <1>1, PlacesCount, Zenon
    <3> QED
      BY <3>1, Zenon DEF ThreadSplit
  <2>2. Here(t, x) = Count(x, completed_ops) + Count(x, private_queue[t]) + Count(x, local_ops[t])
                    + One(Executing(pc[t], cur[t]) = x)
    BY Zenon DEF Here, Exec, Executing
  <2> HIDE DEF R
  <2> QED
    BY <2>1, <2>2, NVars, Zenon
<1>6. N(x)' = Here(t, x)' + Cardinality(S)
  <2>1. /\ Cardinality(S) \in Nat
        /\ Cardinality(PlacesOf({x}, completed_ops', private_queue', local_ops', pc', cur'))
           = Count(x, completed_ops') + Count(x, private_queue'[t]) + Count(x, local_ops'[t])
             + One(Executing(pc'[t], cur'[t]) = x) + Cardinality(S)
    <3>1. ThreadSplit(x, completed_ops', private_queue', local_ops', pc', cur', t)
      BY <1>2, PlacesCount, Zenon
    <3> QED
      BY <3>1, Zenon DEF ThreadSplit
  <2>2. Here(t, x)' = Count(x, completed_ops') + Count(x, private_queue'[t]) + Count(x, local_ops'[t])
                    + One(Executing(pc'[t], cur'[t]) = x)
    BY Zenon DEF Here, Exec, Executing
  <2> HIDE DEF S
  <2> QED
    BY <2>1, <2>2, NVars, Zenon
<1>7. Here(t, x) \in Nat
  <2>1. /\ completed_ops \in Seq(Ops \cup {Task, Desc})
        /\ private_queue[t] \in Seq(Ops \cup {Task, Desc})
        /\ local_ops[t] \in Seq(Ops \cup {Task, Desc})
    BY <1>1, QueueTypes, Zenon DEF Queues
  <2>2. Count(x, completed_ops) \in Nat /\ Count(x, private_queue[t]) \in Nat /\ Count(x, local_ops[t]) \in Nat
    BY <2>1, CountNat, Zenon
  <2>3. One(Exec(t) = x) \in Nat
    BY Zenon DEF One
  <2> QED
    BY <2>2, <2>3 DEF Here
<1>8. Here(t, x)' \in Nat
  <2>1. /\ completed_ops' \in Seq(Ops \cup {Task, Desc})
        /\ private_queue'[t] \in Seq(Ops \cup {Task, Desc})
        /\ local_ops'[t] \in Seq(Ops \cup {Task, Desc})
    BY <1>2, QueueTypes, Zenon DEF Queues
  <2>2. Count(x, completed_ops') \in Nat /\ Count(x, private_queue'[t]) \in Nat /\ Count(x, local_ops'[t]) \in Nat
    BY <2>1, CountNat, Zenon
  <2>3. One(Exec(t) = x)' \in Nat
    BY Zenon DEF One
  <2> QED
    BY <2>2, <2>3 DEF Here
<1> HIDE DEF R, S
<1> QED
  BY <1>4, <1>5, <1>6, <1>7, <1>8

\* A step that leaves every thread alone moves x only in the shared queue.
LEMMA ShiftShared ==
  ASSUME Counting, DataOK, DataOK', NEW x, x # None,
         private_queue' = private_queue, local_ops' = local_ops,
         \A u \in Threads : Exec(u)' = Exec(u)
  PROVE  /\ N(x) \in Nat /\ N(x)' \in Nat
         /\ Count(x, completed_ops) \in Nat /\ Count(x, completed_ops') \in Nat
         /\ N(x)' = N(x) + Count(x, completed_ops') - Count(x, completed_ops)
<1> DEFINE R == Elsewhere(Threads, x, private_queue, local_ops, pc, cur)
           S == Elsewhere(Threads, x, private_queue', local_ops', pc', cur')
<1>1. Queues(completed_ops, private_queue, local_ops)
  BY Zenon DEF DataOK, Queues
<1>2. Queues(completed_ops', private_queue', local_ops')
  BY Zenon DEF DataOK, Queues
<1>3. \A u \in Threads :
        OwnOf(u, x, private_queue', local_ops', pc', cur')
          = OwnOf(u, x, private_queue, local_ops, pc, cur)
  BY Zenon DEF Exec, OwnOf, Executing
<1>4. S = R
  BY <1>3, Zenon DEF Elsewhere
<1>5. N(x) = Count(x, completed_ops) + Cardinality(R) /\ Cardinality(R) \in Nat
  <2>1. /\ Cardinality(R) \in Nat
        /\ Cardinality(PlacesOf({x}, completed_ops, private_queue, local_ops, pc, cur))
           = Count(x, completed_ops) + Cardinality(R)
    <3>1. SharedSplit(x, completed_ops, private_queue, local_ops, pc, cur)
      BY <1>1, PlacesCount, Zenon
    <3> QED
      BY <3>1, Zenon DEF SharedSplit
  <2> HIDE DEF R
  <2> QED
    BY <2>1, NVars, Zenon
<1>6. N(x)' = Count(x, completed_ops') + Cardinality(S)
  <2>1. /\ Cardinality(S) \in Nat
        /\ Cardinality(PlacesOf({x}, completed_ops', private_queue', local_ops', pc', cur'))
           = Count(x, completed_ops') + Cardinality(S)
    <3>1. SharedSplit(x, completed_ops', private_queue', local_ops', pc', cur')
      BY <1>2, PlacesCount, Zenon
    <3> QED
      BY <3>1, Zenon DEF SharedSplit
  <2> HIDE DEF S
  <2> QED
    BY <2>1, NVars, Zenon
<1>7. Count(x, completed_ops) \in Nat /\ Count(x, completed_ops') \in Nat
  BY <1>1, <1>2, CountNat, Zenon DEF Queues
<1> HIDE DEF R, S
<1> QED
  BY <1>4, <1>5, <1>6, <1>7

-----------------------------------------------------------------------------
(* How a step changes the counts of the ledger.                            *)

LEMMA UnitsStep ==
  ASSUME Counting, DataOK, DataOK', NEW t \in Threads,
         \A u \in Threads \ {t} : private_work'[u] = private_work[u]
  PROVE  /\ Units \in Nat /\ Units' \in Nat
         /\ Units' = Units + private_work'[t] - private_work[t]
<1>1. /\ private_work \in [Threads -> Nat] /\ private_work' \in [Threads -> Nat]
  BY Zenon DEF DataOK
<1>2. UnitsIn(Threads \ {t}, private_work') = UnitsIn(Threads \ {t}, private_work)
  BY Zenon DEF UnitsIn
<1>3. /\ Units = private_work[t] + Cardinality(UnitsIn(Threads \ {t}, private_work))
      /\ Units' = private_work'[t] + Cardinality(UnitsIn(Threads \ {t}, private_work'))
  BY <1>1, Zenon DEF Counting, UnitLaws, Units, PrivateUnits
<1>4. Cardinality(UnitsIn(Threads \ {t}, private_work)) \in Nat
  BY <1>1, Zenon DEF Counting, UnitLaws
<1>5. private_work[t] \in Nat /\ private_work'[t] \in Nat
  BY <1>1, Zenon
<1> QED
  BY <1>2, <1>3, <1>4, <1>5

LEMMA UnitsSame ==
  ASSUME Counting, DataOK, private_work' = private_work
  PROVE  Units' = Units /\ Units \in Nat
BY Zenon DEF DataOK, Counting, UnitLaws, Units, PrivateUnits

LEMMA NThread ==
  ASSUME Counting, TypeInv, TypeInv', NEW t \in Threads, NEW next, Moves(t, next), Alone(t),
         NEW x \in Entries
  PROVE  /\ N(x) \in Nat /\ N(x)' \in Nat
         /\ Count(x, completed_ops) \in Nat /\ Count(x, completed_ops') \in Nat
         /\ Count(x, private_queue[t]) \in Nat /\ Count(x, private_queue'[t]) \in Nat
         /\ Count(x, local_ops[t]) \in Nat /\ Count(x, local_ops'[t]) \in Nat
         /\ N(x) >= Count(x, completed_ops) + Count(x, private_queue[t])
                     + Count(x, local_ops[t])
                     + One(pc[t] = "handler" /\ cur[t] = x)
         /\ N(x)' + Count(x, completed_ops) + Count(x, private_queue[t])
                  + Count(x, local_ops[t]) + One(pc[t] = "handler" /\ cur[t] = x)
            = N(x) + Count(x, completed_ops') + Count(x, private_queue'[t])
                  + Count(x, local_ops'[t]) + One(next = "handler" /\ cur'[t] = x)
<1>1. DataOK /\ DataOK' /\ x # None
  BY SortsAssumption, Zenon DEF TypeInv, Entries
<1>2. Apart(t)
  BY Zenon DEF Apart, Alone, Moves, Exec, Actors
<1>3. /\ N(x) \in Nat /\ N(x)' \in Nat
      /\ Here(t, x) \in Nat /\ Here(t, x)' \in Nat
      /\ N(x) >= Here(t, x)
      /\ N(x)' = N(x) + Here(t, x)' - Here(t, x)
  BY <1>1, <1>2, Shift, Zenon
<1>4. One(Exec(t) = x) = One(pc[t] = "handler" /\ cur[t] = x)
  BY <1>1, Zenon DEF Exec, One
<1>5. One(Exec(t) = x)' = One(next = "handler" /\ cur'[t] = x)
  BY <1>1, Zenon DEF Exec, One, Moves
<1>6. /\ Queues(completed_ops, private_queue, local_ops)
      /\ Queues(completed_ops', private_queue', local_ops')
  BY <1>1, Zenon DEF DataOK, Queues
<1>7. /\ Count(x, completed_ops) \in Nat /\ Count(x, completed_ops') \in Nat
      /\ Count(x, private_queue[t]) \in Nat /\ Count(x, private_queue'[t]) \in Nat
      /\ Count(x, local_ops[t]) \in Nat /\ Count(x, local_ops'[t]) \in Nat
  BY <1>6, QueueTypes, CountNat, Zenon DEF Queues
<1>8. /\ Here(t, x) = Count(x, completed_ops) + Count(x, private_queue[t])
            + Count(x, local_ops[t]) + One(pc[t] = "handler" /\ cur[t] = x)
      /\ Here(t, x)' = Count(x, completed_ops') + Count(x, private_queue'[t])
            + Count(x, local_ops'[t]) + One(next = "handler" /\ cur'[t] = x)
  BY <1>4, <1>5, Zenon DEF Here
<1>9. /\ One(pc[t] = "handler" /\ cur[t] = x) \in Nat
      /\ One(next = "handler" /\ cur'[t] = x) \in Nat
  BY Zenon DEF One
<1> QED
  BY <1>3, <1>7, <1>8, <1>9

LEMMA NPoster ==
  ASSUME Counting, TypeInv, TypeInv', NEW p \in Posters, NEW next, Moves(p, next),
         UNCHANGED <<private_queue, local_ops>>, \A u \in Threads : cur'[u] = cur[u],
         NEW x \in Entries
  PROVE  /\ N(x) \in Nat /\ N(x)' \in Nat
         /\ Count(x, completed_ops) \in Nat /\ Count(x, completed_ops') \in Nat
         /\ N(x)' = N(x) + Count(x, completed_ops') - Count(x, completed_ops)
<1>1. DataOK /\ DataOK' /\ x # None
  BY SortsAssumption, Zenon DEF TypeInv, Entries
<1>2. \A u \in Threads : Exec(u)' = Exec(u)
  BY SortsAssumption, Zenon DEF Moves, Exec, Actors
<1> QED
  BY <1>1, <1>2, ShiftShared, Zenon

LEMMA EntryKept ==
  ASSUME EntryOK, \A x \in Entries : N(x)' = N(x), UNCHANGED <<st, enqueued>>
  PROVE  EntryOK'
BY Zenon DEF EntryOK, Entries

LEMMA OthersKept ==
  ASSUME ThreadsOK, NEW a \in Actors, NEW next, Moves(a, next), Alone(a),
         a \in Threads => ThreadOK(a)'
  PROVE  ThreadsOK'
<1>1. ASSUME NEW u \in Threads \ {a} PROVE ThreadOK(u)'
  <2>1. pc'[u] = pc[u] \/ (pc[u] = "parked" /\ pc'[u] = "woken")
    BY Zenon DEF Moves, Actors
  <2>2. One(pc[u] \in CleanPCs)' = One(pc[u] \in CleanPCs)
    BY <2>1, Zenon DEF One, CleanPCs
  <2> QED
    BY <2>1, <2>2, Zenon DEF ThreadsOK, ThreadOK, Alone, LocalPCs, SplicePCs
<1> QED
  BY <1>1, Zenon DEF ThreadsOK

LEMMA PostersKept ==
  ASSUME PosterOK, NEW a \in Actors, NEW next, Moves(a, next),
         a \in Posters => next \notin HoldPCs,
         \A q \in Posters \ {a} : cur'[q] = cur[q],
         \A q \in Posters \ {a} : pc[q] \in HoldPCs => st'[cur[q]] = "posting"
  PROVE  PosterOK'
<1>1. \A q \in Posters : pc'[q] \in HoldPCs => q # a /\ pc'[q] = pc[q] /\ cur'[q] = cur[q]
  BY SortsAssumption, Zenon DEF Moves, Actors, HoldPCs
<1> QED
  BY <1>1, Zenon DEF PosterOK

LEMMA CountsFinite ==
  ASSUME Counting
  PROVE  /\ IsFiniteSet(LiveOps) /\ IsFiniteSet(FiredTimers) /\ IsFiniteSet(CleaningUp)
         /\ IsFiniteSet(Guards) /\ IsFiniteSet(Claimers)
<1>1. LiveOps \subseteq Ops /\ FiredTimers \subseteq Ops
  BY Zenon DEF LiveOps, FiredTimers, Ops
<1>2. CleaningUp \subseteq Threads /\ Guards \subseteq Posters /\ Claimers \subseteq Posters
  BY Zenon DEF CleaningUp, Guards, Claimers
<1> QED
  BY <1>1, <1>2, SortsAssumption, FiniteParts, Zenon

LEMMA CountsNat ==
  ASSUME Counting
  PROVE  /\ Cardinality(LiveOps) \in Nat /\ Cardinality(FiredTimers) \in Nat
         /\ Cardinality(CleaningUp) \in Nat /\ Cardinality(Guards) \in Nat
         /\ Cardinality(Claimers) \in Nat
BY CountsFinite, FiniteParts, Zenon

LEMMA LiveStep ==
  ASSUME Counting, DataOK, NEW o \in Ops, NEW s, st' = [st EXCEPT ![o] = s]
  PROVE  /\ Cardinality(LiveOps)' = Cardinality(LiveOps)
                                     + One(s \in Live) - One(st[o] \in Live)
         /\ Cardinality(FiredTimers)' = Cardinality(FiredTimers)
              + One(o \in Timers /\ s = "queued") - One(o \in Timers /\ st[o] = "queued")
<1>0. st \in [Ops -> Statuses]
  BY Zenon DEF DataOK
<1>1. \A y : y # o => (y \in LiveOps' <=> y \in LiveOps)
  BY <1>0, Zenon DEF LiveOps
<1>2. (o \in LiveOps' <=> s \in Live) /\ (o \in LiveOps <=> st[o] \in Live)
  BY <1>0, Zenon DEF LiveOps
<1>3. \A y : y # o => (y \in FiredTimers' <=> y \in FiredTimers)
  BY <1>0, Zenon DEF FiredTimers, Ops
<1>4. /\ o \in FiredTimers' <=> (o \in Timers /\ s = "queued")
      /\ o \in FiredTimers <=> (o \in Timers /\ st[o] = "queued")
  BY <1>0, Zenon DEF FiredTimers
<1>5. Cardinality(LiveOps') = Cardinality(LiveOps) + One(o \in LiveOps') - One(o \in LiveOps)
  BY <1>1, CountsFinite, SetStep, Zenon
<1>6. Cardinality(FiredTimers') = Cardinality(FiredTimers)
                                   + One(o \in FiredTimers') - One(o \in FiredTimers)
  BY <1>3, CountsFinite, SetStep, Zenon
<1>7. One(o \in LiveOps') = One(s \in Live) /\ One(o \in LiveOps) = One(st[o] \in Live)
  BY <1>2, Zenon DEF One
<1>8. /\ One(o \in FiredTimers') = One(o \in Timers /\ s = "queued")
      /\ One(o \in FiredTimers) = One(o \in Timers /\ st[o] = "queued")
  BY <1>4, Zenon DEF One
<1> QED
  BY <1>5, <1>6, <1>7, <1>8, Zenon

LEMMA BalanceThread ==
  ASSUME Counting, TypeInv, TypeInv', Balance, NEW t \in Threads, NEW next, Moves(t, next),
         Alone(t), guard' = guard, NEW dl \in Int, NEW df \in Int,
         Cardinality(LiveOps)' = Cardinality(LiveOps) + dl,
         Cardinality(FiredTimers)' = Cardinality(FiredTimers) + df,
         outstanding_work' + private_work'[t] + One(pc[t] \in CleanPCs)
         = outstanding_work + private_work[t] + One(next \in CleanPCs) + dl + df
  PROVE  Balance'
<1>1. DataOK /\ DataOK' /\ \A u \in Threads \ {t} : private_work'[u] = private_work[u]
  BY Zenon DEF TypeInv, Alone
<1>2. /\ Units \in Nat /\ Units' \in Nat
      /\ Units' = Units + private_work'[t] - private_work[t]
  BY <1>1, UnitsStep, Zenon
<1>3. \A y : y # t => (y \in CleaningUp' <=> y \in CleaningUp)
  BY Zenon DEF CleaningUp, Moves, Actors
<1>4. (t \in CleaningUp' <=> next \in CleanPCs) /\ (t \in CleaningUp <=> pc[t] \in CleanPCs)
  BY Zenon DEF CleaningUp, CleanPCs, Moves
<1>5. Cardinality(CleaningUp') = Cardinality(CleaningUp)
                                  + One(t \in CleaningUp') - One(t \in CleaningUp)
  BY <1>3, CountsFinite, SetStep, Zenon
<1>6. /\ One(t \in CleaningUp') = One(next \in CleanPCs)
      /\ One(t \in CleaningUp) = One(pc[t] \in CleanPCs)
      /\ One(next \in CleanPCs) \in Nat /\ One(pc[t] \in CleanPCs) \in Nat
  BY <1>4, Zenon DEF One
<1>7. Guards' = Guards /\ Claimers' = Claimers
  BY SortsAssumption, Zenon DEF Guards, Claimers, Moves, Actors
<1>8. /\ private_work[t] \in Nat /\ private_work'[t] \in Nat
      /\ outstanding_work \in Int /\ outstanding_work' \in Int
  BY <1>1, Zenon DEF DataOK
<1>9. outstanding_work + Units
       = Cardinality(LiveOps) + Cardinality(FiredTimers) + Cardinality(CleaningUp)
         + Cardinality(Guards) + Cardinality(Claimers)
  BY Zenon DEF Balance
<1>10. outstanding_work' + Units'
       = Cardinality(LiveOps)' + Cardinality(FiredTimers)' + Cardinality(CleaningUp')
         + Cardinality(Guards) + Cardinality(Claimers)
  <2> DEFINE ll == Cardinality(LiveOps)    ff == Cardinality(FiredTimers)
             cc == Cardinality(CleaningUp) gg == Cardinality(Guards)
             pp == Cardinality(Claimers)
             b == One(pc[t] \in CleanPCs)   d == One(next \in CleanPCs)
  <2>1. ll \in Nat /\ ff \in Nat /\ cc \in Nat /\ gg \in Nat /\ pp \in Nat
    BY CountsNat, Zenon
  <2>2. Cardinality(CleaningUp') = cc + d - b
    BY <1>5, <1>6, Zenon
  <2>3. b \in Nat /\ d \in Nat
    BY <1>6, Zenon
  <2>4. outstanding_work' + private_work'[t] + b = outstanding_work + private_work[t] + d + dl + df
    BY Zenon
  <2>5. outstanding_work + Units = ll + ff + cc + gg + pp
    BY <1>9, Zenon
  <2> HIDE DEF ll, ff, cc, gg, pp, b, d
  <2>6. outstanding_work' + Units' = (ll + dl) + (ff + df) + (cc + d - b) + gg + pp
    <3>1. PICK v \in Int, w \in Nat, k \in Nat, u \in Nat, i \in Int, n \in Nat :
            /\ v = outstanding_work' /\ w = private_work'[t] /\ k = Units'
            /\ u = Units /\ i = outstanding_work /\ n = private_work[t]
      BY <1>2, <1>8, Zenon
    <3>2. k = u + w - n /\ v + w + b = i + n + d + dl + df /\ i + u = ll + ff + cc + gg + pp
      BY <1>2, <2>4, <2>5, <3>1, Zenon
    <3>3. v + k = (ll + dl) + (ff + df) + (cc + d - b) + gg + pp
      BY <2>1, <2>3, <3>2
    <3> QED
      BY <3>1, <3>3, Zenon
  <2>7. Cardinality(LiveOps)' = ll + dl /\ Cardinality(FiredTimers)' = ff + df
    BY Zenon DEF ll, ff
  <2> QED
    BY <2>2, <2>6, <2>7, Zenon DEF gg, pp
<1> QED
  BY <1>7, <1>10, Zenon DEF Balance

LEMMA BalancePoster ==
  ASSUME Counting, TypeInv, TypeInv', Balance, NEW p \in Posters, NEW next, Moves(p, next),
         private_work' = private_work,
         \A q \in Posters \ {p} : guard'[q] = guard[q], NEW dl \in Int,
         Cardinality(LiveOps)' = Cardinality(LiveOps) + dl,
         Cardinality(FiredTimers)' = Cardinality(FiredTimers)
  PROVE  outstanding_work' + One(guard[p]) + One(pc[p] \in ClaimPCs)
         = outstanding_work + One(guard'[p]) + One(next \in ClaimPCs) + dl
         => Balance'
<1>1. DataOK /\ DataOK'
  BY Zenon DEF TypeInv
<1>2. Units' = Units /\ Units \in Nat
  BY <1>1, UnitsSame, Zenon
<1>3. /\ \A y : y # p => (y \in Guards' <=> y \in Guards)
      /\ \A y : y # p => (y \in Claimers' <=> y \in Claimers)
  BY SortsAssumption, Zenon DEF Guards, Claimers, Moves, Actors
<1>4. /\ (p \in Guards' <=> guard'[p]) /\ (p \in Guards <=> guard[p])
      /\ (p \in Claimers' <=> next \in ClaimPCs) /\ (p \in Claimers <=> pc[p] \in ClaimPCs)
  BY Zenon DEF Guards, Claimers, Moves
<1>5. /\ Cardinality(Guards') = Cardinality(Guards) + One(p \in Guards') - One(p \in Guards)
      /\ Cardinality(Claimers') = Cardinality(Claimers)
                                   + One(p \in Claimers') - One(p \in Claimers)
  BY <1>3, CountsFinite, SetStep, Zenon
<1>6. /\ One(p \in Guards') = One(guard'[p]) /\ One(p \in Guards) = One(guard[p])
      /\ One(p \in Claimers') = One(next \in ClaimPCs)
      /\ One(p \in Claimers) = One(pc[p] \in ClaimPCs)
  BY <1>4, Zenon DEF One
<1>7. /\ One(guard'[p]) \in Nat /\ One(guard[p]) \in Nat
      /\ One(next \in ClaimPCs) \in Nat /\ One(pc[p] \in ClaimPCs) \in Nat
  BY Zenon DEF One
<1>8. CleaningUp' = CleaningUp
  BY SortsAssumption, Zenon DEF CleaningUp, Moves, Actors
<1>9. outstanding_work \in Int /\ outstanding_work' \in Int
  BY <1>1, Zenon DEF DataOK
<1>10. outstanding_work + Units
       = Cardinality(LiveOps) + Cardinality(FiredTimers) + Cardinality(CleaningUp)
         + Cardinality(Guards) + Cardinality(Claimers)
  BY Zenon DEF Balance
<1>11. ASSUME outstanding_work' + One(guard[p]) + One(pc[p] \in ClaimPCs)
              = outstanding_work + One(guard'[p]) + One(next \in ClaimPCs) + dl
       PROVE  outstanding_work' + Units
              = Cardinality(LiveOps)' + Cardinality(FiredTimers)' + Cardinality(CleaningUp)
                + Cardinality(Guards') + Cardinality(Claimers')
  <2> DEFINE ll == Cardinality(LiveOps)    ff == Cardinality(FiredTimers)
             cc == Cardinality(CleaningUp) gg == Cardinality(Guards)
             pp == Cardinality(Claimers)
             a == One(guard[p])    b == One(pc[p] \in ClaimPCs)
             c == One(guard'[p])   d == One(next \in ClaimPCs)
  <2>1. ll \in Nat /\ ff \in Nat /\ cc \in Nat /\ gg \in Nat /\ pp \in Nat
    BY CountsNat, Zenon
  <2>2. Cardinality(Guards') = gg + c - a /\ Cardinality(Claimers') = pp + d - b
    BY <1>5, <1>6, Zenon
  <2>3. a \in Nat /\ b \in Nat /\ c \in Nat /\ d \in Nat
    BY <1>7, Zenon
  <2>4. outstanding_work' + a + b = outstanding_work + c + d + dl
    BY <1>11, Zenon
  <2>5. outstanding_work + Units = ll + ff + cc + gg + pp
    BY <1>10, Zenon
  <2> HIDE DEF ll, ff, cc, gg, pp, a, b, c, d
  <2>6. outstanding_work' + Units = (ll + dl) + ff + cc + (gg + c - a) + (pp + d - b)
    <3>1. outstanding_work' = outstanding_work + ((c + d + dl) - (a + b))
      <4>1. PICK v \in Int, w \in Int : v = outstanding_work' /\ w = outstanding_work
        BY <1>9, Zenon
      <4>2. PICK k \in Nat, l \in Nat, m \in Nat, n \in Nat : k = a /\ l = b /\ m = c /\ n = d
        BY <2>3, Zenon
      <4>3. v + k + l = w + m + n + dl
        BY <2>4, <4>1, <4>2, Zenon
      <4>4. v = w + ((m + n + dl) - (k + l))
        BY <4>3
      <4> QED
        BY <4>1, <4>2, <4>4, Zenon
    <3>2. outstanding_work = (ll + ff + cc + gg + pp) - Units
      BY <1>2, <1>9, <2>1, <2>5
    <3> QED
      BY <1>2, <2>1, <2>3, <3>1, <3>2
  <2>7. Cardinality(LiveOps)' = ll + dl /\ Cardinality(FiredTimers)' = ff
    BY Zenon DEF ll, ff
  <2> QED
    BY <2>2, <2>6, <2>7, Zenon DEF cc
<1> QED
  BY <1>2, <1>8, <1>11, Zenon DEF Balance

-----------------------------------------------------------------------------
(* Control.                                                                *)

LEMMA Goto ==
  ASSUME pc \in [Actors -> PCs], NEW a \in Actors, NEW next \in PCs,
         pc' = [pc EXCEPT ![a] = next]
  PROVE  Moves(a, next)
BY Zenon DEF Moves

LEMMA GotoOne ==
  ASSUME pc \in [Actors -> PCs], NEW a \in Actors, NEW next \in PCs,
         pc[a] # "parked", GotoAndNotifyOne(a, next)
  PROVE  Moves(a, next)
BY Zenon DEF Moves, GotoAndNotifyOne, Parked, Actors, PCs, ThreadPCs

LEMMA GotoAll ==
  ASSUME pc \in [Actors -> PCs], NEW a \in Actors, NEW next \in PCs,
         pc[a] # "parked", GotoAndNotifyAll(a, next)
  PROVE  Moves(a, next)
BY Zenon DEF Moves, GotoAndNotifyAll, Parked, Actors, PCs, ThreadPCs

LEMMA GotoSignal ==
  ASSUME pc \in [Actors -> PCs], NEW a \in Actors, NEW next \in PCs,
         pc[a] # "parked", unlock_and_signal_one(a, next)
  PROVE  Moves(a, next) /\ signaled' \in BOOLEAN
BY Goto, GotoOne, Zenon DEF unlock_and_signal_one

LEMMA GotoWake ==
  ASSUME pc \in [Actors -> PCs], NEW a \in Actors, NEW next \in PCs,
         pc[a] # "parked", wake_one_thread_and_unlock(a, next)
  PROVE  Moves(a, next)
BY Goto, GotoOne, Zenon DEF wake_one_thread_and_unlock

LEMMA GotoStop ==
  ASSUME pc \in [Actors -> PCs], NEW a \in Actors, NEW next \in PCs,
         pc[a] # "parked", stop(a, next)
  PROVE  Moves(a, next)
BY Goto, GotoAll, Zenon DEF stop

-----------------------------------------------------------------------------
(* The steps that keep every entry where it is, or move it from one queue  *)
(* to another.                                                             *)

\* A step of a thread that changes no completion's life cycle.
LEMMA LedgerThread ==
  ASSUME Counting, TypeInv, TypeInv', LedgerInv, NEW t \in Threads, NEW next, Moves(t, next),
         Alone(t), UNCHANGED <<st, enqueued, guard>>,
         \A p \in Posters : cur'[p] = cur[p],
         \A x \in Entries : Here(t, x)' = Here(t, x), ThreadOK(t)',
         outstanding_work' + private_work'[t] + One(pc[t] \in CleanPCs)
         = outstanding_work + private_work[t] + One(next \in CleanPCs)
  PROVE  LedgerInv'
<1>0. t \in Actors /\ t \notin Posters
  BY SortsAssumption, Zenon DEF Actors
<1>1. EntryOK'
  <2>1. ASSUME NEW x \in Entries PROVE N(x)' = N(x)
    <3>1. DataOK /\ DataOK' /\ x # None
      BY SortsAssumption, Zenon DEF TypeInv, Entries
    <3>2. Apart(t)
      BY Zenon DEF Apart, Alone, Moves, Exec, Actors
    <3>3. /\ N(x) \in Nat /\ Here(t, x) \in Nat
          /\ N(x)' = N(x) + Here(t, x)' - Here(t, x)
      BY <3>1, <3>2, Shift, Zenon
    <3> QED
      BY <3>3
  <2> QED
    BY <2>1, EntryKept, Zenon DEF LedgerInv
<1>2. ThreadsOK'
  BY <1>0, OthersKept, Zenon DEF LedgerInv
<1>3. PosterOK'
  <2>1. \A q \in Posters \ {t} : pc[q] \in HoldPCs => st'[cur[q]] = "posting"
    BY Zenon DEF LedgerInv, PosterOK
  <2> QED
    BY <1>0, <2>1, PostersKept, Zenon DEF LedgerInv
<1>4. Balance'
  <2>1. LiveOps' = LiveOps /\ FiredTimers' = FiredTimers
    BY Zenon DEF LiveOps, FiredTimers
  <2>2. /\ Cardinality(LiveOps)' = Cardinality(LiveOps) + 0
        /\ Cardinality(FiredTimers)' = Cardinality(FiredTimers) + 0
    BY <2>1, CountsNat
  <2>3. outstanding_work' + private_work'[t] + One(pc[t] \in CleanPCs)
        = outstanding_work + private_work[t] + One(next \in CleanPCs) + 0 + 0
    BY DEF TypeInv, DataOK, One
  <2> QED
    BY <2>2, <2>3, BalanceThread DEF LedgerInv
<1> QED
  BY <1>1, <1>2, <1>3, <1>4 DEF LedgerInv

\* A step of a thread that only moves in its control.
Strolls(t, next) ==
  /\ next # "handler" /\ pc[t] # "handler"
  /\ next \in CleanPCs <=> pc[t] \in CleanPCs
  /\ next \in SplicePCs => pc[t] \in SplicePCs
  /\ pc[t] \in LocalPCs => next \in LocalPCs

LEMMA LedgerQuiet ==
  ASSUME Counting, TypeInv, TypeInv', LedgerInv, NEW t \in Threads, NEW next, Moves(t, next),
         UNCHANGED <<st, enqueued, guard, cur, private_queue, private_work, local_ops,
                     outstanding_work>>,
         \A x \in Entries : Count(x, completed_ops') = Count(x, completed_ops),
         Strolls(t, next)
  PROVE  LedgerInv'
<1>1. Alone(t) /\ \A p \in Posters : cur'[p] = cur[p]
  BY Zenon DEF Alone
<1>2. pc'[t] = next
  BY Zenon DEF Moves
<1>3. \A x \in Entries : Here(t, x)' = Here(t, x)
  BY <1>2, Zenon DEF Here, Exec, Strolls
<1>4. One(pc[t] \in CleanPCs) = One(next \in CleanPCs)
  BY Zenon DEF One, Strolls
<1>5. ThreadOK(t)'
  BY <1>2, <1>4, Zenon DEF LedgerInv, ThreadsOK, ThreadOK, Strolls
<1>6. outstanding_work' + private_work'[t] + One(pc[t] \in CleanPCs)
      = outstanding_work + private_work[t] + One(next \in CleanPCs)
  BY <1>4, Zenon
<1> QED
  BY <1>1, <1>3, <1>5, <1>6, LedgerThread, Zenon

\* A step of a poster that posts nothing.
LEMMA LedgerPoster ==
  ASSUME Counting, TypeInv, TypeInv', LedgerInv, NEW p \in Posters, NEW next, Moves(p, next),
         UNCHANGED <<completed_ops, st, enqueued, cur, private_queue, private_work,
                     local_ops>>,
         next \notin HoldPCs, \A q \in Posters \ {p} : guard'[q] = guard[q],
         outstanding_work' + One(guard[p]) + One(pc[p] \in ClaimPCs)
         = outstanding_work + One(guard'[p]) + One(next \in ClaimPCs)
  PROVE  LedgerInv'
<1>0. p \in Actors /\ p \notin Threads
  BY SortsAssumption, Zenon DEF Actors
<1>1. EntryOK'
  <2>1. ASSUME NEW x \in Entries PROVE N(x)' = N(x)
    <3>1. /\ N(x) \in Nat /\ Count(x, completed_ops) \in Nat
          /\ N(x)' = N(x) + Count(x, completed_ops') - Count(x, completed_ops)
      BY NPoster, Zenon
    <3> QED
      BY <3>1
  <2> QED
    BY <2>1, EntryKept, Zenon DEF LedgerInv
<1>2. ThreadsOK'
  <2>1. Alone(p)
    BY Zenon DEF Alone
  <2> QED
    BY <1>0, <2>1, OthersKept DEF LedgerInv
<1>3. PosterOK'
  <2>1. \A q \in Posters \ {p} : pc[q] \in HoldPCs => st'[cur[q]] = "posting"
    BY Zenon DEF LedgerInv, PosterOK
  <2> QED
    BY <1>0, <2>1, PostersKept DEF LedgerInv
<1>4. Balance'
  <2>1. LiveOps' = LiveOps /\ FiredTimers' = FiredTimers
    BY Zenon DEF LiveOps, FiredTimers
  <2>2. /\ Cardinality(LiveOps)' = Cardinality(LiveOps) + 0
        /\ Cardinality(FiredTimers)' = Cardinality(FiredTimers)
    BY <2>1, CountsNat
  <2>3. outstanding_work' + One(guard[p]) + One(pc[p] \in ClaimPCs)
        = outstanding_work + One(guard'[p]) + One(next \in ClaimPCs) + 0
    <3>1. \A b : One(b) \in Nat
      BY Zenon DEF One
    <3>2. outstanding_work \in Int
      BY Zenon DEF TypeInv, DataOK
    <3>3. outstanding_work + One(guard'[p]) + One(next \in ClaimPCs) + 0
          = outstanding_work + One(guard'[p]) + One(next \in ClaimPCs)
      BY <3>1, <3>2
    <3> QED
      BY <3>3, Zenon
  <2> QED
    BY <2>2, <2>3, BalancePoster DEF LedgerInv
<1> QED
  BY <1>1, <1>2, <1>3, <1>4 DEF LedgerInv

\* A step that changes nothing the ledger speaks of.
LEMMA LedgerSame ==
  ASSUME LedgerInv,
         UNCHANGED <<completed_ops, outstanding_work, enqueued, st, guard, pc, cur,
                     private_queue, private_work, local_ops>>
  PROVE  LedgerInv'
<1>1. \A x : N(x)' = N(x)
  BY Zenon DEF N, Places
<1>2. EntryOK'
  BY <1>1, Zenon DEF LedgerInv, EntryOK
<1>3. ThreadsOK' /\ PosterOK'
  BY Zenon DEF LedgerInv, ThreadsOK, ThreadOK, PosterOK
<1>4. Balance'
  BY Zenon
     DEF LedgerInv, Balance, Units, PrivateUnits, LiveOps, FiredTimers,
         CleaningUp, Guards, Claimers
<1> QED
  BY <1>2, <1>3, <1>4 DEF LedgerInv

\* The steps of do_one() and of the reactor's turn that move no entry and no
\* unit of work.
LEMMA LedgerLoop ==
  ASSUME Counting, TypeInv, TypeInv', LedgerInv, NEW t \in Threads,
         \/ Lock(t) \/ DoOneStopped(t) \/ DoOneTaskIdle(t) \/ RunTask(t)
         \/ PollInterrupted(t) \/ Disarm(t) \/ SpuriousWake(t) \/ Woken(t)
         \/ (\E m \in Modes : Call(t, m))
  PROVE  LedgerInv'
<1>1. CASE Lock(t)
  <2> USE <1>1
  <2> USE DEF sharedVars, kernelVars, threadVars
  <2> DEFINE next == "do_one"
  <2>1. next \in PCs /\ t \in Actors /\ pc \in [Actors -> PCs]
    BY Zenon DEF PCs, ThreadPCs, Actors, TypeInv, ControlOK
  <2>2. Moves(t, next)
    BY <2>1, Goto, Zenon DEF Lock
  <2>3. /\ UNCHANGED <<st, enqueued, guard, cur, private_queue, private_work, local_ops,
                       outstanding_work>>
        /\ completed_ops' = completed_ops
    BY Zenon DEF Lock
  <2>4. Strolls(t, next)
    BY Zenon DEF Lock, Strolls, CleanPCs, SplicePCs, LocalPCs
  <2> QED
    BY <2>2, <2>3, <2>4, LedgerQuiet
<1>2. CASE DoOneStopped(t)
  <2> USE <1>2
  <2> USE DEF sharedVars, kernelVars, threadVars
  <2> DEFINE next == "exit"
  <2>1. next \in PCs /\ t \in Actors /\ pc \in [Actors -> PCs]
    BY Zenon DEF PCs, ThreadPCs, Actors, TypeInv, ControlOK
  <2>2. Moves(t, next)
    BY <2>1, Goto, Zenon DEF DoOneStopped
  <2>3. /\ UNCHANGED <<st, enqueued, guard, cur, private_queue, private_work, local_ops,
                       outstanding_work>>
        /\ completed_ops' = completed_ops
    BY Zenon DEF DoOneStopped
  <2>4. Strolls(t, next)
    BY DEF DoOneStopped, Strolls, CleanPCs, SplicePCs, LocalPCs
  <2> QED
    BY <2>2, <2>3, <2>4, LedgerQuiet
<1>3. CASE DoOneTaskIdle(t)
  <2> USE <1>3
  <2> USE DEF sharedVars, kernelVars, threadVars
  <2> DEFINE next == "exit"
  <2>1. next \in PCs /\ t \in Actors /\ pc \in [Actors -> PCs]
    BY Zenon DEF PCs, ThreadPCs, Actors, TypeInv, ControlOK
  <2>2. Moves(t, next)
    BY <2>1, Goto, Zenon DEF DoOneTaskIdle
  <2>3. /\ UNCHANGED <<st, enqueued, guard, cur, private_queue, private_work, local_ops,
                       outstanding_work>>
        /\ completed_ops' = completed_ops
    BY Zenon DEF DoOneTaskIdle
  <2>4. Strolls(t, next)
    BY Zenon DEF DoOneTaskIdle, AtHead, Strolls, CleanPCs, SplicePCs, LocalPCs
  <2> QED
    BY <2>2, <2>3, <2>4, LedgerQuiet, Zenon
<1>4. CASE RunTask(t)
  <2> USE <1>4
  <2> USE DEF sharedVars, kernelVars, threadVars
  <2> DEFINE next == IF task_interrupted THEN "poll_now" ELSE "poll"
  <2>1. next \in PCs /\ t \in Actors /\ pc \in [Actors -> PCs]
    BY Zenon DEF PCs, ThreadPCs, Actors, TypeInv, ControlOK
  <2>2. Moves(t, next)
    BY <2>1, Goto, Zenon DEF RunTask
  <2>3. /\ UNCHANGED <<st, enqueued, guard, cur, private_queue, private_work, local_ops,
                       outstanding_work>>
        /\ completed_ops' = completed_ops
    BY Zenon DEF RunTask
  <2>4. Strolls(t, next)
    BY Zenon DEF RunTask, Strolls, CleanPCs, SplicePCs, LocalPCs
  <2> QED
    BY <2>2, <2>3, <2>4, LedgerQuiet
<1>5. CASE PollInterrupted(t)
  <2> USE <1>5
  <2> USE DEF sharedVars, kernelVars, threadVars
  <2> DEFINE next == "relock"
  <2>1. next \in PCs /\ t \in Actors /\ pc \in [Actors -> PCs]
    BY Zenon DEF PCs, ThreadPCs, Actors, TypeInv, ControlOK
  <2>2. Moves(t, next)
    BY <2>1, Goto, Zenon DEF PollInterrupted
  <2>3. /\ UNCHANGED <<st, enqueued, guard, cur, private_queue, private_work, local_ops,
                       outstanding_work>>
        /\ completed_ops' = completed_ops
    BY Zenon DEF PollInterrupted
  <2>4. Strolls(t, next)
    BY DEF PollInterrupted, Strolls, CleanPCs, SplicePCs, LocalPCs
  <2> QED
    BY <2>2, <2>3, <2>4, LedgerQuiet
<1>6. CASE Disarm(t)
  <2> USE <1>6
  <2> USE DEF sharedVars, kernelVars, threadVars
  <2> DEFINE next == "relock"
  <2>1. next \in PCs /\ t \in Actors /\ pc \in [Actors -> PCs]
    BY Zenon DEF PCs, ThreadPCs, Actors, TypeInv, ControlOK
  <2>2. Moves(t, next)
    BY <2>1, Goto, Zenon DEF Disarm
  <2>3. /\ UNCHANGED <<st, enqueued, guard, cur, private_queue, private_work, local_ops,
                       outstanding_work>>
        /\ completed_ops' = completed_ops
    BY Zenon DEF Disarm
  <2>4. Strolls(t, next)
    BY Zenon DEF Disarm, Strolls, CleanPCs, SplicePCs, LocalPCs
  <2> QED
    BY <2>2, <2>3, <2>4, LedgerQuiet, Zenon
<1>7. CASE SpuriousWake(t)
  <2> USE <1>7
  <2> USE DEF sharedVars, kernelVars, threadVars
  <2> DEFINE next == "woken"
  <2>1. next \in PCs /\ t \in Actors /\ pc \in [Actors -> PCs]
    BY Zenon DEF PCs, ThreadPCs, Actors, TypeInv, ControlOK
  <2>2. Moves(t, next)
    BY <2>1, Goto, Zenon DEF SpuriousWake
  <2>3. /\ UNCHANGED <<st, enqueued, guard, cur, private_queue, private_work, local_ops,
                       outstanding_work>>
        /\ completed_ops' = completed_ops
    BY Zenon DEF SpuriousWake
  <2>4. Strolls(t, next)
    BY Zenon DEF SpuriousWake, Strolls, CleanPCs, SplicePCs, LocalPCs
  <2> QED
    BY <2>2, <2>3, <2>4, LedgerQuiet
<1>8. CASE Woken(t)
  <2> USE <1>8
  <2> USE DEF sharedVars, kernelVars, threadVars
  <2>1. PICK next \in {"do_one", "parked"} : pc' = [pc EXCEPT ![t] = next]
    BY Zenon DEF Woken
  <2>2. next \in PCs /\ t \in Actors /\ pc \in [Actors -> PCs]
    BY Zenon DEF PCs, ThreadPCs, Actors, TypeInv, ControlOK
  <2>3. Moves(t, next)
    BY <2>1, <2>2, Goto, Zenon
  <2>4. /\ UNCHANGED <<st, enqueued, guard, cur, private_queue, private_work, local_ops,
                       outstanding_work>>
        /\ completed_ops' = completed_ops
    BY Zenon DEF Woken
  <2>5. Strolls(t, next)
    BY Zenon DEF Woken, Strolls, CleanPCs, SplicePCs, LocalPCs
  <2> QED
    BY <2>3, <2>4, <2>5, LedgerQuiet
<1>9. ASSUME NEW m \in Modes, Call(t, m) PROVE LedgerInv'
  <2> USE <1>9
  <2> USE DEF sharedVars, kernelVars
  <2>1. PICK next \in {"stop_return", "lock"} : pc' = [pc EXCEPT ![t] = next]
    BY Zenon DEF Call
  <2>2. next \in PCs /\ t \in Actors /\ pc \in [Actors -> PCs]
    BY Zenon DEF PCs, ThreadPCs, Actors, TypeInv, ControlOK
  <2>3. Moves(t, next)
    BY <2>1, <2>2, Goto, Zenon
  <2>4. /\ UNCHANGED <<st, enqueued, guard, cur, private_queue, private_work, local_ops,
                       outstanding_work>>
        /\ completed_ops' = completed_ops
    BY Zenon DEF Call
  <2>5. Strolls(t, next)
    BY Zenon DEF Call, Strolls, CleanPCs, SplicePCs, LocalPCs
  <2> QED
    BY <2>3, <2>4, <2>5, LedgerQuiet
<1> QED BY <1>1, <1>2, <1>3, <1>4, <1>5, <1>6, <1>7, <1>8, <1>9, Zenon

LEMMA LedgerStop ==
  ASSUME Counting, TypeInv, TypeInv', LedgerInv, NEW a \in Actors, Stop(a)
  PROVE  LedgerInv'
<1> USE DEF sharedVars, kernelVars, threadVars
<1>1. PICK next \in {"idle", "splice", "cleanup"} :
        /\ stop(a, next)
        /\ next = "splice" <=> pc[a] = "stop_splice"
        /\ next = "cleanup" <=> pc[a] = "stop_handler"
        /\ pc[a] \in {"stop_return", "stop_splice", "stop_handler", "stop_post"}
  BY DEF Stop, AfterStop
<1>2. next \in PCs /\ pc \in [Actors -> PCs] /\ pc[a] # "parked"
  BY <1>1, Zenon DEF PCs, ThreadPCs, TypeInv, ControlOK
<1>3. Moves(a, next)
  BY <1>1, <1>2, GotoStop
<1>4. /\ UNCHANGED <<st, guard, cur, private_queue, private_work, local_ops>>
      /\ UNCHANGED <<outstanding_work, enqueued, completed_ops>>
  BY <1>1, Zenon DEF Stop, stop
<1>5. CASE a \in Threads
  <2>1. Strolls(a, next)
    BY <1>1, Zenon DEF Strolls, CleanPCs, SplicePCs, LocalPCs
  <2> QED
    BY <1>3, <1>4, <1>5, <2>1, LedgerQuiet
<1>6. CASE a \in Posters
  <2>1. next \notin HoldPCs
    BY Zenon DEF HoldPCs
  <2>2. One(pc[a] \in ClaimPCs) = One(next \in ClaimPCs)
    BY <1>1, Zenon DEF One, ClaimPCs
  <2> QED
    BY <1>3, <1>4, <1>6, <2>1, <2>2, LedgerPoster
<1> QED
  BY <1>5, <1>6, Zenon DEF Actors

LEMMA LedgerTurns ==
  ASSUME Counting, TypeInv, TypeInv', LedgerInv, NEW t \in Threads,
         \/ DoOneTask(t) \/ FinishTask(t) \/ DoOneEntry(t)
  PROVE  LedgerInv'

\* The sentinel leaves the queue; no entry moves.
<1>1. CASE DoOneTask(t)
  <2> USE <1>1
  <2> USE DEF sharedVars, kernelVars, threadVars
  <2>1. /\ pc[t] = "do_one" /\ completed_ops # <<>> /\ Head(completed_ops) = Task
        /\ completed_ops' = Tail(completed_ops)
    BY Zenon DEF DoOneTask, AtHead
  <2>2. "run_task" \in PCs /\ t \in Actors /\ pc \in [Actors -> PCs]
    BY Zenon DEF PCs, ThreadPCs, Actors, TypeInv, ControlOK
  <2>3. Moves(t, "run_task")
    BY <2>1, <2>2, Goto, GotoSignal, Zenon DEF DoOneTask
  <2>4. UNCHANGED <<st, enqueued, guard, cur, private_queue, private_work, local_ops,
                    outstanding_work>>
    BY Zenon DEF DoOneTask
  <2>5. ASSUME NEW x \in Entries PROVE Count(x, completed_ops') = Count(x, completed_ops)
    <3>1. completed_ops \in Seq(Ops \cup {Task, Desc}) /\ x # Task
      BY SortsAssumption, Zenon DEF TypeInv, DataOK, Entries
    <3>2. Count(x, completed_ops) = One(Head(completed_ops) = x)
                                     + Count(x, Tail(completed_ops))
      BY <2>1, <3>1, CountHead
    <3>3. One(Head(completed_ops) = x) = 0
      BY <2>1, <3>1, Zenon DEF One
    <3>4. Count(x, Tail(completed_ops)) \in Nat
      <4>1. Tail(completed_ops) \in Seq(Ops \cup {Task, Desc})
        BY <2>1, <3>1
      <4> QED
        BY <4>1, CountNat, Zenon
    <3> QED
      BY <2>1, <3>2, <3>3, <3>4
  <2>6. Strolls(t, "run_task")
    BY <2>1, Zenon DEF Strolls, CleanPCs, SplicePCs, LocalPCs
  <2> QED
    BY <2>3, <2>4, <2>5, <2>6, LedgerQuiet

\* What run_task() collected, and the private queue, go to the shared queue.
<1>2. CASE FinishTask(t)
  <2> USE <1>2
  <2> USE DEF sharedVars, kernelVars, threadVars
  <2> DEFINE next == IF Timed(t) THEN "exit" ELSE "do_one"
             A == Ops \cup {Task, Desc}
  <2>1. /\ pc[t] = "relock" /\ pc' = [pc EXCEPT ![t] = next]
        /\ completed_ops' = ((completed_ops \o local_ops[t]) \o private_queue[t]) \o <<Task>>
        /\ outstanding_work' = outstanding_work + private_work[t]
        /\ UNCHANGED <<st, enqueued, guard, cur>>
    BY Zenon DEF FinishTask
  <2>2. /\ private_work' = [private_work EXCEPT ![t] = 0]
        /\ private_queue' = [private_queue EXCEPT ![t] = <<>>]
        /\ local_ops' = [local_ops EXCEPT ![t] = <<>>]
    BY Zenon DEF FinishTask
  <2>3. next \in PCs /\ t \in Actors /\ pc \in [Actors -> PCs]
    BY Zenon DEF PCs, ThreadPCs, Actors, TypeInv, ControlOK
  <2>4. Moves(t, next)
    BY <2>1, <2>3, Goto, Zenon
  <2>5. Queues(completed_ops, private_queue, local_ops)
    BY Zenon DEF TypeInv, DataOK, Queues
  <2>6. private_work[t] \in Nat /\ outstanding_work \in Int
    BY Zenon DEF TypeInv, DataOK
  <2>7. /\ private_work'[t] = 0 /\ private_queue'[t] = <<>> /\ local_ops'[t] = <<>>
        /\ Alone(t)
    BY <2>1, <2>2, <2>5 DEF TypeInv, DataOK, Alone
  <2>8. ASSUME NEW x \in Entries PROVE Here(t, x)' = Here(t, x)
    <3>1. /\ completed_ops \in Seq(A) /\ local_ops[t] \in Seq(A)
          /\ private_queue[t] \in Seq(A) /\ <<Task>> \in Seq(A) /\ x # Task /\ x # None
      BY <2>5, QueueTypes, SortsAssumption DEF Queues, Entries
    <3>2. /\ completed_ops \o local_ops[t] \in Seq(A)
          /\ (completed_ops \o local_ops[t]) \o private_queue[t] \in Seq(A)
      BY <3>1
    <3>3. Count(x, completed_ops \o local_ops[t])
            = Count(x, completed_ops) + Count(x, local_ops[t])
      BY <3>1, CountConcat, Zenon
    <3>4. Count(x, (completed_ops \o local_ops[t]) \o private_queue[t])
            = Count(x, completed_ops \o local_ops[t]) + Count(x, private_queue[t])
      BY <3>1, <3>2, CountConcat, Zenon
    <3>5. Count(x, completed_ops')
            = Count(x, (completed_ops \o local_ops[t]) \o private_queue[t]) + Count(x, <<Task>>)
      BY <2>1, <3>1, <3>2, CountConcat, Zenon
    <3>6. Count(x, <<Task>>) = 0 /\ Count(x, <<>>) = 0
      BY <3>1, CountSmall, Zenon DEF One
    <3>7. /\ Count(x, completed_ops) \in Nat /\ Count(x, local_ops[t]) \in Nat
          /\ Count(x, private_queue[t]) \in Nat
      BY <3>1, CountNat, Zenon
    <3>8. Exec(t) = None /\ Exec(t)' = None
      BY <2>1, <2>4 DEF Exec, Moves
    <3> QED
      BY <2>7, <3>1, <3>3, <3>4, <3>5, <3>6, <3>7, <3>8 DEF Here, One
  <2>9. One(pc[t] \in CleanPCs) = 0 /\ One(next \in CleanPCs) = 0
    BY <2>1, Zenon DEF One, CleanPCs
  <2>10. ThreadOK(t)'
    <3>1. pc'[t] = next /\ One(pc'[t] \in CleanPCs) = 0
      BY <2>4, <2>9, Zenon DEF Moves
    <3> QED
      BY <2>7, <3>1 DEF ThreadOK
  <2>11. outstanding_work' + private_work'[t] + One(pc[t] \in CleanPCs)
         = outstanding_work + private_work[t] + One(next \in CleanPCs)
    BY <2>1, <2>6, <2>7, <2>9
  <2> QED
    BY <2>1, <2>4, <2>7, <2>8, <2>10, <2>11, LedgerThread

\* The entry at the front goes to the thread that executes it.
<1>3. CASE DoOneEntry(t)
  <2> USE <1>3
  <2> USE DEF sharedVars, kernelVars, threadVars
  <2>1. /\ pc[t] = "do_one" /\ completed_ops # <<>> /\ Head(completed_ops) \in Entries
        /\ completed_ops' = Tail(completed_ops)
        /\ cur' = [cur EXCEPT ![t] = Head(completed_ops)]
    BY Zenon DEF DoOneEntry, AtHead, Entries
  <2>2. "handler" \in PCs /\ t \in Actors /\ pc \in [Actors -> PCs]
    BY Zenon DEF PCs, ThreadPCs, Actors, TypeInv, ControlOK
  <2>3. Moves(t, "handler")
    BY <2>1, <2>2, Goto, GotoSignal, Zenon DEF DoOneEntry
  <2>4. UNCHANGED <<st, enqueued, guard, private_queue, private_work, local_ops,
                    outstanding_work>>
    BY Zenon DEF DoOneEntry
  <2>5. cur'[t] = Head(completed_ops) /\ \A a \in Actors \ {t} : cur'[a] = cur[a]
    BY <2>1, <2>2, Zenon DEF TypeInv, ControlOK
  <2>6. Alone(t) /\ \A p \in Posters : cur'[p] = cur[p]
    BY <2>4, <2>5, SortsAssumption, Zenon DEF Alone, Actors
  <2>7. ASSUME NEW x \in Entries PROVE Here(t, x)' = Here(t, x)
    <3>1. completed_ops \in Seq(Ops \cup {Task, Desc}) /\ x # None
      BY SortsAssumption, Zenon DEF TypeInv, DataOK, Entries
    <3>2. Count(x, completed_ops) = One(Head(completed_ops) = x)
                                     + Count(x, Tail(completed_ops))
      BY <2>1, <3>1, CountHead
    <3>3. Exec(t) = None /\ Exec(t)' = Head(completed_ops)
      BY <2>1, <2>3, <2>5 DEF Exec, Moves
    <3>4. /\ Count(x, Tail(completed_ops)) \in Nat /\ Count(x, private_queue[t]) \in Nat
          /\ Count(x, local_ops[t]) \in Nat
      BY <2>1, <3>1, CountNat, Zenon DEF TypeInv, DataOK
    <3>5. One(Exec(t) = x) = 0 /\ One(Exec(t)' = x) = One(Head(completed_ops) = x)
          /\ One(Head(completed_ops) = x) \in Nat
      BY <3>1, <3>3, Zenon DEF One
    <3>6. /\ Here(t, x) = Count(x, completed_ops) + Count(x, private_queue[t])
                           + Count(x, local_ops[t]) + One(Exec(t) = x)
          /\ Here(t, x)' = Count(x, Tail(completed_ops)) + Count(x, private_queue[t])
                           + Count(x, local_ops[t]) + One(Exec(t)' = x)
      BY <2>1, <2>4, Zenon DEF Here
    <3> QED
      BY <3>2, <3>4, <3>5, <3>6
  <2>8. One(pc[t] \in CleanPCs) = 0 /\ One("handler" \in CleanPCs) = 0
    BY <2>1, Zenon DEF One, CleanPCs
  <2>9. ThreadOK(t)'
    <3>1. pc'[t] = "handler" /\ One(pc'[t] \in CleanPCs) = 0
      BY <2>3, <2>8, Zenon DEF Moves
    <3>2. ThreadOK(t)
      BY Zenon DEF LedgerInv, ThreadsOK
    <3> QED
      BY <2>1, <2>4, <2>5, <2>8, <3>1, <3>2
         DEF ThreadOK, Entries, LocalPCs, SplicePCs
  <2>10. outstanding_work' + private_work'[t] + One(pc[t] \in CleanPCs)
         = outstanding_work + private_work[t] + One("handler" \in CleanPCs)
    BY <2>4, <2>8, Zenon
  <2> QED
    BY <2>3, <2>4, <2>6, <2>7, <2>9, <2>10, LedgerThread, Zenon
<1> QED BY <1>1, <1>2, <1>3, Zenon

\* A thread gives its private entries and units to the others, or cleans up.
LEMMA LedgerFlushes ==
  ASSUME Counting, TypeInv, TypeInv', LedgerInv, NEW t \in Threads,
         \/ DoOneEmpty(t) \/ Splice(t) \/ Exit(t) \/ WorkCleanup(t)
  PROVE  LedgerInv'

\* The private queue of a thread goes to the end of the shared queue, and its
\* count to outstanding_work_ or nowhere.
<1>1. ASSUME NEW next, Moves(t, next), pc[t] # "handler", next # "handler",
             pc[t] \notin LocalPCs, pc[t] \notin CleanPCs, next \notin CleanPCs,
             next \notin SplicePCs,
             completed_ops' = completed_ops \o private_queue[t],
             private_queue' = [private_queue EXCEPT ![t] = <<>>],
             private_work' = [private_work EXCEPT ![t] = 0],
             outstanding_work' = outstanding_work + private_work[t],
             UNCHANGED <<st, enqueued, guard, cur, local_ops>>
      PROVE  LedgerInv'
  <2> USE <1>1
  <2> DEFINE A == Ops \cup {Task, Desc}
  <2>1. Queues(completed_ops, private_queue, local_ops)
    BY Zenon DEF TypeInv, DataOK, Queues
  <2>2. private_work[t] \in Nat /\ outstanding_work \in Int
    BY Zenon DEF TypeInv, DataOK
  <2>3. private_work'[t] = 0 /\ private_queue'[t] = <<>> /\ Alone(t)
    BY <2>1, Zenon DEF TypeInv, DataOK, Alone
  <2>4. ASSUME NEW x \in Entries PROVE Here(t, x)' = Here(t, x)
    <3>1. /\ completed_ops \in Seq(A) /\ local_ops[t] \in Seq(A)
          /\ private_queue[t] \in Seq(A)
      BY <2>1, QueueTypes, Zenon DEF Queues
    <3>2. Count(x, completed_ops') = Count(x, completed_ops) + Count(x, private_queue[t])
      BY <3>1, CountConcat, Zenon
    <3>3. Count(x, <<>>) = 0
      BY CountSmall, Zenon
    <3>4. /\ Count(x, completed_ops) \in Nat /\ Count(x, local_ops[t]) \in Nat
          /\ Count(x, private_queue[t]) \in Nat
      BY <3>1, CountNat, Zenon
    <3>5. Exec(t) = None /\ Exec(t)' = None
      BY Zenon DEF Exec, Moves
    <3> QED
      BY <2>3, <3>2, <3>3, <3>4, <3>5 DEF Here, One
  <2>5. One(pc[t] \in CleanPCs) = 0 /\ One(next \in CleanPCs) = 0
    BY Zenon DEF One
  <2>6. ThreadOK(t)'
    <3>1. pc'[t] = next /\ One(pc'[t] \in CleanPCs) = 0
      BY <2>5, Zenon DEF Moves
    <3>2. local_ops[t] = <<>>
      BY Zenon DEF LedgerInv, ThreadsOK, ThreadOK
    <3> QED
      BY <2>3, <3>1, <3>2 DEF ThreadOK
  <2>7. outstanding_work' + private_work'[t] + One(pc[t] \in CleanPCs)
        = outstanding_work + private_work[t] + One(next \in CleanPCs)
    BY <2>2, <2>3, <2>5
  <2> QED
    BY <2>3, <2>4, <2>6, <2>7, LedgerThread
<1>2. CASE DoOneEmpty(t)
  <2> USE <1>2
  <2> USE DEF sharedVars, kernelVars, threadVars
  <2>1. /\ pc[t] = "do_one" /\ completed_ops = <<>> /\ completed_ops' = private_queue[t]
        /\ private_queue' = [private_queue EXCEPT ![t] = <<>>]
        /\ UNCHANGED <<st, enqueued, guard, cur, local_ops>>
    BY Zenon DEF DoOneEmpty
  <2>2. t \in Actors /\ pc \in [Actors -> PCs] /\ private_queue \in [Threads -> Seq(Ops)]
        /\ private_work \in [Threads -> Nat] /\ outstanding_work \in Int
    BY Zenon DEF Actors, TypeInv, ControlOK, DataOK
  <2>3. completed_ops' = completed_ops \o private_queue[t]
    BY <2>1, <2>2
  <2>4. PICK next \in {"do_one", "exit", "parked"} : pc' = [pc EXCEPT ![t] = next]
    <3>1. pc = [pc EXCEPT ![t] = "do_one"]
      BY <2>1, <2>2, Zenon
    <3> QED
      BY <3>1, Zenon DEF DoOneEmpty
  <2>5. Moves(t, next)
    BY <2>2, <2>4, Goto, Zenon DEF PCs, ThreadPCs
  <2>6. /\ private_work' = [private_work EXCEPT ![t] = 0]
        /\ outstanding_work' = outstanding_work + private_work[t]
    <3>1. CASE private_queue[t] # <<>>
      BY <3>1, Zenon DEF DoOneEmpty
    <3>2. CASE private_queue[t] = <<>>
      <4>1. private_work[t] <= Len(private_queue[t]) + One(pc[t] \in CleanPCs)
        BY Zenon DEF LedgerInv, ThreadsOK, ThreadOK
      <4>2. One(pc[t] \in CleanPCs) = 0 /\ Len(private_queue[t]) = 0
        BY <2>1, <3>2, Zenon DEF One, CleanPCs
      <4>3. private_work[t] = 0
        BY <2>2, <4>1, <4>2
      <4>4. private_work' = private_work /\ outstanding_work' = outstanding_work
        BY <3>2, Zenon DEF DoOneEmpty
      <4> QED
        BY <2>2, <4>3, <4>4
    <3> QED
      BY <3>1, <3>2, Zenon
  <2>7. /\ pc[t] \notin LocalPCs /\ pc[t] \notin CleanPCs /\ pc[t] # "handler"
        /\ next \notin CleanPCs /\ next \notin SplicePCs /\ next # "handler"
    BY <2>1, Zenon DEF LocalPCs, CleanPCs, SplicePCs
  <2> QED
    BY <2>1, <2>3, <2>5, <2>6, <2>7, <1>1
<1>3. CASE Splice(t)
  <2> USE <1>3
  <2> USE DEF sharedVars, kernelVars, threadVars
  <2>1. /\ pc[t] = "splice" /\ UNCHANGED <<st, enqueued, guard, cur, local_ops>>
        /\ UNCHANGED <<outstanding_work, private_work>>
    BY Zenon DEF Splice
  <2>2. t \in Actors /\ pc \in [Actors -> PCs] /\ private_queue \in [Threads -> Seq(Ops)]
        /\ private_work \in [Threads -> Nat] /\ outstanding_work \in Int
        /\ completed_ops \in Seq(Ops \cup {Task, Desc})
    BY Zenon DEF Actors, TypeInv, ControlOK, DataOK
  <2>3. PICK next \in {"lock", "do_one", "exit"} : pc' = [pc EXCEPT ![t] = next]
    BY Zenon DEF Splice
  <2>4. Moves(t, next)
    BY <2>2, <2>3, Goto, Zenon DEF PCs, ThreadPCs
  <2>5. /\ completed_ops' = completed_ops \o private_queue[t]
        /\ private_queue' = [private_queue EXCEPT ![t] = <<>>]
    <3>1. CASE private_queue[t] # <<>>
      BY <3>1, Zenon DEF Splice
    <3>2. CASE private_queue[t] = <<>>
      <4>1. completed_ops' = completed_ops /\ private_queue' = private_queue
        BY <3>2, Zenon DEF Splice
      <4> QED
        BY <2>2, <3>2, <4>1
    <3> QED
      BY <3>1, <3>2
  <2>6. private_work[t] = 0
    BY <2>1, Zenon DEF LedgerInv, ThreadsOK, ThreadOK, SplicePCs
  <2>7. /\ private_work' = [private_work EXCEPT ![t] = 0]
        /\ outstanding_work' = outstanding_work + private_work[t]
    BY <2>1, <2>2, <2>6
  <2>8. /\ pc[t] \notin LocalPCs /\ pc[t] \notin CleanPCs /\ pc[t] # "handler"
        /\ next \notin CleanPCs /\ next \notin SplicePCs /\ next # "handler"
    BY <2>1, Zenon DEF LocalPCs, CleanPCs, SplicePCs
  <2> QED
    BY <2>1, <2>4, <2>5, <2>7, <2>8, <1>1, Zenon
<1>4. CASE Exit(t)
  <2> USE <1>4
  <2> USE DEF sharedVars, kernelVars, threadVars
  <2>1. /\ pc[t] = "exit" /\ UNCHANGED <<st, enqueued, guard, cur, local_ops>>
        /\ private_queue' = [private_queue EXCEPT ![t] = <<>>]
        /\ private_work' = [private_work EXCEPT ![t] = 0]
    BY Zenon DEF Exit
  <2>2. t \in Actors /\ pc \in [Actors -> PCs] /\ private_queue \in [Threads -> Seq(Ops)]
        /\ private_work \in [Threads -> Nat] /\ outstanding_work \in Int
        /\ completed_ops \in Seq(Ops \cup {Task, Desc}) /\ "idle" \in PCs
    BY Zenon DEF Actors, TypeInv, ControlOK, DataOK, PCs, ThreadPCs
  <2>3. Moves(t, "idle")
    BY <2>1, <2>2, Goto, GotoSignal, Zenon DEF Exit
  <2>4. /\ completed_ops' = completed_ops \o private_queue[t]
        /\ outstanding_work' = outstanding_work + private_work[t]
    <3>1. CASE private_queue[t] # <<>>
      BY <3>1, Zenon DEF Exit
    <3>2. CASE private_queue[t] = <<>>
      <4>1. private_work[t] <= Len(private_queue[t]) + One(pc[t] \in CleanPCs)
        BY Zenon DEF LedgerInv, ThreadsOK, ThreadOK
      <4>2. One(pc[t] \in CleanPCs) = 0 /\ Len(private_queue[t]) = 0
        BY <2>1, <3>2, Zenon DEF One, CleanPCs
      <4>3. private_work[t] = 0
        BY <2>2, <4>1, <4>2
      <4>4. completed_ops' = completed_ops /\ outstanding_work' = outstanding_work
        BY <3>2, Zenon DEF Exit
      <4> QED
        BY <2>2, <3>2, <4>3, <4>4
    <3> QED
      BY <3>1, <3>2, Zenon
  <2>5. /\ pc[t] \notin LocalPCs /\ pc[t] \notin CleanPCs /\ pc[t] # "handler"
        /\ "idle" \notin CleanPCs /\ "idle" \notin SplicePCs /\ "idle" # "handler"
    BY <2>1, Zenon DEF LocalPCs, CleanPCs, SplicePCs
  <2> QED
    BY <2>1, <2>3, <2>4, <2>5, <1>1

\* The unit of the handler that ran is taken off what the thread produced, or
\* off outstanding_work_.
<1>5. CASE WorkCleanup(t)
  <2> USE <1>5
  <2> USE DEF sharedVars, kernelVars, threadVars
  <2>1. /\ pc[t] = "cleanup" /\ cur' = [cur EXCEPT ![t] = None]
        /\ private_work' = [private_work EXCEPT ![t] = 0]
        /\ UNCHANGED <<st, enqueued, guard, local_ops, private_queue, completed_ops>>
    BY Zenon DEF WorkCleanup
  <2>2. t \in Actors /\ pc \in [Actors -> PCs] /\ private_work \in [Threads -> Nat]
        /\ outstanding_work \in Int /\ cur \in [Actors -> Ops \cup {Desc, None}]
    BY Zenon DEF Actors, TypeInv, ControlOK, DataOK
  <2>3. PICK next \in {"splice", "stop_splice"} : pc' = [pc EXCEPT ![t] = next]
    BY Zenon DEF WorkCleanup, work_finished
  <2>4. Moves(t, next)
    BY <2>2, <2>3, Goto, Zenon DEF PCs, ThreadPCs
  <2>5. /\ private_work'[t] = 0 /\ private_work[t] \in Nat
        /\ outstanding_work' = outstanding_work + private_work[t] - 1
    BY <2>1, <2>2 DEF WorkCleanup, work_finished
  <2>6. Alone(t) /\ \A p \in Posters : cur'[p] = cur[p]
    BY <2>1, <2>2, SortsAssumption, Zenon DEF Alone, Actors
  <2>7. \A x \in Entries : Here(t, x)' = Here(t, x)
    <3>1. Exec(t) = None /\ Exec(t)' = None
      BY <2>1, <2>4, Zenon DEF Exec, Moves
    <3> QED
      BY <2>1, <3>1, Zenon DEF Here
  <2>8. One(pc[t] \in CleanPCs) = 1 /\ One(next \in CleanPCs) = 0
    BY <2>1, Zenon DEF One, CleanPCs
  <2>9. ThreadOK(t)'
    <3>1. pc'[t] = next /\ One(pc'[t] \in CleanPCs) = 0
      BY <2>4, <2>8 DEF Moves
    <3>2. local_ops[t] = <<>>
      BY <2>1, Zenon DEF LedgerInv, ThreadsOK, ThreadOK, LocalPCs
    <3>3. Len(private_queue[t]) \in Nat
      BY DEF TypeInv, DataOK
    <3> QED
      BY <2>1, <2>5, <3>1, <3>2, <3>3 DEF ThreadOK
  <2>10. outstanding_work' + private_work'[t] + One(pc[t] \in CleanPCs)
         = outstanding_work + private_work[t] + One(next \in CleanPCs)
    BY <2>2, <2>5, <2>8
  <2> QED
    BY <2>1, <2>4, <2>6, <2>7, <2>9, <2>10, LedgerThread
<1> QED BY <1>1, <1>2, <1>3, <1>4, <1>5, Zenon

\* A poster ends a cancellation, takes or returns a work guard, or stops the
\* scheduler.
LEMMA LedgerGuards ==
  ASSUME Counting, TypeInv, TypeInv', LedgerInv, NEW p \in Posters,
         \/ UserStop(p) \/ CancelFinish(p) \/ WorkGuardStart(p)
         \/ WorkGuardFinish(p)
  PROVE  LedgerInv'
<1>1. CASE UserStop(p)
  <2> USE <1>1
  <2> USE DEF sharedVars, kernelVars, threadVars
  <2>1. pc[p] = "idle" /\ stop(p, "idle")
    BY Zenon DEF UserStop
  <2>2. "idle" \in PCs /\ p \in Actors /\ pc \in [Actors -> PCs]
    BY Zenon DEF PCs, ThreadPCs, Actors, TypeInv, ControlOK
  <2>3. Moves(p, "idle")
    BY <2>1, <2>2, GotoStop
  <2>4. /\ UNCHANGED <<st, guard, cur, private_queue, private_work, local_ops>>
        /\ UNCHANGED <<outstanding_work, enqueued, completed_ops>>
    BY <2>1, Zenon DEF UserStop, stop
  <2>5. "idle" \notin HoldPCs
    BY Zenon DEF HoldPCs
  <2>6. One(pc[p] \in ClaimPCs) = One("idle" \in ClaimPCs)
    BY <2>1, Zenon
  <2> QED
    BY <2>3, <2>4, <2>5, <2>6, LedgerPoster
  \* A thread takes the task or an entry from the queue, or puts the task back.
<1>2. CASE CancelFinish(p)
  <2> USE <1>2
  <2> USE DEF sharedVars, kernelVars, threadVars
  <2>1. /\ pc[p] = "finish" /\ outstanding_work' = outstanding_work - 1
        /\ UNCHANGED <<completed_ops, st, enqueued, cur, private_queue, private_work,
                       local_ops, guard>>
    BY Zenon DEF CancelFinish, work_finished
  <2>2. PICK next \in {"idle", "stop_post"} : pc' = [pc EXCEPT ![p] = next]
    BY Zenon DEF CancelFinish, work_finished
  <2>3. Moves(p, next)
    BY <2>2, Goto, Zenon
       DEF PCs, ThreadPCs, PosterPCs, Actors, TypeInv, ControlOK
  <2>4. next \notin HoldPCs /\ One(pc[p] \in ClaimPCs) = 1 /\ One(next \in ClaimPCs) = 0
    BY <2>1, Zenon DEF HoldPCs, ClaimPCs, One
  <2>5. outstanding_work \in Int /\ One(guard[p]) \in Int
    BY DEF TypeInv, DataOK, One
  <2>6. outstanding_work' + One(guard[p]) + One(pc[p] \in ClaimPCs)
        = outstanding_work + One(guard'[p]) + One(next \in ClaimPCs)
    BY <2>1, <2>4, <2>5
  <2> QED
    BY <2>1, <2>3, <2>4, <2>6, LedgerPoster, Zenon
<1>3. CASE WorkGuardStart(p)
  <2> USE <1>3
  <2> USE DEF sharedVars, kernelVars, threadVars
  <2>1. /\ pc[p] = "idle" /\ ~guard[p] /\ guard' = [guard EXCEPT ![p] = TRUE]
        /\ outstanding_work' = outstanding_work + 1
        /\ UNCHANGED <<completed_ops, st, enqueued, cur, private_queue, private_work,
                       local_ops, pc>>
    BY Zenon DEF WorkGuardStart
  <2>2. Moves(p, "idle")
    BY <2>1 DEF Moves, TypeInv, ControlOK
  <2>3. "idle" \notin HoldPCs /\ One(pc[p] \in ClaimPCs) = One("idle" \in ClaimPCs)
    BY <2>1 DEF HoldPCs
  <2>4. guard'[p] = TRUE /\ \A q \in Posters \ {p} : guard'[q] = guard[q]
    BY <2>1, Zenon DEF TypeInv, ControlOK
  <2>5. One(guard[p]) = 0 /\ One(guard'[p]) = 1 /\ One("idle" \in ClaimPCs) \in Int
        /\ outstanding_work \in Int
    BY <2>1, <2>4 DEF One, TypeInv, DataOK
  <2>6. outstanding_work' + One(guard[p]) + One(pc[p] \in ClaimPCs)
        = outstanding_work + One(guard'[p]) + One("idle" \in ClaimPCs)
    <3> DEFINE b == One("idle" \in ClaimPCs)
    <3>1. b \in Int /\ outstanding_work' = outstanding_work + 1
      BY <2>1, <2>5, Zenon
    <3> HIDE DEF b
    <3>2. outstanding_work' + 0 + b = outstanding_work + 1 + b
      BY <2>5, <3>1
    <3> QED
      BY <2>3, <2>5, <3>2, Zenon DEF b
  <2> QED
    BY <2>1, <2>2, <2>3, <2>4, <2>6, LedgerPoster, Zenon
<1>4. CASE WorkGuardFinish(p)
  <2> USE <1>4
  <2> USE DEF sharedVars, kernelVars, threadVars
  <2>1. /\ pc[p] = "idle" /\ guard[p] /\ guard' = [guard EXCEPT ![p] = FALSE]
        /\ outstanding_work' = outstanding_work - 1
        /\ UNCHANGED <<completed_ops, st, enqueued, cur, private_queue, private_work,
                       local_ops>>
    BY Zenon DEF WorkGuardFinish, work_finished
  <2>2. PICK next \in {"idle", "stop_post"} : pc' = [pc EXCEPT ![p] = next]
    BY Zenon DEF WorkGuardFinish, work_finished
  <2>3. Moves(p, next)
    BY <2>2, Goto, Zenon
       DEF PCs, ThreadPCs, PosterPCs, Actors, TypeInv, ControlOK
  <2>4. next \notin HoldPCs /\ One(pc[p] \in ClaimPCs) = 0 /\ One(next \in ClaimPCs) = 0
    BY <2>1, Zenon DEF HoldPCs, ClaimPCs, One
  <2>5. guard'[p] = FALSE /\ \A q \in Posters \ {p} : guard'[q] = guard[q]
    BY <2>1, Zenon DEF TypeInv, ControlOK
  <2>6. One(guard[p]) = 1 /\ One(guard'[p]) = 0 /\ outstanding_work \in Int
    BY <2>1, <2>5 DEF One, TypeInv, DataOK
  <2>7. outstanding_work' + One(guard[p]) + One(pc[p] \in ClaimPCs)
        = outstanding_work + One(guard'[p]) + One(next \in ClaimPCs)
    <3>1. outstanding_work' + 1 + 0 = outstanding_work + 0 + 0
      BY <2>1, <2>6
    <3> QED
      BY <2>4, <2>6, <3>1, Zenon
  <2> QED
    BY <2>1, <2>3, <2>4, <2>5, <2>7, LedgerPoster, Zenon
<1> QED BY <1>1, <1>2, <1>3, <1>4, Zenon
=============================================================================
