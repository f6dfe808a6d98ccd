--------------------------- MODULE ReactorLedger ---------------------------
(***************************************************************************)
(* The inductive form of QueueLedger (ReactorScheduler): LedgerInv.        *)
(*                                                                         *)
(* QueueLedger counts places, so its proof is about how many positions of  *)
(* the queues hold an entry (Count), how many places an entry has          *)
(* altogether (N), and what a thread's private units are for (ThreadOK).   *)
(* Counting states, about the constants only, what the steps' proofs need  *)
(* of finite sets and sequences.                                           *)
(***************************************************************************)
EXTENDS ReactorTypes

\* How often x occurs in the queue q.
Count(x, q) == Cardinality(Positions({x}, q))
One(b) == IF b THEN 1 ELSE 0

-----------------------------------------------------------------------------
(* The places of an entry.                                                 *)

\* Places, with the variables as parameters.
PlacesOf(E, c, pq, lo, at, e) ==
  Tag("completed", None, Positions(E, c))
  \cup InQueues("private", E, pq) \cup InQueues("local", E, lo) \cup InHandlers(E, at, e)

\* The places of x in the shared queue, and those that belong to thread u,
\* which has the queues p and l and executes e.
Shared(x, c) == Tag("completed", None, Positions({x}, c))
InHandler(u, x, e) == IF e = x THEN {<<"handler", u, 0>>} ELSE {}
Own(u, x, p, l, e) ==
  Tag("private", u, Positions({x}, p)) \cup Tag("local", u, Positions({x}, l))
  \cup InHandler(u, x, e)

Executing(at, e) == IF at = "handler" THEN e ELSE None
OwnOf(u, x, pq, lo, at, e) == Own(u, x, pq[u], lo[u], Executing(at[u], e[u]))
Elsewhere(T, x, pq, lo, at, e) == UNION {OwnOf(u, x, pq, lo, at, e) : u \in T}

\* The variables of the queues have their types.
Queues(c, pq, lo) ==
  /\ c \in Seq(Ops \cup {Task, Desc})
  /\ pq \in [Threads -> Seq(Ops)]
  /\ lo \in [Threads -> Seq({Desc})]

\* The number of places of x; the entry that thread u executes; and the
\* places of x that a step of thread t can change.
N(x) == Cardinality(Places({x}))
Exec(u) == IF pc[u] = "handler" THEN cur[u] ELSE None
Here(t, x) == Count(x, completed_ops) + Count(x, private_queue[t])
              + Count(x, local_ops[t]) + One(Exec(t) = x)

\* The other threads keep what they have and execute what they executed.
Apart(t) ==
  \A u \in Threads \ {t} :
     /\ private_queue'[u] = private_queue[u] /\ local_ops'[u] = local_ops[u]
     /\ Exec(u)' = Exec(u)

Units == Cardinality(PrivateUnits)
-----------------------------------------------------------------------------
(* The inductive invariant.                                                *)

CleanPCs == {"cleanup", "stop_handler"}
SplicePCs == {"splice", "stop_splice"}
LocalPCs == {"disarm", "relock"}
HoldPCs == {"post", "post_claimed"}
ClaimPCs == {"post_claimed", "finish"}

\* A completion has a place while it is due, the descriptor while it is
\* enqueued.
EntryOK ==
  /\ \A o \in Ops : N(o) = One(st[o] \in {"queued", "resumed"})
  /\ N(Desc) = One(enqueued)

\* A handler has an entry; local_ops is spliced before run_task() returns; and
\* each private unit is for an entry of the private queue or, when
\* invoke_deferred_io() compensated, for the handler that is cleaning up.
ThreadOK(t) ==
  /\ pc[t] = "handler" => cur[t] \in Ops \cup {Desc}
  /\ local_ops[t] # <<>> => pc[t] \in LocalPCs
  /\ private_work[t] <= Len(private_queue[t]) + One(pc[t] \in CleanPCs)
  /\ pc[t] \in SplicePCs => private_work[t] = 0

\* An operation that is being posted is in the hands of one poster.
PosterOK ==
  /\ \A p \in Posters : pc[p] \in HoldPCs =>
        cur[p] \in Posts \cup IoOps /\ st[cur[p]] = "posting"
  /\ \A p, q \in Posters :
        pc[p] \in HoldPCs /\ pc[q] \in HoldPCs /\ cur[p] = cur[q] => p = q

\* WorkLedger, with the operations that are queued or executed counted by
\* their life cycle instead of their places.
Live == {"pending", "posting", "queued", "resumed"}
LiveOps == {o \in Ops : st[o] \in Live}
FiredTimers == {o \in Timers : st[o] = "queued"}
Guards == {p \in Posters : guard[p]}
Claimers == {p \in Posters : pc[p] \in ClaimPCs}
Balance ==
  outstanding_work + Units
    = Cardinality(LiveOps) + Cardinality(FiredTimers) + Cardinality(CleaningUp)
      + Cardinality(Guards) + Cardinality(Claimers)

ThreadsOK == \A t \in Threads : ThreadOK(t)
LedgerInv == EntryOK /\ ThreadsOK /\ PosterOK /\ Balance
-----------------------------------------------------------------------------
(* What a step of one actor leaves as it was.                              *)

\* A step of a leaves the contexts of the other threads alone.
Alone(a) ==
  \A u \in Threads \ {a} :
     /\ private_queue'[u] = private_queue[u] /\ private_work'[u] = private_work[u]
     /\ local_ops'[u] = local_ops[u] /\ cur'[u] = cur[u]

Entries == Ops \cup {Desc}

-----------------------------------------------------------------------------
(* Counting.                                                               *)

\* Queues: what Count gives for a splice, a small queue, and an enumeration.
CountNatLaw == \A A : \A q \in Seq(A) : \A x : Count(x, q) \in Nat

CountConcatLaw ==
  \A A : \A s, u \in Seq(A) : \A x : Count(x, s \o u) = Count(x, s) + Count(x, u)

CountSmallLaw == \A x, y : Count(x, <<>>) = 0 /\ Count(x, <<y>>) = One(y = x)

CountOrderLaw ==
  \A S : IsFiniteSet(S) =>
    \A order \in Orders(S) :
      /\ order \in Seq(S) /\ (S # {} => order # <<>>)
      /\ \A x : Count(x, order) = One(x \in S)

\* Sets: parts, disjoint unions, and a set that changes in one element at most.
SetLaws ==
  /\ \A S : IsFiniteSet(S) =>
       Cardinality(S) \in Nat /\ \A R \in SUBSET S : IsFiniteSet(R)
  /\ \A S, R : IsFiniteSet(S) /\ IsFiniteSet(R) /\ S \cap R = {} =>
       Cardinality(S \cup R) = Cardinality(S) + Cardinality(R)
  /\ \A S, R, x : IsFiniteSet(S) /\ (\A y : y # x => (y \in R <=> y \in S)) =>
       /\ IsFiniteSet(R)
       /\ Cardinality(S) \in Nat /\ Cardinality(R) \in Nat
       /\ Cardinality(R) = Cardinality(S) + One(x \in R) - One(x \in S)

\* Places: those in the shared queue and those of the threads ...
SharedSplit(x, c, pq, lo, at, e) ==
  /\ Cardinality(Elsewhere(Threads, x, pq, lo, at, e)) \in Nat
  /\ Cardinality(PlacesOf({x}, c, pq, lo, at, e))
     = Count(x, c) + Cardinality(Elsewhere(Threads, x, pq, lo, at, e))

\* ... those of one thread, and those of the others.
ThreadSplit(x, c, pq, lo, at, e, t) ==
  /\ Cardinality(Elsewhere(Threads \ {t}, x, pq, lo, at, e)) \in Nat
  /\ Cardinality(PlacesOf({x}, c, pq, lo, at, e))
     = Count(x, c) + Count(x, pq[t]) + Count(x, lo[t])
       + One(Executing(at[t], e[t]) = x)
       + Cardinality(Elsewhere(Threads \ {t}, x, pq, lo, at, e))

PlaceLaws ==
  \A x, c, pq, lo, at, e : x # None /\ Queues(c, pq, lo) =>
    /\ SharedSplit(x, c, pq, lo, at, e)
    /\ \A t \in Threads : ThreadSplit(x, c, pq, lo, at, e, t)

\* Units: those of one thread and those of the others.
UnitLaws ==
  \A w \in [Threads -> Nat] :
    /\ Cardinality(UnitsIn(Threads, w)) \in Nat
    /\ \A t \in Threads :
         /\ Cardinality(UnitsIn(Threads \ {t}, w)) \in Nat
         /\ Cardinality(UnitsIn(Threads, w))
            = w[t] + Cardinality(UnitsIn(Threads \ {t}, w))

Counting ==
  /\ CountNatLaw /\ CountConcatLaw /\ CountSmallLaw /\ CountOrderLaw
  /\ SetLaws /\ PlaceLaws /\ UnitLaws
=============================================================================
