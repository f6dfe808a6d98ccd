---------------------------- MODULE PoolServices ----------------------------
(***************************************************************************)
(* The thread pool for blocking calls and its clients: the POSIX resolver, *)
(* the POSIX stream and random-access files, and the Windows resolver.     *)
(* One object of one kind, its operations, the pool's threads and queue,   *)
(* the scheduler's queue, cancellation, closing, reopening, destruction    *)
(* and the shutdown of the services.  Who keeps the object alive is        *)
(* modelled by the shared_ptr copies: the service's map, the pool item's   *)
(* ref_, the copy on a pool thread's stack, and the operation's own.       *)
(***************************************************************************)
EXTENDS Integers, Sequences, FiniteSets

CONSTANTS PoolThreads,   \* threads_ of the pool
          PoolKinds,     \* kinds of object, among "posix", "win", "stream", "raf"
          MaxPoolStarts, \* operations started in a behaviour
          MaxOpens       \* files opened or adopted in a behaviour

VARIABLES pkind,    \* the kind of object
          pq,       \* work_queue_
          notes,    \* notify_one() calls still to be made
          pdown,    \* "no", "svc", "flag", "notified", "joined": progress of the services' shutdown
          wk,       \* per pool thread: what it does, for which operation, and a ref on its stack
          pop,      \* the operations
          mapped,   \* the service's map holds the object
          fd,       \* the open file (0: none)
          pwork,    \* the scheduler's count, as far as these operations move it
          pstarts, opens
pool_vars == <<pkind, pq, notes, pdown, wk, pop, mapped, fd, pwork, pstarts, opens>>

Resolvers == {"posix", "win"}
Files == {"stream", "raf"}
PoolOps == {"a", "b"}   \* resolve and reverse_resolve; read and write; two raf_op
\* st: idle, pooled, kernel (GetAddrInfoEx), called, finished, queued (in the scheduler)
NewPoolOp == [st |-> "idle", flag |-> FALSE, ref |-> FALSE, res |-> "none", file |-> 0, used |-> 0,
              asked |-> FALSE, moved |-> FALSE, out |-> "none"]
Pending(o) == pop[o].st # "idle"
IdleThread == [st |-> "awake", op |-> "none", ref |-> FALSE]
\* enable_shared_from_this: the object lives while anybody holds a reference
ObjectAlive == mapped \/ \E o \in PoolOps : pop[o].ref \/ \E w \in PoolThreads : wk[w].ref

PoolInit ==
    /\ pkind \in PoolKinds
    /\ pq = <<>> /\ notes = 0 /\ pdown = "no"
    /\ wk = [w \in PoolThreads |-> IdleThread]
    /\ pop = [o \in PoolOps |-> NewPoolOp]
    /\ mapped = TRUE /\ fd = (IF pkind \in Files THEN 1 ELSE 0)
    /\ pwork = 0 /\ pstarts = 0 /\ opens = 1

---------------------------------------------------------------------------
(* Starting an operation *)

\* a stream file allows one operation in flight; a raf_op is allocated for each
MayStart(o) ==
    /\ mapped /\ pdown = "no" /\ pstarts < MaxPoolStarts
    /\ ~Pending(o)
    /\ pkind = "stream" => \A p \in PoolOps : ~Pending(p)
    /\ pkind \in Files => fd # 0

\* reset() and start(token): the flag is cleared before the callback is registered,
\* which runs at once if the token is stopped already
Armed(o, stopped) == [NewPoolOp EXCEPT !.st = "pooled", !.ref = TRUE, !.file = fd,
                                       !.flag = stopped, !.asked = stopped]
\* Mutant: nobody is notified.
Posted_bug(o) == pq' = Append(pq, o) /\ UNCHANGED notes
\* thread_pool::post under the lock; notify_one() follows after the unlock
Posted(o) == pq' = Append(pq, o) /\ notes' = notes + 1
StartPooled(o) ==
    /\ MayStart(o) /\ pstarts' = pstarts + 1
    /\ \E stopped \in BOOLEAN : pop' = [pop EXCEPT ![o] = Armed(o, stopped)]
    /\ pwork' = pwork + 1
    /\ Posted(o)
    /\ UNCHANGED <<pkind, pdown, wk, mapped, fd, opens>>

resolve == pkind = "posix" /\ StartPooled("a")
reverse_resolve == pkind = "posix" /\ StartPooled("b")
win_reverse_resolve == pkind = "win" /\ StartPooled("b")
read_some == pkind = "stream" /\ StartPooled("a")
write_some == pkind = "stream" /\ StartPooled("b")
read_some_at == pkind = "raf" /\ StartPooled("a")
write_some_at == pkind = "raf" /\ StartPooled("b")

\* GetAddrInfoExW is pending, with no reference to the object, or answers at once
win_resolve ==
    /\ pkind = "win" /\ MayStart("a") /\ pstarts' = pstarts + 1
    /\ \E stopped \in BOOLEAN, r \in {"ok", "err", "none"} :
        LET o == [Armed("a", stopped) EXCEPT !.ref = FALSE, !.res = r] IN
        pop' = [pop EXCEPT !["a"] = [o EXCEPT !.st = IF r = "none" THEN "kernel" ELSE "queued"]]
    /\ pwork' = pwork + 1
    /\ UNCHANGED <<pkind, pq, notes, pdown, wk, mapped, fd, opens>>

---------------------------------------------------------------------------
(* The pool's threads *)

\* notify_one wakes one of the sleeping threads, if there is one
notify_one ==
    /\ notes > 0 /\ notes' = notes - 1
    /\ \/ \E w \in PoolThreads : wk[w].st = "asleep" /\ wk' = [wk EXCEPT ![w].st = "awake"]
       \/ (\A w \in PoolThreads : wk[w].st # "asleep") /\ UNCHANGED wk
    /\ UNCHANGED <<pkind, pq, pdown, pop, mapped, fd, pwork, pstarts, opens>>

PoolShut == pdown \in {"flag", "notified", "joined"}
\* with the mutex held: an item is taken before shutdown_ is looked at
Dispatch(w) ==
    \/ pq # <<>> /\ wk' = [wk EXCEPT ![w] = [st |-> "running", op |-> Head(pq), ref |-> FALSE]] /\ pq' = Tail(pq)
    \/ pq = <<>> /\ ~PoolShut /\ wk' = [wk EXCEPT ![w].st = "asleep"] /\ UNCHANGED pq
    \/ pq = <<>> /\ PoolShut /\ wk' = [wk EXCEPT ![w].st = "gone"] /\ UNCHANGED pq
worker_loop(w) ==
    /\ wk[w].st = "awake" /\ Dispatch(w)
    /\ UNCHANGED <<pkind, notes, pdown, pop, mapped, fd, pwork, pstarts, opens>>

\* a file operation tests the flag, then calls preadv or pwritev on whatever fd_ is by
\* then; a closed descriptor answers EBADF
TestFlag(w) ==
    /\ wk[w].st = "running" /\ pkind \in Files
    /\ LET o == wk[w].op IN
        IF pop[o].flag
        THEN wk' = [wk EXCEPT ![w].st = "called"] /\ pop' = [pop EXCEPT ![o].res = "none"]
        ELSE wk' = [wk EXCEPT ![w].st = "testing"] /\ UNCHANGED pop
    /\ UNCHANGED <<pkind, pq, notes, pdown, mapped, fd, pwork, pstarts, opens>>
FileCall(w) ==
    /\ wk[w].st = "testing" /\ wk' = [wk EXCEPT ![w].st = "called"]
    /\ \E r \in (IF fd = 0 THEN {"err"} ELSE {"ok", "err"}) :
        pop' = [pop EXCEPT ![wk[w].op].res = r, ![wk[w].op].used = fd]
    /\ UNCHANGED <<pkind, pq, notes, pdown, mapped, fd, pwork, pstarts, opens>>
do_read_work(w) == pkind = "stream" /\ wk[w].op = "a" /\ FileCall(w)
do_write_work(w) == pkind = "stream" /\ wk[w].op = "b" /\ FileCall(w)
do_work(w) == pkind = "raf" /\ FileCall(w)

\* Mutant: the answer is never stored.
Kept_bug(o, r) == "none"
\* a lookup calls first and keeps the answer unless it was cancelled meanwhile
Kept(o, r) == IF pop[o].flag THEN "none" ELSE r
LookUp(w) ==
    /\ wk[w].st = "running" /\ pkind \in Resolvers
    /\ wk' = [wk EXCEPT ![w].st = "called"]
    /\ \E r \in {"ok", "err"} : pop' = [pop EXCEPT ![wk[w].op].res = Kept(wk[w].op, r)]
    /\ UNCHANGED <<pkind, pq, notes, pdown, mapped, fd, pwork, pstarts, opens>>
do_resolve_work(w) == pkind = "posix" /\ wk[w].op = "a" /\ LookUp(w)
do_reverse_resolve_work(w) == pkind = "posix" /\ wk[w].op = "b" /\ LookUp(w)
win_do_reverse_resolve_work(w) == pkind = "win" /\ LookUp(w)

\* Windows gives its unit of work back before it posts the operation
WorkBack(w) ==
    /\ wk[w].st = "called" /\ pkind = "win"
    /\ wk' = [wk EXCEPT ![w].st = "finished"] /\ pwork' = pwork - 1
    /\ UNCHANGED <<pkind, pq, notes, pdown, pop, mapped, fd, pstarts, opens>>
\* the files give the item's reference to the operation, the resolvers move it to the
\* pool thread's stack, where it ends when the function returns
PostOp(w) ==
    /\ wk[w].st = IF pkind = "win" THEN "finished" ELSE "called"
    /\ pop' = [pop EXCEPT ![wk[w].op].st = "queued", ![wk[w].op].ref = pkind \in Files]
    /\ wk' = [wk EXCEPT ![w] = [st |-> "posted", op |-> "none", ref |-> pkind \in Resolvers]]
    /\ pwork' = pwork + 1
    /\ UNCHANGED <<pkind, pq, notes, pdown, mapped, fd, pstarts, opens>>
WorkReturns(w) ==
    /\ wk[w].st = "posted" /\ wk' = [wk EXCEPT ![w] = IdleThread]
    /\ UNCHANGED <<pkind, pq, notes, pdown, pop, mapped, fd, pwork, pstarts, opens>>

\* the callback of GetAddrInfoExW, on a thread of the system: work_finished, then post
completion ==
    \/ /\ pop["a"].st = "kernel" /\ ObjectAlive
       /\ \E r \in {"ok", "err"} : pop' = [pop EXCEPT !["a"].st = "finished", !["a"].res = r]
       /\ pwork' = pwork - 1
       /\ UNCHANGED <<pkind, pq, notes, pdown, wk, mapped, fd, pstarts, opens>>
    \/ /\ pop["a"].st = "finished" /\ ObjectAlive
       /\ pop' = [pop EXCEPT !["a"].st = "queued"] /\ pwork' = pwork + 1
       /\ UNCHANGED <<pkind, pq, notes, pdown, wk, mapped, fd, pstarts, opens>>

---------------------------------------------------------------------------
(* The event loop *)

\* no answer and no error is a success with nothing in it
Reported(r) == IF r = "none" THEN "empty" ELSE r
Outcome(o) == IF pop[o].flag THEN "canceled" ELSE Reported(pop[o].res)
\* work_finished of a POSIX operation, on top of the unit that post() took
LoopUnits == IF pkind = "win" THEN 1 ELSE 2
\* stop_cb.reset(), results, references, work, resume
Complete(o) ==
    /\ pop[o].st = "queued" /\ ObjectAlive /\ pdown = "no"
    /\ pop' = [pop EXCEPT ![o].st = "idle", ![o].ref = FALSE, ![o].out = Outcome(o)]
    /\ pwork' = pwork - LoopUnits
    /\ UNCHANGED <<pkind, pq, notes, pdown, wk, mapped, fd, pstarts, opens>>
resolve_op == pkind = "posix" /\ Complete("a")
reverse_resolve_op == pkind = "posix" /\ Complete("b")
win_resolve_op == pkind = "win" /\ Complete("a")
win_reverse_resolve_op == pkind = "win" /\ Complete("b")
file_op(o) == pkind = "stream" /\ Complete(o)
raf_op(o) == pkind = "raf" /\ Complete(o)

\* every pending operation is told; a flag set on an idle one is cleared by its next start
Flagged == [o \in PoolOps |-> IF Pending(o) THEN [pop[o] EXCEPT !.flag = TRUE, !.asked = TRUE] ELSE pop[o]]
Cancel(kind) ==
    /\ pkind = kind /\ mapped /\ pdown = "no" /\ (pkind \in Files => fd # 0)
    /\ pop' = Flagged
    /\ UNCHANGED <<pkind, pq, notes, pdown, wk, mapped, fd, pwork, pstarts, opens>>
cancel == Cancel("posix")
win_cancel == Cancel("win")
file_cancel == Cancel("stream")
raf_cancel == Cancel("raf")
request_cancel(o) ==
    /\ Pending(o) /\ ObjectAlive
    /\ pop' = [pop EXCEPT ![o].flag = TRUE, ![o].asked = TRUE]
    /\ UNCHANGED <<pkind, pq, notes, pdown, wk, mapped, fd, pwork, pstarts, opens>>
CloseFile(kind) ==
    /\ pkind = kind /\ mapped /\ pdown = "no" /\ fd # 0
    /\ pop' = Flagged /\ fd' = 0
    /\ UNCHANGED <<pkind, pq, notes, pdown, wk, mapped, pwork, pstarts, opens>>
close_file == CloseFile("stream")
raf_close_file == CloseFile("raf")
\* open() and assign() close an open file first; one that was released is not open
Adopt ==
    /\ mapped /\ pdown = "no" /\ pkind \in Files /\ opens < MaxOpens
    /\ opens' = opens + 1 /\ fd' = opens'
    /\ pop' = IF fd # 0 THEN Flagged ELSE pop
    /\ UNCHANGED <<pkind, pq, notes, pdown, wk, mapped, pwork, pstarts>>
open_file == pkind = "stream" /\ Adopt
assign == pkind = "stream" /\ Adopt
raf_open_file == pkind = "raf" /\ Adopt
raf_assign == pkind = "raf" /\ Adopt
Release(kind) ==
    /\ pkind = kind /\ mapped /\ pdown = "no" /\ fd # 0
    /\ fd' = 0
    /\ pop' = [o \in PoolOps |-> [pop[o] EXCEPT !.moved = @ \/ Pending(o)]]
    /\ UNCHANGED <<pkind, pq, notes, pdown, wk, mapped, pwork, pstarts, opens>>

release == Release("stream")
raf_release == Release("raf")

\* the service's destroy(): cancel, close, erase from the map
Destroy(kind) ==
    /\ pkind = kind /\ mapped /\ pdown = "no"
    /\ pop' = Flagged /\ fd' = 0 /\ mapped' = FALSE
    /\ UNCHANGED <<pkind, pq, notes, pdown, wk, pwork, pstarts, opens>>

destroy_impl == Destroy("posix")
win_destroy_impl == Destroy("win")
file_destroy == Destroy("stream")
raf_destroy == Destroy("raf")

---------------------------------------------------------------------------
(* Shutdown: the services in reverse order of creation, the pool after its clients *)

ServiceShutdown(kind) ==
    /\ pkind = kind /\ pdown = "no" /\ pdown' = "svc"
    /\ pop' = Flagged /\ fd' = 0 /\ mapped' = FALSE
    /\ UNCHANGED <<pkind, pq, notes, wk, pwork, pstarts, opens>>
resolver_shutdown == ServiceShutdown("posix")
win_resolver_shutdown == ServiceShutdown("win")
file_shutdown == ServiceShutdown("stream")
raf_shutdown == ServiceShutdown("raf")
\* shutdown_ under the lock, notify_all, join
shutdown ==
    /\ pdown \in {"svc", "flag"}
    /\ pdown' = IF pdown = "svc" THEN "flag" ELSE "notified"
    /\ wk' = [w \in PoolThreads |-> IF pdown = "flag" /\ wk[w].st = "asleep" THEN [wk[w] EXCEPT !.st = "awake"] ELSE wk[w]]
    /\ UNCHANGED <<pkind, pq, notes, pop, mapped, fd, pwork, pstarts, opens>>
Join ==
    /\ pdown = "notified" /\ \A w \in PoolThreads : wk[w].st = "gone"
    /\ pdown' = "joined" /\ pq' = <<>>
    /\ UNCHANGED <<pkind, notes, wk, pop, mapped, fd, pwork, pstarts, opens>>
\* the scheduler's shutdown calls destroy() on what is queued
DestroyQueued(o) ==
    /\ pdown = "joined" /\ pop[o].st = "queued" /\ pkind \in Files
    /\ pop' = [pop EXCEPT ![o] = NewPoolOp] /\ pwork' = pwork - 2
    /\ UNCHANGED <<pkind, pq, notes, pdown, wk, mapped, fd, pstarts, opens>>
PoolEnd == pdown = "joined" /\ (pkind \in Files => \A o \in PoolOps : ~Pending(o)) /\ UNCHANGED pool_vars

PoolNext ==
    \/ resolve \/ reverse_resolve \/ win_resolve \/ win_reverse_resolve
    \/ read_some \/ write_some \/ read_some_at \/ write_some_at
    \/ notify_one \/ completion
    \/ \E w \in PoolThreads :
        \/ worker_loop(w) \/ TestFlag(w) \/ do_read_work(w) \/ do_write_work(w) \/ do_work(w)
        \/ do_resolve_work(w) \/ do_reverse_resolve_work(w) \/ win_do_reverse_resolve_work(w)
        \/ WorkBack(w) \/ PostOp(w) \/ WorkReturns(w)
    \/ resolve_op \/ reverse_resolve_op \/ win_resolve_op \/ win_reverse_resolve_op
    \/ \E o \in PoolOps : file_op(o) \/ raf_op(o) \/ request_cancel(o) \/ DestroyQueued(o)
    \/ cancel \/ win_cancel \/ file_cancel \/ raf_cancel
    \/ close_file \/ raf_close_file \/ open_file \/ assign \/ raf_open_file \/ raf_assign \/ release \/ raf_release
    \/ destroy_impl \/ win_destroy_impl \/ file_destroy \/ raf_destroy
    \/ resolver_shutdown \/ win_resolver_shutdown \/ file_shutdown \/ raf_shutdown
    \/ shutdown \/ Join \/ PoolEnd
PoolSpec == PoolInit /\ [][PoolNext]_pool_vars

---------------------------------------------------------------------------
\* The state has the types of its declarations.
PoolTypeOK ==
    /\ pkind \in PoolKinds /\ Len(pq) <= 2 /\ notes \in 0 .. MaxPoolStarts
    /\ \A w \in PoolThreads : wk[w].st \in {"asleep", "awake", "running", "testing", "called", "finished", "posted", "gone"}
    /\ \A o \in PoolOps : /\ pop[o].st \in {"idle", "pooled", "kernel", "finished", "queued"}
                          /\ pop[o].res \in {"none", "ok", "err"}
    /\ fd \in 0 .. MaxOpens /\ pwork \in 0 .. 4

\* post() notifies after it has unlocked, and a thread tests the queue before it sleeps:
\* no item waits in the queue with every thread asleep and no notification to come.
NoStrandedItem ==
    pq # <<>> => notes > 0 \/ \E w \in PoolThreads : wk[w].st # "asleep"

\* shutdown() joins threads that drain the queue first: the items that post() accepted
\* have all run when the pool is gone, and their operations are with the scheduler.
AcceptedItemsRun == pdown = "joined" => \A o \in PoolOps : pop[o].st # "pooled"

\* A pool thread and the pool's queue only hold operations of a living object, and a
\* file keeps itself alive until its completion has been run, though the handle is gone.
WorkKeepsAlive ==
    \A o \in PoolOps :
        pop[o].st = "pooled" \/ (pop[o].st = "queued" /\ pkind \in Files) => ObjectAlive

\* A pooled operation is in the queue once or with one thread: no item is lost between
\* post() and the threads, and none is run by two of them.
PoolOneHome ==
    \A o \in PoolOps :
        (IF pop[o].st = "pooled" THEN 1 ELSE 0)
        = Cardinality({i \in 1 .. Len(pq) : pq[i] = o}) + Cardinality({w \in PoolThreads : wk[w].op = o})

\* cancel(), close() and a stop request, at whatever moment before the completion runs,
\* make the operation end as canceled, and nothing else does.
CancelIsReported ==
    \A o \in PoolOps : ~Pending(o) /\ pop[o].out # "none" => (pop[o].out = "canceled" <=> pop[o].asked)

\* An operation that succeeds has its answer: the pool thread drops an answer only when
\* the loop will report the cancellation.
SuccessHasAnswer == \A o \in PoolOps : pop[o].out # "empty"

\* A file operation that succeeds was made on the file it was started on, however
\* close(), open() and assign() race the pool thread; release() alone does not cancel.
SuccessOnOwnFile ==
    \A o \in PoolOps : ~Pending(o) /\ pop[o].out = "ok" /\ ~pop[o].moved => pop[o].used = pop[o].file

\* Each operation moves the work count by the units it takes, so it neither stops the
\* loop early nor keeps it running; Windows has none while it posts.
PoolWork ==
    LET Held(o) == CASE pop[o].st = "idle" -> 0
                     [] pop[o].st = "finished" \/ (\E w \in PoolThreads : wk[w].op = o /\ wk[w].st = "finished") -> 0
                     [] pop[o].st = "queued" -> IF pkind = "win" THEN 1 ELSE 2
                     [] OTHER -> 1
    IN  pwork = Held("a") + Held("b")

\* resolve(): "Keep io_context alive while resolution is pending": the work count does
\* not reach zero, which stops the loop, under a pending operation.
LoopStaysAlive == (\E o \in PoolOps : Pending(o)) => pwork > 0

\* resolve(): "Prevent impl destruction while work is in flight": a pending operation,
\* which is embedded in the resolver, lies in a living object.
PendingOpAlive == (\E o \in PoolOps : Pending(o)) => ObjectAlive

(***************************************************************************)
(* An item accepted by thread_pool::post runs although shutdown() races    *)
(* the notification, each operation is in one place and holds its units of *)
(* work, and the object it lies in is kept while a pool thread works for   *)
(* it.                                                                     *)
(***************************************************************************)
PoolLedger ==
    /\ PoolTypeOK
    /\ NoStrandedItem
    /\ AcceptedItemsRun
    /\ WorkKeepsAlive
    /\ PoolOneHome
    /\ PoolWork

(***************************************************************************)
(* What a lookup or a file operation reports is what happened, although    *)
(* the cancellation flag is read on two threads and the descriptor may     *)
(* change in between: a success has an answer and was made on the file it  *)
(* was started on, and a cancellation is reported.                         *)
(***************************************************************************)
PoolAnswers ==
    /\ CancelIsReported
    /\ SuccessHasAnswer
    /\ SuccessOnOwnFile
=============================================================================
