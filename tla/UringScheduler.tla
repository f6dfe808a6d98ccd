--------------------------- MODULE UringScheduler ---------------------------
(***************************************************************************)
(* The io_uring run loop: one thread leads (it waits for the ring), the    *)
(* others follow (they run queued operations, or wait on cond_).           *)
(*                                                                         *)
(* Queued operations are interchangeable, so completed_ops_ is a number.   *)
(* A step of a thread is one critical section of dispatch_mutex_ or of     *)
(* ring_mutex_, or the kernel wait, which holds neither.                   *)
(***************************************************************************)
EXTENDS Naturals, FiniteSets

CONSTANTS Runners,     \* threads that call run(), run_one(), poll(), ...
          RunModes,    \* which of those calls they make
          MaxMade      \* bound on the operations, cancels and timers ever made

VARIABLES pc, mode,    \* per thread: where in do_one, and for which call
          limit,       \* the leader's wait: "zero", "timer", "usec" or "cap"
          queued,      \* completed_ops_
          owork,       \* outstanding_work_
          leading,     \* task_running_
          stopped,     \* stopped_
          staged,      \* operations in the submission queue
          cancels,     \* cancel entries in the submission queue
          kernel,      \* operations in the kernel
          cqes,        \* their entries in the completion queue
          wake,        \* the eventfd's entry is in the completion queue
          roused,      \* an entry arrived since the leader entered the kernel
          timer,       \* "none", "set" or "due"
          other,       \* where a thread outside the run loop is
          made

loop_vars == <<pc, mode, limit, queued, owork, leading, stopped, staged, cancels, kernel,
               cqes, wake, roused, timer, other, made>>

ASSUME RunnersAssumption ==
    /\ Runners # {} /\ IsFiniteSet(Runners) /\ MaxMade \in Nat
    /\ RunModes \subseteq {"run", "run_one", "wait_one", "poll", "poll_one"}

LoopInit ==
    /\ pc = [t \in Runners |-> "out"] /\ mode = [t \in Runners |-> "run"]
    /\ limit = "zero" /\ queued = 1 /\ owork = 1 /\ leading = FALSE /\ stopped = FALSE
    /\ staged = 0 /\ cancels = 0 /\ kernel = 0 /\ cqes = 0 /\ wake = FALSE /\ roused = FALSE
    /\ timer = "none" /\ other = "idle" /\ made = 1

Goto(t, l) == pc' = [pc EXCEPT ![t] = l]
Waiters == {t \in Runners : pc[t] = "wait"}
\* cond_.notify_one and notify_all, with thread t going to l
NotifyOne(t, l) == IF Waiters = {} THEN Goto(t, l)
                   ELSE \E w \in Waiters : pc' = [pc EXCEPT ![t] = l, ![w] = "woken"]
Notified(f) == [u \in Runners |-> IF f[u] = "wait" THEN "woken" ELSE f[u]]
InKernel == \E t \in Runners : pc[t] = "kernel"
\* interrupt_reactor: the eventfd is written, its multishot poll yields an entry
Interrupt == wake' = TRUE /\ roused' = (roused \/ InKernel)

-----------------------------------------------------------------------------
(***************************************************************************)
(* run(), run_one(), wait_one(), poll(), poll_one().                       *)
(***************************************************************************)
Enter(t) == \E m \in RunModes :
    /\ pc[t] = "out"
    /\ mode' = [mode EXCEPT ![t] = m]
    /\ stopped' = (stopped \/ owork = 0)
    /\ Goto(t, IF owork = 0 THEN "stop_out" ELSE "top")
    /\ UNCHANGED <<limit, queued, owork, leading, staged, cancels, kernel, cqes, wake, roused,
                   timer, other, made>>
\* do_one returned r handlers: run() goes on while there is work, poll() while
\* handlers run, the others leave
After(m, r) == IF \/ m = "run" /\ (r = 1 \/ (owork # 0 /\ ~stopped))
                  \/ m = "poll" /\ r = 1
               THEN "top" ELSE "out"

Top(t) ==
    /\ pc[t] = "top"
    /\ Goto(t, IF stopped THEN After(mode[t], 0) ELSE "pump")
    /\ UNCHANGED <<mode, limit, queued, owork, leading, stopped, staged, cancels, kernel, cqes,
                   wake, roused, timer, other, made>>

\* process_completions under ring_mutex_; n entries of operations are queued
Drained(n, t, l) ==
    /\ cqes' = 0 /\ wake' = FALSE /\ queued' = queued + n
    /\ IF n > 0 THEN NotifyOne(t, l) ELSE Goto(t, l)
\* The head of do_one: flush and drain if the ring has anything
PumpFirst(t) ==
    /\ pc[t] = "pump"
    /\ Drained(cqes, t, "expire")
    /\ kernel' = kernel + staged /\ staged' = 0 /\ cancels' = 0
    /\ UNCHANGED <<mode, limit, owork, leading, stopped, roused, timer, other, made>>

\* process_expired: a due timer's completion is posted
Expire(t, l) ==
    IF timer = "due"
    THEN /\ timer' = "none" /\ queued' = queued + 1
         /\ IF leading THEN Interrupt /\ Goto(t, l)
            ELSE NotifyOne(t, l) /\ UNCHANGED <<wake, roused>>
    ELSE Goto(t, l) /\ UNCHANGED <<timer, queued, wake, roused>>
ExpireFirst(t) ==
    /\ pc[t] = "expire" /\ Expire(t, "loop")
    /\ UNCHANGED <<mode, limit, owork, leading, stopped, staged, cancels, kernel, cqes, other, made>>

\* One pass of the loop under dispatch_mutex_
Limit(m) == IF m \in {"poll", "poll_one"} THEN "zero"
            ELSE IF timer # "none" THEN "timer" ELSE IF m = "wait_one" THEN "usec" ELSE "cap"
Pop(t) ==
    /\ pc[t] = "loop" /\ ~stopped /\ queued > 0
    /\ queued' = queued - 1
    /\ IF queued > 1 THEN NotifyOne(t, "handler") ELSE Goto(t, "handler")
    /\ UNCHANGED <<mode, limit, owork, leading, stopped, staged, cancels, kernel, cqes, wake,
                   roused, timer, other, made>>
GiveUp(t) ==    \* stopped, out of work, or polling while another thread leads
    /\ pc[t] = "loop"
    /\ stopped \/ (queued = 0 /\ (owork = 0 \/ (leading /\ mode[t] \in {"poll", "poll_one"})))
    /\ Goto(t, After(mode[t], 0))
    /\ UNCHANGED <<mode, limit, queued, owork, leading, stopped, staged, cancels, kernel, cqes,
                   wake, roused, timer, other, made>>
Follow(t) ==
    /\ pc[t] = "loop" /\ ~stopped /\ queued = 0 /\ owork # 0
    /\ leading /\ mode[t] \notin {"poll", "poll_one"}
    /\ Goto(t, "wait")
    /\ UNCHANGED <<mode, limit, queued, owork, leading, stopped, staged, cancels, kernel, cqes,
                   wake, roused, timer, other, made>>
\* Notified, or wait_for ran out; wait_one() returns unless something is queued
FollowerWakes(t) ==
    /\ pc[t] = "woken" \/ (pc[t] = "wait" /\ mode[t] = "wait_one")
    /\ Goto(t, IF mode[t] = "wait_one" /\ queued = 0 /\ ~stopped THEN "out" ELSE "loop")
    /\ UNCHANGED <<mode, limit, queued, owork, leading, stopped, staged, cancels, kernel, cqes,
                   wake, roused, timer, other, made>>
Lead(t) ==
    /\ pc[t] = "loop" /\ ~stopped /\ queued = 0 /\ owork # 0 /\ ~leading
    /\ leading' = TRUE /\ limit' = Limit(mode[t])
    /\ Goto(t, "submit")
    /\ UNCHANGED <<mode, queued, owork, stopped, staged, cancels, kernel, cqes, wake, roused,
                   timer, other, made>>

\* Phase 1: flush; phase 2: wait for an entry or the limit; phase 3: drain
SubmitPhase(t) ==
    /\ pc[t] = "submit" /\ Goto(t, "kernel")
    /\ kernel' = kernel + staged /\ staged' = 0 /\ cancels' = 0
    /\ roused' = (cqes > 0 \/ wake)
    /\ UNCHANGED <<mode, limit, queued, owork, leading, stopped, cqes, wake, timer, other, made>>
Elapsed == limit \in {"zero", "usec", "cap"} \/ timer = "due"
KernelReturns(t) ==
    /\ pc[t] = "kernel" /\ (roused \/ cqes > 0 \/ wake \/ Elapsed)
    /\ Goto(t, "drain") /\ roused' = FALSE
    /\ UNCHANGED <<mode, limit, queued, owork, leading, stopped, staged, cancels, kernel, cqes,
                   wake, timer, other, made>>
DrainPhase(t) ==
    /\ pc[t] = "drain"
    /\ Drained(cqes, t, "expired")
    /\ UNCHANGED <<mode, limit, owork, leading, stopped, staged, cancels, kernel, roused, timer,
                   other, made>>
ExpireAgain(t) ==
    /\ pc[t] = "expired" /\ Expire(t, "relinquish")
    /\ UNCHANGED <<mode, limit, owork, leading, stopped, staged, cancels, kernel, cqes, other, made>>
Relinquish(t) ==    \* leadership is given up and every follower woken
    /\ pc[t] = "relinquish"
    /\ leading' = FALSE
    /\ pc' = [Notified(pc) EXCEPT ![t] =
                IF mode[t] \in {"poll", "poll_one", "wait_one"} /\ queued = 0
                THEN After(mode[t], 0) ELSE "loop"]
    /\ limit' = "zero"
    /\ UNCHANGED <<mode, queued, owork, stopped, staged, cancels, kernel, cqes, wake, roused,
                   timer, other, made>>

-----------------------------------------------------------------------------
(***************************************************************************)
(* A handler runs: the coroutine it resumes may post, start an operation   *)
(* (stage it and post submit_op_), complete one at once (queued without a  *)
(* wake: this thread comes back to it), set a timer, or stop the context.  *)
(***************************************************************************)
HandlerEnds(t) ==
    /\ pc[t] = "handler" /\ Goto(t, "finish")
    /\ UNCHANGED <<mode, limit, queued, owork, leading, stopped, staged, cancels, kernel, cqes,
                   wake, roused, timer, other, made>>
\* submit_sqes_op: flush and drain
HandlerSubmits(t) ==
    /\ pc[t] = "handler" /\ (staged + cancels + cqes > 0 \/ wake)
    /\ Drained(cqes, t, "finish")
    /\ kernel' = kernel + staged /\ staged' = 0 /\ cancels' = 0
    /\ UNCHANGED <<mode, limit, owork, leading, stopped, roused, timer, other, made>>
Make == made < MaxMade /\ made' = made + 1
HandlerPosts(t) ==
    /\ pc[t] = "handler" /\ Make
    /\ queued' = queued + 1 /\ owork' = owork + 1
    /\ IF leading THEN Interrupt /\ Goto(t, "finish")
       ELSE NotifyOne(t, "finish") /\ UNCHANGED <<wake, roused>>
    /\ UNCHANGED <<mode, limit, leading, stopped, staged, cancels, kernel, cqes, timer, other>>
HandlerStarts(t) ==
    /\ pc[t] = "handler" /\ Make
    /\ staged' = staged + 1 /\ queued' = queued + 1 /\ owork' = owork + 2
    /\ IF leading THEN Interrupt /\ Goto(t, "finish")
       ELSE NotifyOne(t, "finish") /\ UNCHANGED <<wake, roused>>
    /\ UNCHANGED <<mode, limit, leading, stopped, cancels, kernel, cqes, timer, other>>
HandlerQueues(t) ==
    /\ pc[t] = "handler" /\ mode[t] \in {"run", "poll"} /\ Make
    /\ queued' = queued + 1 /\ owork' = owork + 1 /\ Goto(t, "finish")
    /\ UNCHANGED <<mode, limit, leading, stopped, staged, cancels, kernel, cqes, wake, roused,
                   timer, other>>
HandlerSetsTimer(t) ==    \* the earliest expiry changed: interrupt_reactor
    /\ pc[t] = "handler" /\ timer = "none" /\ Make
    /\ timer' = "set" /\ owork' = owork + 1 /\ Interrupt /\ Goto(t, "finish")
    /\ UNCHANGED <<mode, limit, queued, leading, stopped, staged, cancels, kernel, cqes, other>>
\* work_finished: the last one stops the context; the eventfd is written after
\* the followers are notified
FinishWork(t) ==
    /\ pc[t] = "finish"
    /\ owork' = owork - 1
    /\ stopped' = (stopped \/ owork = 1)
    /\ Goto(t, IF owork = 1 THEN "stop" ELSE After(mode[t], 1))
    /\ UNCHANGED <<mode, limit, queued, leading, staged, cancels, kernel, cqes, wake, roused,
                   timer, other, made>>
StopNotify(t) ==
    /\ pc[t] \in {"stop", "stop_out"}
    /\ pc' = [Notified(pc) EXCEPT ![t] = IF pc[t] = "stop" THEN "write" ELSE "write_out"]
    /\ UNCHANGED <<mode, limit, queued, owork, leading, stopped, staged, cancels, kernel, cqes,
                   wake, roused, timer, other, made>>
StopWrite(t) ==
    /\ pc[t] \in {"write", "write_out"}
    /\ Goto(t, IF pc[t] = "write" THEN After(mode[t], 1) ELSE "out") /\ Interrupt
    /\ UNCHANGED <<mode, limit, queued, owork, leading, stopped, staged, cancels, kernel, cqes,
                   timer, other, made>>

-----------------------------------------------------------------------------
(***************************************************************************)
(* A thread outside the loop, the kernel and the clock.                    *)
(***************************************************************************)
\* post(): queue under dispatch_mutex_; then, if a thread leads, the eventfd
OtherPosts ==
    /\ other = "idle" /\ Make
    /\ queued' = queued + 1 /\ owork' = owork + 1
    /\ other' = IF leading THEN "post_wake" ELSE "idle"
    /\ IF leading \/ Waiters = {} THEN UNCHANGED pc
       ELSE \E w \in Waiters : pc' = [pc EXCEPT ![w] = "woken"]
    /\ UNCHANGED <<mode, limit, leading, stopped, staged, cancels, kernel, cqes, wake, roused, timer>>
\* io_uring_submit_op: stage under ring_mutex_, then post submit_op_
OtherStages ==
    /\ other = "idle" /\ Make
    /\ staged' = staged + 1 /\ owork' = owork + 1 /\ other' = "submit_post"
    /\ UNCHANGED <<pc, mode, limit, queued, leading, stopped, cancels, kernel, cqes, wake, roused, timer>>
OtherPostsSubmit ==
    /\ other = "submit_post"
    /\ queued' = queued + 1 /\ owork' = owork + 1
    /\ other' = IF leading THEN "post_wake" ELSE "idle"
    /\ IF leading \/ Waiters = {} THEN UNCHANGED pc
       ELSE \E w \in Waiters : pc' = [pc EXCEPT ![w] = "woken"]
    /\ UNCHANGED <<mode, limit, leading, stopped, staged, cancels, kernel, cqes, wake, roused, timer, made>>
\* submit_cancel_by_user_data, submit_cancel_by_fd: first the wake, then the entry
OtherCancels ==
    /\ other = "idle" /\ Make
    /\ other' = "cancel_stage" /\ Interrupt
    /\ UNCHANGED <<pc, mode, limit, queued, owork, leading, stopped, staged, cancels, kernel, cqes, timer>>
OtherStagesCancel ==
    /\ other = "cancel_stage" /\ other' = "idle"
    /\ cancels' = cancels + 1
    /\ UNCHANGED <<pc, mode, limit, queued, owork, leading, stopped, staged, kernel, cqes, wake,
                   roused, timer, made>>
\* stop(): the flag, notify_all, then the eventfd, unconditionally
OtherStops ==
    /\ other = "idle" /\ Make
    /\ stopped' = TRUE /\ other' = "stop_notify"
    /\ UNCHANGED <<pc, mode, limit, queued, owork, leading, staged, cancels, kernel, cqes, wake, roused, timer>>
OtherNotifies ==
    /\ other = "stop_notify" /\ other' = "stop_wake" /\ pc' = Notified(pc)
    /\ UNCHANGED <<mode, limit, queued, owork, leading, stopped, staged, cancels, kernel, cqes,
                   wake, roused, timer, made>>
\* Mutant: the eventfd is not written.
OtherWakes_bug ==
    /\ other \in {"post_wake", "stop_wake"} /\ other' = "idle"
    /\ UNCHANGED <<wake, roused>>
    /\ UNCHANGED <<pc, mode, limit, queued, owork, leading, stopped, staged, cancels, kernel, cqes, timer, made>>
OtherWakes ==
    /\ other \in {"post_wake", "stop_wake"} /\ other' = "idle" /\ Interrupt
    /\ UNCHANGED <<pc, mode, limit, queued, owork, leading, stopped, staged, cancels, kernel, cqes, timer, made>>
Restart ==
    /\ stopped /\ \A t \in Runners : pc[t] = "out"
    /\ stopped' = FALSE
    /\ UNCHANGED <<pc, mode, limit, queued, owork, leading, staged, cancels, kernel, cqes, wake,
                   roused, timer, other, made>>

KernelFinishesOp ==
    /\ kernel > 0 /\ kernel' = kernel - 1 /\ cqes' = cqes + 1
    /\ roused' = (roused \/ InKernel)
    /\ UNCHANGED <<pc, mode, limit, queued, owork, leading, stopped, staged, cancels, wake, timer, other, made>>
TimerDue ==
    /\ timer = "set" /\ timer' = "due"
    /\ UNCHANGED <<pc, mode, limit, queued, owork, leading, stopped, staged, cancels, kernel, cqes,
                   wake, roused, other, made>>

LoopStep(t) ==
    \/ Enter(t) \/ Top(t) \/ PumpFirst(t) \/ ExpireFirst(t) \/ Pop(t) \/ GiveUp(t) \/ Follow(t)
    \/ FollowerWakes(t) \/ Lead(t) \/ SubmitPhase(t) \/ KernelReturns(t) \/ DrainPhase(t)
    \/ ExpireAgain(t) \/ Relinquish(t) \/ FinishWork(t) \/ StopNotify(t) \/ StopWrite(t)
    \/ HandlerEnds(t) \/ HandlerSubmits(t) \/ HandlerPosts(t) \/ HandlerStarts(t) \/ HandlerQueues(t) \/ HandlerSetsTimer(t)
LoopNext ==
    \/ \E t \in Runners : LoopStep(t)
    \/ OtherPosts \/ OtherStages \/ OtherPostsSubmit \/ OtherCancels \/ OtherStagesCancel
    \/ OtherStops \/ OtherNotifies \/ OtherWakes \/ Restart \/ KernelFinishesOp \/ TimerDue

LoopSpec == LoopInit /\ [][LoopNext]_loop_vars

-----------------------------------------------------------------------------
LeaderAt == {"submit", "kernel", "drain", "expired", "relinquish"}
\* Types, and the counters stay natural numbers: work_finished is never called
\* more often than work_started.
LoopTypeOK ==
    /\ queued \in Nat /\ owork \in Nat /\ staged \in Nat /\ cancels \in Nat /\ kernel \in Nat
    /\ cqes \in Nat /\ leading \in BOOLEAN /\ stopped \in BOOLEAN /\ wake \in BOOLEAN
    /\ roused \in BOOLEAN /\ timer \in {"none", "set", "due"}
    /\ limit \in {"zero", "timer", "usec", "cap"}

\* At most one thread is in the leader's section, and task_running_ says so:
\* two threads never wait on the shared ring.
OneLeader == Cardinality({t \in Runners : pc[t] \in LeaderAt}) = (IF leading THEN 1 ELSE 0)

\* outstanding_work_ is the number of operations queued, staged, in the kernel
\* or being run, plus the pending timer: it reaches zero when nothing is left.
LoopWork ==
    owork = queued + staged + kernel + cqes + (IF timer = "none" THEN 0 ELSE 1)
            + Cardinality({t \in Runners : pc[t] \in {"handler", "finish"}})

\* A thread that nothing but time, the kernel's own completions or another call
\* can move
Blocked(t) == pc[t] = "wait" \/ (pc[t] = "kernel" /\ ~roused /\ cqes = 0 /\ ~wake)
Inside == {t \in Runners : pc[t] # "out"}
AllBlocked == Inside # {} /\ other = "idle" /\ \A t \in Inside : Blocked(t)

\* Where every thread is in run() or poll(), a queued operation never waits for a
\* sleeping context: whoever queued it woke a follower or the leader, or comes
\* back to it, and a thread that swallows the leader's wake pops the operation.
NoStrandedOp ==
    AllBlocked /\ ~stopped /\ (\A t \in Runners : mode[t] \in {"run", "poll"}) => queued = 0

\* stop(), and running out of work, reach every follower: once the calls of stop()
\* in progress are over none of them waits on cond_.
Stopping == other = "stop_notify" \/ \E t \in Runners : pc[t] \in {"stop", "stop_out"}
StopWakesFollowers == stopped /\ ~Stopping => Waiters = {}

\* While any thread waits on cond_ another leads, so that completions and timers
\* are served: leadership is never lost.
FollowersHaveLeader == (\E t \in Runners : pc[t] = "wait") => leading

\* The comments in stop() and interrupt_reactor: "A dropped wake here leaves the
\* leader blocked forever", so the eventfd is written unconditionally and "this
\* write reliably produces a CQE".  So no thread sleeps in a stopped context.
StopWakesLeader == AllBlocked => ~stopped

\* The comment on the leader's wait: submitters and cancel paths prepare entries
\* during the wait and "their wake eventfd write [...] returns the leader from
\* wait_cqe_timeout promptly".  So no cancel entry sits in the submission queue
\* while the whole context sleeps.
CancelIsPrompt == AllBlocked => cancels = 0

(***************************************************************************)
(* One thread leads and the others follow: there is one leader at a time   *)
(* and one whenever somebody follows, no operation is left queued with     *)
(* every thread asleep, stop() reaches the followers and the work count is *)
(* exact.                                                                  *)
(***************************************************************************)
UringLoop ==
    /\ LoopTypeOK
    /\ OneLeader
    /\ LoopWork
    /\ NoStrandedOp
    /\ StopWakesFollowers
    /\ FollowersHaveLeader
=============================================================================
