-------------------------- MODULE ReactorScheduler --------------------------
(***************************************************************************)
(* The event loop shared by the epoll and kqueue schedulers: class         *)
(* reactor_scheduler, with run_task() and interrupt_reactor() as           *)
(* epoll_scheduler and kqueue_scheduler define them.                       *)
(*                                                                         *)
(* Threads call the run variants; Posters are threads outside the loop.    *)
(* One completion is posted at most once: Posts are scheduler_ops and      *)
(* continuations posted by user code, IoOps are I/O operations parked in   *)
(* the slots of one descriptor (Desc stands for its descriptor_state,      *)
(* which is what the reactor queues), Timers are timer waits.  Task is the *)
(* reactor sentinel task_op_.                                              *)
(*                                                                         *)
(* A step is what a thread does between two points where another thread    *)
(* can act: a section under mutex_, an access to an atomic outside it, or  *)
(* a return from a system call.                                            *)
(***************************************************************************)
EXTENDS Integers, Sequences, FiniteSets, Functions

CONSTANTS Threads, Posters, Posts, IoOps, Timers,
          Modes,      \* the run variants the threads call
          OneThread,  \* one_thread_: a lockless tier
          Task, Desc, None

Actors == Threads \cup Posters
Ops    == Posts \cup IoOps \cup Timers
RunVariants == {"run", "run_one", "wait_one", "poll", "poll_one"}

ASSUME ModesAssumption == Modes \subseteq RunVariants
ASSUME OneThreadAssumption ==
  /\ OneThread \in BOOLEAN
  /\ OneThread => \A t, u \in Threads : t = u
ASSUME SortsAssumption ==
  /\ IsFiniteSet(Threads) /\ IsFiniteSet(Posters) /\ IsFiniteSet(Ops)
  /\ Threads \cap Posters = {}
  /\ Posts \cap IoOps = {} /\ Posts \cap Timers = {} /\ IoOps \cap Timers = {}
  /\ Task \notin Ops /\ Desc \notin Ops /\ Task # Desc
  /\ None \notin Ops \cup Actors \cup {Task, Desc}

\* The orders in which the elements of a finite set can be queued.
Orders(S) == Bijection(1..Cardinality(S), S)

VARIABLES
  mutex,             \* holder of mutex_, or None
  completed_ops,     \* completed_ops_
  outstanding_work,  \* outstanding_work_
  stopped,           \* stopped_
  task_running,      \* task_running_
  task_interrupted,  \* task_interrupted_
  signaled,          \* state_ & signaled_bit
  waiters,           \* state_ / waiter_increment
  armed,             \* eventfd_armed_ (user_event_armed_)
  wakefd,            \* the eventfd (EVFILT_USER) has an unread wake-up
  kernel,            \* operations whose readiness or expiry the kernel holds
  ready_events,      \* ready_events_ of Desc, as the operations it concerns
  enqueued,          \* is_enqueued_ of Desc
  st,                \* life cycle of each completion
  guard,             \* on_work_started() without its on_work_finished()
  pc, mode,          \* control state of each actor, run variant of a thread
  cur,               \* the entry an actor is executing or posting
  private_queue, private_work,  \* the thread's reactor_scheduler_context
  local_ops          \* local_ops of run_task()

sharedVars == <<mutex, completed_ops, outstanding_work, stopped,
                task_running, task_interrupted, signaled, waiters>>
kernelVars == <<armed, wakefd, kernel, ready_events, enqueued>>
threadVars == <<mode, private_queue, private_work, local_ops>>
vars == <<sharedVars, kernelVars, threadVars, st, guard, pc, cur>>

Free == mutex = None

Init ==
  /\ mutex = None
  /\ completed_ops = <<Task>>
  /\ outstanding_work = 0
  /\ stopped = FALSE
  /\ task_running = FALSE
  /\ task_interrupted = FALSE
  /\ signaled = FALSE
  /\ waiters = 0
  /\ armed = FALSE
  /\ wakefd = FALSE
  /\ kernel = {}
  /\ ready_events = {}
  /\ enqueued = FALSE
  /\ st = [o \in Ops |-> "new"]
  /\ guard = [p \in Posters |-> FALSE]
  /\ pc = [a \in Actors |-> "idle"]
  /\ mode = [t \in Threads |-> "run"]
  /\ cur = [a \in Actors |-> None]
  /\ private_queue = [t \in Threads |-> <<>>]
  /\ private_work = [t \in Threads |-> 0]
  /\ local_ops = [t \in Threads |-> <<>>]

-----------------------------------------------------------------------------
(* The signal state machine and the reactor wake-up.                       *)

Parked == {t \in Threads : pc[t] = "parked"}

\* The caller continues at `next`; cond_.notify_one() also releases one of
\* the threads blocked in the condition variable, if there is one.
GotoAndNotifyOne(a, next) ==
  IF Parked = {} THEN pc' = [pc EXCEPT ![a] = next]
  ELSE \E w \in Parked : pc' = [pc EXCEPT ![a] = next, ![w] = "woken"]

GotoAndNotifyAll(a, next) ==
  pc' = [b \in Actors |->
           IF b = a THEN next ELSE IF b \in Parked THEN "woken" ELSE pc[b]]

unlock_and_signal_one(a, next) ==
  /\ signaled' = TRUE
  /\ IF waiters > 0 THEN GotoAndNotifyOne(a, next)
     ELSE pc' = [pc EXCEPT ![a] = next]

\* The compare-exchange lets only the caller that arms the event write it.
interrupt_reactor ==
  /\ armed' = TRUE
  /\ wakefd' = (wakefd \/ ~armed)

wake_one_thread_and_unlock(a, next) ==
  /\ signaled' = TRUE
  /\ IF waiters > 0
     THEN /\ GotoAndNotifyOne(a, next)
          /\ UNCHANGED <<task_interrupted, armed, wakefd>>
     ELSE /\ pc' = [pc EXCEPT ![a] = next]
          /\ IF task_running /\ ~task_interrupted
             THEN task_interrupted' = TRUE /\ interrupt_reactor
             ELSE UNCHANGED <<task_interrupted, armed, wakefd>>

\* Mutation: stop() signals the waiters and forgets the reactor.
MutStopNoInterrupt(a, next) ==
  /\ Free
  /\ stopped' = TRUE
  /\ signaled' = TRUE
  /\ GotoAndNotifyAll(a, next)
  /\ UNCHANGED <<mutex, completed_ops, outstanding_work, task_running,
                 task_interrupted, waiters, kernelVars>>

\* stop(), one section under the mutex.
stop(a, next) ==
  /\ Free
  /\ IF stopped
     THEN /\ pc' = [pc EXCEPT ![a] = next]
          /\ UNCHANGED <<stopped, signaled, armed, wakefd>>
     ELSE /\ stopped' = TRUE
          /\ signaled' = TRUE
          /\ GotoAndNotifyAll(a, next)
          /\ interrupt_reactor
  /\ UNCHANGED <<mutex, completed_ops, outstanding_work, task_running,
                 task_interrupted, waiters, kernel, ready_events, enqueued>>

\* work_finished(): the actor calls stop() when it takes the count to zero.
work_finished(a, next, stopping) ==
  /\ outstanding_work' = outstanding_work - 1
  /\ pc' = [pc EXCEPT ![a] = IF outstanding_work = 1 THEN stopping ELSE next]

-----------------------------------------------------------------------------
(* run(), run_one(), wait_one(), poll(), poll_one(), and do_one().         *)

Loops(t) == mode[t] \in {"run", "poll"}
Forever(t) == mode[t] \in {"run", "run_one"}  \* timeout_us < 0
NoWait(t) == mode[t] \in {"poll", "poll_one"} \* timeout_us = 0
Timed(t) == mode[t] = "wait_one"              \* timeout_us > 0

Call(t, m) ==
  /\ pc[t] = "idle"
  /\ mode' = [mode EXCEPT ![t] = m]
  /\ pc' = [pc EXCEPT ![t] =
              IF outstanding_work = 0 THEN "stop_return" ELSE "lock"]
  /\ UNCHANGED <<sharedVars, kernelVars, st, guard, cur, private_queue,
                 private_work, local_ops>>

Lock(t) ==
  /\ pc[t] = "lock" /\ Free
  /\ mutex' = t
  /\ pc' = [pc EXCEPT ![t] = "do_one"]
  /\ UNCHANGED <<completed_ops, outstanding_work, stopped, task_running,
                 task_interrupted, signaled, waiters, kernelVars, threadVars,
                 st, guard, cur>>

DoOneStopped(t) ==
  /\ pc[t] = "do_one" /\ stopped
  /\ mutex' = None
  /\ pc' = [pc EXCEPT ![t] = "exit"]
  /\ UNCHANGED <<completed_ops, outstanding_work, stopped, task_running,
                 task_interrupted, signaled, waiters, kernelVars, threadVars,
                 st, guard, cur>>

AtHead(t, E) ==
  /\ pc[t] = "do_one" /\ ~stopped
  /\ completed_ops # <<>>
  /\ Head(completed_ops) \in E

MoreHandlers(t) == Len(completed_ops) > 1 \/ private_queue[t] # <<>>

NothingToDo(t) == outstanding_work = 0 \/ NoWait(t)

\* The sentinel is at the front and there is nothing to wait for.
DoOneTaskIdle(t) ==
  /\ AtHead(t, {Task})
  /\ ~MoreHandlers(t) /\ NothingToDo(t)
  /\ mutex' = None
  /\ pc' = [pc EXCEPT ![t] = "exit"]
  /\ UNCHANGED <<completed_ops, outstanding_work, stopped, task_running,
                 task_interrupted, signaled, waiters, kernelVars, threadVars,
                 st, guard, cur>>

\* The thread takes the sentinel: it is the reactor until it pushes it back.
DoOneTask(t) ==
  /\ AtHead(t, {Task})
  /\ MoreHandlers(t) \/ ~NothingToDo(t)
  /\ completed_ops' = Tail(completed_ops)
  /\ task_interrupted' = (MoreHandlers(t) \/ NoWait(t))
  /\ task_running' = TRUE
  /\ IF MoreHandlers(t) /\ ~OneThread
     THEN unlock_and_signal_one(t, "run_task") /\ mutex' = None
     ELSE /\ pc' = [pc EXCEPT ![t] = "run_task"]
          /\ UNCHANGED <<mutex, signaled>>
  /\ UNCHANGED <<outstanding_work, stopped, waiters, kernelVars, threadVars,
                 st, guard, cur>>

\* run_task(): choose the timeout, leave the mutex, enter the system call.
RunTask(t) ==
  /\ pc[t] = "run_task"
  /\ mutex' = IF mutex = t THEN None ELSE mutex
  /\ pc' = [pc EXCEPT ![t] = IF task_interrupted THEN "poll_now" ELSE "poll"]
  /\ UNCHANGED <<completed_ops, outstanding_work, stopped, task_running,
                 task_interrupted, signaled, waiters, kernelVars, threadVars,
                 st, guard, cur>>

\* epoll_wait()/kevent() returns; readiness goes to ready_events_ and, when
\* this call is the one that sets is_enqueued_, Desc to local_ops; expired
\* timers are posted from inside the loop, to the private queue.
PollReturn(t) ==
  LET fired == {o \in kernel \cap Timers : st[o] = "pending"}
      io    == kernel \cap IoOps
  IN /\ \/ pc[t] = "poll_now"
        \/ pc[t] = "poll" /\ (wakefd \/ kernel # {} \/ Timed(t))
     /\ kernel' = {}
     /\ wakefd' = FALSE
     /\ ready_events' = ready_events \cup io
     /\ enqueued' = (enqueued \/ io # {})
     /\ local_ops' = [local_ops EXCEPT ![t] =
                        IF io # {} /\ ~enqueued THEN <<Desc>> ELSE <<>>]
     /\ \E order \in Orders(fired) :
          private_queue' = [private_queue EXCEPT ![t] = @ \o order]
     /\ private_work' = [private_work EXCEPT ![t] = @ + Cardinality(fired)]
     /\ st' = [o \in Ops |-> IF o \in fired THEN "queued" ELSE st[o]]
     /\ pc' = [pc EXCEPT ![t] = IF wakefd THEN "disarm" ELSE "relock"]
     /\ UNCHANGED <<sharedVars, armed, mode, guard, cur>>

\* EINTR: no events, and the loop goes on as after any other return.
PollInterrupted(t) ==
  /\ pc[t] \in {"poll", "poll_now"}
  /\ pc' = [pc EXCEPT ![t] = "relock"]
  /\ UNCHANGED <<sharedVars, kernelVars, threadVars, st, guard, cur>>

\* Mutation: eventfd_armed_ is not cleared after the read.
MutDisarmNever(t) ==
  /\ pc[t] = "disarm"
  /\ pc' = [pc EXCEPT ![t] = "relock"]
  /\ UNCHANGED <<sharedVars, kernelVars, threadVars, st, guard, cur>>

\* The event has been read; only now may another interrupt write it again.
Disarm(t) ==
  /\ pc[t] = "disarm"
  /\ armed' = FALSE
  /\ pc' = [pc EXCEPT ![t] = "relock"]
  /\ UNCHANGED <<sharedVars, wakefd, kernel, ready_events, enqueued,
                 threadVars, st, guard, cur>>

\* Mutation: an early return of run_task() skips the sentinel.
MutFinishNoSentinel(t) ==
  /\ pc[t] = "relock" /\ Free
  /\ completed_ops' = completed_ops \o local_ops[t] \o private_queue[t]
  /\ outstanding_work' = outstanding_work + private_work[t]
  /\ private_work' = [private_work EXCEPT ![t] = 0]
  /\ private_queue' = [private_queue EXCEPT ![t] = <<>>]
  /\ local_ops' = [local_ops EXCEPT ![t] = <<>>]
  /\ task_running' = FALSE
  /\ mutex' = IF Timed(t) THEN None ELSE t
  /\ pc' = [pc EXCEPT ![t] = IF Timed(t) THEN "exit" ELSE "do_one"]
  /\ UNCHANGED <<stopped, task_interrupted, signaled, waiters, kernelVars,
                 mode, st, guard, cur>>

\* Mutation: the descriptors that epoll_wait() reported are not queued.
MutFinishDropsReady(t) ==
  /\ pc[t] = "relock" /\ Free
  /\ completed_ops' = completed_ops \o private_queue[t] \o <<Task>>
  /\ outstanding_work' = outstanding_work + private_work[t]
  /\ private_work' = [private_work EXCEPT ![t] = 0]
  /\ private_queue' = [private_queue EXCEPT ![t] = <<>>]
  /\ local_ops' = [local_ops EXCEPT ![t] = <<>>]
  /\ task_running' = FALSE
  /\ mutex' = IF Timed(t) THEN None ELSE t
  /\ pc' = [pc EXCEPT ![t] = IF Timed(t) THEN "exit" ELSE "do_one"]
  /\ UNCHANGED <<stopped, task_interrupted, signaled, waiters, kernelVars,
                 mode, st, guard, cur>>

\* The end of run_task(), ~task_cleanup() and the sentinel's return.
FinishTask(t) ==
  /\ pc[t] = "relock" /\ Free
  /\ completed_ops' = completed_ops \o local_ops[t] \o private_queue[t]
                       \o <<Task>>
  /\ outstanding_work' = outstanding_work + private_work[t]
  /\ private_work' = [private_work EXCEPT ![t] = 0]
  /\ private_queue' = [private_queue EXCEPT ![t] = <<>>]
  /\ local_ops' = [local_ops EXCEPT ![t] = <<>>]
  /\ task_running' = FALSE
  /\ mutex' = IF Timed(t) THEN None ELSE t
  /\ pc' = [pc EXCEPT ![t] = IF Timed(t) THEN "exit" ELSE "do_one"]
  /\ UNCHANGED <<stopped, task_interrupted, signaled, waiters, kernelVars,
                 mode, st, guard, cur>>

DoOneEntry(t) ==
  /\ AtHead(t, Ops \cup {Desc})
  /\ completed_ops' = Tail(completed_ops)
  /\ cur' = [cur EXCEPT ![t] = Head(completed_ops)]
  /\ mutex' = None
  /\ IF Len(completed_ops) > 1 /\ ~OneThread
     THEN unlock_and_signal_one(t, "handler")
     ELSE pc' = [pc EXCEPT ![t] = "handler"] /\ UNCHANGED signaled
  /\ UNCHANGED <<outstanding_work, stopped, task_running, task_interrupted,
                 waiters, kernelVars, threadVars, st, guard>>

\* Nothing queued: the private queue first, then return or wait.
DoOneEmpty(t) ==
  /\ pc[t] = "do_one" /\ ~stopped
  /\ completed_ops = <<>>
  /\ completed_ops' = private_queue[t]
  /\ private_queue' = [private_queue EXCEPT ![t] = <<>>]
  /\ IF private_queue[t] # <<>>
     THEN /\ outstanding_work' = outstanding_work + private_work[t]
          /\ private_work' = [private_work EXCEPT ![t] = 0]
          /\ UNCHANGED <<pc, mutex, signaled, waiters>>
     ELSE /\ mutex' = None
          /\ IF NothingToDo(t)
             THEN /\ pc' = [pc EXCEPT ![t] = "exit"]
                  /\ UNCHANGED <<signaled, waiters>>
             ELSE /\ pc' = [pc EXCEPT ![t] = "parked"]
                  /\ signaled' = FALSE
                  /\ waiters' = waiters + 1
          /\ UNCHANGED <<outstanding_work, private_work>>
  /\ UNCHANGED <<stopped, task_running, task_interrupted, kernelVars, mode,
                 local_ops, st, guard, cur>>

\* A condition variable may wake a thread that nobody notified.
SpuriousWake(t) ==
  /\ pc[t] = "parked"
  /\ pc' = [pc EXCEPT ![t] = "woken"]
  /\ UNCHANGED <<sharedVars, kernelVars, threadVars, st, guard, cur>>

\* wait_for_signal_for(): the timeout passes.
TimedOut(t) == Timed(t) /\ SpuriousWake(t)

\* Mutation: the waiter does not take itself out of state_.
MutWokenStillCounted(t) ==
  /\ pc[t] = "woken" /\ Free
  /\ pc' = [pc EXCEPT ![t] = "do_one"]
  /\ mutex' = t
  /\ UNCHANGED <<completed_ops, outstanding_work, stopped, task_running,
                 task_interrupted, signaled, waiters, kernelVars, threadVars,
                 st, guard, cur>>

\* wait_for_signal() tests the signal again; wait_for_signal_for() does not.
Woken(t) ==
  /\ pc[t] = "woken" /\ Free
  /\ IF Forever(t) /\ ~signaled
     THEN /\ pc' = [pc EXCEPT ![t] = "parked"]
          /\ UNCHANGED <<mutex, waiters>>
     ELSE /\ pc' = [pc EXCEPT ![t] = "do_one"]
          /\ waiters' = waiters - 1
          /\ mutex' = t
  /\ UNCHANGED <<completed_ops, outstanding_work, stopped, task_running,
                 task_interrupted, signaled, kernelVars, threadVars, st,
                 guard, cur>>

-----------------------------------------------------------------------------
(* Handlers, their clean-up, and the return to the caller.                 *)

\* The wait's completion_op, not yet the continuation it posts.
TimerFired(o) == o \in Timers /\ st[o] = "queued"

UserCode(t) == pc[t] = "handler" /\ cur[t] # Desc /\ ~TimerFired(cur[t])

\* post() from a handler: the thread's private queue and count.
HandlerPost(t, o) ==
  /\ UserCode(t) /\ st[o] = "new"
  /\ st' = [st EXCEPT ![o] = "queued"]
  /\ private_queue' = [private_queue EXCEPT ![t] = Append(@, o)]
  /\ private_work' = [private_work EXCEPT ![t] = @ + 1]
  /\ UNCHANGED <<sharedVars, kernelVars, mode, local_ops, guard, pc, cur>>

HandlerReturn(t) ==
  /\ UserCode(t)
  /\ st' = [st EXCEPT ![cur[t]] = "done"]
  /\ pc' = [pc EXCEPT ![t] = "cleanup"]
  /\ UNCHANGED <<sharedVars, kernelVars, threadVars, guard, cur>>

\* invoke_deferred_io(): of the completed operations the first is run here
\* and the others go to post_deferred_completions(), their work already
\* counted when they started; with none, compensating_work_started().
InvokeDeferredIo(t) ==
  LET completed == {o \in ready_events : st[o] = "pending"}
  IN /\ pc[t] = "handler" /\ cur[t] = Desc
     /\ enqueued' = FALSE
     /\ ready_events' = {}
     /\ st' = [o \in Ops |-> IF o \in completed THEN "queued" ELSE st[o]]
     /\ IF completed = {}
        THEN /\ private_work' = [private_work EXCEPT ![t] = @ + 1]
             /\ pc' = [pc EXCEPT ![t] = "cleanup"]
             /\ UNCHANGED <<private_queue, cur>>
        ELSE /\ \E order \in Orders(completed) :
                  /\ cur' = [cur EXCEPT ![t] = Head(order)]
                  /\ private_queue' =
                       [private_queue EXCEPT ![t] = @ \o Tail(order)]
             /\ UNCHANGED <<private_work, pc>>
     /\ UNCHANGED <<sharedVars, armed, wakefd, kernel, mode, local_ops, guard>>

\* waiter_node::completion_op: post the continuation, then balance the
\* work_started() of the wait.
TimerComplete(t) ==
  /\ pc[t] = "handler" /\ TimerFired(cur[t])
  /\ st' = [st EXCEPT ![cur[t]] = "resumed"]
  /\ private_queue' = [private_queue EXCEPT ![t] = Append(@, cur[t])]
  /\ private_work' = [private_work EXCEPT ![t] = @ + 1]
  /\ work_finished(t, "cleanup", "stop_handler")
  /\ UNCHANGED <<mutex, completed_ops, stopped, task_running,
                 task_interrupted, signaled, waiters, kernelVars, mode,
                 local_ops, guard, cur>>

\* Mutation: the handler's own unit is not consumed when it posted others.
MutCleanupOffByOne(t) ==
  /\ pc[t] = "cleanup"
  /\ IF private_work[t] < 1
     THEN work_finished(t, "splice", "stop_splice")
     ELSE /\ outstanding_work' = outstanding_work + private_work[t]
          /\ pc' = [pc EXCEPT ![t] = "splice"]
  /\ private_work' = [private_work EXCEPT ![t] = 0]
  /\ cur' = [cur EXCEPT ![t] = None]
  /\ UNCHANGED <<mutex, completed_ops, stopped, task_running,
                 task_interrupted, signaled, waiters, kernelVars, mode,
                 private_queue, local_ops, st, guard>>

\* ~work_cleanup(), the counter: the handler that ran consumes one unit,
\* the work it produced is added.
WorkCleanup(t) ==
  /\ pc[t] = "cleanup"
  /\ IF private_work[t] < 1
     THEN work_finished(t, "splice", "stop_splice")
     ELSE /\ outstanding_work' = outstanding_work + (private_work[t] - 1)
          /\ pc' = [pc EXCEPT ![t] = "splice"]
  /\ private_work' = [private_work EXCEPT ![t] = 0]
  /\ cur' = [cur EXCEPT ![t] = None]
  /\ UNCHANGED <<mutex, completed_ops, stopped, task_running,
                 task_interrupted, signaled, waiters, kernelVars, mode,
                 private_queue, local_ops, st, guard>>

\* Mutation: the lock taken to splice is kept by a caller that returns.
MutSpliceKeepsLock(t) ==
  /\ pc[t] = "splice" /\ Free
  /\ completed_ops' = completed_ops \o private_queue[t]
  /\ private_queue' = [private_queue EXCEPT ![t] = <<>>]
  /\ mutex' = t
  /\ pc' = [pc EXCEPT ![t] = IF Loops(t) THEN "do_one" ELSE "exit"]
  /\ UNCHANGED <<outstanding_work, stopped, task_running, task_interrupted,
                 signaled, waiters, kernelVars, mode, private_work, local_ops,
                 st, guard, cur>>

\* ~work_cleanup(), the queue, and the loop of run() and poll().
Splice(t) ==
  /\ pc[t] = "splice"
  /\ IF private_queue[t] = <<>>
     THEN /\ pc' = [pc EXCEPT ![t] = IF Loops(t) THEN "lock" ELSE "exit"]
          /\ UNCHANGED <<mutex, completed_ops, private_queue>>
     ELSE /\ Free
          /\ completed_ops' = completed_ops \o private_queue[t]
          /\ private_queue' = [private_queue EXCEPT ![t] = <<>>]
          /\ mutex' = IF Loops(t) THEN t ELSE None
          /\ pc' = [pc EXCEPT ![t] = IF Loops(t) THEN "do_one" ELSE "exit"]
  /\ UNCHANGED <<outstanding_work, stopped, task_running, task_interrupted,
                 signaled, waiters, kernelVars, mode, private_work, local_ops,
                 st, guard, cur>>

\* ~reactor_thread_context_guard() and drain_thread_queue().
Exit(t) ==
  /\ pc[t] = "exit"
  /\ IF private_queue[t] = <<>>
     THEN /\ pc' = [pc EXCEPT ![t] = "idle"]
          /\ UNCHANGED <<completed_ops, outstanding_work, signaled>>
     ELSE /\ Free
          /\ outstanding_work' = outstanding_work + private_work[t]
          /\ completed_ops' = completed_ops \o private_queue[t]
          /\ IF private_work[t] > 0
             THEN unlock_and_signal_one(t, "idle")
             ELSE pc' = [pc EXCEPT ![t] = "idle"] /\ UNCHANGED signaled
  /\ private_queue' = [private_queue EXCEPT ![t] = <<>>]
  /\ private_work' = [private_work EXCEPT ![t] = 0]
  /\ UNCHANGED <<mutex, stopped, task_running, task_interrupted, waiters,
                 kernelVars, mode, local_ops, st, guard, cur>>

-----------------------------------------------------------------------------
(* Threads outside the loop, the kernel, and whoever starts operations.    *)

\* Where an actor goes on after the stop() it has to make.
AfterStop == [stop_return |-> "idle", stop_splice |-> "splice",
              stop_handler |-> "cleanup", stop_post |-> "idle"]

Stop(a) ==
  /\ pc[a] \in DOMAIN AfterStop
  /\ stop(a, AfterStop[pc[a]])
  /\ UNCHANGED <<threadVars, st, guard, cur>>

\* post() from outside: the count goes up before the mutex is taken.
PostBegin(p, o) ==
  /\ pc[p] = "idle" /\ st[o] = "new"
  /\ outstanding_work' = outstanding_work + 1
  /\ st' = [st EXCEPT ![o] = "posting"]
  /\ cur' = [cur EXCEPT ![p] = o]
  /\ pc' = [pc EXCEPT ![p] = "post"]
  /\ UNCHANGED <<mutex, completed_ops, stopped, task_running,
                 task_interrupted, signaled, waiters, kernelVars, threadVars,
                 guard>>

\* cancel_single_op() from outside: the operation is claimed from its slot and
\* posted, and the work_started() of its registration balanced afterwards.
CancelOp(p, o) ==
  /\ pc[p] = "idle" /\ st[o] = "pending"
  /\ outstanding_work' = outstanding_work + 1
  /\ st' = [st EXCEPT ![o] = "posting"]
  /\ cur' = [cur EXCEPT ![p] = o]
  /\ pc' = [pc EXCEPT ![p] = "post_claimed"]
  /\ UNCHANGED <<mutex, completed_ops, stopped, task_running,
                 task_interrupted, signaled, waiters, kernelVars, threadVars,
                 guard>>

CancelFinish(p) ==
  /\ pc[p] = "finish"
  /\ work_finished(p, "idle", "stop_post")
  /\ UNCHANGED <<mutex, completed_ops, stopped, task_running,
                 task_interrupted, signaled, waiters, kernelVars, threadVars,
                 st, guard, cur>>

PostPush(p) ==
  /\ pc[p] \in {"post", "post_claimed"} /\ Free
  /\ completed_ops' = Append(completed_ops, cur[p])
  /\ st' = [st EXCEPT ![cur[p]] = "queued"]
  /\ cur' = [cur EXCEPT ![p] = None]
  /\ wake_one_thread_and_unlock(p, IF pc[p] = "post" THEN "idle" ELSE "finish")
  /\ UNCHANGED <<mutex, outstanding_work, stopped, task_running, waiters,
                 kernel, ready_events, enqueued, threadVars, guard>>

WorkGuardStart(p) ==
  /\ pc[p] = "idle" /\ ~guard[p]
  /\ guard' = [guard EXCEPT ![p] = TRUE]
  /\ outstanding_work' = outstanding_work + 1
  /\ UNCHANGED <<mutex, completed_ops, stopped, task_running,
                 task_interrupted, signaled, waiters, kernelVars, threadVars,
                 st, pc, cur>>

WorkGuardFinish(p) ==
  /\ pc[p] = "idle" /\ guard[p]
  /\ guard' = [guard EXCEPT ![p] = FALSE]
  /\ work_finished(p, "idle", "stop_post")
  /\ UNCHANGED <<mutex, completed_ops, stopped, task_running,
                 task_interrupted, signaled, waiters, kernelVars, threadVars,
                 st, cur>>

UserStop(p) ==
  /\ pc[p] = "idle"
  /\ stop(p, "idle")
  /\ UNCHANGED <<threadVars, st, guard, cur>>

Restart(p) ==
  /\ pc[p] = "idle" /\ stopped
  /\ stopped' = FALSE
  /\ UNCHANGED <<mutex, completed_ops, outstanding_work, task_running,
                 task_interrupted, signaled, waiters, kernelVars, threadVars,
                 st, guard, pc, cur>>

\* An I/O operation parks in its slot, or a timer wait is published, after
\* its work_started().
StartOp(o) ==
  /\ st[o] = "new"
  /\ st' = [st EXCEPT ![o] = "pending"]
  /\ outstanding_work' = outstanding_work + 1
  /\ UNCHANGED <<mutex, completed_ops, stopped, task_running,
                 task_interrupted, signaled, waiters, kernelVars, threadVars,
                 guard, pc, cur>>

\* A descriptor may become ready with no operation parked for the event, and
\* again before the first edge has been handled.
KernelReady(o) ==
  /\ o \notin kernel
  /\ st[o] = "pending" \/ (o \in IoOps /\ st[o] = "new")
  /\ kernel' = kernel \cup {o}
  /\ UNCHANGED <<sharedVars, armed, wakefd, ready_events, enqueued,
                 threadVars, st, guard, pc, cur>>

-----------------------------------------------------------------------------
ThreadStep(t) ==
  \/ Lock(t) \/ DoOneStopped(t) \/ DoOneTaskIdle(t) \/ DoOneTask(t)
  \/ RunTask(t) \/ PollReturn(t) \/ Disarm(t) \/ FinishTask(t)
  \/ DoOneEntry(t) \/ DoOneEmpty(t) \/ TimedOut(t) \/ Woken(t)
  \/ HandlerReturn(t) \/ InvokeDeferredIo(t) \/ TimerComplete(t)
  \/ WorkCleanup(t) \/ Splice(t) \/ Exit(t) \/ Stop(t)

PosterStep(p) == PostPush(p) \/ CancelFinish(p) \/ Stop(p)

Next ==
  \/ \E t \in Threads : ThreadStep(t)
  \/ \E t \in Threads, m \in Modes : Call(t, m)
  \/ \E t \in Threads : PollInterrupted(t) \/ SpuriousWake(t)
  \/ \E t \in Threads, o \in Posts : HandlerPost(t, o)
  \/ \E p \in Posters : PosterStep(p)
  \/ \E p \in Posters, o \in Posts : PostBegin(p, o)
  \/ \E p \in Posters, o \in IoOps : CancelOp(p, o)
  \/ \E p \in Posters : WorkGuardStart(p) \/ WorkGuardFinish(p)
  \/ \E p \in Posters : UserStop(p) \/ Restart(p)
  \/ \E o \in IoOps \cup Timers : StartOp(o) \/ KernelReady(o)

Spec == Init /\ [][Next]_vars

\* A thread that can take a step of the library's code again and again takes
\* it: handlers return, and a thread waiting for mutex_, which nobody holds
\* across a blocking call, gets it at last, and signals do not interrupt every
\* system call.  Nothing obliges the user to call a run variant or to post,
\* or the kernel to report.
Fairness ==
  /\ \A t \in Threads : SF_vars(ThreadStep(t)) /\ SF_vars(PollReturn(t))
  /\ \A p \in Posters : SF_vars(PosterStep(p))

FairSpec == Spec /\ Fairness

-----------------------------------------------------------------------------
(* Properties.                                                             *)

ThreadPCs == {"idle", "lock", "do_one", "run_task", "poll", "poll_now",
              "disarm", "relock", "parked", "woken", "handler", "cleanup",
              "splice", "exit", "stop_return", "stop_splice", "stop_handler"}
PosterPCs == {"idle", "post", "post_claimed", "finish", "stop_post"}
Statuses == {"new", "posting", "pending", "queued", "resumed", "done"}

\* Every variable of the scheduler, of its thread contexts and of the queued
\* operations keeps its type.
TypeOK ==
  /\ mutex \in Threads \cup {None}
  /\ completed_ops \in Seq(Ops \cup {Task, Desc})
  /\ outstanding_work \in Int
  /\ waiters \in Int
  /\ stopped \in BOOLEAN /\ task_running \in BOOLEAN
  /\ task_interrupted \in BOOLEAN /\ signaled \in BOOLEAN
  /\ armed \in BOOLEAN /\ wakefd \in BOOLEAN /\ enqueued \in BOOLEAN
  /\ kernel \subseteq IoOps \cup Timers
  /\ ready_events \subseteq IoOps
  /\ st \in [Ops -> Statuses]
  /\ guard \in [Posters -> BOOLEAN]
  /\ pc \in [Actors -> ThreadPCs \cup PosterPCs]
  /\ mode \in [Threads -> RunVariants]
  /\ cur \in [Actors -> Ops \cup {Desc, None}]
  /\ private_queue \in [Threads -> Seq(Ops)]
  /\ private_work \in [Threads -> Nat]
  /\ local_ops \in [Threads -> Seq({Desc})]

PollPCs == {"run_task", "poll", "poll_now", "disarm", "relock"}
Polling(t) == pc[t] \in PollPCs

NoTask(q) == \A i \in DOMAIN q : q[i] # Task
TaskOnce(q) == \A i, j \in DOMAIN q : q[i] = Task /\ q[j] = Task => i = j

\* The sentinel is the right to poll: it is in the queue once and nobody
\* polls, or it is out and exactly one thread is inside run_task(), which is
\* what task_running_ says.  Two threads never share epoll_wait()'s event
\* buffer, and the reactor is never left without a sentinel.
SentinelOnce ==
  /\ \A t, u \in Threads : Polling(t) /\ Polling(u) => t = u
  /\ TaskOnce(completed_ops)
  /\ task_running <=> \E t \in Threads : Polling(t)
  /\ task_running <=> NoTask(completed_ops)

\* do_one() touches completed_ops_ and state_ only while it holds mutex_, and
\* a thread that has left do_one() does not hold it: the hand-over of the
\* lock object between do_one(), run_task(), ~work_cleanup() and run() never
\* loses or leaks it.
LockDiscipline ==
  /\ \A t \in Threads : pc[t] = "do_one" => mutex = t
  /\ mutex # None => pc[mutex] \in {"do_one", "run_task"}

WaitPCs == {"parked", "woken"}
Waiting == {t \in Threads : pc[t] \in WaitPCs}

\* state_ counts the threads between the += and the -= of waiter_increment:
\* the ones blocked in the condition variable and the ones it has released
\* that have not got mutex_ back.  A signal sent on a count of zero would be
\* lost, one withheld on a stale count would leave a waiter asleep.
WaiterCount == waiters = Cardinality(Waiting)

\* Where an entry is queued or executed.
Positions(E, q) == {i \in DOMAIN q : q[i] \in E}
Tag(kind, t, S) == {<<kind, t, i>> : i \in S}
InQueues(kind, E, q) == UNION {Tag(kind, t, Positions(E, q[t])) : t \in Threads}
InHandlers(E, at, e) ==
  {<<"handler", t, 0>> : t \in {u \in Threads : at[u] = "handler" /\ e[u] \in E}}
Places(E) ==
  Tag("completed", None, Positions(E, completed_ops))
  \cup InQueues("private", E, private_queue) \cup InQueues("local", E, local_ops)
  \cup InHandlers(E, pc, cur)

\* The units of work that threads have produced and not flushed.
UnitsOf(t, n) == {<<t, i>> : i \in 1..n}
UnitsIn(T, w) == UNION {UnitsOf(t, w[t]) : t \in T}
PrivateUnits == UnitsIn(Threads, private_work)

\* Threads between a handler's return and the counter of ~work_cleanup().
CleaningUp == {t \in Threads : pc[t] \in {"cleanup", "stop_handler"}}

\* The work ledger: outstanding_work_, with what the threads' private counts
\* have not flushed yet, is exactly the number of operations parked, posted,
\* queued and executing, timer waits and cancellations not yet balanced, and
\* user work guards.  A count too high keeps run() from ever returning, one
\* too low stops the context with work left.
WorkLedger ==
  /\ outstanding_work >= 0
  /\ outstanding_work + Cardinality(PrivateUnits)
     = Cardinality({o \in Ops : st[o] \in {"pending", "posting"}})
       + Cardinality({o \in Timers : st[o] = "queued"})
       + Cardinality(Places(Ops))
       + Cardinality(CleaningUp)
       + Cardinality({p \in Posters : guard[p]})
       + Cardinality({p \in Posters : pc[p] \in {"post_claimed", "finish"}})

\* Splicing loses and duplicates nothing: a completion that has been posted
\* and not finished is in exactly one queue once, or being executed by
\* exactly one thread; one that is not has no entry anywhere.  The same for
\* a descriptor and its is_enqueued_ flag.
OneEntryEach ==
  /\ \A o \in Ops : Cardinality(Places({o}))
                      = IF st[o] \in {"queued", "resumed"} THEN 1 ELSE 0
  /\ enqueued => Cardinality(Places({Desc})) = 1

\* A thread that nothing will wake by itself.
Asleep(t) ==
  \/ pc[t] = "parked" /\ ~Timed(t)
  \/ pc[t] = "poll" /\ ~wakefd /\ kernel = {} /\ ~Timed(t)

Inside(t) == pc[t] \notin {"idle", "stop_return"}

\* No lost wake-up: while there is an entry in completed_ops_ (a handler to
\* run, or the sentinel, without which no I/O and no timer is served), the
\* threads inside the event loop are not all asleep, unless some thread that
\* took the work count to zero is about to call stop(), which wakes them.
NoStrandedWork ==
  (completed_ops # <<>> /\ \E t \in Threads : Inside(t))
     => \/ \E t \in Threads : Inside(t) /\ ~Asleep(t)
        \/ \E a \in Actors : pc[a] \in DOMAIN AfterStop

\* What has been posted, a cancelled operation among it, is run, as long as
\* the context is not stopped and some thread is in the event loop.
PostedRuns ==
  \A o \in Ops :
    (st[o] = "queued" /\ \E t \in Threads : Inside(t))
      ~> (st[o] = "done" \/ stopped \/ \A t \in Threads : ~Inside(t))

\* stop() brings every thread out of the event loop, wherever it sleeps.
StopReturns ==
  \A t \in Threads : (stopped /\ Inside(t)) ~> (~Inside(t) \/ ~stopped)

\* While a thread is in run(), an I/O operation the kernel reports as ready is
\* completed.
RunServesIo ==
  LET running == \E t \in Threads : Inside(t) /\ mode[t] = "run"
  IN \A o \in IoOps :
       (st[o] = "pending" /\ o \in kernel /\ running)
         ~> (st[o] = "done" \/ stopped \/ ~running)

\* wait_one(usec) returns: it runs a handler, or it gives up when its time has
\* passed, whatever the other threads do.
WaitOneReturns ==
  \A t \in Threads : (Inside(t) /\ Timed(t)) ~> ~Inside(t)

\* A thread that keeps calling its run variant again.
KeepsCalling ==
  \A t \in Threads : WF_vars(\E m \in Modes : Call(t, m))

CallingSpec == FairSpec /\ KeepsCalling

\* An I/O operation that is ready is completed by a thread that keeps calling
\* a run variant, here poll().
ReadyIoServed ==
  \A o \in IoOps :
    (st[o] = "pending" /\ o \in kernel) ~> (st[o] = "done" \/ stopped)

(***************************************************************************)
(* The scheduler's books balance under every interleaving of post(),       *)
(* do_one(), ~work_cleanup() and cancellation: a completion is in one      *)
(* queue or being executed, once (OneEntryEach), and outstanding_work_     *)
(* with the threads' private counts is what is really outstanding          *)
(* (WorkLedger).                                                           *)
(***************************************************************************)
QueueLedger ==
    /\ TypeOK
    /\ OneEntryEach
    /\ WorkLedger
=============================================================================
