---------------------------- MODULE IocpScheduler ----------------------------
(***************************************************************************)
(* win_scheduler: the threads in run, run_one, poll, ... around do_one, the *)
(* completion port and its packets, the stop event that the runners hand   *)
(* on to each other, the queue of completions the port refused, the timer  *)
(* thread that wakes do_one, and the drain at shutdown.  Overlapped I/O is *)
(* the subject of IocpIo; here an operation is a posted handler.           *)
(***************************************************************************)
EXTENDS Naturals, FiniteSets

CONSTANTS Runners,     \* threads that run the scheduler
          Handlers,    \* handlers and continuations posted
          MaxFails,    \* bound on refused PostQueuedCompletionStatus calls
          MaxStops,    \* bound on calls of stop() by the program
          MaxRestarts, \* bound on calls of restart()
          Horizon      \* bound on the clock

VARIABLES pc,          \* per runner, where in its function it is
          mode,        \* per runner, which function: "run", "run_one", "poll"
          hand,        \* per runner, what it took: handlers, or a timer expiry
          port,        \* packets: posted handlers, stop events, timer wakeups
          queued,      \* completed_ops_
          place,       \* per handler: "new", "posted", "ran" or "dropped"
          dispatch,    \* dispatch_required_
          outstanding,        \* outstanding_work_
          stopped,     \* stopped_
          event,       \* stop_event_posted_
          clock,       \* the steady clock
          timers,      \* expiries of the timers in the timer service
          due,         \* when the waitable timer fires (Horizon + 1: not soon)
          timer_pc,    \* the timer thread
          caller,      \* the program's thread inside update_timeout: what it read
          fails, stops, restarts,    \* counters of the bounds
          closing      \* context shutdown: "no", "drain", "done"

sched_vars == <<pc, mode, hand, port, queued, place, dispatch, outstanding, stopped, event,
                clock, timers, due, timer_pc, caller, fails, stops, restarts, closing>>

ASSUME IocpSchedulerAssumption ==
    /\ IsFiniteSet(Runners) /\ IsFiniteSet(Handlers)
    /\ {MaxFails, MaxStops, MaxRestarts, Horizon} \subseteq Nat

Never == Horizon + 1
Nothing == [ops |-> {}, expiry |-> Never]
Nearest == IF timers = {} THEN Never ELSE CHOOSE x \in timers : \A y \in timers : x <= y

SchedInit ==
    /\ pc = [r \in Runners |-> "out"] /\ mode = [r \in Runners |-> "run"]
    /\ hand = [r \in Runners |-> Nothing]
    /\ port = [ops |-> {}, stop |-> 0, wake |-> 0]
    /\ queued = {} /\ place = [h \in Handlers |-> "new"]
    /\ dispatch = FALSE /\ outstanding = 0 /\ stopped = FALSE /\ event = FALSE
    /\ clock = 0 /\ timers = {} /\ due = Never /\ timer_pc = "wait"
    /\ caller = [pc |-> "idle", read |-> Never] /\ fails = 0 /\ stops = 0 /\ restarts = 0 /\ closing = "no"

-----------------------------------------------------------------------------
(* Posting                                                                  *)

\* post(h), post(op), post(continuation): the work is counted, then the packet
\* is posted; a refused packet goes to completed_ops_ with dispatch_required_
Post(h) ==
    /\ place[h] = "new" /\ closing = "no"
    /\ place' = [place EXCEPT ![h] = "posted"]
    /\ outstanding' = outstanding + 1
    /\ \/ port' = [port EXCEPT !.ops = @ \cup {h}] /\ UNCHANGED <<queued, dispatch, fails>>
       \/ fails < MaxFails /\ fails' = fails + 1
          /\ queued' = queued \cup {h} /\ dispatch' = TRUE /\ UNCHANGED port
    /\ UNCHANGED <<pc, mode, hand, stopped, event, clock, timers, due, timer_pc, caller,
                   stops, restarts, closing>>

\* stop(): only the call that sets stopped_ posts, and only if no stop event is
\* on its way
Stopping(s, e, p) == IF s \/ e THEN p ELSE [p EXCEPT !.stop = @ + 1]
StopNow == /\ port' = Stopping(stopped, event, port)
           /\ event' = (event \/ ~stopped) /\ stopped' = TRUE
Stop ==
    /\ stops < MaxStops /\ stops' = stops + 1 /\ closing = "no" /\ StopNow
    /\ UNCHANGED <<pc, mode, hand, queued, place, dispatch, outstanding, clock, timers, due,
                   timer_pc, caller, fails, restarts, closing>>
\* restart(), called as documented with no thread inside run
Restart ==
    /\ restarts < MaxRestarts /\ restarts' = restarts + 1 /\ closing = "no"
    /\ \A r \in Runners : pc[r] = "out"
    /\ stopped' = FALSE /\ event' = FALSE
    /\ UNCHANGED <<pc, mode, hand, port, queued, place, dispatch, outstanding, clock, timers, due,
                   timer_pc, caller, fails, stops, closing>>

-----------------------------------------------------------------------------
(* run, run_one, wait_one, poll, poll_one and do_one                        *)

runner_only == <<place, clock, timers, due, timer_pc, caller, fails, stops, restarts, closing>>

Leave(r, to) == /\ pc' = [pc EXCEPT ![r] = to]
                /\ mode' = [mode EXCEPT ![r] = IF to = "out" THEN "run" ELSE @]

\* The function is entered: without work it stops the scheduler and returns 0
Enter(r) ==
    /\ pc[r] = "out" /\ closing = "no"
    /\ IF outstanding = 0 THEN StopNow /\ UNCHANGED <<pc, mode>>
       ELSE /\ pc' = [pc EXCEPT ![r] = "top"] /\ UNCHANGED <<port, event, stopped>>
            /\ \E m \in {"run", "run_one", "poll"} : mode' = [mode EXCEPT ![r] = m]
    /\ UNCHANGED <<hand, queued, dispatch, outstanding, runner_only>>

\* The top of do_one: whoever takes dispatch_required_ takes the refused packets
Top(r) ==
    /\ pc[r] = "top"
    /\ IF dispatch
       THEN /\ dispatch' = FALSE /\ queued' = {}
            /\ hand' = [hand EXCEPT ![r] = [ops |-> queued, expiry |-> Never]]
            /\ pc' = [pc EXCEPT ![r] = "repost"]
       ELSE pc' = [pc EXCEPT ![r] = "wait"] /\ UNCHANGED <<dispatch, queued, hand>>
    /\ UNCHANGED <<mode, port, outstanding, stopped, event, runner_only>>

\* What a refused packet puts back: itself and the rest
PutBack(r, h) == hand[r].ops
\* post_deferred_completions: one packet after the other; a refusal puts the
\* failed one and the rest back
Repost(r) ==
    /\ pc[r] = "repost"
    /\ \/ hand[r].ops = {} /\ pc' = [pc EXCEPT ![r] = "expire"]
          /\ UNCHANGED <<hand, port, queued, dispatch, fails>>
       \/ \E h \in hand[r].ops :
            \/ /\ port' = [port EXCEPT !.ops = @ \cup {h}]
               /\ hand' = [hand EXCEPT ![r].ops = @ \ {h}]
               /\ UNCHANGED <<pc, queued, dispatch, fails>>
            \/ /\ fails < MaxFails /\ fails' = fails + 1
               /\ queued' = queued \cup PutBack(r, h) /\ dispatch' = TRUE
               /\ hand' = [hand EXCEPT ![r] = Nothing]
               /\ pc' = [pc EXCEPT ![r] = "expire"] /\ UNCHANGED port
    /\ UNCHANGED <<mode, place, outstanding, stopped, event, clock, timers, due, timer_pc, caller,
                   stops, restarts, closing>>

\* process_expired takes the due timers, whose waits end and release their work;
\* update_timeout then reads the nearest expiry and, in a step of its own, arms
\* the waitable timer with what it read
Expire(r) ==
    /\ pc[r] = "expire"
    /\ LET left == {x \in timers : x > clock} IN
       /\ timers' = left
       /\ outstanding' = outstanding - Cardinality(timers \ left)
       /\ IF outstanding' = 0 /\ timers # left THEN StopNow ELSE UNCHANGED <<port, event, stopped>>
    /\ pc' = [pc EXCEPT ![r] = "read"]
    /\ UNCHANGED <<mode, hand, queued, place, dispatch, clock, due,
                   timer_pc, caller, fails, stops, restarts, closing>>
ReadNearest(r) ==
    /\ pc[r] = "read"
    /\ hand' = [hand EXCEPT ![r].expiry = Nearest] /\ pc' = [pc EXCEPT ![r] = "arm"]
    /\ UNCHANGED <<mode, port, queued, dispatch, outstanding, stopped, event, runner_only>>
ArmTimer(r) ==
    /\ pc[r] = "arm"
    /\ due' = hand[r].expiry /\ hand' = [hand EXCEPT ![r] = Nothing]
    /\ pc' = [pc EXCEPT ![r] = "wait"]
    /\ UNCHANGED <<mode, port, queued, place, dispatch, outstanding, stopped, event, clock, timers,
                   timer_pc, caller, fails, stops, restarts, closing>>

\* GetQueuedCompletionStatus returns a handler: it runs, then work_finished
TakeHandler(r) ==
    /\ pc[r] = "wait" /\ \E h \in port.ops :
         /\ port' = [port EXCEPT !.ops = @ \ {h}]
         /\ place' = [place EXCEPT ![h] = "ran"]
    /\ pc' = [pc EXCEPT ![r] = "finish"]
    /\ UNCHANGED <<mode, hand, queued, dispatch, outstanding, stopped, event, clock, timers, due,
                   timer_pc, caller, fails, stops, restarts, closing>>
FinishHandler(r) ==
    /\ pc[r] = "finish" /\ outstanding' = outstanding - 1
    /\ IF outstanding = 1 THEN StopNow ELSE UNCHANGED <<port, event, stopped>>
    /\ Leave(r, IF mode[r] = "run_one" THEN "out" ELSE IF mode[r] = "poll" THEN "top" ELSE "again")
    /\ UNCHANGED <<hand, queued, dispatch, runner_only>>
\* run() looks at the count again after every handler
Again(r) ==
    /\ pc[r] = "again"
    /\ IF outstanding = 0 THEN StopNow ELSE UNCHANGED <<port, event, stopped>>
    /\ Leave(r, IF outstanding = 0 THEN "out" ELSE "top")
    /\ UNCHANGED <<hand, queued, dispatch, outstanding, runner_only>>
\* ... returns a timer wakeup: back to the top
TakeWake(r) ==
    /\ pc[r] = "wait" /\ port.wake > 0
    /\ port' = [port EXCEPT !.wake = @ - 1] /\ pc' = [pc EXCEPT ![r] = "top"]
    /\ UNCHANGED <<mode, hand, queued, dispatch, outstanding, stopped, event, runner_only>>
\* ... returns the stop event: it is handed on if the scheduler is stopped, and
\* dropped if it is a leftover from before a restart
TakeStop(r) ==
    /\ pc[r] = "wait" /\ port.stop > 0
    /\ port' = [port EXCEPT !.stop = @ - 1] /\ event' = FALSE
    /\ pc' = [pc EXCEPT ![r] = IF stopped THEN "hand_on" ELSE "top"]
    /\ UNCHANGED <<mode, hand, queued, dispatch, outstanding, stopped, runner_only>>
HandOn(r) ==
    /\ pc[r] = "hand_on"
    /\ port' = (IF event THEN port ELSE [port EXCEPT !.stop = @ + 1]) /\ event' = TRUE
    /\ Leave(r, "out")
    /\ UNCHANGED <<hand, queued, dispatch, outstanding, stopped, runner_only>>
\* ... times out, for poll: nothing in the port
PollEmpty(r) ==
    /\ pc[r] = "wait" /\ mode[r] = "poll"
    /\ port.ops = {} /\ port.stop = 0 /\ port.wake = 0
    /\ Leave(r, "out")
    /\ UNCHANGED <<hand, port, queued, dispatch, outstanding, stopped, event, runner_only>>

-----------------------------------------------------------------------------
(* Timers: the program's thread, the clock and the timer thread             *)

\* A timer wait begins: its work is counted, and a new earliest expiry calls
\* on_timer_changed, which is update_timeout again
AddTimer(x) ==
    /\ closing = "no" /\ caller.pc = "idle" /\ x \notin timers /\ x > clock
    /\ timers' = timers \cup {x} /\ outstanding' = outstanding + 1
    /\ caller' = IF x < Nearest THEN [caller EXCEPT !.pc = "read"] ELSE caller
    /\ UNCHANGED <<pc, mode, hand, port, queued, place, dispatch, stopped, event, clock, due,
                   timer_pc, fails, stops, restarts, closing>>
CallerRead ==
    /\ caller.pc = "read" /\ caller' = [pc |-> "arm", read |-> Nearest]
    /\ UNCHANGED <<pc, mode, hand, port, queued, place, dispatch, outstanding, stopped, event, clock,
                   timers, due, timer_pc, fails, stops, restarts, closing>>
CallerArm ==
    /\ caller.pc = "arm" /\ due' = caller.read
    /\ caller' = [pc |-> "idle", read |-> Never]
    /\ UNCHANGED <<pc, mode, hand, port, queued, place, dispatch, outstanding, stopped, event, clock,
                   timers, timer_pc, fails, stops, restarts, closing>>
Tick ==
    /\ clock < Horizon /\ clock' = clock + 1 /\ closing = "no"
    /\ UNCHANGED <<pc, mode, hand, port, queued, place, dispatch, outstanding, stopped, event, timers,
                   due, timer_pc, caller, fails, stops, restarts, closing>>
\* thread_func: the waitable timer fires once, the flag is set, then the packet
\* is posted (a refusal is not looked at)
TimerFires ==
    /\ timer_pc = "wait" /\ due <= clock /\ due' = Never /\ timer_pc' = "flag"
    /\ UNCHANGED <<pc, mode, hand, port, queued, place, dispatch, outstanding, stopped, event, clock,
                   timers, caller, fails, stops, restarts, closing>>
TimerFlags ==
    /\ timer_pc = "flag" /\ dispatch' = TRUE /\ timer_pc' = "post"
    /\ UNCHANGED <<pc, mode, hand, port, queued, place, outstanding, stopped, event, clock, timers,
                   due, caller, fails, stops, restarts, closing>>
TimerPosts ==
    /\ timer_pc = "post" /\ timer_pc' = "wait"
    /\ \/ port' = [port EXCEPT !.wake = @ + 1] /\ UNCHANGED fails
       \/ fails < MaxFails /\ fails' = fails + 1 /\ UNCHANGED port
    /\ UNCHANGED <<pc, mode, hand, queued, place, dispatch, outstanding, stopped, event, clock,
                   timers, due, caller, stops, restarts, closing>>

-----------------------------------------------------------------------------
(* shutdown(): the timer thread is joined, the timer service shut down, and *)
(* the refused and the queued packets are destroyed until no work is left   *)

BeginShutdown ==
    /\ closing = "no" /\ \A r \in Runners : pc[r] = "out"
    /\ caller.pc = "idle" /\ timer_pc = "wait"
    /\ closing' = "drain" /\ timer_pc' = "gone" /\ due' = Never
    /\ timers' = {} /\ outstanding' = outstanding - Cardinality(timers)
    /\ UNCHANGED <<pc, mode, hand, port, queued, place, dispatch, stopped, event, clock,
                   caller, fails, stops, restarts>>
Drop(S) == [h \in Handlers |-> IF h \in S THEN "dropped" ELSE place[h]]
DrainQueue ==
    /\ closing = "drain" /\ outstanding > 0 /\ queued # {}
    /\ queued' = {} /\ outstanding' = outstanding - Cardinality(queued) /\ place' = Drop(queued)
    /\ UNCHANGED <<pc, mode, hand, port, dispatch, stopped, event, clock, timers, due,
                   timer_pc, caller, fails, stops, restarts, closing>>
DrainPort ==
    /\ closing = "drain" /\ outstanding > 0 /\ queued = {}
    /\ \E h \in port.ops : /\ port' = [port EXCEPT !.ops = @ \ {h}]
                           /\ place' = Drop({h})
    /\ outstanding' = outstanding - 1
    /\ UNCHANGED <<pc, mode, hand, queued, dispatch, stopped, event, clock, timers, due,
                   timer_pc, caller, fails, stops, restarts, closing>>
DrainDone ==
    /\ closing = "drain" /\ outstanding = 0 /\ closing' = "done"
    /\ UNCHANGED <<pc, mode, hand, port, queued, place, dispatch, outstanding, stopped, event, clock,
                   timers, due, timer_pc, caller, fails, stops, restarts>>
\* Nothing more happens by itself: every runner is out or blocked on the empty
\* port, and the timer thread and the program's thread have nothing to do.
SchedQuiet ==
    /\ \A r \in Runners : pc[r] = "out" \/ (pc[r] = "wait" /\ mode[r] # "poll")
    /\ port = [ops |-> {}, stop |-> 0, wake |-> 0] \/ \A r \in Runners : pc[r] = "out"
    /\ timer_pc = "wait" /\ due > clock /\ caller.pc = "idle"

\* Runners may stay blocked for want of anything to do
SchedEnd == (closing = "done" \/ SchedQuiet) /\ UNCHANGED sched_vars

SchedNext ==
    \/ \E h \in Handlers : Post(h)
    \/ Stop \/ Restart
    \/ \E r \in Runners :
         \/ Enter(r) \/ Top(r) \/ Repost(r) \/ Expire(r) \/ ReadNearest(r) \/ ArmTimer(r)
         \/ TakeHandler(r) \/ FinishHandler(r) \/ Again(r) \/ TakeWake(r) \/ TakeStop(r)
         \/ HandOn(r) \/ PollEmpty(r)
    \/ \E x \in 1..Horizon : AddTimer(x)
    \/ CallerRead \/ CallerArm \/ Tick \/ TimerFires \/ TimerFlags \/ TimerPosts
    \/ BeginShutdown \/ DrainQueue \/ DrainPort \/ DrainDone \/ SchedEnd

SchedSpec == SchedInit /\ [][SchedNext]_sched_vars

-----------------------------------------------------------------------------
(* Properties                                                               *)

SchedTypeOK ==
    /\ pc \in [Runners -> {"out", "top", "repost", "expire", "read", "arm", "wait",
                           "finish", "again", "hand_on"}]
    /\ mode \in [Runners -> {"run", "run_one", "poll"}]
    /\ port.ops \subseteq Handlers /\ port.stop \in Nat /\ port.wake \in Nat
    /\ queued \subseteq Handlers /\ outstanding \in Nat /\ due \in Nat /\ clock \in 0..Horizon
    /\ place \in [Handlers -> {"new", "posted", "ran", "dropped"}]
    /\ {dispatch, stopped, event} \subseteq BOOLEAN

\* A posted handler is in exactly one place until it runs or is dropped: in the
\* port, among the refused packets, or in the hands of the thread that posts the
\* refused ones again.  A refusal in the middle of that loses none of the rest.
HandlerOnce == \A h \in Handlers :
    LET here == {x \in {"port", "queue"} : h \in (IF x = "port" THEN port.ops ELSE queued)}
        held == {r \in Runners : h \in hand[r].ops}
    IN  Cardinality(here) + Cardinality(held) = IF place[h] = "posted" THEN 1 ELSE 0

\* outstanding_work_ counts the posted handlers, those whose work_finished is
\* still to come, and the timer waits; a drain leaves nothing behind.
SchedWork ==
    outstanding = Cardinality({h \in Handlers : place[h] = "posted"})
         + Cardinality({r \in Runners : pc[r] = "finish"}) + Cardinality(timers)

\* Refused packets are never left with dispatch_required_ clear, where no thread
\* would look for them.
RefusedIsFlagged == queued # {} => dispatch

\* stop() reaches every runner: the stop event is handed on from thread to thread
\* until the last one has left, also when it overtakes a leftover event.
StopReachesAll == SchedQuiet /\ stopped => \A r \in Runners : pc[r] = "out"

\* While a thread is blocked in the port no timer stays expired: the waitable
\* timer is armed for the earliest expiry whenever nothing else is going on
\* (unless the port refused the packet that was to say so).
ExpiredIsServed ==
    SchedQuiet /\ fails = 0 /\ (\E r \in Runners : pc[r] = "wait") => \A x \in timers : x > clock

=============================================================================
