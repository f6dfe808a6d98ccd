---------------------------- MODULE TimerService ----------------------------
(***************************************************************************)
(* Timer waits: include/boost/corosio/detail/timer_service.hpp, timer.hpp, *)
(* src/corosio/src/timer.cpp, and the half of epoll_scheduler.hpp that     *)
(* turns the earliest expiry into a wakeup of the reactor.                 *)
(*                                                                         *)
(* Four kinds of actors touch a wait:                                      *)
(*   - the owner of the timer calls expires_at, wait, cancel, cancel_one   *)
(*     and destroys it; timers are not safe to share, so the calls on one  *)
(*     timer come one after another (one control state per timer);         *)
(*   - the reactor thread sleeps until the timerfd or the eventfd wakes it *)
(*     and completes what has expired;                                     *)
(*   - a stop callback, run by whoever requests the stop of a waiter;      *)
(*   - the scheduler, which runs the posted completion of a waiter.        *)
(* A critical section of timer_service::mutex_ is one action; the reads of *)
(* heap_index_ and might_have_pending_waits_ outside of it, the posts and  *)
(* the notification that follow it are actions of their own.               *)
(*                                                                         *)
(* A waiter_node lives in the frame of the suspended coroutine.  Nothing   *)
(* may touch it once the coroutine is resumed.                             *)
(***************************************************************************)
EXTENDS TimerHeap, FiniteSets

CONSTANTS
    Waiters,    \* coroutines that wait, one waiter_node each
    TimerOf,    \* the timer each of them waits on
    Stoppable,  \* those whose stop token can be triggered
    Expiries,   \* the times expires_at is called with; 0 has always passed
    MaxTime,    \* the clock stops here; later expiries never come
    None

Times == Expiries \union {0}

ASSUME ClockAssumption == MaxTime \in Nat /\ Expiries \subseteq Nat
ASSUME TimerOfAssumption == TimerOf \in [Waiters -> Timers]
ASSUME StoppableAssumption == Stoppable \subseteq Waiters
ASSUME NoneAssumption == None \notin Timers \union Waiters

Never == MaxTime + 100      \* time_point::max(), past every expiry

VARIABLES
    now,        \* steady_clock
    H,          \* heap_ and every heap_index_
    cached,     \* cached_nearest_ns_
    expiry,     \* expiry_ of every timer
    flag,       \* might_have_pending_waits_
    waiters,    \* waiters_, the list of every timer
    impl,       \* impl_ of every waiter, the mark that it is in a list
    ec,         \* its result
    cb,         \* cb_active_: its stop callback is registered
    wstop,      \* its stop token
    wpc,        \* where the coroutine stands
    posted,     \* how often its op_ is in the scheduler's queue
    work,       \* outstanding_work_, as counted by waits
    opc,        \* the owner of every timer: what it is doing,
    arg,        \*   the waiter it is about to publish,
    out,        \*   the unlinked waiters it is about to post,
    notify,     \*   whether it then reports a new earliest expiry,
    dying,      \*   and whether it is destroying the timer
    spc,        \* the stop callback of every waiter
    rpc,        \* the reactor thread,
    due,        \*   the expired waiters it is about to post,
    tick,       \*   whether the timerfd woke it
    stale,      \* timerfd_stale_
    eventfd,    \* eventfd_armed_ is set and the eventfd readable
    timerfd     \* the time the timerfd is programmed for

svcVars == << H, cached, flag, waiters, impl >>
nodeVars == << ec, cb, wpc, posted, work >>
ownerVars == << opc, arg, out, notify, dying >>
wakeVars == << stale, eventfd, timerfd >>
vars == << now, expiry, svcVars, nodeVars, ownerVars, wstop, spc, rpc, due,
           tick, wakeVars >>

Init ==
    /\ now = 1
    /\ H = EmptyHeap
    /\ cached = Never
    /\ expiry = [t \in Timers |-> 0]
    /\ flag = [t \in Timers |-> FALSE]
    /\ waiters = [t \in Timers |-> << >>]
    /\ impl = [w \in Waiters |-> None]
    /\ ec = [w \in Waiters |-> "none"]
    /\ cb = [w \in Waiters |-> FALSE]
    /\ wstop = [w \in Waiters |-> FALSE]
    /\ wpc = [w \in Waiters |-> "running"]
    /\ posted = [w \in Waiters |-> 0]
    /\ work = 0
    /\ opc = [t \in Timers |-> "idle"]
    /\ arg = [t \in Timers |-> None]
    /\ out = [t \in Timers |-> << >>]
    /\ notify = [t \in Timers |-> FALSE]
    /\ dying = [t \in Timers |-> FALSE]
    /\ spc = [w \in Waiters |-> "none"]
    /\ rpc = "flush"
    /\ due = << >>
    /\ tick = FALSE
    /\ stale = FALSE
    /\ eventfd = FALSE
    /\ timerfd = Never

-----------------------------------------------------------------------------

Nearest(K) == IF K.heap = << >> THEN Never ELSE Time(K, 1)

(* Every critical section leaves the heap through refresh_cached_nearest. *)
MutHeapNoRefresh(K) == H' = K /\ UNCHANGED cached

SetHeap(K) == H' = K /\ cached' = Nearest(K)

Elements(s) == {s[i] : i \in 1..Len(s)}

Without(s, w) == SelectSeq(s, LAMBDA v : v # w)

Unlinked(ws) == [w \in Waiters |-> IF w \in ws THEN None ELSE impl[w]]

AlreadyExpired(t) == H.index[t] = npos /\ expiry[t] <= now

(* The unlocked reads of expires_at and update_timer. *)
NothingToUpdate(t) == H.index[t] = npos /\ ~ flag[t]

Post(w, result) ==
    /\ ec' = [ec EXCEPT ![w] = result]
    /\ posted' = [posted EXCEPT ![w] = @ + 1]
    /\ UNCHANGED << cb, wpc, work >>

(* What a removal of the last waiters of t leaves behind: the timer leaves *)
(* the heap and its flag is cleared.                                       *)
Settle(t, left) ==
    /\ waiters' = [waiters EXCEPT ![t] = left]
    /\ SetHeap(IF left = << >> THEN remove_timer_impl(H, t) ELSE H)
    /\ flag' = [flag EXCEPT ![t] = (left # << >>) /\ @]

-----------------------------------------------------------------------------
(***************************************************************************)
(* The owner of a timer.                                                   *)
(***************************************************************************)

(* Only a timer nobody waits on may be destroyed. *)
Idle(t) == opc[t] = "idle"

NoAwaitables(t) ==
    \A w \in Waiters : TimerOf[w] = t => wpc[w] = "running"

(* expires_at and expires_after: store the expiry, look whether anything   *)
(* is pending, outside the lock.                                           *)
ExpiresAt(t, e) ==
    /\ Idle(t)
    /\ expiry' = [expiry EXCEPT ![t] = e]
    /\ IF NothingToUpdate(t)
       THEN UNCHANGED opc
       ELSE opc' = [opc EXCEPT ![t] = "update"]
    /\ UNCHANGED << now, svcVars, nodeVars, arg, out, notify, dying, wstop,
                    spc, rpc, due, tick, wakeVars >>

update_timer(t) ==
    /\ opc[t] = "update"
    /\ UNCHANGED << now, expiry, flag, nodeVars, arg, dying, wstop, spc, rpc,
                    due, tick, wakeVars >>
    /\ IF NothingToUpdate(t)
       THEN /\ opc' = [opc EXCEPT ![t] = "idle"]
            /\ UNCHANGED << svcVars, out, notify >>
       ELSE LET K == RekeyTimer(H, t, expiry[t])
            IN  /\ impl' = Unlinked(Elements(waiters[t]))
                /\ waiters' = [waiters EXCEPT ![t] = << >>]
                /\ out' = [out EXCEPT ![t] = waiters[t]]
                /\ opc' = [opc EXCEPT ![t] = "post"]
                /\ SetHeap(K)
                /\ notify' = [notify EXCEPT ![t] = K.index[t] = 1]

(***************************************************************************)
(* co_await timer.wait(): await_suspend and implementation::wait up to the *)
(* call of insert_waiter.  An expired timer outside the heap completes the *)
(* wait at once; otherwise the flag is raised, the work is counted and the *)
(* stop callback is armed, all before the waiter is published.  A stop     *)
(* requested earlier runs the callback inside the constructor, where it    *)
(* finds impl_ null.                                                       *)
(***************************************************************************)
Wait(t, w) ==
    /\ Idle(t)
    /\ TimerOf[w] = t /\ wpc[w] = "running"
    /\ IF AlreadyExpired(t)
       THEN UNCHANGED << wpc, flag, work, cb, opc, arg >>
       ELSE /\ wpc' = [wpc EXCEPT ![w] = "suspended"]
            /\ flag' = [flag EXCEPT ![t] = TRUE]
            /\ work' = work + 1
            /\ cb' = [cb EXCEPT ![w] = w \in Stoppable]
            /\ opc' = [opc EXCEPT ![t] = "insert"]
            /\ arg' = [arg EXCEPT ![t] = w]
    /\ UNCHANGED << now, expiry, H, cached, waiters, impl, ec, posted, out,
                    notify, dying, wstop, spc, rpc, due, tick, wakeVars >>


(* Publish the waiter; if its stop was requested meanwhile, the callback   *)
(* has already run for nothing, so take it back and post it as cancelled.  *)
insert_waiter(t) ==
    LET w == arg[t]
        K == IF H.index[t] = npos THEN PushTimer(H, t, expiry[t]) ELSE H
    IN  /\ opc[t] = "insert"
        /\ arg' = [arg EXCEPT ![t] = None]
        /\ opc' = [opc EXCEPT ![t] = "post"]
        /\ UNCHANGED << now, expiry, nodeVars, dying, wstop, spc, rpc, due,
                        tick, wakeVars >>
        /\ IF wstop[w]
           THEN /\ SetHeap(IF waiters[t] = << >>
                           THEN remove_timer_impl(K, t) ELSE K)
                /\ flag' = [flag EXCEPT ![t] = (waiters[t] # << >>) /\ @]
                /\ out' = [out EXCEPT ![t] = << w >>]
                /\ UNCHANGED << impl, waiters, notify >>
           ELSE /\ impl' = [impl EXCEPT ![w] = t]
                /\ waiters' = [waiters EXCEPT ![t] = Append(@, w)]
                /\ SetHeap(K)
                /\ notify' = [notify EXCEPT ![t] = H.index[t] = npos
                                                   /\ K.index[t] = 1]
                /\ UNCHANGED << flag, out >>

(* cancel(): nothing happens unless the flag is up. *)
Cancel(t) ==
    /\ Idle(t)
    /\ flag[t]
    /\ opc' = [opc EXCEPT ![t] = "cancel"]
    /\ UNCHANGED << now, expiry, svcVars, nodeVars, arg, out, notify, dying,
                    wstop, spc, rpc, due, tick, wakeVars >>

cancel_timer(t) ==
    /\ opc[t] = "cancel"
    /\ UNCHANGED << now, expiry, nodeVars, arg, notify, dying, wstop, spc,
                    rpc, due, tick, wakeVars >>
    /\ opc' = [opc EXCEPT ![t] = "post"]
    /\ IF flag[t]
       THEN /\ impl' = Unlinked(Elements(waiters[t]))
            /\ out' = [out EXCEPT ![t] = waiters[t]]
            /\ Settle(t, << >>)
       ELSE UNCHANGED << svcVars, out >>

CancelOne(t) ==
    /\ Idle(t)
    /\ flag[t]
    /\ opc' = [opc EXCEPT ![t] = "cancel_one"]
    /\ UNCHANGED << now, expiry, svcVars, nodeVars, arg, out, notify, dying,
                    wstop, spc, rpc, due, tick, wakeVars >>

(* The oldest waiter leaves; the timer stays armed for the others. *)
cancel_one_waiter(t) ==
    /\ opc[t] = "cancel_one"
    /\ UNCHANGED << now, expiry, nodeVars, arg, notify, dying, wstop, spc,
                    rpc, due, tick, wakeVars >>
    /\ opc' = [opc EXCEPT ![t] = "post"]
    /\ IF flag[t] /\ waiters[t] # << >>
       THEN /\ impl' = Unlinked({Head(waiters[t])})
            /\ out' = [out EXCEPT ![t] = << Head(waiters[t]) >>]
            /\ Settle(t, Tail(waiters[t]))
       ELSE UNCHANGED << svcVars, out >>

(* The destructor: destroy_impl starts with cancel_timer. *)
Destroy(t) ==
    /\ Idle(t)
    /\ NoAwaitables(t)
    /\ dying' = [dying EXCEPT ![t] = TRUE]
    /\ opc' = [opc EXCEPT ![t] = "cancel"]
    /\ UNCHANGED << now, expiry, svcVars, nodeVars, arg, out, notify, wstop,
                    spc, rpc, due, tick, wakeVars >>

(* The rest of destroy_impl, up to the implementation handed out again by  *)
(* construct: a recycled one starts like a new one.                        *)
Recycle(t) ==
    /\ opc[t] = "release"
    /\ IF H.index[t] # npos
       THEN SetHeap(remove_timer_impl(H, t))
       ELSE UNCHANGED << H, cached >>
    /\ expiry' = [expiry EXCEPT ![t] = 0]
    /\ flag' = [flag EXCEPT ![t] = FALSE]
    /\ dying' = [dying EXCEPT ![t] = FALSE]
    /\ opc' = [opc EXCEPT ![t] = "idle"]
    /\ UNCHANGED << now, waiters, impl, nodeVars, arg, out, notify, wstop,
                    spc, rpc, due, tick, wakeVars >>

(* After the lock: post the unlinked waiters one by one as cancelled ...   *)
OwnerPost(t) ==
    /\ opc[t] = "post"
    /\ out[t] # << >>
    /\ Post(Head(out[t]), "canceled")
    /\ out' = [out EXCEPT ![t] = Tail(@)]
    /\ UNCHANGED << now, expiry, svcVars, opc, arg, notify, dying, wstop,
                    spc, rpc, due, tick, wakeVars >>

(* ... then report a new earliest expiry: on_earliest_changed_ marks the   *)
(* timerfd stale and interrupts the reactor.                               *)
Notify(t) ==
    /\ opc[t] = "post" /\ out[t] = << >>
    /\ stale' = (stale \/ notify[t])
    /\ opc' = [opc EXCEPT ![t] = IF notify[t] THEN "interrupt"
                                 ELSE IF dying[t] THEN "release" ELSE "idle"]
    /\ notify' = [notify EXCEPT ![t] = FALSE]
    /\ UNCHANGED << now, expiry, svcVars, nodeVars, arg, out, dying, wstop,
                    spc, rpc, due, tick, eventfd, timerfd >>

(* interrupt_reactor; ReactorScheduler models the flag that saves writes. *)
interrupt_reactor(t) ==
    /\ opc[t] = "interrupt"
    /\ opc' = [opc EXCEPT ![t] = "idle"]
    /\ eventfd' = TRUE
    /\ UNCHANGED << now, expiry, svcVars, nodeVars, arg, out, notify, dying,
                    wstop, spc, rpc, due, tick, stale, timerfd >>

OwnerCalls(t) ==
    \/ \E e \in Expiries : ExpiresAt(t, e)
    \/ \E w \in Waiters : Wait(t, w)
    \/ Cancel(t)
    \/ CancelOne(t)
    \/ Destroy(t)

OwnerStep(t) ==
    \/ update_timer(t)
    \/ insert_waiter(t)
    \/ cancel_timer(t)
    \/ cancel_one_waiter(t)
    \/ Recycle(t)
    \/ OwnerPost(t)
    \/ Notify(t)
    \/ interrupt_reactor(t)

-----------------------------------------------------------------------------
(***************************************************************************)
(* The stop token of a waiter.                                             *)
(***************************************************************************)

(* request_stop: a registered callback is run by the requesting thread. *)
RequestStop(w) ==
    /\ w \in Stoppable /\ ~ wstop[w]
    /\ wstop' = [wstop EXCEPT ![w] = TRUE]
    /\ spc' = [spc EXCEPT ![w] = IF cb[w] THEN "callback" ELSE "none"]
    /\ UNCHANGED << now, expiry, svcVars, nodeVars, ownerVars, rpc, due,
                    tick, wakeVars >>

cancel_waiter(w) ==
    /\ spc[w] = "callback"
    /\ UNCHANGED << now, expiry, nodeVars, ownerVars, wstop, rpc, due, tick,
                    wakeVars >>
    /\ IF impl[w] = None
       THEN /\ spc' = [spc EXCEPT ![w] = "return"]
            /\ UNCHANGED svcVars
       ELSE /\ spc' = [spc EXCEPT ![w] = "post"]
            /\ impl' = Unlinked({w})
            /\ Settle(impl[w], Without(waiters[impl[w]], w))

StopPost(w) ==
    /\ spc[w] = "post"
    /\ Post(w, "canceled")
    /\ spc' = [spc EXCEPT ![w] = "return"]
    /\ UNCHANGED << now, expiry, svcVars, ownerVars, wstop, rpc, due, tick,
                    wakeVars >>

StopReturn(w) ==
    /\ spc[w] = "return"
    /\ spc' = [spc EXCEPT ![w] = "none"]
    /\ UNCHANGED << now, expiry, svcVars, nodeVars, ownerVars, wstop, rpc,
                    due, tick, wakeVars >>

StopStep(w) == cancel_waiter(w) \/ StopPost(w) \/ StopReturn(w)

-----------------------------------------------------------------------------
(***************************************************************************)
(* completion_op::operator(), run by the scheduler: posting the            *)
(* continuation is the last access to the node.  The coroutine reads its   *)
(* result and goes on; the node is gone.                                   *)
(***************************************************************************)

(* A callback torn down while it runs. *)
MutResetUnsynced(w) == cb' = [cb EXCEPT ![w] = FALSE]

(* The destructor of a stop callback waits for one that is running. *)
reset_stop_cb(w) == spc[w] = "none" /\ cb' = [cb EXCEPT ![w] = FALSE]

work_finished == work' = work - 1

Complete(w) ==
    /\ posted[w] > 0
    /\ posted' = [posted EXCEPT ![w] = @ - 1]
    /\ reset_stop_cb(w)
    /\ wpc' = [wpc EXCEPT ![w] = "running"]
    /\ ec' = [ec EXCEPT ![w] = "none"]
    /\ work_finished
    /\ UNCHANGED << now, expiry, svcVars, ownerVars, wstop, spc, rpc, due,
                    tick, wakeVars >>

-----------------------------------------------------------------------------
(***************************************************************************)
(* The reactor thread: the part of epoll_scheduler::run_task that is about *)
(* timers.                                                                 *)
(***************************************************************************)
Tick ==
    /\ now < MaxTime
    /\ now' = now + 1
    /\ UNCHANGED << expiry, svcVars, nodeVars, ownerVars, wstop, spc, rpc,
                    due, tick, wakeVars >>

(* update_timerfd: an expiry that has passed is programmed as one          *)
(* nanosecond from now, because zero would disarm the timerfd.             *)
update_timerfd ==
    timerfd' = IF cached = Never THEN Never
               ELSE IF cached <= now THEN now ELSE cached

FlushTimerfd ==
    /\ rpc = "flush"
    /\ IF stale THEN update_timerfd ELSE UNCHANGED timerfd
    /\ stale' = FALSE
    /\ rpc' = "poll"
    /\ UNCHANGED << now, expiry, svcVars, nodeVars, ownerVars, wstop, spc,
                    due, tick, eventfd >>

(* epoll_wait returns; the eventfd and the timerfd are read. *)
PollReturn ==
    /\ rpc = "poll"
    /\ eventfd \/ timerfd <= now
    /\ tick' = (timerfd <= now)
    /\ timerfd' = IF timerfd <= now THEN Never ELSE timerfd
    /\ eventfd' = FALSE
    /\ rpc' = "timers"
    /\ UNCHANGED << now, expiry, svcVars, nodeVars, ownerVars, wstop, spc,
                    due, stale >>

(* The loop of process_expired: while the front of the heap has expired,   *)
(* take its timer out with all of its waiters.                             *)
MutPopUnexpired(s) ==
    IF s.H.heap = << >>
    THEN s
    ELSE LET t == s.H.heap[1].timer
         IN  [H |-> remove_timer_impl(s.H, t), ws |-> s.ws \o waiters[t]]

PopFront(s) ==
    IF s.H.heap = << >> \/ Time(s.H, 1) > now
    THEN s
    ELSE LET t == s.H.heap[1].timer
         IN  [H |-> remove_timer_impl(s.H, t), ws |-> s.ws \o waiters[t]]

PopExpired ==
    LET turn[k \in 0..Len(H.heap)] ==
            IF k = 0 THEN [H |-> H, ws |-> << >>] ELSE PopFront(turn[k - 1])
    IN  turn[Len(H.heap)]

process_expired ==
    LET p == PopExpired
        gone == {t \in Timers : InHeap(H, t) /\ ~ InHeap(p.H, t)}
    IN  /\ rpc = "timers"
        /\ UNCHANGED << now, expiry, cb, wpc, posted, work, ownerVars, wstop,
                        spc, tick, wakeVars >>
        /\ IF tick
           THEN /\ rpc' = "post"
                /\ due' = p.ws
                /\ SetHeap(p.H)
                /\ impl' = Unlinked(Elements(p.ws))
                /\ ec' = [w \in Waiters |->
                            IF w \in Elements(p.ws) THEN "ok" ELSE ec[w]]
                /\ waiters' = [t \in Timers |->
                            IF t \in gone THEN << >> ELSE waiters[t]]
                /\ flag' = [t \in Timers |-> t \notin gone /\ flag[t]]
           ELSE /\ rpc' = "flush"
                /\ UNCHANGED << svcVars, ec, due >>

PostExpired ==
    /\ rpc = "post"
    /\ due # << >>
    /\ posted' = [posted EXCEPT ![Head(due)] = @ + 1]
    /\ due' = Tail(due)
    /\ UNCHANGED << now, expiry, svcVars, ec, cb, wpc, work, ownerVars, wstop,
                    spc, rpc, tick, wakeVars >>

(* Program the timerfd for what is left. *)
Rearm ==
    /\ rpc = "post"
    /\ due = << >>
    /\ update_timerfd
    /\ tick' = FALSE
    /\ rpc' = "flush"
    /\ UNCHANGED << now, expiry, svcVars, nodeVars, ownerVars, wstop, spc,
                    due, stale, eventfd >>

ReactorStep ==
    FlushTimerfd \/ PollReturn \/ process_expired
    \/ PostExpired \/ Rearm

Next ==
    \/ Tick
    \/ \E t \in Timers : OwnerCalls(t) \/ OwnerStep(t)
    \/ \E w \in Waiters : RequestStop(w) \/ StopStep(w) \/ Complete(w)
    \/ ReactorStep

Spec == Init /\ [][Next]_vars

(***************************************************************************)
(* The steps that have begun are finished: an owner returns from its call, *)
(* a stop callback runs to its end, the scheduler runs what is posted, the *)
(* reactor thread keeps calling run_task and the clock moves.  Nobody has  *)
(* to start a call or to request a stop.                                   *)
(***************************************************************************)
Fairness ==
    /\ WF_vars(Tick)
    /\ \A t \in Timers : WF_vars(OwnerStep(t))
    /\ \A w \in Waiters : WF_vars(StopStep(w)) /\ WF_vars(Complete(w))
    /\ WF_vars(ReactorStep)

FairSpec == Spec /\ Fairness

-----------------------------------------------------------------------------

OwnerPCs == {"idle", "update", "insert", "cancel", "cancel_one", "release",
             "post", "interrupt"}

TypeOK ==
    /\ now \in 0..MaxTime
    /\ H.heap \in Seq([time : Times, timer : Timers])
    /\ H.index \in [Timers -> 0..Cardinality(Timers)]
    /\ cached \in Times \union {Never}
    /\ timerfd \in Times \union {Never} \union 0..MaxTime
    /\ expiry \in [Timers -> Times]
    /\ flag \in [Timers -> BOOLEAN]
    /\ waiters \in [Timers -> Seq(Waiters)]
    /\ impl \in [Waiters -> Timers \union {None}]
    /\ ec \in [Waiters -> {"none", "ok", "canceled"}]
    /\ cb \in [Waiters -> BOOLEAN]
    /\ wstop \in [Waiters -> BOOLEAN]
    /\ wpc \in [Waiters -> {"running", "suspended"}]
    /\ posted \in [Waiters -> Nat]
    /\ work \in Int
    /\ opc \in [Timers -> OwnerPCs]
    /\ arg \in [Timers -> Waiters \union {None}]
    /\ out \in [Timers -> Seq(Waiters)]
    /\ notify \in [Timers -> BOOLEAN]
    /\ dying \in [Timers -> BOOLEAN]
    /\ spc \in [Waiters -> {"none", "callback", "post", "return"}]
    /\ rpc \in {"flush", "poll", "timers", "post"}
    /\ due \in Seq(Waiters)
    /\ tick \in BOOLEAN
    /\ stale \in BOOLEAN
    /\ eventfd \in BOOLEAN

Count(b) == IF b THEN 1 ELSE 0

(* How many are about to publish or to complete the waiter. *)
Holders(w) ==
    Cardinality({t \in Timers : w \in Elements(waiters[t])})
    + Cardinality({t \in Timers : arg[t] = w \/ w \in Elements(out[t])})
    + Count(spc[w] = "post")
    + Count(w \in Elements(due))
    + posted[w]

(***************************************************************************)
(* A wait is completed once: of the expiry, cancel, cancel_one, a new      *)
(* expiry, the stop callback and the re-check of insert_waiter exactly one *)
(* gets hold of a suspended waiter, and the node of a coroutine that has   *)
(* been resumed is referenced by none of them.                             *)
(***************************************************************************)
OneHolder ==
    \A w \in Waiters :
        IF wpc[w] = "suspended"
        THEN Holders(w) = 1
        ELSE Holders(w) = 0 /\ spc[w] = "none"

(***************************************************************************)
(* impl_ says what its comment says, "nullptr once removed from timer's    *)
(* waiter list", at every release of the mutex.                            *)
(***************************************************************************)
MarkExact ==
    \A w \in Waiters, t \in Timers :
        (impl[w] = t) <=> (w \in Elements(waiters[t]))

(***************************************************************************)
(* A wait counts as one unit of outstanding work until its coroutine is    *)
(* resumed, whichever way it ends.                                         *)
(***************************************************************************)
WorkBalanced ==
    work = Cardinality({w \in Waiters : wpc[w] = "suspended"})

(***************************************************************************)
(* A timer somebody waits on is in the heap, at the time last given to     *)
(* expires_at unless its owner is about to move it.                        *)
(***************************************************************************)
WaitersAreArmed ==
    \A t \in Timers :
        waiters[t] # << >> =>
            /\ InHeap(H, t)
            /\ Time(H, H.index[t]) = expiry[t] \/ opc[t] = "update"

(***************************************************************************)
(* Heap entries belong to their timers: no entry outlives the destruction  *)
(* and reuse of its timer::implementation.                                 *)
(***************************************************************************)
NoDanglingEntry ==
    \A i \in 1..Len(H.heap) : H.index[H.heap[i].timer] = i

(***************************************************************************)
(* The reactor never sleeps past the earliest expiry: while it is in       *)
(* epoll_wait, the timerfd is programmed no later than the front of the    *)
(* heap, or something is on its way to wake it.                            *)
(***************************************************************************)
NoMissedExpiry ==
    rpc = "poll" =>
        \/ H.heap = << >>
        \/ timerfd <= Time(H, 1) \/ timerfd <= now
        \/ eventfd
        \/ \E t \in Timers : opc[t] = "interrupt" \/ notify[t]

(***************************************************************************)
(* The comment in update_timer: "false implies no published waiters", the  *)
(* reason why cancel and expires_at may return without taking the lock.    *)
(***************************************************************************)
FlagCovers ==
    \A t \in Timers : waiters[t] # << >> => flag[t]

(***************************************************************************)
(* A wait succeeds only after its expiry: process_expired never completes  *)
(* a waiter of a timer whose expiry is still to come.                      *)
(***************************************************************************)
NeverEarly ==
    [][\A w \in Waiters :
           (w \in Elements(due') /\ w \notin Elements(due)) =>
               \/ expiry[TimerOf[w]] <= now
               \/ opc[TimerOf[w]] = "update"]_vars


(***************************************************************************)
(* Expiry, cancel(), expires_at(), destruction and the stop callback race  *)
(* for a waiter: one of them holds it at a time and nobody touches its     *)
(* node afterwards (OneHolder), impl_ tells truly whether it is published  *)
(* (MarkExact), and its unit of work is given back once (WorkBalanced).    *)
(***************************************************************************)
WaitLedger ==
    /\ TypeOK
    /\ OneHolder
    /\ MarkExact
    /\ WorkBalanced

(***************************************************************************)
(* With several timers in one heap, every published waiter's timer is in   *)
(* the heap at its expiry (WaitersAreArmed), no destroyed one is           *)
(* (NoDanglingEntry), and the reactor does not sleep past the earliest     *)
(* (NoMissedExpiry): update_timer, destroy and update_timerfd keep heap_,  *)
(* cached_nearest_ and the timerfd together.                               *)
(***************************************************************************)
TimersArmed ==
    /\ WaitersAreArmed
    /\ NoDanglingEntry
    /\ NoMissedExpiry
=============================================================================
