------------------------------- MODULE Demux -------------------------------
(***************************************************************************)
(* The demultiplexers of the select and the kqueue back end:               *)
(* select_scheduler::run_task and kqueue_scheduler::run_task, the          *)
(* registration of descriptors and the ways another thread gets the loop   *)
(* out of its system call.  One thread runs the loop; other threads open   *)
(* and close sockets, start operations, post handlers and set timers.      *)
(* The epoll demultiplexer is in ReactorScheduler, ReactorSocket and       *)
(* TimerService.                                                           *)
(*                                                                         *)
(* select() looks at the snapshot of registered_descs_ taken before the    *)
(* call, by number; kevent() keeps its own registrations and reports an    *)
(* edge once.  An interrupt_reactor() call is separate from the change it  *)
(* announces: `owed` counts the calls that are still to come.              *)
(***************************************************************************)
EXTENDS Integers, FiniteSets, FiniteSetsExt

CONSTANTS Socks,        \* socket objects, each with its descriptor state
          MaxFd,        \* descriptor numbers 1..MaxFd
          MaxMoves      \* what the environment and other threads do, in all

VARIABLES demux,        \* "select" or "kqueue"
          fdOf,         \* number of each socket's descriptor, 0 = closed
          kern,         \* directions in which the kernel would not block
          edges,        \* kqueue: edges not yet reported
          slot,         \* directions with a parked operation
          readyFlag,    \* read_ready, write_ready
          readyEvents,  \* ready_events_
          trying,       \* operations between the first try and demux_register_op
          local_ops,    \* descriptors this pass has enqueued
          runQueue,     \* descriptors in completed_ops_
          handlers,     \* handlers in completed_ops_
          nearest,      \* time to the nearest timer
          loop,         \* where the loop is
          snapshot,     \* what it watches: [sock, fd, dirs]
          until,        \* time left of the call's timeout
          fetched,          \* what the call returned
          interrupted,  \* task_interrupted_
          pipe,         \* wake-up descriptor readable, or user event triggered
          armed,        \* user_event_armed_
          owed,         \* interrupt_reactor calls to come
          trig,         \* kqueue: calls between the exchange and the trigger
          moves         \* how much of MaxMoves is used
demuxVars == <<demux, fdOf, kern, edges, slot, readyFlag, readyEvents, trying,
               local_ops, runQueue, handlers, nearest, loop, snapshot, until,
               fetched, interrupted, pipe, armed, owed, trig, moves>>
sockVars == <<fdOf, kern, edges, slot, readyFlag, readyEvents, trying>>
loopVars == <<local_ops, loop, snapshot, until, fetched>>
wakeVars == <<pipe, armed, trig>>

Dirs == {"read", "write"}
Never == 9
Longest == 2
Moves == moves < MaxMoves /\ moves' = moves + 1

DemuxInit ==
    /\ demux \in {"select", "kqueue"}
    /\ fdOf = [s \in Socks |-> 0]
    /\ kern = [s \in Socks |-> {}]
    /\ edges = kern /\ slot = kern /\ readyFlag = kern
    /\ readyEvents = kern
    /\ trying = {} /\ local_ops = {} /\ runQueue = {} /\ handlers = 0
    /\ nearest = Never /\ loop = "top" /\ snapshot = {} /\ until = Never
    /\ fetched = {} /\ interrupted = FALSE /\ pipe = FALSE /\ armed = FALSE
    /\ owed = 0 /\ trig = 0 /\ moves = 0

OpenSocks == {s \in Socks : fdOf[s] # 0}
Owner(n) == {s \in Socks : fdOf[s] = n}

-----------------------------------------------------------------------------
(* Waking the loop.                                                        *)

\* interrupt_reactor of select: a byte into the pipe.
select_interrupt == pipe' = TRUE /\ UNCHANGED <<armed, trig>>

\* interrupt_reactor of kqueue: the first of several triggers the event.
kqueue_interrupt ==
    IF armed THEN UNCHANGED wakeVars
             ELSE armed' = TRUE /\ trig' = trig + 1 /\ UNCHANGED pipe

interrupt_reactor ==
    /\ owed > 0 /\ owed' = owed - 1
    /\ IF demux = "select" THEN select_interrupt ELSE kqueue_interrupt
    /\ UNCHANGED <<demux, sockVars, loopVars, runQueue, handlers, nearest,
                   interrupted, moves>>

Trigger ==
    /\ trig > 0 /\ trig' = trig - 1 /\ pipe' = TRUE
    /\ UNCHANGED <<demux, sockVars, loopVars, runQueue, handlers, nearest,
                   interrupted, armed, owed, moves>>

\* post: wake_one_thread_and_unlock interrupts the running task once.
Posts(n) ==
    /\ handlers' = handlers + n
    /\ interrupted' = (interrupted \/ (n > 0 /\ loop # "top"))
    /\ owed' = owed + (IF n > 0 /\ loop # "top" /\ ~interrupted THEN 1 ELSE 0)

-----------------------------------------------------------------------------
(* Descriptors.                                                            *)

\* A socket's number is the lowest free one.  A new socket has room to write
\* or, while it connects, has not.
Registered(s) ==
    /\ readyEvents' = [readyEvents EXCEPT ![s] = {}]
    /\ readyFlag' = [readyFlag EXCEPT ![s] = {}]

\* Only select has to be told: it watches the snapshot.
AnnouncesDescriptor == IF demux = "select" THEN 1 ELSE 0

register_descriptor(s) ==
    /\ fdOf[s] = 0 /\ Moves
    /\ LET free == {n \in 1..MaxFd : Owner(n) = {}}
       IN  /\ free # {} /\ fdOf' = [fdOf EXCEPT ![s] = Min(free)]
    /\ Registered(s)
    /\ \E ds \in SUBSET {"write"} : /\ kern' = [kern EXCEPT ![s] = ds]
                                   /\ edges' = [edges EXCEPT ![s] = ds]
    /\ owed' = owed + AnnouncesDescriptor
    /\ UNCHANGED <<demux, slot, trying, loopVars, runQueue, handlers, nearest,
                   interrupted, wakeVars>>

\* do_close_socket: parked operations are taken out and posted, the
\* registration and the number go; ready_events_ and is_enqueued_ stay.
deregister_descriptor(s) ==
    /\ fdOf[s] # 0 /\ \A p \in trying : p[1] # s
    /\ fdOf' = [fdOf EXCEPT ![s] = 0]
    /\ kern' = [kern EXCEPT ![s] = {}] /\ edges' = [edges EXCEPT ![s] = {}]
    /\ slot' = [slot EXCEPT ![s] = {}]
    /\ readyFlag' = [readyFlag EXCEPT ![s] = {}]
    /\ Posts(Cardinality(slot[s]))
    /\ UNCHANGED <<demux, readyEvents, trying, loopVars, runQueue, nearest,
                   wakeVars, moves>>

\* The peer sends, or makes room: a new edge even if ready before.
Arrives(s, d) ==
    /\ fdOf[s] # 0 /\ Moves
    /\ kern' = [kern EXCEPT ![s] = @ \cup {d}]
    /\ edges' = [edges EXCEPT ![s] = @ \cup {d}]
    /\ UNCHANGED <<demux, fdOf, slot, readyFlag, readyEvents, trying, loopVars,
                   runQueue, handlers, nearest, interrupted, wakeVars, owed>>

\* perform_io: it succeeds where the kernel is ready, and may use that up.
Consumes(s, ds) ==
    \E left \in SUBSET (ds \cap kern[s]) :
        kern' = [kern EXCEPT ![s] = (@ \ ds) \cup left]

\* The first try of an operation, outside the descriptor's mutex.
StartOp(s, d) ==
    /\ fdOf[s] # 0 /\ <<s, d>> \notin trying /\ d \notin slot[s]
    /\ Moves
    /\ IF d \in kern[s] THEN Consumes(s, {d}) /\ UNCHANGED trying
                          ELSE trying' = trying \cup {<<s, d>>} /\ UNCHANGED kern
    /\ UNCHANGED <<demux, fdOf, edges, slot, readyFlag, readyEvents, loopVars,
                   runQueue, handlers, nearest, interrupted, wakeVars, owed>>

\* select has to rebuild its sets when an operation waits for room.
NotifiesReactor(d) == IF demux = "select" /\ d = "write" THEN 1 ELSE 0

\* demux_register_op: a cached edge is used for one more try under the mutex.
demux_register_op(s, d) ==
    /\ <<s, d>> \in trying /\ trying' = trying \ {<<s, d>>}
    /\ readyFlag' = [readyFlag EXCEPT ![s] = @ \ {d}]
    /\ IF d \in readyFlag[s] /\ d \in kern[s]
       THEN Consumes(s, {d}) /\ Posts(1) /\ UNCHANGED slot
       ELSE /\ slot' = [slot EXCEPT ![s] = @ \cup {d}]
            /\ owed' = owed + NotifiesReactor(d)
            /\ UNCHANGED <<kern, handlers, interrupted>>
    /\ UNCHANGED <<demux, fdOf, edges, readyEvents, loopVars, runQueue, nearest,
                   wakeVars, moves>>

-----------------------------------------------------------------------------
(* Handlers and timers of other threads.                                   *)

Enqueue ==
    /\ Moves /\ Posts(1)
    /\ UNCHANGED <<demux, sockVars, loopVars, runQueue, nearest, wakeVars>>

\* The timer service's on_earliest_changed callback.
AnnouncesTimer == 1

SetTimer(t) ==
    /\ t < nearest /\ Moves /\ nearest' = t
    /\ owed' = owed + AnnouncesTimer
    /\ UNCHANGED <<demux, sockVars, loopVars, runQueue, handlers, interrupted,
                   wakeVars>>

Later(t) == IF t \in 1..Longest THEN t - 1 ELSE t
Tick ==
    /\ nearest \in 1..Longest \/ until \in 1..Longest
    /\ nearest' = Later(nearest) /\ until' = Later(until)
    /\ UNCHANGED <<demux, sockVars, local_ops, loop, snapshot, fetched, runQueue,
                   handlers, interrupted, wakeVars, owed, moves>>

-----------------------------------------------------------------------------
(* The loop.                                                               *)

\* do_one pops a handler, or a descriptor's invoke_deferred_io.
RunHandler ==
    /\ loop = "top" /\ handlers > 0 /\ handlers' = handlers - 1
    /\ UNCHANGED <<demux, sockVars, loopVars, runQueue, nearest, interrupted,
                   wakeVars, owed, moves>>

invoke_deferred_io(s) ==
    /\ loop = "top" /\ s \in runQueue /\ runQueue' = runQueue \ {s}
    /\ readyEvents' = [readyEvents EXCEPT ![s] = {}]
    /\ LET ev == readyEvents[s]
           done == {d \in ev \cap slot[s] : d \in kern[s]}
       IN  /\ slot' = [slot EXCEPT ![s] = @ \ done]
           /\ Consumes(s, done)
           /\ readyFlag' = [readyFlag EXCEPT ![s] = @ \cup (ev \ slot[s])]
    /\ UNCHANGED <<demux, fdOf, edges, trying, loopVars, handlers, nearest,
                   interrupted, wakeVars, owed, moves>>

\* calculate_timeout of select and of kqueue, in steps of the clock.
select_calculate_timeout(requested) ==
    IF requested = 0 THEN 0
    ELSE IF nearest = Never THEN (IF requested < 0 THEN Never ELSE requested)
    ELSE IF requested < 0 THEN nearest ELSE Min({requested, nearest})
kqueue_calculate_timeout(requested) == select_calculate_timeout(requested)

\* The snapshot of select: every descriptor for reading, and for writing the
\* ones with an operation that waits for it.
NeedsWrite(s) == IF "write" \in slot[s] THEN {"write"} ELSE {}
Snapshot == {[sock |-> s, fd |-> fdOf[s], dirs |-> {"read"} \cup NeedsWrite(s)] : s \in OpenSocks}

\* do_one reaches the sentinel and calls run_task, which lets the lock go.
Enters(requested) ==
    /\ loop = "top"
    /\ interrupted' = (handlers > 0 \/ runQueue # {} \/ requested = 0)
    /\ UNCHANGED <<demux, sockVars, local_ops, fetched, runQueue, handlers, nearest,
                   wakeVars, owed, moves>>

Asked(requested) == IF handlers > 0 \/ runQueue # {} THEN 0 ELSE requested

select_run_task(requested) ==
    /\ demux = "select" /\ Enters(requested) /\ loop' = "snapped"
    /\ snapshot' = Snapshot
    /\ until' = select_calculate_timeout(Asked(requested))

kqueue_run_task(requested) ==
    /\ demux = "kqueue" /\ Enters(requested) /\ loop' = "polling"
    /\ until' = kqueue_calculate_timeout(Asked(requested))
    /\ UNCHANGED snapshot

\* The call starts: a number that is no longer open is an error.
SelectStarts ==
    /\ loop = "snapped"
    /\ loop' = IF \E e \in snapshot : Owner(e.fd) = {} THEN "unlocked" ELSE "polling"
    /\ UNCHANGED <<demux, sockVars, local_ops, snapshot, until, fetched, runQueue,
                   handlers, nearest, interrupted, wakeVars, owed, moves>>

\* A signal handler ran in the loop's thread: select's run_task returns
\* without the lock, kqueue's goes on with no events.
Signal ==
    /\ loop = "polling" /\ Moves
    /\ loop' = IF demux = "select" THEN "unlocked" ELSE "events"
    /\ snapshot' = {} /\ until' = Never
    /\ UNCHANGED <<demux, sockVars, local_ops, fetched, runQueue, handlers, nearest,
                   interrupted, wakeVars, owed>>

\* What the call would return now.  select goes by number, and a number
\* that was closed while it waits may look ready or not.
SelectReady ==
    UNION {{<<e.sock, d>> : d \in e.dirs \cap kern[s]} :
               <<e, s>> \in {p \in snapshot \X Socks : fdOf[p[2]] = p[1].fd}}
KqueueReady == UNION {{<<s, d>> : d \in edges[s]} : s \in OpenSocks}
Returned == IF demux = "select" THEN SelectReady ELSE KqueueReady

PollReturns ==
    /\ loop = "polling" /\ (Returned # {} \/ pipe \/ until = 0)
    /\ fetched' = Returned \cup {x \in {<<"wake", "read">>} : pipe}
    /\ edges' = IF demux = "select" THEN edges ELSE [s \in Socks |-> {}]
    /\ pipe' = (pipe /\ demux = "select")
    /\ loop' = IF demux = "select" THEN "timers" ELSE "events"
    /\ snapshot' = {} /\ until' = Never
    /\ UNCHANGED <<demux, fdOf, kern, slot, readyFlag, readyEvents, trying,
                   local_ops, runQueue, handlers, nearest,
                   interrupted, armed, owed, trig, moves>>

\* process_expired: select runs it before the events, kqueue after them.
ProcessExpired ==
    /\ loop = "timers"
    /\ nearest' = IF nearest = 0 THEN Never ELSE nearest
    /\ loop' = IF demux = "select" THEN "events" ELSE "relock"
    /\ UNCHANGED <<demux, sockVars, local_ops, snapshot, until, fetched, runQueue,
                   handlers, interrupted, wakeVars, owed, moves>>

\* The wake-up event: select empties the pipe, kqueue disarms.
ConsumesWake ==
    /\ loop = "events" /\ <<"wake", "read">> \in fetched
    /\ fetched' = fetched \ {<<"wake", "read">>}
    /\ IF demux = "select" THEN pipe' = FALSE /\ UNCHANGED armed
                           ELSE armed' = FALSE /\ UNCHANGED pipe
    /\ UNCHANGED <<demux, sockVars, local_ops, loop, snapshot, until, runQueue,
                   handlers, nearest, interrupted, owed, trig, moves>>

IsEnqueued(s) == s \in local_ops \cup runQueue

\* The events of one descriptor: add_ready_events, then the exchange of
\* is_enqueued_.
add_ready_events(s) ==
    LET ds == {d \in Dirs : <<s, d>> \in fetched}
    IN  /\ loop = "events" /\ <<"wake", "read">> \notin fetched /\ ds # {}
        /\ fetched' = fetched \ {<<s, d>> : d \in ds}
        /\ readyEvents' = [readyEvents EXCEPT ![s] = @ \cup ds]
        /\ local_ops' = IF IsEnqueued(s) THEN local_ops ELSE local_ops \cup {s}
        /\ UNCHANGED <<demux, fdOf, kern, edges, slot, readyFlag, trying, loop,
                       snapshot, until, runQueue, handlers, nearest, interrupted,
                       wakeVars, owed, moves>>

EventsDone ==
    /\ loop = "events" /\ fetched = {}
    /\ loop' = IF demux = "select" THEN "relock" ELSE "timers"
    /\ UNCHANGED <<demux, sockVars, local_ops, snapshot, until, fetched, runQueue,
                   handlers, nearest, interrupted, wakeVars, owed, moves>>

\* The lock again; the pass's descriptors join the queue.
Relock ==
    /\ loop = "relock" /\ loop' = "top"
    /\ runQueue' = runQueue \cup local_ops /\ local_ops' = {}
    /\ interrupted' = FALSE
    /\ UNCHANGED <<demux, sockVars, snapshot, until, fetched, handlers, nearest, wakeVars,
                   owed, moves>>

DemuxNext ==
    \/ interrupt_reactor \/ Trigger \/ Enqueue \/ Tick \/ RunHandler
    \/ \E t \in 0..Longest : SetTimer(t)
    \/ \E s \in Socks : \/ register_descriptor(s) \/ deregister_descriptor(s)
                        \/ invoke_deferred_io(s) \/ add_ready_events(s)
                        \/ \E d \in Dirs : \/ Arrives(s, d) \/ StartOp(s, d)
                                           \/ demux_register_op(s, d)
    \/ \E r \in {-1, 1} : select_run_task(r) \/ kqueue_run_task(r)
    \/ SelectStarts \/ Signal \/ PollReturns \/ ProcessExpired
    \/ ConsumesWake \/ EventsDone \/ Relock

\* Once the loop runs without the lock its steps are unsynchronised.
DemuxStep == loop # "unlocked" /\ DemuxNext

DemuxSpec == DemuxInit /\ [][DemuxStep]_demuxVars

-----------------------------------------------------------------------------
(* Properties.                                                             *)

Asleep == loop = "polling" /\ Returned = {} /\ ~pipe /\ until # 0
          /\ owed = 0 /\ trig = 0


\* run_task gives the lock back to do_one, also when a signal interrupts
\* select() or a descriptor of its snapshot is closed
\* (select_scheduler.hpp:385 "EINTR: signal interrupted select(), just retry").
LockHeldAfterPoll == loop # "unlocked"
=============================================================================
