---------------------------- MODULE ReactorSocket ----------------------------
(***************************************************************************)
(* One stream socket of a reactor backend: the life of its operations from *)
(* initiation to resumption, its descriptor state, and its registration    *)
(* with epoll (reactor_basic_socket.hpp, reactor_stream_socket.hpp,        *)
(* reactor_descriptor_state.hpp, reactor_op_complete.hpp,                  *)
(* epoll_scheduler.hpp).                                                   *)
(*                                                                         *)
(* Actors: the socket's user (calls on one socket are serialised, see the  *)
(* "Shared objects: Unsafe" contract of tcp_socket.hpp), the thread that   *)
(* polls epoll, the threads that run the descriptor's handler and the      *)
(* completed operations, the thread on which a stop token fires, and the   *)
(* kernel.  The scheduler's queues are the counters queued and desc_queue; *)
(* ReactorScheduler is the model of what happens in them.                  *)
(***************************************************************************)
EXTENDS Integers, FiniteSets

CONSTANTS
    Kinds,   \* the operations the instance uses
    Stops,   \* those started with a token that may stop
    Calls,   \* the other calls its user makes
    Peer     \* what the peer does once connected

OpKinds == {"connect", "read", "write", "wait_read", "wait_write", "wait_error"}

Closers == {"close", "open", "assign", "destroy"}

ASSUME InstanceOK ==
    /\ Kinds \subseteq OpKinds /\ Stops \subseteq Kinds
    /\ Calls \subseteq {"cancel"} \cup Closers
    /\ Peer \subseteq {"send", "drain", "reset"}

VARIABLES
    coro,           \* the coroutine that awaits each operation
    stop_cb,        \* the operation's stop callback, and how far it has run
    cancelled,      \* coro_op::cancelled
    errn,           \* reactor_op_base::errn, zero or not
    impl_ptr,       \* the operation holds its keepalive
    slot,           \* descriptor slot of this kind holds the operation
    cancel_pending, \* <kind>_cancel_pending
    queued,         \* times the operation is in the scheduler's queues
    read_ready, write_ready,
    sock_events,   \* ready_events_
    is_enqueued,    \* is_enqueued_
    impl_ref,       \* impl_ref_ holds the socket
    desc_queue,     \* times the descriptor is in the scheduler's queues
    opWork,         \* outstanding_work_ held by this socket's operations
    user,           \* where the user's current call is
    call,           \* which call it is
    claimed,        \* operations it has claimed and not posted yet
    in_map,         \* impl_ptrs_ of the service holds the socket
    is_open,        \* fd_ >= 0
    registered,     \* the descriptor is in the epoll set
    handler,        \* thread in invoke_deferred_io, holding the mutex
    reactor,        \* thread in run_task
    fetched,        \* event of this descriptor in event_buffer_
    edge,           \* the descriptor is on epoll's ready list
    conn, data, room, sockerr  \* the kernel's socket

opVars   == <<coro, stop_cb, cancelled, errn, impl_ptr, slot,
              cancel_pending, queued>>
descVars == <<read_ready, write_ready, sock_events, is_enqueued, impl_ref,
              desc_queue>>
userVars == <<user, call, claimed, in_map, is_open>>
kernVars == <<registered, edge, conn, data, room, sockerr>>
pollVars == <<handler, reactor, fetched>>
sockVars == <<opVars, descVars, userVars, kernVars, pollVars, opWork>>

Events == {"r", "w", "e"}
Claimers == {"claim", "post", "finish"}   \* a stop callback in progress

OpTypes ==
    /\ coro \in [Kinds -> {"idle", "initiating", "suspended", "completing"}]
    /\ stop_cb \in [Kinds -> {"none", "armed", "fired"} \cup Claimers]

OpFlagTypes ==
    /\ cancelled \in [Kinds -> BOOLEAN]
    /\ errn \in [Kinds -> BOOLEAN] /\ impl_ptr \in [Kinds -> BOOLEAN]

SlotTypes == slot \in [Kinds -> BOOLEAN] /\ cancel_pending \in [Kinds -> BOOLEAN]

QueueTypes == queued \in [Kinds -> Nat] /\ desc_queue \in Nat /\ opWork \in Nat

DescTypes ==
    /\ {read_ready, write_ready, is_enqueued, impl_ref} \subseteq BOOLEAN
    /\ sock_events \subseteq Events /\ fetched \subseteq Events
    /\ handler \in {"idle", "locked"} /\ reactor \in {"idle", "added"}

CallTypes ==
    /\ user \in {"idle", "register", "claim", "repost", "finish",
                 "erase", "init", "add", "clear", "reset", "gone"}
    /\ call \in {"none", "cancel"} \cup Closers
    /\ claimed \subseteq Kinds

FileTypes ==
    /\ conn \in {"fresh", "progress", "up", "down"}
    /\ {in_map, is_open, registered, edge, data, room, sockerr}
          \subseteq BOOLEAN

SockTypeOK == OpTypes /\ OpFlagTypes /\ SlotTypes /\ QueueTypes /\ DescTypes
              /\ CallTypes /\ FileTypes

All(v) == [k \in Kinds |-> v]

\* A socket just made by reactor_socket_service::construct.
SockInit ==
    /\ coro = All("idle") /\ stop_cb = All("none")
    /\ cancelled = All(FALSE) /\ errn = All(FALSE)
    /\ impl_ptr = All(FALSE) /\ slot = All(FALSE)
    /\ cancel_pending = All(FALSE) /\ queued = All(0)
    /\ read_ready = FALSE /\ write_ready = FALSE /\ sock_events = {}
    /\ is_enqueued = FALSE /\ impl_ref = FALSE /\ desc_queue = 0
    /\ opWork = 0
    /\ user = "idle" /\ call = "none" /\ claimed = {}
    /\ in_map = TRUE /\ is_open = FALSE
    /\ handler = "idle" /\ reactor = "idle" /\ fetched = {}
    /\ registered = FALSE /\ edge = FALSE
    /\ conn = "fresh" /\ data = FALSE /\ room = FALSE /\ sockerr = FALSE

\* desc_state_.mutex is free: every other section under it is one step.
MutexFree == handler = "idle"

\* The socket outlives this state: someone owns a reference to it.
Alive == in_map \/ impl_ref \/ \E k \in Kinds : impl_ptr[k]

-----------------------------------------------------------------------------
(* The kernel's socket, as the code's system calls see it (external).      *)

\* What epoll_wait reports for the descriptor.  A stream socket that was
\* never connected polls writable (with a hang-up); one that is connecting
\* polls nothing.
Mask == {e \in Events :
           \/ e = "r" /\ (data \/ conn = "down")
           \/ e = "w" /\ (conn \in {"fresh", "down"} \/ (conn = "up" /\ room))
           \/ e = "e" /\ sockerr}

\* recv and send would not return EAGAIN.
ReadDone  == data \/ conn \in {"fresh", "down"}
WriteDone == (conn = "up" /\ room) \/ conn \in {"fresh", "down"}

\* What an attempt of operation k gives: it is over (not EAGAIN), with an
\* error or without.  A connect in progress is over whatever SO_ERROR says.
PerformDone(k) ==
    CASE k = "read"  -> ReadDone
      [] k = "write" -> WriteDone
      [] OTHER       -> TRUE
PerformFails(k) ==
    CASE k \in {"read", "write"} -> conn # "up"
      [] k = "connect"           -> sockerr
      [] OTHER                   -> FALSE

\* A connection attempt ends.
KernelConnect ==
    /\ is_open /\ conn = "progress"
    /\ \/ conn' = "up" /\ room' = TRUE /\ UNCHANGED sockerr
       \/ conn' = "down" /\ sockerr' = TRUE /\ UNCHANGED room
    /\ edge' = registered
    /\ UNCHANGED <<opVars, descVars, userVars, pollVars, opWork, registered,
                   data>>

\* Bytes or an end of stream arrive, or the peer drains the send buffer.
SockReady ==
    /\ is_open /\ conn = "up"
    /\ \/ "send" \in Peer /\ data' = TRUE /\ UNCHANGED room
       \/ "drain" \in Peer /\ ~room /\ room' = TRUE /\ UNCHANGED data
    /\ edge' = registered
    /\ UNCHANGED <<opVars, descVars, userVars, pollVars, opWork, registered,
                   conn, sockerr>>

\* The peer resets the connection.
KernelReset ==
    /\ "reset" \in Peer /\ is_open /\ conn = "up"
    /\ conn' = "down" /\ sockerr' = TRUE /\ edge' = registered
    /\ UNCHANGED <<opVars, descVars, userVars, pollVars, opWork, registered,
                   data, room>>

\* The effect of the system calls of the operations in D: a successful
\* transfer may leave the buffer ready or not.
Transfer(D) ==
    /\ data' \in IF "read" \in D /\ data THEN BOOLEAN ELSE {data}
    /\ room' \in IF "write" \in D /\ conn = "up" THEN BOOLEAN ELSE {room}

-----------------------------------------------------------------------------
(* Initiation: do_connect, do_read_some, do_write_some, do_wait.           *)

CanCall == user = "idle" /\ in_map
OpIdle(k) == coro[k] = "idle"

\* The speculative system call ended the operation; wait_write never parks.
Speculated(k) ==
    k \in {"read", "write", "wait_write"} /\ PerformDone(k)

\* It is done and the inline budget is not used up: dispatch_coro resumes the
\* coroutine from the call, and the operation object is not used.
DoInline(k) ==
    /\ CanCall /\ is_open /\ OpIdle(k) /\ Speculated(k)
    /\ Transfer({k})
    /\ UNCHANGED <<opVars, descVars, userVars, pollVars, opWork, registered,
                   edge, conn, sockerr>>

\* reset(), start(token): a callback is armed if the token can stop.  A token
\* already stopped runs cancel_single_op from the constructor of the callback;
\* the slot is empty, so it leaves the pending flag.
Start(k, stopped) ==
    /\ stopped => k \in Stops
    /\ cancelled' = [cancelled EXCEPT ![k] = stopped]
    /\ stop_cb' = [stop_cb EXCEPT ![k] = IF stopped THEN "fired"
                                         ELSE IF k \in Stops THEN "armed"
                                         ELSE "none"]
    /\ cancel_pending' = [cancel_pending EXCEPT ![k] = @ \/ stopped]
    /\ impl_ptr' = [impl_ptr EXCEPT ![k] = TRUE]

\* scheduler post of an operation: one unit of work, one queue entry.
PostOp(k) ==
    /\ queued' = [queued EXCEPT ![k] = @ + 1]
    /\ opWork' = opWork + 1

\* It is done and the budget is used up: start, complete(err, n), post.
DoPost(k, stopped) ==
    /\ CanCall /\ is_open /\ OpIdle(k) /\ Speculated(k) /\ MutexFree
    /\ Start(k, stopped) /\ PostOp(k) /\ Transfer({k})
    /\ errn' = [errn EXCEPT ![k] = PerformFails(k)]
    /\ coro' = [coro EXCEPT ![k] = "suspended"]
    /\ UNCHANGED <<descVars, userVars, pollVars, slot, registered, edge, conn,
                   sockerr>>

\* EAGAIN, or a wait: start, then register_op.
DoPark(k, stopped) ==
    /\ CanCall /\ is_open /\ OpIdle(k) /\ MutexFree
    /\ k # "connect" /\ ~Speculated(k)
    /\ Start(k, stopped)
    /\ errn' = [errn EXCEPT ![k] = FALSE]
    /\ coro' = [coro EXCEPT ![k] = "initiating"]
    /\ user' = "register"
    /\ UNCHANGED <<descVars, kernVars, pollVars, opWork, slot, queued, call,
                   claimed, in_map, is_open>>

\* ::connect on a fresh socket connects at once, fails at once, or is in
\* progress; on any other socket it fails.
ConnectAtOnce ==
    \/ conn = "fresh" /\ conn' = "up" /\ room' = TRUE /\ edge' = registered
    \/ UNCHANGED <<conn, room, edge>>

DoConnectInline ==
    /\ "connect" \in Kinds /\ CanCall /\ is_open /\ OpIdle("connect")
    /\ ConnectAtOnce
    /\ UNCHANGED <<opVars, descVars, userVars, pollVars, opWork, registered,
                   data, sockerr>>

DoConnectPost(stopped) ==
    /\ "connect" \in Kinds /\ CanCall /\ is_open /\ OpIdle("connect")
    /\ MutexFree
    /\ ConnectAtOnce
    /\ errn' = [errn EXCEPT !["connect"] = (conn' = conn)]
    /\ Start("connect", stopped) /\ PostOp("connect")
    /\ coro' = [coro EXCEPT !["connect"] = "suspended"]
    /\ UNCHANGED <<descVars, userVars, pollVars, slot, registered, data,
                   sockerr>>

DoConnectPark(stopped) ==
    /\ "connect" \in Kinds /\ CanCall /\ is_open /\ OpIdle("connect")
    /\ MutexFree /\ conn = "fresh"
    /\ conn' = "progress"
    /\ Start("connect", stopped)
    /\ errn' = [errn EXCEPT !["connect"] = FALSE]
    /\ coro' = [coro EXCEPT !["connect"] = "initiating"]
    /\ user' = "register"
    /\ UNCHANGED <<descVars, pollVars, opWork, slot, queued, call, claimed,
                   in_map, is_open, registered, edge, data, room, sockerr>>

\* Mutant: the cached edge is ignored.
MutNoCachedEdge(k) == FALSE

\* The cached edge that register_op is given for operation k.
ReadyFlag(k) ==
    CASE k \in {"read", "wait_read"} -> read_ready
      [] k \in {"write", "connect"}  -> write_ready
      [] OTHER                       -> FALSE

\* The operation was told to stop before it could be parked.
StopSeen(k) == cancelled[k] \/ cancel_pending[k]

WorkStarted == opWork + 1

\* register_op.  The ready flag is a cached edge: it is consumed by one more
\* attempt.  A pending cancellation is consumed too.
RegisterOp(k) ==
    LET ready == ReadyFlag(k)
        done  == ready /\ PerformDone(k)
        stop  == StopSeen(k)
    IN  /\ user = "register" /\ coro[k] = "initiating" /\ MutexFree
        /\ read_ready' = (read_ready /\ k \notin {"read", "wait_read"})
        /\ write_ready' = (write_ready /\ k \notin {"write", "connect"})
        /\ cancel_pending' = [cancel_pending EXCEPT ![k] = FALSE]
        /\ cancelled' = [cancelled EXCEPT ![k] = @ \/ cancel_pending[k]]
        /\ errn' = [errn EXCEPT ![k] = done /\ PerformFails(k)]
        /\ sockerr' = (sockerr /\ ~(ready /\ k = "connect"))
        /\ Transfer(IF done THEN {k} ELSE {})
        /\ opWork' = WorkStarted
        /\ IF done \/ stop
           THEN queued' = [queued EXCEPT ![k] = @ + 1] /\ UNCHANGED slot
           ELSE slot' = [slot EXCEPT ![k] = TRUE] /\ UNCHANGED queued
        /\ coro' = [coro EXCEPT ![k] = "suspended"]
        /\ user' = "idle"
        /\ UNCHANGED <<stop_cb, impl_ptr, sock_events, is_enqueued,
                       impl_ref, desc_queue, call, claimed, in_map, is_open,
                       pollVars, registered, edge, conn>>

-----------------------------------------------------------------------------
(* The stop callback of an operation: cancel_single_op.                    *)

\* The token fires on some thread: request_cancel.
StopRequested(k) ==
    /\ stop_cb[k] = "armed"
    /\ stop_cb' = [stop_cb EXCEPT ![k] = "claim"]
    /\ cancelled' = [cancelled EXCEPT ![k] = TRUE]
    /\ UNCHANGED <<descVars, userVars, kernVars, pollVars, opWork, coro, errn,
                   impl_ptr, slot, cancel_pending, queued>>

\* Mutant: the claim leaves the operation in its slot.
MutClaimNotExchanged(k) ==
    /\ stop_cb[k] = "claim" /\ MutexFree
    /\ stop_cb' = [stop_cb EXCEPT ![k] = IF slot[k] THEN "post" ELSE "fired"]
    /\ cancel_pending' = [cancel_pending EXCEPT ![k] = @ \/ ~slot[k]]
    /\ UNCHANGED <<descVars, userVars, kernVars, pollVars, opWork, coro,
                   cancelled, errn, impl_ptr, slot, queued>>

\* Under the mutex: claim the operation from its slot, or leave the flag.
CancelClaim(k) ==
    /\ stop_cb[k] = "claim" /\ MutexFree
    /\ IF slot[k]
       THEN /\ slot' = [slot EXCEPT ![k] = FALSE]
            /\ stop_cb' = [stop_cb EXCEPT ![k] = "post"]
            /\ UNCHANGED cancel_pending
       ELSE /\ cancel_pending' = [cancel_pending EXCEPT ![k] = TRUE]
            /\ stop_cb' = [stop_cb EXCEPT ![k] = "fired"]
            /\ UNCHANGED slot
    /\ UNCHANGED <<descVars, userVars, kernVars, pollVars, opWork, coro,
                   cancelled, errn, impl_ptr, queued>>

CancelPost(k) ==
    /\ stop_cb[k] = "post"
    /\ impl_ptr' = [impl_ptr EXCEPT ![k] = TRUE]
    /\ PostOp(k)
    /\ stop_cb' = [stop_cb EXCEPT ![k] = "finish"]
    /\ UNCHANGED <<descVars, userVars, kernVars, pollVars, coro, cancelled,
                   errn, slot, cancel_pending>>

FinishCancel(k) ==
    /\ stop_cb[k] = "finish"
    /\ opWork' = opWork - 1
    /\ stop_cb' = [stop_cb EXCEPT ![k] = "fired"]
    /\ UNCHANGED <<descVars, userVars, kernVars, pollVars, coro, cancelled,
                   errn, impl_ptr, slot, cancel_pending, queued>>

-----------------------------------------------------------------------------
(* Completion.                                                             *)

\* A thread of the scheduler takes the operation from the queue.
Dispatch(k) ==
    /\ queued[k] > 0 /\ coro[k] = "suspended"
    /\ queued' = [queued EXCEPT ![k] = @ - 1]
    /\ coro' = [coro EXCEPT ![k] = "completing"]
    /\ UNCHANGED <<descVars, userVars, kernVars, pollVars, opWork, stop_cb,
                   cancelled, errn, impl_ptr, slot, cancel_pending>>

\* Mutant: stop_cb.reset() waits also for a callback that has returned.
MutResetWaitsForever(k) ==
    /\ coro[k] = "completing" /\ stop_cb[k] \in {"none", "armed"}
    /\ stop_cb' = [stop_cb EXCEPT ![k] = "none"]
    /\ impl_ptr' = [impl_ptr EXCEPT ![k] = FALSE]
    /\ coro' = [coro EXCEPT ![k] = "idle"]
    /\ cancelled' = [cancelled EXCEPT ![k] = FALSE]
    /\ errn' = [errn EXCEPT ![k] = FALSE]
    /\ opWork' = opWork - 1
    /\ UNCHANGED <<descVars, userVars, kernVars, pollVars, slot,
                   cancel_pending, queued>>

\* complete_io_op, complete_wait_op, complete_connect_op: stop_cb.reset()
\* waits for a callback that is running; then the result is decoded, the
\* coroutine is resumed on the thread's own context and the keepalive is
\* dropped.  The scheduler's work_cleanup takes the handler's unit of work.
CompleteOp(k) ==
    /\ coro[k] = "completing" /\ stop_cb[k] \notin Claimers
    /\ stop_cb' = [stop_cb EXCEPT ![k] = "none"]
    /\ impl_ptr' = [impl_ptr EXCEPT ![k] = FALSE]
    /\ coro' = [coro EXCEPT ![k] = "idle"]
    /\ cancelled' = [cancelled EXCEPT ![k] = FALSE]
    /\ errn' = [errn EXCEPT ![k] = FALSE]
    /\ opWork' = opWork - 1
    /\ UNCHANGED <<descVars, userVars, kernVars, pollVars, slot,
                   cancel_pending, queued>>

-----------------------------------------------------------------------------
(* The reactor: run_task of epoll_scheduler, and the descriptor's handler. *)

\* epoll_wait returns the descriptor's event in event_buffer_.
EpollWait ==
    /\ reactor = "idle" /\ fetched = {} /\ edge
    /\ edge' = FALSE
    /\ fetched' = Mask
    /\ UNCHANGED <<opVars, descVars, userVars, opWork, handler, reactor,
                   registered, conn, data, room, sockerr>>

\* add_ready_events, a lock-free fetch_or.
AddReadyEvents ==
    /\ reactor = "idle" /\ fetched # {} /\ Alive
    /\ sock_events' = sock_events \cup fetched
    /\ reactor' = "added"
    /\ UNCHANGED <<opVars, userVars, kernVars, opWork, read_ready, write_ready,
                   is_enqueued, impl_ref, desc_queue, handler, fetched>>

\* compare_exchange on is_enqueued_; the winner queues the descriptor.
EnqueueDescriptor ==
    /\ reactor = "added" /\ Alive
    /\ is_enqueued' = TRUE
    /\ desc_queue' = desc_queue + (IF is_enqueued THEN 0 ELSE 1)
    /\ reactor' = "idle" /\ fetched' = {}
    /\ UNCHANGED <<opVars, userVars, kernVars, opWork, read_ready, write_ready,
                   sock_events, impl_ref, handler>>

\* The storage of the socket is gone: what the thread would read or write
\* there is not modelled.
DropEvent ==
    /\ fetched # {} /\ ~Alive
    /\ reactor' = "idle" /\ fetched' = {}
    /\ UNCHANGED <<opVars, descVars, userVars, kernVars, opWork, handler>>

\* invoke_deferred_io, first half of the locked section: take over impl_ref_
\* and clear is_enqueued_.
HandlerLock ==
    /\ desc_queue > 0 /\ MutexFree /\ Alive
    /\ handler' = "locked"
    /\ desc_queue' = desc_queue - 1
    /\ impl_ref' = FALSE
    /\ is_enqueued' = FALSE
    /\ UNCHANGED <<opVars, userVars, kernVars, opWork, read_ready, write_ready,
                   sock_events, reactor, fetched>>

\* The parked operations that the events ev end.
Ended(ev) ==
    {k \in Kinds : slot[k] /\
        \/ "e" \in ev
        \/ "r" \in ev /\ k \in {"read", "wait_read"} /\ PerformDone(k)
        \/ "w" \in ev /\ k \in {"write", "connect", "wait_write"}
                      /\ PerformDone(k)}

ParkedOp(S) == \E k \in S \cap Kinds : slot[k]

\* invoke_deferred_io, second half: exchange ready_events_, run the parked
\* operations, cache the edges nobody waits for.  The first operation that
\* ended runs in this thread (its unit of work is the one work_cleanup
\* takes), the others go to the scheduler's queue; with none,
\* compensating_work_started balances work_cleanup.
HandlerPerform ==
    LET ev    == sock_events
        ended == Ended(ev)
    IN  /\ handler = "locked"
        /\ handler' = "idle"
        /\ sock_events' = {}
        /\ slot' = [k \in Kinds |-> slot[k] /\ k \notin ended]
        /\ errn' = [k \in Kinds |-> IF k \in ended
                                    THEN "e" \in ev \/ PerformFails(k)
                                    ELSE errn[k]]
        /\ read_ready' = (read_ready \/ ("r" \in ev /\ ~ParkedOp({"read"})))
        /\ write_ready' = (write_ready
                             \/ ("w" \in ev /\ ~ParkedOp({"write", "connect"})))
        /\ sockerr' = (sockerr /\ "e" \notin ev /\ "connect" \notin ended)
        /\ IF "e" \in ev THEN UNCHANGED <<data, room>> ELSE Transfer(ended)
        /\ \E first \in ended \cup {"none"} :
             /\ (first = "none") = (ended = {})
             /\ coro' = [k \in Kinds |-> IF k = first THEN "completing"
                                         ELSE coro[k]]
             /\ queued' = [k \in Kinds |-> queued[k] +
                             IF k \in ended \ {first} THEN 1 ELSE 0]
        /\ UNCHANGED <<userVars, opWork, stop_cb, cancelled, impl_ptr,
                       cancel_pending, is_enqueued, impl_ref, desc_queue,
                       reactor, fetched, registered, edge, conn>>

-----------------------------------------------------------------------------
(* cancel(), close(), release(), open(), assign() and destroy.             *)

\* do_cancel and do_close_socket: request_cancel on every operation.
CallBegin(c) ==
    /\ CanCall
    /\ user' = "claim" /\ call' = c
    /\ cancelled' = [k \in Kinds |-> ~OpIdle(k)]
    /\ UNCHANGED <<descVars, kernVars, pollVars, opWork, coro, stop_cb, errn,
                   impl_ptr, slot, cancel_pending, queued, claimed, in_map,
                   is_open>>

\* Mutant: the operations leave their slots and are not remembered.
MutParkedOpsLost == {}

\* The operations that do_cancel and do_close_socket claim.
ParkedOps == {k \in Kinds : slot[k]}

\* Under the mutex: claim every parked operation.  Closing also clears the
\* cached edges and pending cancellations, and if the descriptor is queued
\* lets it keep the socket.
CallClaim ==
    LET closing == call \in Closers
    IN  /\ user = "claim" /\ MutexFree
        /\ claimed' = ParkedOps
        /\ slot' = All(FALSE)
        /\ read_ready' = (read_ready /\ ~closing)
        /\ write_ready' = (write_ready /\ ~closing)
        /\ cancel_pending' = [k \in Kinds |-> cancel_pending[k] /\ ~closing]
        /\ impl_ref' = (impl_ref \/ (closing /\ is_enqueued))
        /\ user' = "repost"
        /\ UNCHANGED <<coro, stop_cb, cancelled, errn, impl_ptr,
                       queued, sock_events, is_enqueued, desc_queue,
                       kernVars, pollVars, opWork, call, in_map, is_open>>

CallRepost(k) ==
    /\ user = "repost" /\ k \in claimed
    /\ claimed' = claimed \ {k}
    /\ impl_ptr' = [impl_ptr EXCEPT ![k] = TRUE]
    /\ PostOp(k)
    /\ user' = "finish"
    /\ UNCHANGED <<descVars, kernVars, pollVars, coro, stop_cb, cancelled,
                   errn, slot, cancel_pending, call, in_map, is_open>>

CallFinish ==
    /\ user = "finish"
    /\ opWork' = opWork - 1
    /\ user' = "repost"
    /\ UNCHANGED <<opVars, descVars, kernVars, pollVars, call, claimed,
                   in_map, is_open>>

CancelReturn ==
    /\ user = "repost" /\ claimed = {} /\ call = "cancel"
    /\ user' = "idle" /\ call' = "none"
    /\ UNCHANGED <<opVars, descVars, kernVars, pollVars, opWork, claimed,
                   in_map, is_open>>

\* deregister_descriptor, ::close (do_release_socket leaves the descriptor to
\* the caller; for this socket it is the same).
CloseFd ==
    /\ user = "repost" /\ claimed = {} /\ call \in Closers
    /\ is_open' = FALSE /\ registered' = FALSE /\ edge' = FALSE
    /\ conn' = "fresh" /\ data' = FALSE /\ room' = FALSE /\ sockerr' = FALSE
    /\ user' = CASE call = "destroy"           -> "erase"
                 [] call \in {"open", "assign"} -> "init"
                 [] OTHER                       -> "idle"
    /\ call' = IF call = "close" THEN "none" ELSE call
    /\ UNCHANGED <<opVars, descVars, pollVars, opWork, claimed, in_map>>

\* The service forgets the socket: it lives on only through keepalives.
DestroyErase ==
    /\ user = "erase"
    /\ in_map' = FALSE
    /\ user' = "gone" /\ call' = "none"
    /\ UNCHANGED <<opVars, descVars, kernVars, pollVars, opWork, claimed,
                   is_open>>

\* Another socket is constructed once nothing of this one is left.
Construct ==
    /\ user = "gone" /\ ~Alive /\ MutexFree /\ fetched = {}
    /\ user' = "idle" /\ in_map' = TRUE
    /\ cancelled' = All(FALSE) /\ errn' = All(FALSE)
    /\ cancel_pending' = All(FALSE)
    /\ read_ready' = FALSE /\ write_ready' = FALSE /\ sock_events' = {}
    /\ is_enqueued' = FALSE /\ desc_queue' = 0
    /\ UNCHANGED <<coro, stop_cb, impl_ptr, slot, queued, impl_ref, kernVars,
                   pollVars, opWork, call, claimed, is_open>>

\* do_open_socket may fail to create a descriptor, do_assign_fd refuses one.
OpenFails ==
    /\ user = "init"
    /\ user' = "idle" /\ call' = "none"
    /\ UNCHANGED <<opVars, descVars, kernVars, pollVars, opWork, claimed,
                   in_map, is_open>>

\* init_and_register: three of the slots are reset under the mutex.
InitFd ==
    /\ user = "init" /\ MutexFree
    /\ is_open' = TRUE
    /\ \/ call = "open" /\ UNCHANGED <<conn, data, room>>
       \/ call = "assign" /\ conn' = "up" /\ data' \in BOOLEAN
                          /\ room' = TRUE
    /\ slot' = [k \in Kinds |-> slot[k] /\ k \notin {"read", "write",
                                                      "connect"}]
    /\ user' = "add" /\ call' = "none"
    /\ UNCHANGED <<descVars, pollVars, opWork, claimed, in_map, registered,
                   edge, sockerr, coro, stop_cb, cancelled, errn,
                   impl_ptr, cancel_pending, queued>>

\* register_descriptor: EPOLL_CTL_ADD, which reports a ready descriptor.
EpollAdd ==
    /\ user = "add"
    /\ registered' = TRUE /\ edge' = (Mask # {})
    /\ user' = "clear"
    /\ UNCHANGED <<opVars, descVars, pollVars, opWork, call, claimed, in_map,
                   is_open, conn, data, room, sockerr>>

ClearReadyEvents ==
    /\ user = "clear"
    /\ sock_events' = {}
    /\ user' = "reset"
    /\ UNCHANGED <<opVars, kernVars, pollVars, opWork, read_ready, write_ready,
                   is_enqueued, impl_ref, desc_queue, call, claimed, in_map,
                   is_open>>

ResetFlags ==
    /\ user = "reset" /\ MutexFree
    /\ impl_ref' = FALSE /\ read_ready' = FALSE /\ write_ready' = FALSE
    /\ user' = "idle"
    /\ UNCHANGED <<opVars, kernVars, pollVars, opWork, sock_events,
                   is_enqueued, desc_queue, call, claimed, in_map, is_open>>

-----------------------------------------------------------------------------
Initiate ==
    \/ \E k \in Kinds : DoInline(k)
    \/ \E k \in Kinds, s \in BOOLEAN : DoPost(k, s)
    \/ \E k \in Kinds, s \in BOOLEAN : DoPark(k, s)
    \/ DoConnectInline
    \/ \E s \in BOOLEAN : DoConnectPost(s)
    \/ \E s \in BOOLEAN : DoConnectPark(s)
    \/ \E c \in Calls : CallBegin(c)

\* A call in progress goes on: the thread that makes it is running.
Proceed ==
    \/ \E k \in Kinds : RegisterOp(k)
    \/ CallClaim
    \/ \E k \in Kinds : CallRepost(k)
    \/ CallFinish
    \/ CancelReturn
    \/ CloseFd
    \/ DestroyErase
    \/ OpenFails
    \/ InitFd
    \/ EpollAdd
    \/ ClearReadyEvents
    \/ ResetFlags

Callback(k) == CancelClaim(k) \/ CancelPost(k) \/ FinishCancel(k)

Reactor == EpollWait \/ AddReadyEvents \/ EnqueueDescriptor \/ DropEvent

Handler == HandlerLock \/ HandlerPerform

Kernel == KernelConnect \/ SockReady \/ KernelReset

SockNext ==
    \/ Initiate
    \/ Proceed
    \/ Construct
    \/ \E k \in Kinds : StopRequested(k)
    \/ \E k \in Kinds : Callback(k)
    \/ \E k \in Kinds : Dispatch(k)
    \/ \E k \in Kinds : CompleteOp(k)
    \/ Reactor
    \/ Handler
    \/ Kernel

SockSpec == SockInit /\ [][SockNext]_sockVars

\* A call that was begun goes on, a callback that was started runs to its
\* end, and the threads of the scheduler keep running: they poll epoll and
\* serve the queue.  Whoever waits for the descriptor's mutex gets it in the
\* end (strong fairness: the handler may take it again and again in between).
\* Nothing is assumed of the user, of the stop tokens or of
\* the peer.
SockFairness ==
    /\ SF_sockVars(Proceed)
    /\ WF_sockVars(Reactor)
    /\ WF_sockVars(Handler)
    /\ \A k \in Kinds : /\ SF_sockVars(Callback(k))
                        /\ WF_sockVars(Dispatch(k))
                        /\ WF_sockVars(CompleteOp(k))

SockFairSpec == SockSpec /\ SockFairness

-----------------------------------------------------------------------------
(* Properties.                                                             *)

CountOf(P(_)) == Cardinality({k \in Kinds : P(k)})
Flag(b) == IF b THEN 1 ELSE 0

\* An operation whose coroutine is suspended is in exactly one place: its
\* descriptor slot, the scheduler's queue, the hands of the stop callback or
\* of the cancel or close that claimed it.  Before and after that it is in
\* none.  So every suspended coroutine is resumed by exactly one of the
\* reactor, a stop token, cancel() and close().
OnePlace ==
    \A k \in Kinds :
        Flag(slot[k]) + queued[k] + Flag(stop_cb[k] = "post")
            + Flag(k \in claimed) = Flag(coro[k] = "suspended")

\* The unit of work that register_op or post takes for an operation is there
\* as long as the operation is pending, through every change of hands, and is
\* given back once: post comes before work_finished, so that the count that
\* stops run() never passes through zero under a pending operation.
WorkHeld ==
    opWork = CountOf(LAMBDA k : coro[k] \in {"suspended", "completing"})
             + CountOf(LAMBDA k : stop_cb[k] = "finish")
             + Flag(user = "finish")

\* The intrusive node of the descriptor is in the scheduler's queue at most
\* once, and exactly while is_enqueued_ says so, whatever the reactor's
\* lock-free test and the handler's locked reset do to each other.
EnqueuedOnce == desc_queue = Flag(is_enqueued)

\* A stop callback is armed or running only for the operation whose coroutine
\* is waiting: completion disarms it before the coroutine goes on and starts
\* the next operation in the same object.
StopIsForThisOp ==
    \A k \in Kinds : stop_cb[k] # "none" => coro[k] # "idle"

\* An operation that was told to stop before its result was produced says so:
\* a cancelled, parked operation is on its way out of its slot.
StoppedLeavesSlot ==
    \A k \in Kinds : (slot[k] /\ cancelled[k]) =>
        stop_cb[k] = "claim" \/ user = "claim"

\* A pending operation keeps the socket that holds it: impl_ptr is set from
\* start() or post to the end of the completion, through every claim.
PendingKeepsSocket ==
    \A k \in Kinds : coro[k] # "idle" => impl_ptr[k]

\* Cancellation reaches only the operation that was told to stop, by its own
\* stop token or by cancel() or close() while it was pending: an operation
\* that starts under a token that has not fired finds no cancellation left
\* over from an earlier one.
StartsUncancelled ==
    \A k \in Kinds : (coro[k] = "initiating" /\ stop_cb[k] \in {"none", "armed"})
                         => ~cancel_pending[k]

\* A connect that reports success has a connection: the attempt is over.
ConnectEstablished ==
    "connect" \in Kinds /\ coro["connect"] = "completing"
        /\ ~errn["connect"] /\ ~cancelled["connect"]
      => conn \in {"up", "down"}

\* A read for which bytes are there ends, whichever way the arrival of the
\* bytes and the parking of the read interleave: no edge is lost.
ReadEnds ==
    ("read" \in Kinds /\ coro["read"] = "suspended" /\ ReadDone)
        ~> (coro["read"] = "idle" \/ ~ReadDone)

\* An operation whose stop token fires ends.
StopEnds ==
    \A k \in Kinds : (stop_cb[k] \in Claimers \cup {"fired"})
                         ~> (coro[k] = "idle")

\* cancel(), close() and destruction end every operation that was pending.
CallEnds ==
    \A k \in Kinds : (user = "claim" /\ coro[k] # "idle")
                         ~> (coro[k] = "idle")

\* What is asked to end ends, whoever asks: a stop token, cancel(), close() or
\* the destructor, in any order with the reactor and with one another.
AskedEnds == StopEnds /\ CallEnds

(***************************************************************************)
(* Whatever register_op, the descriptor's handler, the stop callback,      *)
(* cancel() and close() do to one another, a suspended operation is in one *)
(* place, holds its unit of work and its socket, has its descriptor queued *)
(* once and a stop callback that is for it; one that was told to stop      *)
(* leaves its slot.                                                        *)
(***************************************************************************)
SocketLedger ==
    /\ SockTypeOK
    /\ OnePlace
    /\ WorkHeld
    /\ EnqueuedOnce
    /\ StopIsForThisOp
    /\ StoppedLeavesSlot
    /\ PendingKeepsSocket
=============================================================================
