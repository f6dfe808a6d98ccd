-------------------------- MODULE ReactorAcceptor --------------------------
(***************************************************************************)
(* A listening socket of the reactor back ends: accept() and wait() with   *)
(* their awaitables, stop tokens, cancel, close, release, open, listen and *)
(* destroy, against connections that arrive and edges that epoll reports   *)
(* once.  Unlike the stream socket, an acceptor arms the stop callback     *)
(* before its first system call, keeps no pending-cancel flags, and joins  *)
(* the reactor only in listen().                                           *)
(*                                                                         *)
(* The hand-over of an event from epoll_wait to the descriptor's handler   *)
(* is modelled step by step in ReactorSocket; here it is one step.         *)
(***************************************************************************)
EXTENDS Naturals, FiniteSets, FiniteSetsExt

CONSTANTS MaxConns,     \* connections that peers open
          MaxAwaits,    \* accepts and waits that are started
          MaxCalls      \* calls of cancel, close, release, open

AcceptorAssumption == {MaxConns, MaxAwaits, MaxCalls} \subseteq Nat
ASSUME AcceptorAssumption

VARIABLES
    has_service,  \* the context has the stream service accepted sockets need
    aop,          \* the operation objects acc_, wait_rd_, wait_wr_, wait_er_
    aslot,        \* operations parked in their descriptor slots
    aqueued,      \* times each is in the scheduler's queues
    awork,        \* outstanding work held by them
    ready,        \* read_ready
    aevents,      \* ready_events_, the descriptor is queued while not empty
    acall,        \* the user's current call, and how far it is
    aclaimed,     \* operations it claimed and has not posted yet
    afile,        \* the descriptor
    backlog,      \* connections in the kernel's accept queue
    epoll,        \* events on epoll's ready list
    arrived,      \* connections that reached the listening socket
    fate,         \* what became of those that left the accept queue
    awaits, acalls

accDesc == <<ready, aevents>>
accCall == <<acall, aclaimed, afile, acalls>>
accKern == <<backlog, epoll, arrived, fate>>
accOps  == <<aop, aslot, aqueued, awork>>
accVars == <<has_service, accOps, accDesc, accCall, accKern, awaits>>

AOps == {"accept", "wait_read", "wait_write", "wait_error"}
Closing == {"close", "release", "open", "destroy"}
InCallback == {"claim", "post"}
\* an operation without a stop token is one whose token never fires
Tokens == {"live", "stopped"}
Starting == {"reset", "try", "park"}

\* coro: where the awaiting coroutine is; cb: the stop callback, "stale" once
\* its await is over; held: accepted_fd; peer: the implementation that
\* *impl_out names; inline: resumed from the call itself
FreshOp == [coro |-> "idle", cb |-> "none", tok |-> "live",
            cancelled |-> FALSE, errn |-> FALSE, held |-> FALSE,
            peer |-> FALSE, inline |-> FALSE]

NoCall == [name |-> "none", at |-> "none"]

AccTypeOK ==
    /\ aop \in [AOps -> [coro : {"idle", "suspended", "resuming"} \cup Starting,
                         cb : {"none", "armed", "stale"} \cup InCallback,
                         tok : Tokens,
                         cancelled : BOOLEAN, errn : BOOLEAN, held : BOOLEAN,
                         peer : BOOLEAN, inline : BOOLEAN]]
    /\ aslot \subseteq AOps /\ aclaimed \subseteq AOps
    /\ aqueued \in [AOps -> 0..1] /\ awork \in 0..Cardinality(AOps)
    /\ {has_service, ready} \subseteq BOOLEAN
    /\ aevents \subseteq {"r", "e"} /\ epoll \subseteq {"r", "e"}
    /\ afile \in {"closed", "open", "listening"}
    /\ backlog \in 0..MaxConns /\ arrived \in 0..MaxConns

\* constructed alone, or with an endpoint to open, bind and listen on
AccInit ==
    /\ has_service \in BOOLEAN
    /\ aop = [k \in AOps |-> FreshOp] /\ aslot = {}
    /\ aqueued = [k \in AOps |-> 0] /\ awork = 0
    /\ ready = FALSE /\ aevents = {}
    /\ acall = NoCall /\ aclaimed = {} /\ afile \in {"closed", "listening"}
    /\ backlog = 0 /\ epoll = {} /\ arrived = 0
    /\ fate = [f \in {"left", "delivered", "closed", "orphaned"} |-> 0]
    /\ awaits = 0 /\ acalls = 0

\* the user's thread is in no call, and the acceptor is there
AtRest == acall = NoCall /\ \A k \in AOps : aop[k].coro \notin Starting

-----------------------------------------------------------------------------
(* The kernel (external).                                                  *)

Arrive ==
    /\ afile = "listening" /\ arrived < MaxConns
    /\ arrived' = arrived + 1 /\ backlog' = backlog + 1
    /\ epoll' = epoll \cup {"r"}
    /\ UNCHANGED <<has_service, accOps, accDesc, accCall, fate, awaits>>

ListenError ==
    /\ afile = "listening" /\ "wait_error" \in aslot /\ "e" \notin epoll \cup aevents
    /\ epoll' = epoll \cup {"e"}
    /\ UNCHANGED <<has_service, accOps, accDesc, accCall, backlog, arrived, fate, awaits>>

-----------------------------------------------------------------------------
(* accept() and wait().                                                    *)

MayBegin(k) ==
    /\ AtRest /\ afile # "closed" /\ aop[k].coro = "idle"
    /\ awaits < MaxAwaits /\ awaits' = awaits + 1
\* await_suspend keeps the token; op.reset() clears the flags and forgets the
\* acceptor.  A callback left over from an earlier accept stays armed.
AcceptReset(t) ==
    /\ MayBegin("accept")
    /\ aop' = [aop EXCEPT !["accept"] = [FreshOp EXCEPT !.coro = "reset", !.tok = t,
                                                        !.cb = aop["accept"].cb]]
    /\ UNCHANGED <<has_service, aslot, aqueued, awork, accDesc, accCall, accKern>>

\* op.start(token): replacing the callback waits for one that is running.  A
\* token already stopped runs cancel_single_op from the constructor, which
\* finds nothing parked.
Armed(op, t) ==
    [op EXCEPT !.coro = "try", !.tok = t, !.cancelled = @ \/ t = "stopped",
               !.cb = IF t = "live" THEN "armed" ELSE "none"]
AcceptStart ==
    /\ aop["accept"].coro = "reset" /\ aop["accept"].cb \notin InCallback
    /\ aop' = [aop EXCEPT !["accept"] = Armed(@, @.tok)]
    /\ UNCHANGED <<has_service, aslot, aqueued, awork, accDesc, accCall, accKern, awaits>>

\* scheduler post: one queue entry, one unit of work
Posted(k) == aqueued' = [aqueued EXCEPT ![k] = @ + 1]

\* the speculative accept took a connection and the inline budget lets the
\* coroutine run at once: the peer socket is made here; the stop callback
\* stays armed
AcceptInline ==
    /\ aop["accept"].coro = "try" /\ backlog > 0
    /\ backlog' = backlog - 1 /\ ready' = FALSE
    /\ fate' = [fate EXCEPT !["closed"] = @ + (IF has_service THEN 0 ELSE 1)]
    /\ aop' = [aop EXCEPT !["accept"].coro = "resuming", !["accept"].inline = TRUE,
                          !["accept"].peer = has_service, !["accept"].errn = ~has_service]
    /\ UNCHANGED <<has_service, aslot, aqueued, awork, aevents, accCall, epoll, arrived, awaits>>

\* it took one, or failed, and the operation is posted
AcceptPost ==
    /\ aop["accept"].coro = "try"
    /\ \E took \in BOOLEAN :
         /\ took => backlog > 0
         /\ backlog' = backlog - (IF took THEN 1 ELSE 0)
         /\ ready' = (ready /\ ~took)
         /\ aop' = [aop EXCEPT !["accept"].coro = "suspended",
                               !["accept"].held = took, !["accept"].errn = ~took]
    /\ Posted("accept") /\ awork' = awork + 1
    /\ UNCHANGED <<has_service, aslot, aevents, accCall, epoll, arrived, fate, awaits>>

\* EAGAIN
AcceptBlocks ==
    /\ aop["accept"].coro = "try" /\ backlog = 0 /\ afile = "listening"
    /\ aop' = [aop EXCEPT !["accept"].coro = "park"]
    /\ UNCHANGED <<has_service, aslot, aqueued, awork, accDesc, accCall, accKern, awaits>>

\* Mutant: the cached edge is dropped without another accept.
CachedEdge_bug == FALSE
CachedEdge == ready
\* under the mutex: a cached edge is spent on one more accept; an operation
\* told to stop is posted instead of parked
AcceptPark ==
    \E fails \in IF CachedEdge THEN BOOLEAN ELSE {FALSE} :
        LET took == CachedEdge /\ ~fails /\ backlog > 0
        IN  /\ aop["accept"].coro = "park"
            /\ ready' = FALSE
            /\ backlog' = backlog - (IF took THEN 1 ELSE 0)
            /\ aop' = [aop EXCEPT !["accept"].coro = "suspended",
                                  !["accept"].held = took, !["accept"].errn = fails]
            /\ awork' = awork + 1
            /\ IF took \/ fails \/ aop["accept"].cancelled
               THEN Posted("accept") /\ UNCHANGED aslot
               ELSE aslot' = aslot \cup {"accept"} /\ UNCHANGED aqueued
            /\ UNCHANGED <<has_service, aevents, accCall, epoll, arrived, fate, awaits>>

\* do_wait: write readiness is reported at once; the other directions park,
\* whatever the cached edge says
WaitStart(k, t) ==
    /\ k # "accept" /\ MayBegin(k)
    /\ aop' = [aop EXCEPT ![k] = Armed(FreshOp, t)]
    /\ UNCHANGED <<has_service, aslot, aqueued, awork, accDesc, accCall, accKern>>
WaitPark(k) ==
    /\ k # "accept" /\ aop[k].coro = "try"
    /\ aop' = [aop EXCEPT ![k].coro = "suspended"]
    /\ awork' = awork + 1
    /\ IF k = "wait_write" \/ aop[k].cancelled
       THEN Posted(k) /\ UNCHANGED aslot
       ELSE aslot' = aslot \cup {k} /\ UNCHANGED aqueued
    /\ UNCHANGED <<has_service, accDesc, accCall, accKern, awaits>>

-----------------------------------------------------------------------------
(* Stop tokens: reactor_op::on_cancel, cancel_single_op.                   *)

\* the token of the current await fires; its callback runs if it is armed
TokenStops(k) ==
    /\ aop[k].tok = "live" /\ aop[k].coro # "idle"
    /\ aop' = [aop EXCEPT ![k].tok = "stopped",
                          ![k].cb = IF @ = "armed" THEN "claim" ELSE @,
                          ![k].cancelled = @ \/ aop[k].cb = "armed"]
    /\ UNCHANGED <<has_service, aslot, aqueued, awork, accDesc, accCall, accKern, awaits>>

\* the token of an earlier accept fires: between reset() and start() the
\* operation names no acceptor and only the flag is set
StaleStop ==
    /\ aop["accept"].cb = "stale"
    /\ aop' = [aop EXCEPT !["accept"].cancelled = TRUE,
                          !["accept"].cb = IF aop["accept"].coro = "reset" THEN "none" ELSE "claim"]
    /\ UNCHANGED <<has_service, aslot, aqueued, awork, accDesc, accCall, accKern, awaits>>

Unparked(k) == aslot \ {k}
CancelSingleOp(k) ==
    /\ aop[k].cb = "claim"
    /\ aop' = [aop EXCEPT ![k].cb = IF k \in aslot THEN "post" ELSE "none"]
    /\ aslot' = Unparked(k)
    /\ UNCHANGED <<has_service, aqueued, awork, accDesc, accCall, accKern, awaits>>
\* post, then work_finished for the registration
CancelPosts(k) ==
    /\ aop[k].cb = "post"
    /\ Posted(k)
    /\ aop' = [aop EXCEPT ![k].cb = "none"]
    /\ UNCHANGED <<has_service, aslot, awork, accDesc, accCall, accKern, awaits>>

-----------------------------------------------------------------------------
(* The reactor.                                                            *)

\* run_task hands the event to the descriptor
AccEvent ==
    /\ epoll # {}
    /\ aevents' = aevents \cup epoll /\ epoll' = {}
    /\ UNCHANGED <<has_service, accOps, ready, accCall, backlog, arrived, fate, awaits>>

\* invoke_deferred_io on the descriptor of an acceptor: the parked accept is
\* tried once; a parked wait ends; an edge nobody takes is cached; an error
\* ends everything that is parked
AccHandle ==
    LET err   == "e" \in aevents
        took  == "accept" \in aslot /\ ~err /\ backlog > 0
        ended == IF err THEN aslot
                 ELSE aslot \cap ({"wait_read"} \cup (IF took THEN {"accept"} ELSE {}))
    IN  /\ aevents # {}
        /\ aevents' = {}
        /\ ready' = (ready \/ ("r" \in aevents /\ "accept" \notin aslot))
        /\ backlog' = backlog - (IF took THEN 1 ELSE 0)
        /\ aslot' = aslot \ ended
        /\ aqueued' = [k \in AOps |-> aqueued[k] + (IF k \in ended THEN 1 ELSE 0)]
        /\ aop' = [k \in AOps |-> IF k \in ended
                                  THEN [aop[k] EXCEPT !.errn = err, !.held = (k = "accept" /\ took)]
                                  ELSE aop[k]]
        /\ UNCHANGED <<has_service, awork, accCall, epoll, arrived, fate, awaits>>

\* complete_accept_op: an accepted descriptor that becomes no socket is closed
ClosesAccepted(k, success) == aop[k].held /\ ~(success /\ has_service)
\* complete_accept_op, complete_wait_op: stop_cb.reset() waits for a callback
\* that is running
AccComplete(k) ==
    LET success == ~aop[k].errn /\ ~aop[k].cancelled
    IN  /\ aqueued[k] > 0 /\ aop[k].coro = "suspended" /\ aop[k].cb \notin InCallback
        /\ aqueued' = [aqueued EXCEPT ![k] = @ - 1]
        /\ aop' = [aop EXCEPT ![k].coro = "resuming", ![k].cb = "none", ![k].held = FALSE,
                              ![k].peer = aop[k].held /\ success /\ has_service,
                              ![k].errn = @ \/ (aop[k].held /\ ~has_service)]
        /\ fate' = [fate EXCEPT !["closed"] = @ + (IF ClosesAccepted(k, success) THEN 1 ELSE 0)]
        /\ UNCHANGED <<has_service, aslot, awork, accDesc, accCall, backlog, epoll, arrived, awaits>>

\* await_resume: a token that is stopped by now makes the accept cancelled,
\* and the implementation it was handed is not adopted
Adopts(k) == aop[k].peer /\ aop[k].tok # "stopped"
AccResume(k) ==
    /\ aop[k].coro = "resuming"
    /\ fate' = [fate EXCEPT !["delivered"] = @ + (IF Adopts(k) THEN 1 ELSE 0),
                            !["orphaned"] = @ + (IF aop[k].peer /\ ~Adopts(k) THEN 1 ELSE 0)]
    /\ awork' = awork - (IF aop[k].inline THEN 0 ELSE 1)
    /\ aop' = [aop EXCEPT ![k] = [FreshOp EXCEPT !.cb = IF aop[k].cb = "armed" THEN "stale"
                                                                              ELSE aop[k].cb]]
    /\ UNCHANGED <<has_service, aslot, aqueued, accDesc, accCall, backlog, epoll, arrived, awaits>>

-----------------------------------------------------------------------------
(* cancel(), close(), release(), open(), listen(), destroy.                *)

\* cancel(), close() and release() do nothing on a closed acceptor, open()
\* nothing on an open one
AccCallBegin(c) ==
    /\ AtRest /\ acalls < MaxCalls /\ acalls' = acalls + 1
    /\ CASE c = "open" -> afile = "closed" [] c = "destroy" -> TRUE [] OTHER -> afile # "closed"
    /\ acall' = [name |-> c, at |-> "claim"]
    /\ aop' = [k \in AOps |-> [aop[k] EXCEPT !.cancelled = @ \/ aop[k].coro # "idle"]]
    /\ UNCHANGED <<has_service, aslot, aqueued, awork, accDesc, aclaimed, afile, accKern, awaits>>
acc_cancel  == AccCallBegin("cancel")
acc_close   == AccCallBegin("close")
acc_release == AccCallBegin("release")
acc_open    == AccCallBegin("open")
acc_destroy == AccCallBegin("destroy")

\* under the mutex: the parked operations are claimed; closing also drops the
\* cached edge
AccCallClaim ==
    /\ acall.at = "claim"
    /\ aclaimed' = aslot /\ aslot' = {}
    /\ ready' = (ready /\ acall.name = "cancel")
    /\ acall' = [acall EXCEPT !.at = "post"]
    /\ UNCHANGED <<has_service, aop, aqueued, awork, aevents, afile, acalls, accKern, awaits>>

\* post, then work_finished
AccRepost(k) ==
    /\ k \in aclaimed
    /\ aclaimed' = aclaimed \ {k} /\ Posted(k)
    /\ UNCHANGED <<has_service, aop, aslot, awork, accDesc, acall, afile, acalls, accKern, awaits>>

AccCancelEnds ==
    /\ acall = [name |-> "cancel", at |-> "post"] /\ aclaimed = {}
    /\ acall' = NoCall
    /\ UNCHANGED <<has_service, accOps, accDesc, aclaimed, afile, acalls, accKern, awaits>>

\* deregister_descriptor and ::close (release leaves the descriptor to the
\* caller); open() then makes a descriptor, or fails
AccCloseEnds ==
    /\ acall.at = "post" /\ acall.name # "cancel" /\ aclaimed = {}
    /\ afile' \in IF acall.name = "open" THEN {"open", "closed"} ELSE {"closed"}
    /\ acall' = [NoCall EXCEPT !.at = IF acall.name = "destroy" THEN "gone" ELSE @]
    /\ epoll' = {} /\ backlog' = 0
    /\ fate' = [fate EXCEPT !["left"] = @ + backlog]
    /\ UNCHANGED <<has_service, accOps, accDesc, aclaimed, acalls, arrived, awaits>>

\* do_listen: register_descriptor starts with no cached edge
acc_listen ==
    /\ AtRest /\ afile = "open"
    /\ afile' = "listening" /\ ready' = FALSE /\ aevents' = {}
    /\ UNCHANGED <<has_service, accOps, acall, aclaimed, acalls, accKern, awaits>>

-----------------------------------------------------------------------------
AccInternal ==
    \/ \E k \in AOps : WaitPark(k) \/ CancelSingleOp(k) \/ CancelPosts(k)
                       \/ AccComplete(k) \/ AccResume(k) \/ AccRepost(k)
    \/ AcceptStart \/ AcceptInline \/ AcceptPost \/ AcceptBlocks \/ AcceptPark
    \/ AccEvent \/ AccHandle
    \/ AccCallClaim \/ AccCancelEnds \/ AccCloseEnds

AccNext ==
    \/ \E t \in Tokens : AcceptReset(t) \/ \E k \in AOps : WaitStart(k, t)
    \/ \E k \in AOps : TokenStops(k)
    \/ StaleStop
    \/ acc_cancel \/ acc_close \/ acc_release \/ acc_open \/ acc_destroy \/ acc_listen
    \/ Arrive \/ ListenError
    \/ AccInternal

AccSpec == AccInit /\ [][AccNext]_accVars

-----------------------------------------------------------------------------
(* Properties.                                                             *)

One(b) == IF b THEN 1 ELSE 0

\* An accept or a wait that is suspended is in exactly one place: its slot of
\* the descriptor, the scheduler's queue, or the hands of the stop callback
\* (cancel_single_op) or of the call (do_close_socket) that claimed it; and
\* the unit of work of its registration or of its post is counted until it
\* has been resumed.
AcceptOnePlace ==
    /\ \A k \in AOps :
         One(k \in aslot) + aqueued[k] + One(aop[k].cb = "post") + One(k \in aclaimed)
             = One(aop[k].coro = "suspended")
    /\ awork = Cardinality({k \in AOps : aop[k].coro = "suspended"
                                   \/ (aop[k].coro = "resuming" /\ ~aop[k].inline)})

\* Every connection that leaves the accept queue is held by the accept
\* operation, or has become a socket, or its descriptor is closed: the races
\* of accept() with its stop token, cancel() and close() lose none, and none
\* is given out twice.
ConnsFate ==
    arrived = backlog + One(aop["accept"].held) + One(aop["accept"].peer)
              + fate["left"] + fate["delivered"] + fate["closed"] + fate["orphaned"]

\* Nothing of the acceptor moves until a user, a peer or a token does.
AccQuiet ==
    /\ acall.at \in {"none", "gone"} /\ epoll = {} /\ aevents = {}
    /\ \A k \in AOps : /\ aop[k].coro \in {"idle", "suspended"} /\ aqueued[k] = 0
                       /\ aop[k].cb \notin InCallback

\* An accept does not stay parked while a connection is in the queue of the
\* kernel, although epoll reports each arrival once and the edge may come
\* before, between or after the system calls of accept(); and neither does an
\* operation whose stop token fired or whose acceptor was cancelled or closed.
AcceptServed ==
    AccQuiet => /\ ~("accept" \in aslot /\ backlog > 0)
                /\ \A k \in aslot : ~aop[k].cancelled

\* A wait for read readiness ends when a connection is in the accept queue:
\* "Suspends until the listen socket is ready in the requested direction".
WaitSeesBacklog ==
    AccQuiet => ~("wait_read" \in aslot /\ backlog > 0)

\* A connection the library accepted belongs to the caller's socket, or its
\* descriptor is closed: complete_accept_op "sets up the peer socket on
\* success, or closes the accepted fd on failure".
AcceptedIsOwned == fate["orphaned"] = 0

(***************************************************************************)
(* accept() and wait() against stop tokens, cancel(), close() and edges    *)
(* that epoll reports once: a suspended operation is in one place, every   *)
(* connection taken from the kernel has one fate, and no accept stays      *)
(* parked over a backlog or after it was told to stop.                     *)
(***************************************************************************)
AcceptLedger ==
    /\ AcceptOnePlace
    /\ ConnsFate
    /\ AcceptServed
=============================================================================
