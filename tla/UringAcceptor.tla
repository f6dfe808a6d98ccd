---------------------------- MODULE UringAcceptor ----------------------------
(***************************************************************************)
(* The io_uring multishot acceptor: one accept entry stays in the kernel   *)
(* and yields a completion per connection; accept() takes a connection at  *)
(* once, from the parked ones, or leaves a waiter.  One accept() at a time *)
(* (tcp_acceptor.hpp), stop requests and completions on any thread.        *)
(*                                                                         *)
(* Connections are counted, not named.  A foreign operation (`sibling`) of *)
(* the same ring is there for the drain in the acceptor's destructor.      *)
(***************************************************************************)
EXTENDS Naturals, Sequences, SequencesExt

CONSTANTS MaxConns,      \* bound: connections that arrive
          MaxAccepts,    \* bound: calls of accept()
          MaxErrors,     \* bound: multishot terminations by the kernel
          MaxOpens       \* bound: times the acceptor is opened

ASSUME AcceptorBounds == {MaxConns, MaxAccepts, MaxErrors, MaxOpens} \subseteq Nat

VARIABLES listening,   \* fd_ >= 0
          closing,     \* closing_
          armed,       \* the multishot entry is in the kernel
          backlog,     \* connections in the kernel's listen queue
          accq,        \* its completions: [conn, more]
          parked,      \* ready_fds_
          waiter,      \* "none", "look", "armed" (not queued yet) or "queued"
          claimed,     \* waiter_node::cancelled
          stop,        \* "no", "claimed" (on its way to cancel_waiter) or "gone"
          posted,      \* accept operations in the run queue: results, in order
          rearms,      \* rearm_op in the run queue
          awork,       \* work counted for the acceptor
          conns,       \* where connections went: [made, given, shut]
          sibling,     \* "kernel", "cqe", "done" or "lost"
          asked,       \* cancel() or close() since the acceptor was opened
          alive,       \* the acceptor object exists
          accepts, errors, opens

acc_vars == <<listening, closing, armed, backlog, accq, parked, waiter, claimed, stop, posted,
              rearms, awork, conns, sibling, asked, alive, accepts, errors, opens>>

AccInit ==
    /\ listening = FALSE /\ closing = FALSE /\ armed = FALSE /\ backlog = 0 /\ accq = <<>>
    /\ parked = 0 /\ waiter = "none" /\ claimed = FALSE /\ stop = "no" /\ posted = <<>>
    /\ rearms = 0 /\ awork = 0 /\ conns = [made |-> 0, given |-> 0, shut |-> 0]
    /\ sibling = "kernel" /\ asked = FALSE /\ alive = TRUE
    /\ accepts = 0 /\ errors = 0 /\ opens = 0

\* sched_->post(op): a result for the caller, with its work
PostAccept(r) == posted' = Append(posted, r)
Initiating == waiter \in {"look", "armed"}
Suspended == waiter # "none" \/ posted # <<>>

-----------------------------------------------------------------------------
(***************************************************************************)
(* open_acceptor_socket, listen_acceptor, start_multishot.                 *)
(***************************************************************************)
listen_acceptor ==
    /\ alive /\ ~listening /\ ~Suspended /\ opens < MaxOpens
    /\ listening' = TRUE /\ armed' = TRUE /\ asked' = FALSE /\ opens' = opens + 1
    /\ UNCHANGED <<closing, backlog, accq, parked, waiter, claimed, stop, posted, rearms, awork,
                   conns, sibling, alive, accepts, errors>>

(***************************************************************************)
(* dispatch_or_queue: accept4, then the parked connections, then a waiter. *)
(***************************************************************************)
accept ==
    /\ listening /\ ~Suspended /\ accepts < MaxAccepts
    /\ accepts' = accepts + 1 /\ claimed' = FALSE /\ stop' = "no"
    /\ IF backlog > 0
       THEN /\ backlog' = backlog - 1 /\ PostAccept("conn") /\ awork' = awork + 1
            /\ UNCHANGED waiter
       ELSE waiter' = "look" /\ UNCHANGED <<backlog, posted, awork>>
    /\ UNCHANGED <<listening, closing, armed, accq, parked, rearms, conns, sibling, asked, alive,
                   errors, opens>>
\* The first look at ready_fds_; failing that the waiter is built and its stop
\* callback armed
look ==
    /\ waiter = "look"
    /\ IF parked > 0
       THEN parked' = parked - 1 /\ PostAccept("conn") /\ awork' = awork + 1 /\ waiter' = "none"
       ELSE waiter' = "armed" /\ UNCHANGED <<parked, posted, awork>>
    /\ UNCHANGED <<listening, closing, armed, backlog, accq, claimed, stop, rearms, conns,
                   sibling, asked, alive, accepts, errors, opens>>
Stopped == claimed
\* Under the lock: a stop that already fired, a connection that came meanwhile,
\* or the waiter is queued.
enqueue ==
    /\ waiter = "armed"
    /\ CASE Stopped    -> PostAccept("canceled") /\ waiter' = "none" /\ UNCHANGED parked
         [] ~Stopped /\ parked > 0 -> PostAccept("conn") /\ waiter' = "none" /\ parked' = parked - 1
         [] OTHER      -> waiter' = "queued" /\ UNCHANGED <<parked, posted>>
    /\ awork' = awork + 1
    /\ UNCHANGED <<listening, closing, armed, backlog, accq, claimed, stop, rearms, conns,
                   sibling, asked, alive, accepts, errors, opens>>

\* waiter_canceller: the exchange, then cancel_waiter
StopRequested ==
    /\ waiter \in {"armed", "queued"} /\ stop = "no"
    /\ stop' = IF claimed THEN "gone" ELSE "claimed"
    /\ claimed' = TRUE
    /\ UNCHANGED <<listening, closing, armed, backlog, accq, parked, waiter, posted, rearms, awork,
                   conns, sibling, asked, alive, accepts, errors, opens>>
cancel_waiter ==
    /\ stop = "claimed" /\ stop' = "gone"
    /\ IF ~closing /\ waiter = "queued"
       THEN waiter' = "none" /\ PostAccept("canceled")
       ELSE UNCHANGED <<waiter, posted>>
    /\ UNCHANGED <<listening, closing, armed, backlog, accq, parked, claimed, rearms, awork, conns,
                   sibling, asked, alive, accepts, errors, opens>>

-----------------------------------------------------------------------------
(***************************************************************************)
(* A completion of the multishot entry: process_completions, do_cqe,       *)
(* on_accept_cqe_impl.  Completing a waiter turns its work into the posted *)
(* operation's.                                                            *)
(***************************************************************************)
\* A connection claimed by a stopped waiter is parked for the next accept()
Parks(e) == IF e.conn THEN 1 ELSE 0
\* waiters_ drained with operation_aborted
DrainWaiters == IF waiter = "queued" THEN waiter' = "none" /\ PostAccept("canceled")
           ELSE UNCHANGED <<waiter, posted>>
\* Under the lock: closing_; else the head waiter, unless a stop claimed it first
Shuts == closing
Matches == ~closing /\ waiter = "queued" /\ ~claimed
\* The kernel ended the entry and nobody closed the acceptor: post a rearm_op
Rearms(e) == ~e.more /\ ~closing
on_accept_cqe ==
    /\ accq # <<>> /\ accq' = Tail(accq)
    /\ LET e == Head(accq)
           conn == IF e.conn THEN 1 ELSE 0
           again == IF Rearms(e) THEN 1 ELSE 0 IN
       /\ rearms' = rearms + again /\ awork' = awork + again
       /\ CASE Shuts ->   /\ conns' = [conns EXCEPT !.shut = @ + conn]
                          /\ IF e.more THEN UNCHANGED <<waiter, posted>> ELSE DrainWaiters
                          /\ UNCHANGED <<claimed, parked>>
            [] Matches /\ ~Shuts ->
                          /\ claimed' = TRUE /\ waiter' = "none"
                          /\ PostAccept(IF e.conn THEN "conn" ELSE "error")
                          /\ UNCHANGED <<parked, conns>>
            [] OTHER   -> /\ parked' = parked + Parks(e)
                          /\ UNCHANGED <<waiter, claimed, posted, conns>>
    /\ UNCHANGED <<listening, closing, armed, backlog, stop, sibling, asked, alive, accepts,
                   errors, opens>>

\* rearm_op: start the multishot entry again unless closing
rearm ==
    /\ rearms > 0 /\ rearms' = rearms - 1 /\ awork' = awork - 1
    /\ armed' = (armed \/ ~closing)
    /\ UNCHANGED <<listening, closing, backlog, accq, parked, waiter, claimed, stop, posted, conns,
                   sibling, asked, alive, accepts, errors, opens>>
\* uring_accept_op::do_handler: adopt the connection, resume the caller.  It was
\* posted after stop_cb.reset(), which waits for a running cancel_waiter.
AcceptDone ==
    /\ posted # <<>> /\ stop # "claimed" /\ posted' = Tail(posted) /\ awork' = awork - 1
    /\ conns' = [conns EXCEPT !.given = @ + (IF Head(posted) = "conn" THEN 1 ELSE 0)]
    /\ UNCHANGED <<listening, closing, armed, backlog, accq, parked, waiter, claimed, stop, rearms,
                   sibling, asked, alive, accepts, errors, opens>>

-----------------------------------------------------------------------------
(***************************************************************************)
(* cancel(), close(), and the destructor with its drain_cqes_for.          *)
(***************************************************************************)
\* The kernel ends the multishot entry: its last completion has no F_MORE
Ended == IF armed THEN Append(accq, [conn |-> FALSE, more |-> FALSE]) ELSE accq
cancel ==
    /\ listening /\ ~Initiating
    /\ closing' = TRUE /\ asked' = TRUE /\ DrainWaiters
    /\ accq' = Ended /\ armed' = FALSE
    /\ UNCHANGED <<listening, backlog, parked, claimed, stop, rearms, awork, conns, sibling, alive,
                   accepts, errors, opens>>
\* cancel_and_flush, drain_waiters_only, the descriptor given up; the backlog goes
\* with the closed (or, for release_socket, with the released) descriptor
GiveUpFd ==
    /\ listening /\ ~Initiating
    /\ listening' = FALSE /\ closing' = TRUE /\ asked' = TRUE /\ DrainWaiters
    /\ accq' = Ended /\ armed' = FALSE
    /\ backlog' = 0 /\ conns' = [conns EXCEPT !.made = @ - backlog]
    /\ UNCHANGED <<parked, claimed, stop, rearms, awork, sibling, alive, accepts, errors, opens>>
close == GiveUpFd
release_socket == GiveUpFd    \* local acceptors only
\* Every completion in the queue is consumed; only the target's are this object's.
\* A connection among them is never closed.
destroy ==
    /\ alive /\ ~listening /\ ~Suspended /\ rearms = 0 /\ opens > 0
    /\ alive' = FALSE /\ closing' = TRUE
    /\ parked' = 0 /\ accq' = <<>> /\ armed' = FALSE
    /\ conns' = [conns EXCEPT !.shut = @ + parked,
                   !.made = @ - Len(SelectSeq(accq, LAMBDA e : e.conn))]
    /\ sibling' = IF sibling = "cqe" THEN "lost" ELSE sibling
    /\ UNCHANGED <<listening, backlog, waiter, claimed, stop, posted, rearms, awork, asked, accepts,
                   errors, opens>>

\* The kernel and the peers
Connect ==
    /\ listening /\ conns.made < MaxConns
    /\ backlog' = backlog + 1 /\ conns' = [conns EXCEPT !.made = @ + 1]
    /\ UNCHANGED <<listening, closing, armed, accq, parked, waiter, claimed, stop, posted, rearms,
                   awork, sibling, asked, alive, accepts, errors, opens>>
KernelAccepts == \E more \in BOOLEAN :
    /\ armed /\ backlog > 0 /\ (more \/ errors < MaxErrors)
    /\ backlog' = backlog - 1 /\ accq' = Append(accq, [conn |-> TRUE, more |-> more])
    /\ armed' = more /\ errors' = IF more THEN errors ELSE errors + 1
    /\ UNCHANGED <<listening, closing, parked, waiter, claimed, stop, posted, rearms, awork, conns,
                   sibling, asked, alive, accepts, opens>>
KernelFails ==
    /\ armed /\ errors < MaxErrors
    /\ accq' = Ended /\ armed' = FALSE /\ errors' = errors + 1
    /\ UNCHANGED <<listening, closing, backlog, parked, waiter, claimed, stop, posted, rearms,
                   awork, conns, sibling, asked, alive, accepts, opens>>
SiblingMoves ==
    /\ \/ sibling = "kernel" /\ sibling' = "cqe"
       \/ sibling = "cqe" /\ sibling' = "done"
    /\ UNCHANGED <<listening, closing, armed, backlog, accq, parked, waiter, claimed, stop, posted,
                   rearms, awork, conns, asked, alive, accepts, errors, opens>>

AccNext ==
    \/ listen_acceptor \/ accept \/ look \/ enqueue \/ StopRequested \/ cancel_waiter
    \/ on_accept_cqe \/ rearm \/ AcceptDone \/ cancel \/ close \/ release_socket \/ destroy
    \/ Connect \/ KernelAccepts \/ KernelFails \/ SiblingMoves

AccSpec == AccInit /\ [][AccNext]_acc_vars

-----------------------------------------------------------------------------
\* Types; waiter, stop and sibling only take the values named above.
AccTypeOK ==
    /\ {listening, closing, armed, claimed, asked, alive} \subseteq BOOLEAN
    /\ waiter \in {"none", "look", "armed", "queued"}
    /\ stop \in {"no", "claimed", "gone"} /\ sibling \in {"kernel", "cqe", "done", "lost"}
    /\ \A i \in DOMAIN posted : posted[i] \in {"conn", "error", "canceled"}
    /\ {backlog, parked, rearms, awork} \subseteq Nat

CountIn(s, r) == Len(SelectSeq(s, LAMBDA x : x = r))
\* No connection is lost or doubled between the multishot entry, ready_fds_, the
\* posted operation and the caller: every one that arrived is in one place.
ConnsConserved ==
    conns.made = backlog + Len(SelectSeq(accq, LAMBDA e : e.conn)) + parked
                 + CountIn(posted, "conn") + conns.given + conns.shut

\* One completion per accept(): the waiter and the posted operation exclude each
\* other, whichever of stop, completion and cancel() came first.
OneAcceptOutcome == Len(posted) + (IF waiter = "none" THEN 0 ELSE 1) <= 1

\* The work counted is that of the queued waiter and of the posted operations: the
\* work_started of a waiter is undone once, on every path that ends it.
AcceptWork == awork = Len(posted) + rearms + (IF waiter = "queued" THEN 1 ELSE 0)

\* An accepted connection is closed by the library only after cancel(), close()
\* or the destructor.
ShutOnlyWhenAsked == conns.shut > 0 => asked

\* Nothing left to do for the kernel's answers, the run queue and the callbacks
AccQuiet == accq = <<>> /\ posted = <<>> /\ rearms = 0 /\ ~Initiating /\ stop # "claimed"
            /\ ~(armed /\ backlog > 0)

\* While cancel() was not called, a waiting accept() is served: no connection
\* stays parked or in the backlog, and the multishot entry is in the kernel.
WaiterIsServed ==
    AccQuiet /\ waiter = "queued" /\ ~closing => parked = 0 /\ backlog = 0 /\ armed

\* While cancel() was not called, a stop request ends the accept() it is for.
StopEndsWaiter == AccQuiet /\ ~closing /\ stop = "gone" => waiter = "none"

\* cancel() and close() end the accept() that waits when they are called.
CancelEndsAccept == [][asked' /\ ~asked => waiter' = "none"]_acc_vars

\* tcp_acceptor.hpp: "If the associated stop token is triggered, the operation
\* completes immediately with errc::operation_canceled".
StopAlwaysEnds == AccQuiet /\ stop = "gone" => waiter = "none"

\* drain_cqes_for: completions of other operations may be swallowed because "any
\* still-live ops drain through their own paths first".
SiblingCompletes == sibling # "lost"

=============================================================================
