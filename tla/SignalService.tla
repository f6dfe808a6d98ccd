--------------------------- MODULE SignalService ---------------------------
(***************************************************************************)
(* Signal sets on POSIX (sigaction and a self-pipe) and on Windows (the C  *)
(* runtime's signal()): registration under the global and the service's    *)
(* mutex, the handler, delivery, waits and their cancellation.  A set is   *)
(* used by one coroutine; signals, cancel() and stop requests come from    *)
(* anywhere.  Functions whose body runs under one lock are single steps.   *)
(***************************************************************************)
EXTENDS Integers, Sequences, FiniteSets

CONSTANTS Sets,        \* signal_set objects
          Signals,     \* signal numbers
          SigFlags,    \* requested flags, "dont_care" and "none" among them
          MaxPipe,     \* capacity of the self-pipe, in records
          MaxRaised,   \* signals raised in a behaviour
          MaxSigWaits, \* waits started in a behaviour
          MaxAdds      \* registrations made in a behaviour

VARIABLES platform,    \* "posix" or "win"
          reg,         \* reg[s][n]: NoReg, or flags and undelivered count
          count,       \* signal_state::registration_count
          gflags,      \* signal_state::registered_flags
          handler,     \* the process's disposition: "default" or "ours"
          pipe,        \* the self-pipe
          inside,      \* Windows: signals whose handler still has to install itself again
          setstate,    \* per set: alive, waiting_, cancelled_
          sigop,       \* per set: what the scheduler holds of its pending_op_, its number and svc
          waiter,      \* per set: the coroutine, and whether its token was stopped since
          swork,       \* the scheduler's work count, in units of signal services
          owed,        \* history: deliveries to s of n that no wait was given yet
          raised, waits, adds
sig_vars == <<platform, reg, count, gflags, handler, pipe, inside, setstate, sigop, waiter, swork, owed, raised, waits, adds>>

NoReg == [flags |-> "unregistered", undelivered |-> 0]
Registered(s, n) == reg[s][n] # NoReg
NoSignal == 0
IdleOp == [queued |-> "no", number |-> NoSignal, svc |-> FALSE]
Alive(s) == setstate[s].alive

SigInit ==
    /\ platform \in {"posix", "win"}
    /\ reg = [s \in Sets |-> [n \in Signals |-> NoReg]]
    /\ count = [n \in Signals |-> 0]
    /\ gflags = [n \in Signals |-> "none"]
    /\ handler = [n \in Signals |-> "default"]
    /\ pipe = <<>> /\ inside = {}
    /\ setstate = [s \in Sets |-> [alive |-> TRUE, waiting |-> FALSE, cancelled |-> FALSE]]
    /\ sigop = [s \in Sets |-> IdleOp]
    /\ waiter = [s \in Sets |-> [st |-> "idle", stop |-> FALSE]]
    /\ swork = 0
    /\ owed = [s \in Sets |-> [n \in Signals |-> 0]]
    /\ raised = 0 /\ waits = 0 /\ adds = 0

---------------------------------------------------------------------------
(* Registration *)

flags_compatible(existing, requested) ==
    existing = requested \/ "dont_care" \in {existing, requested}

\* the two tests of add_signal: this set's registration, then the global one
Admits(s, n, f) ==
    IF Registered(s, n) THEN flags_compatible(reg[s][n].flags, f)
    ELSE count[n] > 0 => flags_compatible(gflags[n], f)

\* insertion into the set's and the service's lists; the handler is installed with
\* the first registration in the process
Insert(s, n, f) ==
    /\ adds < MaxAdds /\ adds' = adds + 1
    /\ reg' = [reg EXCEPT ![s][n] = [flags |-> f, undelivered |-> 0]]
    /\ count' = [count EXCEPT ![n] = @ + 1]
    /\ handler' = IF count[n] = 0 THEN [handler EXCEPT ![n] = "ours"] ELSE handler
    /\ UNCHANGED <<platform, pipe, inside, setstate, sigop, waiter, swork, owed, raised, waits>>

\* a refusal by the flags, by sigaction, or a repeated add changes nothing
add_signal(s, n, f) ==
    /\ platform = "posix" /\ Alive(s) /\ ~Registered(s, n) /\ Admits(s, n, f)
    /\ Insert(s, n, f)
    /\ gflags' = IF count[n] = 0 THEN [gflags EXCEPT ![n] = f] ELSE gflags

\* only none and dont_care are supported, and they are not kept
win_add_signal(s, n, f) ==
    /\ platform = "win" /\ Alive(s) /\ ~Registered(s, n) /\ f \in {"none", "dont_care"}
    /\ Insert(s, n, "none") /\ UNCHANGED gflags

LastOne(n) == count[n] = 1

\* deliveries of a dropped registration are nobody's, save the one already on its way
Forgotten(s, n) == IF sigop[s].queued = "op" /\ sigop[s].number = n THEN 1 ELSE 0

Unregister(s, N) ==
    /\ reg' = [reg EXCEPT ![s] = [n \in Signals |-> IF n \in N THEN NoReg ELSE @[n]]]
    /\ count' = [n \in Signals |-> IF n \in N THEN count[n] - 1 ELSE count[n]]
    /\ gflags' = [n \in Signals |-> IF n \in N /\ LastOne(n) THEN "none" ELSE gflags[n]]
    /\ owed' = [owed EXCEPT ![s] = [n \in Signals |-> IF n \in N THEN Forgotten(s, n) ELSE @[n]]]

RestoreDefault(N) == [n \in Signals |-> IF n \in N /\ LastOne(n) THEN "default" ELSE handler[n]]
RemoveFrom(s, n) ==
    /\ Alive(s) /\ Registered(s, n)
    /\ Unregister(s, {n})
    /\ handler' = RestoreDefault({n})
    /\ UNCHANGED <<platform, pipe, inside, setstate, sigop, waiter, swork, raised, waits, adds>>
\* sigaction may refuse to restore the default, and then nothing is removed
remove_signal(s, n) == platform = "posix" /\ RemoveFrom(s, n)
win_remove_signal(s, n) == platform = "win" /\ RemoveFrom(s, n)

\* clear goes on past a refused sigaction: the handler may stay although nothing is registered
ClearAll(s) ==
    LET N == {n \in Signals : Registered(s, n)} IN
    \E Refused \in SUBSET N :
        /\ Unregister(s, N)
        /\ handler' = [n \in Signals |-> IF n \in Refused THEN handler[n] ELSE RestoreDefault(N)[n]]
clear_signals(s) ==
    /\ platform = "posix" /\ Alive(s) /\ ClearAll(s)
    /\ UNCHANGED <<platform, pipe, inside, setstate, sigop, waiter, swork, raised, waits, adds>>
win_clear_signals(s) ==
    /\ platform = "win" /\ Alive(s) /\ ClearAll(s)
    /\ UNCHANGED <<platform, pipe, inside, setstate, sigop, waiter, swork, raised, waits, adds>>

---------------------------------------------------------------------------
(* Delivery *)

Takes(s, n) == Registered(s, n) /\ setstate[s].waiting
\* Mutant: a signal without a waiter is not counted.
Keeps_bug(s, n) == FALSE
Keeps(s, n) == Registered(s, n) /\ ~setstate[s].waiting
Posts(op, n) == [op EXCEPT !.queued = "op", !.number = n]

\* every service's table is walked: a waiting set is completed, another one keeps count
Deliver(n) ==
    /\ sigop' = [s \in Sets |-> IF Takes(s, n) THEN Posts(sigop[s], n) ELSE sigop[s]]
    /\ swork' = swork + Cardinality({s \in Sets : Takes(s, n)})
    /\ setstate' = [s \in Sets |-> IF Takes(s, n) THEN [setstate[s] EXCEPT !.waiting = FALSE] ELSE setstate[s]]
    /\ reg' = [s \in Sets |-> IF Keeps(s, n) THEN [reg[s] EXCEPT ![n].undelivered = @ + 1] ELSE reg[s]]
    /\ owed' = [s \in Sets |-> IF Registered(s, n) THEN [owed[s] EXCEPT ![n] = @ + 1] ELSE owed[s]]

\* a record that does not fit into the pipe is dropped
corosio_posix_signal_handler(n) ==
    /\ platform = "posix" /\ handler[n] = "ours" /\ raised < MaxRaised
    /\ raised' = raised + 1
    /\ pipe' = IF Len(pipe) < MaxPipe THEN Append(pipe, n) ELSE pipe
    /\ UNCHANGED <<platform, reg, count, gflags, handler, inside, setstate, sigop, waiter, swork, owed, waits, adds>>

\* one record of drain_signal_pipe's loop; several event loops may drain at once
deliver_signal ==
    /\ pipe # <<>>
    /\ pipe' = Tail(pipe) /\ Deliver(Head(pipe))
    /\ UNCHANGED <<platform, count, gflags, handler, inside, waiter, raised, waits, adds>>

\* Windows resets the disposition when it calls the handler, which delivers and then
\* installs itself again, whatever happened to the registrations in between
corosio_signal_handler(n) ==
    /\ platform = "win" /\ handler[n] = "ours" /\ raised < MaxRaised
    /\ raised' = raised + 1
    /\ handler' = [handler EXCEPT ![n] = "default"] /\ inside' = inside \cup {n}
    /\ Deliver(n)
    /\ UNCHANGED <<platform, count, gflags, pipe, waiter, waits, adds>>
HandlerReturns(n) ==
    /\ n \in inside
    /\ inside' = inside \ {n} /\ handler' = [handler EXCEPT ![n] = "ours"]
    /\ UNCHANGED <<platform, reg, count, gflags, pipe, setstate, sigop, waiter, swork, owed, raised, waits, adds>>

---------------------------------------------------------------------------
(* Waiting *)

MayWait(s) == Alive(s) /\ waiter[s].st = "idle" /\ waits < MaxSigWaits
\* POSIX posts the coroutine; Windows resumes it in place
Ends(s) ==
    IF platform = "posix"
    THEN /\ sigop' = [sigop EXCEPT ![s].queued = "cont"]
         /\ waiter' = [waiter EXCEPT ![s].st = "suspended"]
    ELSE /\ waiter' = [waiter EXCEPT ![s] = [st |-> "idle", stop |-> FALSE]]
         /\ UNCHANGED sigop
PostedUnits == IF platform = "posix" THEN 1 ELSE 0

\* a token that is stopped already; a later stop request is not looked for
WaitStopped(s) ==
    /\ MayWait(s)
    /\ waits' = waits + 1 /\ Ends(s) /\ swork' = swork + PostedUnits
    /\ UNCHANGED <<platform, reg, count, gflags, handler, pipe, inside, setstate, owed, raised, adds>>
wait(s) == platform = "posix" /\ WaitStopped(s)
win_wait(s) == platform = "win" /\ WaitStopped(s)

Queued(s) == {n \in Signals : reg[s][n].undelivered > 0}
Unqueue(n) == n - 1

WaitCancelled(s) ==
    /\ setstate[s].cancelled
    /\ setstate' = [setstate EXCEPT ![s].cancelled = FALSE]
    /\ Ends(s) /\ swork' = swork + PostedUnits /\ UNCHANGED reg
WaitQueued(s) ==
    /\ ~setstate[s].cancelled /\ Queued(s) # {}
    /\ LET n == CHOOSE m \in Queued(s) : \A k \in Queued(s) : m <= k IN
        /\ reg' = [reg EXCEPT ![s][n].undelivered = Unqueue(@)]
        /\ sigop' = [sigop EXCEPT ![s] = [queued |-> "op", number |-> n, svc |-> FALSE]]
    /\ waiter' = [waiter EXCEPT ![s].st = "suspended"] /\ swork' = swork + 1 /\ UNCHANGED setstate
WaitBegins(s) ==
    /\ ~setstate[s].cancelled /\ Queued(s) = {}
    /\ setstate' = [setstate EXCEPT ![s].waiting = TRUE]
    /\ sigop' = [sigop EXCEPT ![s].svc = TRUE]
    /\ waiter' = [waiter EXCEPT ![s].st = "suspended"] /\ swork' = swork + 1 /\ UNCHANGED reg
StartWait(s) ==
    /\ MayWait(s) /\ waits' = waits + 1
    /\ WaitCancelled(s) \/ WaitQueued(s) \/ WaitBegins(s)
    /\ UNCHANGED <<platform, count, gflags, handler, pipe, inside, owed, raised, adds>>
start_wait(s) == platform = "posix" /\ StartWait(s)
win_start_wait(s) == platform = "win" /\ StartWait(s)

Released(w) == w - 1
CancelWait(s) ==
    /\ setstate' = [setstate EXCEPT ![s].cancelled = TRUE, ![s].waiting = FALSE]
    /\ IF setstate[s].waiting
       THEN Ends(s) /\ swork' = Released(swork + PostedUnits)
       ELSE UNCHANGED <<sigop, waiter, swork>>
cancel_wait(s) ==
    /\ platform = "posix" /\ Alive(s) /\ CancelWait(s)
    /\ UNCHANGED <<platform, reg, count, gflags, handler, pipe, inside, owed, raised, waits, adds>>
win_cancel_wait(s) ==
    /\ platform = "win" /\ Alive(s) /\ CancelWait(s)
    /\ UNCHANGED <<platform, reg, count, gflags, handler, pipe, inside, owed, raised, waits, adds>>

\* the results are written and the svc unit of work is released; POSIX posts the
\* coroutine, Windows resumes it
Completed(s) ==
    /\ sigop[s].queued = "op"
    /\ owed' = [owed EXCEPT ![s][sigop[s].number] = @ - 1]
    /\ UNCHANGED <<platform, reg, count, gflags, handler, pipe, inside, setstate, raised, waits, adds>>
SvcUnits(s) == IF sigop[s].svc THEN 1 ELSE 0
signal_op(s) ==
    /\ platform = "posix" /\ Completed(s)
    /\ sigop' = [sigop EXCEPT ![s] = [IdleOp EXCEPT !.queued = "cont"]]
    /\ swork' = swork - SvcUnits(s) /\ UNCHANGED waiter
win_signal_op(s) ==
    /\ platform = "win" /\ Completed(s)
    /\ sigop' = [sigop EXCEPT ![s] = IdleOp]
    /\ swork' = swork - 1 - SvcUnits(s)
    /\ waiter' = [waiter EXCEPT ![s] = [st |-> "idle", stop |-> FALSE]]
\* the coroutine posted by wait(), start_wait(), cancel_wait() or signal_op
Resumed(s) ==
    /\ sigop[s].queued = "cont"
    /\ sigop' = [sigop EXCEPT ![s] = IdleOp]
    /\ waiter' = [waiter EXCEPT ![s].st = "idle", ![s].stop = FALSE]
    /\ swork' = swork - 1
    /\ UNCHANGED <<platform, reg, count, gflags, handler, pipe, inside, setstate, owed, raised, waits, adds>>

StopToken(s) ==
    /\ waiter[s].st = "suspended" /\ ~waiter[s].stop
    /\ waiter' = [waiter EXCEPT ![s].stop = TRUE]
    /\ UNCHANGED <<platform, reg, count, gflags, handler, pipe, inside, setstate, sigop, swork, owed, raised, waits, adds>>

\* clear, cancel, delete; by the coroutine that uses the set, so with no wait under way
destroy(s) ==
    /\ Alive(s) /\ waiter[s].st = "idle"
    /\ ClearAll(s)
    /\ setstate' = [setstate EXCEPT ![s] = [alive |-> FALSE, waiting |-> FALSE, cancelled |-> TRUE]]
    /\ UNCHANGED <<platform, pipe, inside, sigop, waiter, swork, raised, waits, adds>>

SigNext ==
    \/ deliver_signal
    \/ \E n \in Signals : corosio_posix_signal_handler(n) \/ corosio_signal_handler(n) \/ HandlerReturns(n)
    \/ \E s \in Sets :
        \/ clear_signals(s) \/ win_clear_signals(s) \/ wait(s) \/ win_wait(s) \/ start_wait(s) \/ win_start_wait(s)
        \/ cancel_wait(s) \/ win_cancel_wait(s) \/ signal_op(s) \/ win_signal_op(s) \/ Resumed(s)
        \/ StopToken(s) \/ destroy(s)
        \/ \E n \in Signals : remove_signal(s, n) \/ win_remove_signal(s, n)
        \/ \E n \in Signals, f \in SigFlags : add_signal(s, n, f) \/ win_add_signal(s, n, f)
SigSpec == SigInit /\ [][SigNext]_sig_vars
SigFairSpec ==
    /\ SigSpec /\ WF_sig_vars(deliver_signal)
    /\ \A s \in Sets : WF_sig_vars(signal_op(s) \/ win_signal_op(s)) /\ WF_sig_vars(Resumed(s))

---------------------------------------------------------------------------
\* The state has the types of its declarations; counts never pass below zero.
SigTypeOK ==
    /\ platform \in {"posix", "win"}
    /\ \A s \in Sets, n \in Signals :
        /\ reg[s][n].flags \in SigFlags \cup {"unregistered"} /\ reg[s][n].undelivered \in 0 .. MaxRaised
        /\ owed[s][n] \in 0 .. MaxRaised
    /\ count \in [Signals -> 0 .. Cardinality(Sets)] /\ gflags \in [Signals -> SigFlags]
    /\ handler \in [Signals -> {"default", "ours"}]
    /\ Len(pipe) <= MaxPipe /\ inside \subseteq Signals
    /\ setstate \in [Sets -> [alive : BOOLEAN, waiting : BOOLEAN, cancelled : BOOLEAN]]
    /\ \A s \in Sets : sigop[s].queued \in {"no", "op", "cont"} /\ sigop[s].number \in Signals \cup {NoSignal}
    /\ swork \in Nat

\* add_signal, remove_signal and clear_signals of all sets of all contexts keep the
\* process's disposition: a signal that some set registers is caught, except while
\* Windows runs the handler, and the global count is the number of registrations.
RegisteredIsCaught ==
    \A n \in Signals :
        /\ count[n] = Cardinality({s \in Sets : Registered(s, n)})
        /\ count[n] > 0 => handler[n] = "ours" \/ n \in inside

\* The first registration fixes the flags and the others agree with it, through any
\* sequence of additions and removals that keeps the signal registered.
FlagsAgree ==
    \A s \in Sets, n \in Signals : Registered(s, n) => flags_compatible(gflags[n], reg[s][n].flags)

\* A delivered signal is given to exactly one wait of every set that registers it: it is
\* counted in undelivered, or travels in the set's operation, until a wait returns it.
SignalsConserved ==
    \A s \in Sets, n \in Signals :
        owed[s][n] = reg[s][n].undelivered + Forgotten(s, n)

\* start_wait's test and deliver_signal's are under one mutex: no set waits while one of
\* its signals is queued, else the wait would sleep through a signal that came.
NoneQueuedWhileWaiting == \A s \in Sets : setstate[s].waiting => Queued(s) = {}

\* A suspended coroutine is known to the service as waiting or is held by the scheduler,
\* and never both: signals, cancel() and removal race for the one pending operation.
WaiterHasOneHome ==
    \A s \in Sets :
        waiter[s].st = "suspended" <=> (setstate[s].waiting # (sigop[s].queued # "no"))

\* Every unit of work that start_wait and post take is given back: the loop neither
\* returns under a waiting coroutine nor runs for ever after the last one.
SignalWork ==
    swork = Cardinality({s \in Sets : sigop[s].queued # "no"})
            + Cardinality({s \in Sets : setstate[s].waiting \/ (sigop[s].svc /\ sigop[s].queued = "op")})

\* io_signal_set::wait: "If the associated stop token is triggered, the operation
\* completes immediately": a wait whose token is stopped ends.
StopEndsSignalWait ==
    \A s \in Sets : (waiter[s].st = "suspended" /\ waiter[s].stop) ~> (waiter[s].st = "idle")

(***************************************************************************)
(* Signals, waits, cancel(), add and remove race over two mutexes and the  *)
(* self-pipe: every signal is delivered or counted, none is queued under a *)
(* set that waits, a waiting coroutine is in one place and holds its work, *)
(* and the process's handler and flags are those of the registered sets.   *)
(***************************************************************************)
SignalsServed ==
    /\ SigTypeOK
    /\ RegisteredIsCaught
    /\ FlagsAgree
    /\ WaiterHasOneHome
    /\ SignalsConserved
    /\ NoneQueuedWhileWaiting
    /\ SignalWork
=============================================================================
