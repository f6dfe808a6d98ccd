------------------------------ MODULE Timeout ------------------------------
(***************************************************************************)
(* timeout(): an operation raced against deadlines.  Level 1 is the        *)
(* outermost timeout_awaitable, level Depth the one around the operation;  *)
(* each has a stop source that its timer coroutine and a callback on the   *)
(* source of the level above may stop, and the operation is cancelled      *)
(* through the innermost.  Level 0 is the caller's own stop source.        *)
(*                                                                         *)
(* With threads = TRUE the context runs on several threads, and timers and *)
(* the caller's stop act between any two reads of await_resume; with FALSE *)
(* they act between handlers.                                              *)
(***************************************************************************)
EXTENDS Integers, FiniteSets

CONSTANT Depth

TimeoutAssumption == Depth \in Nat \ {0}
ASSUME TimeoutAssumption

VARIABLES
    threads,
    src,        \* stop sources that were requested
    cb,         \* the forwarding callbacks, by the level they stop
    timer,      \* the timer coroutines
    expired,    \* deadlines that have passed
    inner,      \* the operation
    pc,         \* where the awaiting coroutine is, and at which level
    seen,       \* what await_resume read at each level: parent, fired
    result      \* the error so far

toVars == <<threads, src, cb, timer, expired, inner, pc, seen, result>>

Levels == 1..Depth
Outcomes == {"none", "ok", "error", "canceled", "timeout"}

TimeoutTypeOK ==
    /\ threads \in BOOLEAN /\ src \subseteq 0..Depth /\ expired \subseteq Levels
    /\ cb \in [Levels -> {"none", "armed", "running"}]
    /\ timer \in [Levels -> {"none", "armed", "due", "done"}]
    /\ inner \in {"none", "pending", "ok", "error", "canceled"}
    /\ pc \in [at : {"suspend", "wait", "parent", "fired", "inner", "unwind", "done"},
               level : 0..(Depth + 1)]
    /\ seen \in [Levels -> [parent : BOOLEAN, fired : BOOLEAN]]
    /\ result \in Outcomes

TimeoutInit ==
    /\ threads \in BOOLEAN /\ src \in {{}, {0}}
    /\ cb = [i \in Levels |-> "none"] /\ timer = [i \in Levels |-> "none"]
    /\ expired = {} /\ inner = "none"
    /\ pc = [at |-> "suspend", level |-> 1]
    /\ seen = [i \in Levels |-> [parent |-> FALSE, fired |-> FALSE]]
    /\ result = "none"

\* no handler of a single thread is running
Between == pc.at \in {"wait", "done"}
MayAct == threads \/ Between

-----------------------------------------------------------------------------
(* await_suspend, level by level, then the operation itself.               *)

\* the timer coroutine runs up to timer.wait(); the callback of a parent that
\* is stopped already runs from its constructor
SuspendLevel ==
    LET i == pc.level
    IN  /\ pc.at = "suspend" /\ i \in Levels
        /\ timer' = [timer EXCEPT ![i] = "armed"]
        /\ cb' = [cb EXCEPT ![i] = "armed"]
        /\ src' = src \cup (IF i - 1 \in src THEN {i} ELSE {})
        /\ pc' = [pc EXCEPT !.level = i + 1]
        /\ UNCHANGED <<threads, expired, inner, seen, result>>

StartInner ==
    /\ pc = [at |-> "suspend", level |-> Depth + 1]
    /\ inner' = "pending"
    /\ pc' = [at |-> "wait", level |-> 1]
    /\ UNCHANGED <<threads, src, cb, timer, expired, seen, result>>

\* the operation (external): it ends by itself, or cancelled by its token
InnerEnds ==
    /\ inner = "pending"
    /\ inner' \in {"ok", "error"} \cup (IF Depth \in src THEN {"canceled"} ELSE {})
    /\ UNCHANGED <<threads, src, cb, timer, expired, pc, seen, result>>

-----------------------------------------------------------------------------
(* The caller's stop, the timers, and the forwarding callbacks.            *)

ParentStops ==
    /\ MayAct /\ 0 \notin src /\ pc.at # "done"
    /\ src' = src \cup {0}
    /\ UNCHANGED <<threads, cb, timer, expired, inner, pc, seen, result>>

\* a request for stop runs the callbacks registered on that source
ForwardBegins(i) ==
    /\ cb[i] = "armed" /\ i - 1 \in src /\ i \notin src
    /\ cb' = [cb EXCEPT ![i] = "running"]
    /\ UNCHANGED <<threads, src, timer, expired, inner, pc, seen, result>>
ForwardEnds(i) ==
    /\ cb[i] = "running"
    /\ cb' = [cb EXCEPT ![i] = "armed"] /\ src' = src \cup {i}
    /\ UNCHANGED <<threads, timer, expired, inner, pc, seen, result>>

\* the timer expires and its wait is posted; or the wait is cancelled by the
\* level's own source
TimerDue(i) ==
    /\ timer[i] = "armed" /\ pc.at # "done"
    /\ timer' = [timer EXCEPT ![i] = "due"] /\ expired' = expired \cup {i}
    /\ UNCHANGED <<threads, src, cb, inner, pc, seen, result>>
TimerCanceled(i) ==
    /\ timer[i] = "armed" /\ i \in src
    /\ timer' = [timer EXCEPT ![i] = "done"]
    /\ UNCHANGED <<threads, src, cb, expired, inner, pc, seen, result>>

\* make_timeout goes on after a wait that was not cancelled
make_timeout(i) ==
    /\ timer[i] = "due" /\ MayAct
    /\ timer' = [timer EXCEPT ![i] = "done"] /\ src' = src \cup {i}
    /\ UNCHANGED <<threads, cb, expired, inner, pc, seen, result>>

-----------------------------------------------------------------------------
(* await_resume, from the outermost level in and back out.                 *)

\* On one thread a request for stop has run all its callbacks by now.
Settled == \A i \in Levels : i - 1 \in src /\ cb[i] # "none" => i \in src
ResumeBegins ==
    /\ pc.at = "wait" /\ inner \in {"ok", "error", "canceled"} /\ (threads \/ Settled)
    /\ pc' = [at |-> "parent", level |-> 1]
    /\ UNCHANGED <<threads, src, cb, timer, expired, inner, seen, result>>

ReadParent ==
    /\ pc.at = "parent"
    /\ seen' = [seen EXCEPT ![pc.level].parent = pc.level - 1 \in src]
    /\ pc' = [pc EXCEPT !.at = "fired"]
    /\ UNCHANGED <<threads, src, cb, timer, expired, inner, result>>
ReadFired ==
    /\ pc.at = "fired"
    /\ seen' = [seen EXCEPT ![pc.level].fired = pc.level \in src]
    /\ pc' = IF pc.level < Depth THEN [at |-> "parent", level |-> pc.level + 1]
             ELSE [pc EXCEPT !.at = "inner"]
    /\ UNCHANGED <<threads, src, cb, timer, expired, inner, result>>

\* the operation's own await_resume: a stopped token makes it cancelled
InnerResult ==
    /\ pc.at = "inner"
    /\ result' = IF Depth \in src THEN "canceled" ELSE inner
    /\ pc' = [pc EXCEPT !.at = "unwind"]
    /\ UNCHANGED <<threads, src, cb, timer, expired, inner, seen>>

\* Mutant: the parent's stop is not told from the deadline.
IsTimeout_bug(s, ec) == s.fired /\ ec = "canceled"
IsTimeout(s, ec) == s.fired /\ ~s.parent /\ ec = "canceled"
destroy_parent_cb(i) == [cb EXCEPT ![i] = "none"]
\* request_stop, destroy_parent_cb (which waits for a callback that is
\* running), then the level's verdict
Unwind ==
    LET i == pc.level
    IN  /\ pc.at = "unwind" /\ cb[i] # "running"
        /\ src' = src \cup {i}
        /\ cb' = destroy_parent_cb(i)
        /\ result' = IF IsTimeout(seen[i], result) THEN "timeout" ELSE result
        /\ pc' = IF i > 1 THEN [pc EXCEPT !.level = i - 1] ELSE [at |-> "done", level |-> 0]
        /\ UNCHANGED <<threads, timer, expired, inner, seen>>

TimeoutNext ==
    \/ SuspendLevel \/ StartInner \/ InnerEnds \/ ParentStops
    \/ \E i \in Levels : \/ ForwardBegins(i) \/ ForwardEnds(i)
                         \/ TimerDue(i) \/ TimerCanceled(i) \/ make_timeout(i)
    \/ ResumeBegins \/ ReadParent \/ ReadFired \/ InnerResult \/ Unwind

TimeoutSpec == TimeoutInit /\ [][TimeoutNext]_toVars

-----------------------------------------------------------------------------
(* Properties.                                                             *)

\* With one thread the verdict blames the right party, at any nesting: a
\* timeout means that some deadline passed, a cancellation that the caller
\* asked for it, and without either the operation's own result comes back.
TimeoutBlames ==
    pc.at = "done" /\ ~threads =>
        /\ result = "timeout" => expired # {}
        /\ result = "canceled" => 0 \in src
        /\ 0 \notin src /\ expired = {} => result = inner

\* Whatever the interleaving, when the coroutine goes on no callback refers to
\* the awaitable any more (destroy_parent_cb), and every level's source is
\* stopped, so that no timer coroutine stays behind waiting.
TimeoutTidy ==
    pc.at = "done" => /\ \A i \in Levels : cb[i] = "none" /\ i \in src
                      /\ result \in Outcomes \ {"none"}

\* "so fired && !parent identifies a timeout": await_resume reports a timeout
\* only when a deadline has passed.
TimeoutMeansDeadline ==
    pc.at = "done" /\ result = "timeout" => expired # {}

(***************************************************************************)
(* However the operation, the deadlines and the parent's stop interleave,  *)
(* timeout() blames the right party (one thread, TimeoutBlames) and leaves *)
(* no callback or timer behind (TimeoutTidy).                              *)
(***************************************************************************)
TimeoutRight ==
    /\ TimeoutBlames
    /\ TimeoutTidy
=============================================================================
