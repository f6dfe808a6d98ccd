----------------------------- MODULE TcpServer -----------------------------
(***************************************************************************)
(* tcp_server: one accept loop per bound port, a pool of workers kept in   *)
(* an idle list and an active list that thread through the same pointers,  *)
(* accept loops that wait for a free worker, and the cycle of start, stop, *)
(* join and start again.  The server's coroutines run on an executor that  *)
(* runs one at a time; a step is what one of them does between two         *)
(* suspensions.  Workers run on executors of their own.                    *)
(***************************************************************************)
EXTENDS Naturals, Sequences, FiniteSets, SequencesExt

CONSTANTS Workers, Ports,
          Nil,            \* the null pointer
          MaxSessions,    \* calls of start()
          MaxAccepts      \* accepts that end with a connection or an error

ServerAssumption == Nil \notin Workers /\ {MaxSessions, MaxAccepts} \subseteq Nat
ASSUME ServerAssumption

VARIABLES
    next_, prev_,               \* worker_base's links
    idle_head_, active_head_, active_tail_,
    waiters_,                   \* accept loops that wait for a worker, newest first
    loop,                       \* where each do_accept is
    given,                      \* the worker each do_accept has
    accept_stop,                \* impl_->stop was requested
    running_, active_accepts_,
    worker,                     \* where each worker is
    stop_,                      \* each worker's stop source was requested
    do_stop_posted,
    sessions, accepts

lists   == <<next_, prev_, idle_head_, active_head_, active_tail_>>
srvVars == <<lists, waiters_, loop, given, accept_stop, running_, active_accepts_,
             worker, stop_, do_stop_posted, sessions, accepts>>

\* the workers on the way from head along the links f; one more than there
\* are workers ends the walk
RECURSIVE Walk(_, _, _)
Walk(f, p, fuel) == IF p = Nil \/ fuel = 0 THEN <<>> ELSE <<p>> \o Walk(f, f[p], fuel - 1)
Chain(f, p) == Walk(f, p, Cardinality(Workers) + 1)

-----------------------------------------------------------------------------
(* The lists.  L is the record of the five pieces of a list state.         *)

ListsNow == [next |-> next_, prev |-> prev_, idle |-> idle_head_,
             head |-> active_head_, tail |-> active_tail_]
SetLists(L) ==
    /\ next_' = L.next /\ prev_' = L.prev /\ idle_head_' = L.idle
    /\ active_head_' = L.head /\ active_tail_' = L.tail

idle_push(L, w) == [L EXCEPT !.next[w] = L.idle, !.idle = w]
idle_pop(L) == [L EXCEPT !.idle = L.next[L.idle]]

active_push(L, w) ==
    [L EXCEPT !.next = IF L.tail = Nil THEN [@ EXCEPT ![w] = Nil]
                       ELSE [@ EXCEPT ![w] = Nil, ![L.tail] = w],
              !.prev[w] = L.tail,
              !.head = IF L.tail = Nil THEN w ELSE @,
              !.tail = w]

unmark(prev, w) == [prev EXCEPT ![w] = Nil]
\* a worker that is not in the active list has no prev_ and is not its head
active_remove(L, w) ==
    IF w # L.head /\ L.prev[w] = Nil THEN L
    ELSE LET nx == L.next[w]   pv == L.prev[w]
         IN  [L EXCEPT !.next = IF pv = Nil THEN @ ELSE [@ EXCEPT ![pv] = nx],
                       !.head = IF pv = Nil THEN nx ELSE @,
                       !.prev = unmark(IF nx = Nil THEN @ ELSE [@ EXCEPT ![nx] = pv], w),
                       !.tail = IF nx = Nil THEN pv ELSE @]

-----------------------------------------------------------------------------
ServerInit ==
    /\ LET order == CHOOSE s \in [1..Cardinality(Workers) -> Workers] : IsInjective(s)
           n == Cardinality(Workers)
       IN  /\ next_ = [w \in Workers |-> LET i == CHOOSE i \in 1..n : order[i] = w
                                         IN  IF i = n THEN Nil ELSE order[i + 1]]
           /\ idle_head_ = order[1]
    /\ prev_ = [w \in Workers |-> Nil] /\ active_head_ = Nil /\ active_tail_ = Nil
    /\ waiters_ = <<>> /\ loop = [p \in Ports |-> "none"] /\ given = [p \in Ports |-> Nil]
    /\ accept_stop = FALSE /\ running_ = FALSE /\ active_accepts_ = 0
    /\ worker = [w \in Workers |-> "idle"] /\ stop_ = [w \in Workers |-> FALSE]
    /\ do_stop_posted = FALSE /\ sessions = 0 /\ accepts = 0

HandsOver == waiters_ # <<>>
Push(L, w, loops) ==
    IF HandsOver
    THEN /\ SetLists(active_remove(L, w))
         /\ waiters_' = Tail(waiters_)
         /\ given' = [given EXCEPT ![Head(waiters_)] = w]
         /\ loop' = [loops EXCEPT ![Head(waiters_)] = "woken"]
         /\ worker' = [worker EXCEPT ![w] = "held"]
    ELSE /\ SetLists(idle_push(active_remove(L, w), w))
         /\ worker' = [worker EXCEPT ![w] = "idle"]
         /\ loop' = loops
         /\ UNCHANGED <<waiters_, given>>

-----------------------------------------------------------------------------
(* do_accept.                                                              *)

\* the head of the loop: the stop token, then pop().  The coroutine that
\* leaves decrements the count of accept loops.
LoopTurn(p) ==
    /\ loop[p] = "turn"
    /\ \/ /\ accept_stop
          /\ loop' = [loop EXCEPT ![p] = "none"] /\ active_accepts_' = active_accepts_ - 1
          /\ UNCHANGED <<lists, waiters_, given, worker>>
       \/ /\ ~accept_stop /\ idle_head_ # Nil
          /\ SetLists(idle_pop(ListsNow))
          /\ given' = [given EXCEPT ![p] = idle_head_]
          /\ worker' = [worker EXCEPT ![idle_head_] = "held"]
          /\ loop' = [loop EXCEPT ![p] = "accepting"]
          /\ UNCHANGED <<waiters_, active_accepts_>>
       \/ /\ ~accept_stop /\ idle_head_ = Nil
          /\ waiters_' = <<p>> \o waiters_
          /\ loop' = [loop EXCEPT ![p] = "waiting"]
          /\ UNCHANGED <<lists, given, worker, active_accepts_>>
    /\ UNCHANGED <<accept_stop, running_, stop_, do_stop_posted, sessions, accepts>>

\* pop() resumes with the worker it was handed; the accept begins
LoopWoken(p) ==
    /\ loop[p] = "woken"
    /\ loop' = [loop EXCEPT ![p] = "accepting"]
    /\ UNCHANGED <<lists, waiters_, given, accept_stop, running_, active_accepts_,
                   worker, stop_, do_stop_posted, sessions, accepts>>

\* the accept failed, or its token was stopped: the worker goes back
AcceptFails(p) ==
    /\ loop[p] = "accepting"
    /\ IF accept_stop THEN UNCHANGED accepts
       ELSE accepts < MaxAccepts /\ accepts' = accepts + 1
    /\ Push(ListsNow, given[p], [loop EXCEPT ![p] = "turn"])
    /\ UNCHANGED <<accept_stop, running_, active_accepts_, stop_, do_stop_posted, sessions>>

\* w.run(launcher): the launcher puts the worker in the active list with a
\* fresh stop source and posts its coroutine
Launch(p) ==
    LET w == given[p]
    IN  /\ loop[p] = "accepting" /\ ~accept_stop
        /\ accepts < MaxAccepts /\ accepts' = accepts + 1
        /\ SetLists(active_push(ListsNow, w))
        /\ worker' = [worker EXCEPT ![w] = "running"]
        /\ stop_' = [stop_ EXCEPT ![w] = FALSE]
        /\ loop' = [loop EXCEPT ![p] = "turn"]
        /\ UNCHANGED <<waiters_, given, accept_stop, running_, active_accepts_,
                       do_stop_posted, sessions>>

\* ~launcher: run() came back without launching
NotLaunched(p) ==
    /\ loop[p] = "accepting" /\ ~accept_stop
    /\ accepts < MaxAccepts /\ accepts' = accepts + 1
    /\ Push(ListsNow, given[p], [loop EXCEPT ![p] = "turn"])
    /\ UNCHANGED <<accept_stop, running_, active_accepts_, stop_, do_stop_posted, sessions>>

-----------------------------------------------------------------------------
(* The workers: launch_coro awaits the task, then push() hops to the       *)
(* server's executor.                                                      *)

WorkerEnds(w) ==
    /\ worker[w] = "running"
    /\ worker' = [worker EXCEPT ![w] = "returning"]
    /\ UNCHANGED <<lists, waiters_, loop, given, accept_stop, running_, active_accepts_,
                   stop_, do_stop_posted, sessions, accepts>>

WorkerReturns(w) ==
    /\ worker[w] = "returning"
    /\ Push(ListsNow, w, loop)
    /\ UNCHANGED <<accept_stop, running_, active_accepts_, stop_, do_stop_posted,
                   sessions, accepts>>

-----------------------------------------------------------------------------
(* start(), stop(), join().                                                *)

\* start() throws unless the previous session has ended
server_start ==
    /\ ~running_ /\ active_accepts_ = 0 /\ sessions < MaxSessions
    /\ running_' = TRUE /\ accept_stop' = FALSE
    /\ active_accepts_' = Cardinality(Ports)
    /\ loop' = [p \in Ports |-> "turn"]
    /\ sessions' = sessions + 1
    /\ UNCHANGED <<lists, waiters_, given, worker, stop_, do_stop_posted, accepts>>

server_stop ==
    /\ running_
    /\ running_' = FALSE /\ accept_stop' = TRUE /\ do_stop_posted' = TRUE
    /\ UNCHANGED <<lists, waiters_, loop, given, active_accepts_, worker, stop_,
                   sessions, accepts>>

\* Mutant: the walk ends before the last worker.
Walked_bug == Range(Chain(next_, active_head_)) \ {active_tail_}
\* the workers that do_stop finds from active_head_ on
Walked == Range(Chain(next_, active_head_))
do_stop ==
    /\ do_stop_posted /\ do_stop_posted' = FALSE
    /\ stop_' = [w \in Workers |-> stop_[w] \/ w \in Walked]
    /\ UNCHANGED <<lists, waiters_, loop, given, accept_stop, running_, active_accepts_,
                   worker, sessions, accepts>>

ServerNext ==
    \/ \E p \in Ports : \/ LoopTurn(p) \/ LoopWoken(p) \/ AcceptFails(p) \/ Launch(p)
                        \/ NotLaunched(p)
    \/ \E w \in Workers : WorkerEnds(w) \/ WorkerReturns(w)
    \/ server_start \/ server_stop \/ do_stop

ServerSpec == ServerInit /\ [][ServerNext]_srvVars

-----------------------------------------------------------------------------
(* Properties.                                                             *)

\* The two lists that share next_ hold each worker where it is: following the
\* links from idle_head_ gives the idle workers, each once, and from
\* active_head_ the running ones, the same backwards from active_tail_; a
\* worker in no active list has no prev_, which is how active_remove tells.
WorkerLists ==
    LET idle   == Chain(next_, idle_head_)
        active == Chain(next_, active_head_)
    IN  /\ Range(idle) = {w \in Workers : worker[w] = "idle"} /\ IsInjective(idle)
        /\ Range(active) = {w \in Workers : worker[w] \in {"running", "returning"}}
        /\ IsInjective(active)
        /\ Chain(prev_, active_tail_) = Reverse(active)
        /\ \A w \in Workers : w \notin Range(active) => prev_[w] = Nil

\* A worker serves one accept loop at a time, and no loop waits while a worker
\* is idle (push_awaitable hands a worker to a waiter first).
WorkerOwned ==
    /\ \A p, q \in Ports : /\ loop[p] \in {"accepting", "woken"}
                           /\ loop[q] \in {"accepting", "woken"} /\ p # q
                           => given[p] # given[q]
    /\ \A p \in Ports : loop[p] \in {"accepting", "woken"} => worker[given[p]] = "held"
    /\ waiters_ # <<>> => idle_head_ = Nil

\* After stop() every worker that is still running was asked to stop (do_stop
\* walks the active list once), and once the workers that were asked have
\* ended nothing keeps join() waiting: a loop that waits in pop() is woken by
\* the last worker that comes back.
StopDrains ==
    sessions > 0 /\ ~running_ /\ ~do_stop_posted =>
        /\ \A w \in Workers : worker[w] = "running" => stop_[w]
        /\ (\A w \in Workers : worker[w] \notin {"running", "returning"})
             /\ (\A p \in Ports : loop[p] \notin {"turn", "woken", "accepting"})
           => active_accepts_ = 0

(***************************************************************************)
(* tcp_server's intrusive lists, its accept loops and stop(): a worker is  *)
(* in the one list that its state calls for, serves one loop at a time, is *)
(* asked to stop when the server stops, and join() is not kept waiting by  *)
(* a loop that nobody wakes.                                               *)
(***************************************************************************)
ServerSound ==
    /\ WorkerLists
    /\ WorkerOwned
    /\ StopDrains
=============================================================================
