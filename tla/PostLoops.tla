------------------------------ MODULE PostLoops ------------------------------
(***************************************************************************)
(* The programs of perf/ that post coroutines and run them: the io_context *)
(* benchmarks and the profiler workloads.  A program is one script per     *)
(* thread; the main thread forks the others and joins them.  The io_context *)
(* is what these programs see of it: a queue, the count of outstanding     *)
(* work, and the stopped flag that the last completion sets and that       *)
(* restart() clears.  ReactorScheduler models it in full.                  *)
(***************************************************************************)
EXTENDS Integers, Sequences

CONSTANTS
    Threads,    \* threads of a program that runs on several
    Batch,      \* coroutines posted at a time
    MaxPosted   \* coroutines posted before the deadline comes

VARIABLES
    program,    \* the program that runs
    over,       \* the deadline has passed
    going,      \* the program's own running flag
    step,         \* the instruction each thread is at; 0 when it is not alive
    phase,      \* where it is inside run() or poll(): "out" when in neither
    queue,      \* coroutines waiting to run
    work,       \* outstanding_work_
    halted,     \* stopped_
    posted      \* coroutines posted so far

postVars == <<program, over, going, step, phase, queue, work, halted, posted>>

Main == 0

-----------------------------------------------------------------------------
\* Instructions.

Until(to) == [op |-> "until", to |-> to]   \* goes on while the clock allows
While(to) == [op |-> "while", to |-> to]   \* goes on while the flag is up
Post == [op |-> "post"]                    \* posts a batch
Poll == [op |-> "poll"]
Run == [op |-> "run"]
Restart == [op |-> "restart"]
Clear == [op |-> "clear"]                  \* takes the flag down
Back(to) == [op |-> "back", to |-> to]
ForkAll == [op |-> "fork"]
JoinAll == [op |-> "join"]

\* A program: the script of each thread, whether all it posts has run by the
\* time it reports its count, and whether it says that it drains the queue.
Program(main, others, counts) ==
    [script |-> [t \in {Main} \cup DOMAIN others |-> IF t = Main THEN main ELSE others[t]],
     counts |-> counts, drains |-> FALSE]

Alone == [t \in {} |-> <<>>]
All(script) == [t \in 1..Threads |-> script]

-----------------------------------------------------------------------------
\* io_context benchmarks: of corosio, and of Boost.Asio's coroutines and
\* callbacks.  The variants differ in the options of the context.

PostPollRestart == <<Until(6), Post, Poll, Restart, Back(1), Run>>

single_threaded_post == Program(PostPollRestart, Alone, TRUE)
interleaved_post_run == Program(PostPollRestart, Alone, TRUE)
high_inline_budget == Program(PostPollRestart, Alone, TRUE)
large_event_buffer == Program(PostPollRestart, Alone, TRUE)
single_threaded_lockless == Program(PostPollRestart, Alone, TRUE)
interleaved_lockless == Program(PostPollRestart, Alone, TRUE)
asio_single_threaded_post == Program(PostPollRestart, Alone, TRUE)
asio_interleaved_post_run == Program(PostPollRestart, Alone, TRUE)
asio_single_threaded_lockless == Program(PostPollRestart, Alone, TRUE)
asio_interleaved_lockless == Program(PostPollRestart, Alone, TRUE)
callback_single_threaded_post == Program(PostPollRestart, Alone, TRUE)
callback_interleaved_post_run == Program(PostPollRestart, Alone, TRUE)
callback_single_threaded_lockless == Program(PostPollRestart, Alone, TRUE)
callback_interleaved_lockless == Program(PostPollRestart, Alone, TRUE)

\* A feeder posts until the deadline; the other threads poll.
feeder == <<Until(4), Post, Back(1), Clear>>
runner == <<While(5), Poll, Restart, Back(1), Run>>
Scaling == Program(<<Post, ForkAll, JoinAll>>,
                   [t \in 1..Threads |-> IF t = 1 THEN feeder ELSE runner], FALSE)

multithreaded_scaling == Scaling
asio_multithreaded_scaling == Scaling
callback_multithreaded_scaling == Scaling

\* Every thread posts and polls; the timer thread is the main thread here.
post_and_run == <<While(6), Post, Poll, Restart, Back(1), Run>>
PostAndRun == Program(<<ForkAll, Until(4), Back(2), Clear, JoinAll>>, All(post_and_run), FALSE)

concurrent_post_run == PostAndRun
asio_concurrent_post_run == PostAndRun
callback_concurrent_post_run == PostAndRun

-----------------------------------------------------------------------------
\* Profiler workloads.

coroutine_post_workload == Program(<<Until(6), Post, Poll, Restart, Back(1)>>, Alone, TRUE)
coroutine_post_warmup == Program(<<Until(6), Post, Poll, Restart, Back(1)>>, Alone, TRUE)
queue_depth_warmup == Program(<<Until(6), Post, Poll, Restart, Back(1)>>, Alone, TRUE)
queue_depth_one == Program(<<Until(6), Post, Run, Restart, Back(1)>>, Alone, TRUE)
queue_depth_workload ==
    Program(<<Until(7), Post, ForkAll, JoinAll, Restart, Back(1)>>, All(<<Run>>), TRUE)

\* The contention workloads poll and never restart; the last one ends with a
\* poll() of the main thread that its comment calls a drain.
balanced_worker == <<While(5), Post, Poll, Back(1)>>
balanced_workload ==
    Program(<<ForkAll, While(7), Post, Poll, Until(7), Back(2), Clear, JoinAll>>,
            All(balanced_worker), FALSE)
contention_warmup ==
    Program(<<ForkAll, While(7), Post, Poll, Until(7), Back(2), Clear, JoinAll>>,
            All(balanced_worker), FALSE)

post_only_worker == <<While(4), Post, Back(1)>>
post_only_runner == <<While(4), Poll, Back(1), Poll>>
post_only_workload ==
    Program(<<ForkAll, While(6), Post, Until(6), Back(2), Clear, JoinAll>>,
            [t \in 1..Threads |-> IF t = 1 THEN post_only_runner ELSE post_only_worker],
            FALSE)

run_only_worker == <<While(4), Poll, Back(1)>>
run_only_workload ==
    [Program(<<Post, ForkAll, While(7), Post, Until(7), Back(3), Clear, JoinAll, Poll>>,
             All(run_only_worker), FALSE) EXCEPT !.drains = TRUE]

Programs ==
    {single_threaded_post, interleaved_post_run, high_inline_budget, large_event_buffer,
     single_threaded_lockless, interleaved_lockless, asio_single_threaded_post,
     asio_interleaved_post_run, asio_single_threaded_lockless, asio_interleaved_lockless,
     callback_single_threaded_post, callback_interleaved_post_run,
     callback_single_threaded_lockless, callback_interleaved_lockless,
     multithreaded_scaling, asio_multithreaded_scaling, callback_multithreaded_scaling,
     concurrent_post_run, asio_concurrent_post_run, callback_concurrent_post_run,
     coroutine_post_workload, coroutine_post_warmup, queue_depth_warmup, queue_depth_one,
     queue_depth_workload, balanced_workload, contention_warmup, post_only_workload,
     run_only_workload}

-----------------------------------------------------------------------------
Team == DOMAIN program.script
Instr(t) == program.script[t][step[t]]
Doing(t, op) == step[t] # 0 /\ phase[t] = "out" /\ Instr(t).op = op
Place(t, k) == IF k > Len(program.script[t]) THEN 0 ELSE k
GoTo(t, k) == step' = [step EXCEPT ![t] = Place(t, k)]
Advance(t) == GoTo(t, step[t] + 1)
Phase(t, p) == phase' = [phase EXCEPT ![t] = p]

PostInit ==
    /\ program \in Programs
    /\ over = FALSE
    /\ going = TRUE
    /\ step = [t \in Team |-> IF t = Main THEN 1 ELSE 0]
    /\ phase = [t \in Team |-> "out"]
    /\ queue = 0
    /\ work = 0
    /\ halted = FALSE
    /\ posted = 0

\* Bound: no lap that posts begins once MaxPosted is reached, save the one in
\* which the main thread notices the deadline.
Affordable(t) ==
    program.script[t][step[t] + 1].op = "post" =>
        posted < MaxPosted \/ (t = Main /\ over)

Tests(t) ==
    /\ \/ /\ Doing(t, "until")
          /\ IF over THEN GoTo(t, Instr(t).to) ELSE Affordable(t) /\ Advance(t)
       \/ /\ Doing(t, "while")
          /\ IF going THEN Affordable(t) /\ Advance(t) ELSE GoTo(t, Instr(t).to)
       \/ Doing(t, "back") /\ GoTo(t, Instr(t).to)
    /\ UNCHANGED <<program, over, going, phase, queue, work, halted, posted>>

Clears(t) ==
    /\ Doing(t, "clear")
    /\ going' = FALSE
    /\ Advance(t)
    /\ UNCHANGED <<program, over, phase, queue, work, halted, posted>>

\* std::thread, and join().
Spawned(t) ==
    /\ \/ /\ Doing(t, "fork")
          /\ step' = [k \in Team |-> IF k = t THEN Place(t, step[t] + 1) ELSE 1]
       \/ /\ Doing(t, "join")
          /\ \A k \in Team \ {t} : step[k] = 0
          /\ Advance(t)
    /\ UNCHANGED <<program, over, going, phase, queue, work, halted, posted>>

run_async(t) ==
    /\ Doing(t, "post")
    /\ queue' = queue + Batch
    /\ work' = work + Batch
    /\ posted' = posted + Batch
    /\ Advance(t)
    /\ UNCHANGED <<program, over, going, phase, halted>>

Restarts(t) ==
    /\ Doing(t, "restart")
    /\ halted' = FALSE
    /\ Advance(t)
    /\ UNCHANGED <<program, over, going, phase, queue, work, posted>>

\* What run() and poll() leave in stopped_ when there is no work.
StopsIdle == TRUE

\* run() and poll(): with no work they stop the context and return; otherwise
\* they take handlers until it is stopped or, for poll(), the queue is empty.
Enters(t) ==
    /\ Doing(t, "poll") \/ Doing(t, "run")
    /\ IF work = 0
       THEN halted' = StopsIdle /\ Advance(t) /\ UNCHANGED phase
       ELSE Phase(t, "loop") /\ UNCHANGED <<halted, step>>
    /\ UNCHANGED <<program, over, going, queue, work, posted>>

Leaves(t) ==
    /\ phase[t] = "loop"
    /\ halted \/ (queue = 0 /\ Instr(t).op = "poll")
    /\ Phase(t, "out")
    /\ Advance(t)
    /\ UNCHANGED <<program, over, going, queue, work, halted, posted>>

TakesHandler(t) ==
    /\ phase[t] = "loop"
    /\ ~halted
    /\ queue > 0
    /\ queue' = queue - 1
    /\ Phase(t, "handler")
    /\ UNCHANGED <<program, over, going, step, work, halted, posted>>

\* Mutant: the count before the subtraction is compared with zero.
work_finished_bug(t) ==
    /\ phase[t] = "handler"
    /\ work' = work - 1
    /\ Phase(t, IF work = 0 THEN "stop" ELSE "loop")
    /\ UNCHANGED <<program, over, going, step, queue, halted, posted>>

\* work_finished(), and the stop() that follows when it was the last.
work_finished(t) ==
    /\ phase[t] = "handler"
    /\ work' = work - 1
    /\ Phase(t, IF work' = 0 THEN "stop" ELSE "loop")
    /\ UNCHANGED <<program, over, going, step, queue, halted, posted>>

Stops(t) ==
    /\ phase[t] = "stop"
    /\ halted' = TRUE
    /\ Phase(t, "loop")
    /\ UNCHANGED <<program, over, going, step, queue, work, posted>>

Elapses ==
    /\ ~over
    /\ over' = TRUE
    /\ UNCHANGED <<program, going, step, phase, queue, work, halted, posted>>

ThreadSteps(t) ==
    \/ Tests(t) \/ Clears(t) \/ Spawned(t) \/ run_async(t) \/ Restarts(t)
    \/ Enters(t) \/ Leaves(t) \/ TakesHandler(t) \/ work_finished(t) \/ Stops(t)

PostNext == Elapses \/ \E t \in Team : ThreadSteps(t)

PostSpec == PostInit /\ [][PostNext]_postVars

-----------------------------------------------------------------------------
\* Thread t waits inside run().
Sleeps(t) == phase[t] = "loop" /\ Instr(t).op = "run" /\ queue = 0 /\ ~halted

\* No thread is left inside run(): as long as a thread waits there, another one
\* is still on its way to stop the context or to post.  restart() by one thread
\* may clear the stop() that was to release the others; the thread that cleared
\* it ends with a run() of its own, which stops the context again.
LoopsReturn ==
    \A t \in Team : Sleeps(t) =>
        \E k \in Team :
            /\ step[k] # 0
            /\ ~Sleeps(k)
            /\ phase[k] = "out" => Instr(k).op # "join"

\* A single-threaded program, and the one that joins its threads before it
\* restarts, has run every coroutine it posted when it reports its count:
\* without restart() the context stays stopped after the first batch.
PostsCounted == program.counts /\ step[Main] = 0 => queue = 0 /\ work = 0

\* "// Drain remaining" (scheduler_contention_bench.cpp:404): the run-only
\* workload has joined its threads when it calls poll() for the last time, and
\* leaves nothing in the queue.
Drained == program.drains /\ step[Main] = 0 => queue = 0

(***************************************************************************)
(* The programs that post and run handlers leave no thread inside run()    *)
(* (LoopsReturn) and count only what has run (PostsCounted), whatever      *)
(* restart() and stop() do to one another.                                 *)
(***************************************************************************)
PostLoopsSound ==
    /\ LoopsReturn
    /\ PostsCounted
=============================================================================
