------------------------------ MODULE Workloads ------------------------------
(***************************************************************************)
(* The benchmark programs of perf/: every benchmark that moves data is a   *)
(* set of coroutines (or, in the Boost.Asio callback versions, of chains   *)
(* of callbacks) on one io_context, a stopper thread that clears the       *)
(* running flag, and a main thread that returns when run() has nothing     *)
(* left to do.  A task is a script; the actions below interpret the        *)
(* scripts.  A step runs a task from one suspension point to the next.     *)
(* The versions of one benchmark that differ in the locking mode of the    *)
(* context or in the address family have the same tasks: their definitions *)
(* are equal, and TLC explores them once.                                  *)
(***************************************************************************)
EXTENDS Integers, Sequences, FiniteSets, TLC

CONSTANTS
    Lanes,      \* connections, parents or loops of a concurrent benchmark
    Fan,        \* children of a single parent
    Subs,       \* children of a group, or of one of several parents
    Capacity,   \* messages a socket buffer holds
    MaxBreaks   \* connections that may fail

VARIABLES
    bench,      \* the benchmark that runs
    running,    \* state::running(), or the benchmark's own flag
    ended,      \* ioc.stop() was called
    at,         \* the instruction each task is at; 0 when it is not alive
    inbox,      \* messages waiting to be read at each socket
    down,       \* sockets that have sent their end-of-file
    shut,       \* closed sockets
    broken,     \* connections that failed
    latch,      \* children that have not arrived, of each latch
    woken,      \* latches whose waker has fired
    parents,    \* parents_done
    backlog     \* connections waiting to be accepted, of each listener

wlVars == <<bench, running, ended, at, inbox, down, shut, broken, latch,
            woken, parents, backlog>>

\* The two ends of connection i.
Client(i) == <<i, 1>>
Server(i) == <<i, 2>>
Other(s) == <<s[1], 3 - s[2]>>

-----------------------------------------------------------------------------
\* Instructions.  "to" is where the task goes when the call fails (0: it
\* returns) or, for Lap, when the benchmark is over.

Lap(to) == [op |-> "lap", to |-> to]
Write(s, to) == [op |-> "write", on |-> s, to |-> to]
Read(s, to) == [op |-> "read", on |-> s, to |-> to]
Jump(to) == [op |-> "jump", to |-> to]
Fork(l, kids) == [op |-> "fork", latch |-> l, kids |-> kids]
JoinWoken(l) == [op |-> "join", latch |-> l]
JoinGuard(l) == [op |-> "guard", latch |-> l]
Arrive(l) == [op |-> "arrive", latch |-> l]
Shutdown(s) == [op |-> "shutdown", on |-> s]
CloseAll(socks) == [op |-> "close", socks |-> socks]
CloseLast(n) == [op |-> "last", of |-> n]
OpenConn(i, to) == [op |-> "open", conn |-> i, to |-> to]
Connect(l, i) == [op |-> "connect", listener |-> l, conn |-> i]
Accept(l, to) == [op |-> "accept", listener |-> l, to |-> to]

\* Task names, and scripts for a set of tasks of one kind.
Task(kind, i) == <<kind, i>>
Tasks(kind, n) == {Task(kind, i) : i \in 1..n}
Each(kind, n, Script(_)) == [t \in Tasks(kind, n) |-> Script(t[2])]
EndsOf(n) == {Client(i) : i \in 1..n} \cup {Server(i) : i \in 1..n}

Bench(conns, tasks, first) ==
    [conns |-> conns, tasks |-> tasks, first |-> first, halts |-> FALSE, cancels |-> FALSE]

-----------------------------------------------------------------------------
\* Fan-out: a parent forks requests to echo servers and joins them.

echo_server(s) == <<Read(s, 0), Write(s, 0), Jump(1)>>


sub_request(s, l) == <<Write(s, 3), Read(s, 3), Arrive(l)>>

asio_sub_request(s, l) == <<Write(s, 3), Read(s, 3), Arrive(l)>>

callback_sub_request(s, l) == <<Write(s, 3), Read(s, 3), Arrive(l)>>

asio_echo_server(s) == <<Read(s, 0), Write(s, 0), Jump(1)>>

callback_echo_server(s) == <<Read(s, 0), Write(s, 0), Jump(1)>>

\* The tasks of a fork-join benchmark: JoinOp is how the parent waits.
ForkJoin(Echo(_), Sub(_, _), JoinOp(_)) ==
    LET l == Task("parent", 1)
        parent == <<Lap(5), Fork(l, Tasks("sub", Fan)), JoinOp(l), Jump(1), CloseAll(EndsOf(Fan))>>
        EchoOf(i) == Echo(Server(i))
        SubOf(i) == Sub(Client(i), l)
    IN  Bench(Fan, (l :> parent) @@ Each("echo", Fan, EchoOf) @@ Each("sub", Fan, SubOf),
              {l} \cup Tasks("echo", Fan))

\* Two levels: the parent forks groups, each group its own requests.
SubsOf(g) == {Task("sub", (g - 1) * Subs + i) : i \in 1..Subs}
GroupIndex(i) == (i - 1) \div Subs + 1

Nested(Echo(_), Sub(_, _), JoinOp(_)) ==
    LET l == Task("parent", 1)
        n == Lanes * Subs
        parent == <<Lap(5), Fork(l, Tasks("group", Lanes)), JoinOp(l), Jump(1), CloseAll(EndsOf(n))>>
        GroupOf(g) == <<Fork(Task("group", g), SubsOf(g)), JoinOp(Task("group", g)), Arrive(l)>>
        EchoOf(i) == Echo(Server(i))
        SubOf(i) == Sub(Client(i), Task("group", GroupIndex(i)))
    IN  Bench(n, (l :> parent) @@ Each("group", Lanes, GroupOf) @@ Each("echo", n, EchoOf)
                 @@ Each("sub", n, SubOf),
              {l} \cup Tasks("echo", n))

\* Independent parents; the last one to finish closes every socket.
Parents(Echo(_), Sub(_, _), JoinOp(_)) ==
    LET n == Lanes * Subs
        ParentOf(p) == <<Lap(5), Fork(Task("parent", p), SubsOf(p)),
                         JoinOp(Task("parent", p)), Jump(1), CloseLast(Lanes)>>
        EchoOf(i) == Echo(Server(i))
        SubOf(i) == Sub(Client(i), Task("parent", GroupIndex(i)))
    IN  Bench(n, Each("parent", Lanes, ParentOf) @@ Each("echo", n, EchoOf)
                 @@ Each("sub", n, SubOf),
              Tasks("parent", Lanes) \cup Tasks("echo", n))

fork_join == ForkJoin(echo_server, sub_request, JoinWoken)
fork_join_lockless == ForkJoin(echo_server, sub_request, JoinWoken)
nested == Nested(echo_server, sub_request, JoinWoken)
nested_lockless == Nested(echo_server, sub_request, JoinWoken)
concurrent_parents == Parents(echo_server, sub_request, JoinWoken)
concurrent_parents_lockless == Parents(echo_server, sub_request, JoinWoken)

asio_fork_join == ForkJoin(asio_echo_server, asio_sub_request, JoinGuard)
asio_fork_join_lockless == ForkJoin(asio_echo_server, asio_sub_request, JoinGuard)
asio_nested == Nested(asio_echo_server, asio_sub_request, JoinGuard)
asio_nested_lockless == Nested(asio_echo_server, asio_sub_request, JoinGuard)
asio_concurrent_parents == Parents(asio_echo_server, asio_sub_request, JoinGuard)
asio_concurrent_parents_lockless == Parents(asio_echo_server, asio_sub_request, JoinGuard)

\* The callback versions go on from the callback of the last child.
fork_join_op == ForkJoin(callback_echo_server, callback_sub_request, JoinWoken)
nested_op == Nested(callback_echo_server, callback_sub_request, JoinWoken)
parent_fork_join_op == Parents(callback_echo_server, callback_sub_request, JoinWoken)
callback_fork_join == fork_join_op
callback_fork_join_lockless == fork_join_op
callback_nested == nested_op
callback_nested_lockless == nested_op
callback_concurrent_parents == parent_fork_join_op
callback_concurrent_parents_lockless == parent_fork_join_op

FanOutBenches ==
    {fork_join, fork_join_lockless, nested, nested_lockless, concurrent_parents,
     concurrent_parents_lockless, asio_fork_join, asio_fork_join_lockless, asio_nested,
     asio_nested_lockless, asio_concurrent_parents, asio_concurrent_parents_lockless,
     callback_fork_join, callback_fork_join_lockless, callback_nested,
     callback_nested_lockless, callback_concurrent_parents,
     callback_concurrent_parents_lockless}

-----------------------------------------------------------------------------
\* Ping-pong: one task writes and reads both ends of its connection.

pingpong_client_task(c, s) ==
    <<Lap(7), Write(c, 0), Read(s, 0), Write(s, 0), Read(c, 0), Jump(1), Shutdown(c)>>

unix_pingpong_client_task(c, s) ==
    <<Lap(7), Write(c, 0), Read(s, 0), Write(s, 0), Read(c, 0), Jump(1), Shutdown(c)>>

asio_pingpong_client_task(c, s) ==
    <<Lap(7), Write(c, 0), Read(s, 0), Write(s, 0), Read(c, 0), Jump(1), Shutdown(c)>>

asio_unix_pingpong_client_task(c, s) ==
    <<Lap(7), Write(c, 0), Read(s, 0), Write(s, 0), Read(c, 0), Jump(1), Shutdown(c)>>

pingpong_op(c, s) ==
    <<Lap(7), Write(c, 0), Read(s, 0), Write(s, 0), Read(c, 0), Jump(1), Shutdown(c)>>

unix_pingpong_op(c, s) ==
    <<Lap(7), Write(c, 0), Read(s, 0), Write(s, 0), Read(c, 0), Jump(1), Shutdown(c)>>

PingPong(n, Pong(_, _)) ==
    LET PongOf(i) == Pong(Client(i), Server(i))
    IN  Bench(n, Each("pong", n, PongOf), Tasks("pong", n))

pingpong_latency == PingPong(1, pingpong_client_task)
pingpong_latency_lockless == PingPong(1, pingpong_client_task)
concurrent_latency == PingPong(Lanes, pingpong_client_task)
concurrent_latency_lockless == PingPong(Lanes, pingpong_client_task)
unix_pingpong_latency == PingPong(1, unix_pingpong_client_task)
unix_pingpong_latency_lockless == PingPong(1, unix_pingpong_client_task)
unix_concurrent_latency == PingPong(Lanes, unix_pingpong_client_task)
unix_concurrent_latency_lockless == PingPong(Lanes, unix_pingpong_client_task)
asio_pingpong_latency == PingPong(1, asio_pingpong_client_task)
asio_pingpong_latency_lockless == PingPong(1, asio_pingpong_client_task)
asio_concurrent_latency == PingPong(Lanes, asio_pingpong_client_task)
asio_concurrent_latency_lockless == PingPong(Lanes, asio_pingpong_client_task)
asio_unix_pingpong_latency == PingPong(1, asio_unix_pingpong_client_task)
asio_unix_pingpong_latency_lockless == PingPong(1, asio_unix_pingpong_client_task)
asio_unix_concurrent_latency == PingPong(Lanes, asio_unix_pingpong_client_task)
asio_unix_concurrent_latency_lockless == PingPong(Lanes, asio_unix_pingpong_client_task)
callback_pingpong_latency == PingPong(1, pingpong_op)
callback_pingpong_latency_lockless == PingPong(1, pingpong_op)
callback_concurrent_latency == PingPong(Lanes, pingpong_op)
callback_concurrent_latency_lockless == PingPong(Lanes, pingpong_op)
callback_unix_pingpong_latency == PingPong(1, unix_pingpong_op)
callback_unix_pingpong_latency_lockless == PingPong(1, unix_pingpong_op)
callback_unix_concurrent_latency == PingPong(Lanes, unix_pingpong_op)
callback_unix_concurrent_latency_lockless == PingPong(Lanes, unix_pingpong_op)

\* The profiler workloads send one way only, run the context in slices from
\* the main thread, and at the end cancel what is pending and drain it.
ping_pong(c, s) == <<Lap(0), Write(c, 0), Read(s, 0), Jump(1)>>
small_io_workload == [PingPong(Lanes, ping_pong) EXCEPT !.cancels = TRUE]
small_io_warmup == [PingPong(1, ping_pong) EXCEPT !.cancels = TRUE]
concurrent_io_workload == [PingPong(Lanes, ping_pong) EXCEPT !.cancels = TRUE]
concurrent_io_warmup == [PingPong(1, ping_pong) EXCEPT !.cancels = TRUE]

LatencyBenches ==
    {pingpong_latency, pingpong_latency_lockless, concurrent_latency,
     concurrent_latency_lockless, unix_pingpong_latency, unix_pingpong_latency_lockless,
     unix_concurrent_latency, unix_concurrent_latency_lockless, asio_pingpong_latency,
     asio_pingpong_latency_lockless, asio_concurrent_latency,
     asio_concurrent_latency_lockless, asio_unix_pingpong_latency,
     asio_unix_pingpong_latency_lockless, asio_unix_concurrent_latency,
     asio_unix_concurrent_latency_lockless, callback_pingpong_latency,
     callback_pingpong_latency_lockless, callback_concurrent_latency,
     callback_concurrent_latency_lockless, callback_unix_pingpong_latency,
     callback_unix_pingpong_latency_lockless, callback_unix_concurrent_latency,
     callback_unix_concurrent_latency_lockless, small_io_workload, small_io_warmup,
     concurrent_io_workload, concurrent_io_warmup}

-----------------------------------------------------------------------------
\* Throughput: writers that never wait for an answer, and readers that read
\* until the end of file.  The coroutines of corosio shut the connection down
\* after a failed write too; those of Boost.Asio just return.

WriteTask(s) == <<Lap(4), Write(s, 4), Jump(1), Shutdown(s)>>
asio_write_task(s) == <<Lap(4), Write(s, 0), Jump(1), Shutdown(s)>>
read_task(s) == <<Read(s, 0), Jump(1)>>

mt_write_coro(s) == WriteTask(s)
mt_read_coro(s) == read_task(s)
asio_mt_write_coro(s) == asio_write_task(s)
asio_mt_read_coro(s) == read_task(s)
write_op(s) == asio_write_task(s)
read_op(s) == read_task(s)
unix_write_op(s) == asio_write_task(s)
unix_read_op(s) == read_task(s)
mt_write_op(s) == asio_write_task(s)
mt_read_op(s) == read_task(s)

OneWay(W(_), R(_)) ==
    Bench(1, (Task("write", 1) :> W(Client(1))) @@ (Task("read", 1) :> R(Server(1))),
          {Task("write", 1), Task("read", 1)})

\* Both directions on each of n connections: tasks 2i-1 and 2i share one.
BothWays(n, W(_), R(_)) ==
    LET EndOf(k) == IF k % 2 = 1 THEN Client((k + 1) \div 2) ELSE Server(k \div 2)
        WriteOf(k) == W(EndOf(k))
        ReadOf(k) == R(EndOf(k))
    IN  Bench(n, Each("write", 2 * n, WriteOf) @@ Each("read", 2 * n, ReadOf),
              Tasks("write", 2 * n) \cup Tasks("read", 2 * n))

throughput == OneWay(WriteTask, read_task)
throughput_lockless == OneWay(WriteTask, read_task)
bidirectional_throughput == BothWays(1, WriteTask, read_task)
bidirectional_throughput_lockless == BothWays(1, WriteTask, read_task)
multithread_throughput == BothWays(1, mt_write_coro, mt_read_coro)
unix_throughput == OneWay(WriteTask, read_task)
unix_throughput_lockless == OneWay(WriteTask, read_task)
unix_bidirectional_throughput == BothWays(1, WriteTask, read_task)
unix_bidirectional_throughput_lockless == BothWays(1, WriteTask, read_task)
asio_throughput == OneWay(asio_write_task, read_task)
asio_throughput_lockless == OneWay(asio_write_task, read_task)
asio_bidirectional_throughput == BothWays(1, asio_write_task, read_task)
asio_bidirectional_throughput_lockless == BothWays(1, asio_write_task, read_task)
asio_multithread_throughput == BothWays(1, asio_mt_write_coro, asio_mt_read_coro)
asio_unix_throughput == OneWay(asio_write_task, read_task)
asio_unix_throughput_lockless == OneWay(asio_write_task, read_task)
asio_unix_bidirectional_throughput == BothWays(1, asio_write_task, read_task)
asio_unix_bidirectional_throughput_lockless == BothWays(1, asio_write_task, read_task)
callback_throughput == OneWay(write_op, read_op)
callback_throughput_lockless == OneWay(write_op, read_op)
callback_bidirectional_throughput == BothWays(1, write_op, read_op)
callback_bidirectional_throughput_lockless == BothWays(1, write_op, read_op)
callback_multithread_throughput == BothWays(1, mt_write_op, mt_read_op)
callback_unix_throughput == OneWay(unix_write_op, unix_read_op)
callback_unix_throughput_lockless == OneWay(unix_write_op, unix_read_op)
callback_unix_bidirectional_throughput == BothWays(1, unix_write_op, unix_read_op)
callback_unix_bidirectional_throughput_lockless == BothWays(1, unix_write_op, unix_read_op)

ThroughputBenches ==
    {throughput, throughput_lockless, bidirectional_throughput,
     bidirectional_throughput_lockless, multithread_throughput, unix_throughput,
     unix_throughput_lockless, unix_bidirectional_throughput,
     unix_bidirectional_throughput_lockless, asio_throughput, asio_throughput_lockless,
     asio_bidirectional_throughput, asio_bidirectional_throughput_lockless,
     asio_multithread_throughput, asio_unix_throughput, asio_unix_throughput_lockless,
     asio_unix_bidirectional_throughput, asio_unix_bidirectional_throughput_lockless,
     callback_throughput, callback_throughput_lockless, callback_bidirectional_throughput,
     callback_bidirectional_throughput_lockless, callback_multithread_throughput,
     callback_unix_throughput, callback_unix_throughput_lockless,
     callback_unix_bidirectional_throughput, callback_unix_bidirectional_throughput_lockless}

-----------------------------------------------------------------------------
\* HTTP: a request is one message.  A response is two: the socket may take the
\* server's write in parts, and the client reads the body when it did not come
\* with the head.

server_task(s) == <<Read(s, 0), Write(s, 0), Write(s, 0), Jump(1)>>
client_task(c) == <<Lap(6), Write(c, 0), Read(c, 0), Read(c, 0), Jump(1), Shutdown(c)>>
asio_server_task(s) == <<Read(s, 0), Write(s, 0), Write(s, 0), Jump(1)>>
asio_client_task(c) == <<Lap(6), Write(c, 0), Read(c, 0), Read(c, 0), Jump(1), Shutdown(c)>>
server_op(s) == <<Read(s, 0), Write(s, 0), Write(s, 0), Jump(1)>>
client_op(c) == <<Lap(6), Write(c, 0), Read(c, 0), Read(c, 0), Jump(1), Shutdown(c)>>

Http(n, ServerTask(_), ClientTask(_)) ==
    LET ServerOf(i) == ServerTask(Server(i))
        ClientOf(i) == ClientTask(Client(i))
    IN  Bench(n, Each("server", n, ServerOf) @@ Each("client", n, ClientOf),
              Tasks("server", n) \cup Tasks("client", n))

single_connection == Http(1, server_task, client_task)
single_connection_lockless == Http(1, server_task, client_task)
concurrent_connections == Http(Lanes, server_task, client_task)
http_multithread == Http(Lanes, server_task, client_task)
asio_single_connection == Http(1, asio_server_task, asio_client_task)
asio_single_connection_lockless == Http(1, asio_server_task, asio_client_task)
asio_concurrent_connections == Http(Lanes, asio_server_task, asio_client_task)
asio_http_multithread == Http(Lanes, asio_server_task, asio_client_task)
callback_single_connection == Http(1, server_op, client_op)
callback_single_connection_lockless == Http(1, server_op, client_op)
callback_concurrent_connections == Http(Lanes, server_op, client_op)
callback_http_multithread == Http(Lanes, server_op, client_op)

HttpBenches ==
    {single_connection, single_connection_lockless, concurrent_connections,
     http_multithread, asio_single_connection, asio_single_connection_lockless,
     asio_concurrent_connections, asio_http_multithread, callback_single_connection,
     callback_single_connection_lockless, callback_concurrent_connections,
     callback_http_multithread}

-----------------------------------------------------------------------------
\* Accept churn: a lap opens a client, starts a task that connects it, accepts,
\* moves one byte and closes both sockets.  The stopper also stops the context,
\* so that an accept whose connection never comes does not hold the benchmark.
\* The Boost.Asio versions start the lap again when the client does not open;
\* the callback version moves the byte when both sides have completed.

connect_task(i) == <<Connect(i, i)>>

churn_task(i) ==
    <<Lap(0), OpenConn(i, 0), Fork(Task("loop", i), {Task("connect", i)}), Accept(i, 0),
      Write(Client(i), 0), Read(Server(i), 0), CloseAll({Client(i), Server(i)}), Jump(1)>>

asio_churn_task(i) ==
    <<Lap(0), OpenConn(i, 1), Fork(Task("loop", i), {Task("connect", i)}), Accept(i, 0),
      Write(Client(i), 0), Read(Server(i), 0), CloseAll({Client(i), Server(i)}), Jump(1)>>

sequential_churn_op(i) ==
    <<Lap(0), OpenConn(i, 1), Fork(Task("loop", i), {Task("connect", i)}), Accept(i, 0),
      JoinWoken(Task("loop", i)),
      Write(Client(i), 0), Read(Server(i), 0), CloseAll({Client(i), Server(i)}), Jump(1)>>

callback_connect(i) == <<Connect(i, i), Arrive(Task("loop", i))>>

Churn(n, Loop(_), Connector(_)) ==
    [Bench(n, Each("loop", n, Loop) @@ Each("connect", n, Connector), Tasks("loop", n))
        EXCEPT !.halts = TRUE]

\* A burst opens and connects all its clients before it accepts them.
burst_task(to) ==
    <<Lap(0), OpenConn(1, to), OpenConn(2, to),
      Fork(Task("loop", 1), {Task("connect", 1), Task("connect", 2)}),
      Accept(1, 0), Accept(1, 0), CloseAll(EndsOf(2)), Jump(1)>>

burst_connect(i) == <<Connect(1, i)>>

Burst(to) ==
    [Bench(2, (Task("loop", 1) :> burst_task(to)) @@ Each("connect", 2, burst_connect),
           {Task("loop", 1)}) EXCEPT !.halts = TRUE]

burst_churn_op == Burst(1)

sequential_churn == Churn(1, churn_task, connect_task)
sequential_churn_lockless == Churn(1, churn_task, connect_task)
concurrent_churn == Churn(Lanes, churn_task, connect_task)
burst_churn == Burst(0)
burst_churn_lockless == Burst(0)
asio_sequential_churn == Churn(1, asio_churn_task, connect_task)
asio_sequential_churn_lockless == Churn(1, asio_churn_task, connect_task)
asio_concurrent_churn == Churn(Lanes, asio_churn_task, connect_task)
asio_burst_churn == Burst(1)
asio_burst_churn_lockless == Burst(1)
callback_sequential_churn == Churn(1, sequential_churn_op, callback_connect)
callback_sequential_churn_lockless == Churn(1, sequential_churn_op, callback_connect)
callback_concurrent_churn == Churn(Lanes, sequential_churn_op, callback_connect)
callback_burst_churn == burst_churn_op
callback_burst_churn_lockless == burst_churn_op

ChurnBenches ==
    {sequential_churn, sequential_churn_lockless, concurrent_churn, burst_churn,
     burst_churn_lockless, asio_sequential_churn, asio_sequential_churn_lockless,
     asio_concurrent_churn, asio_burst_churn, asio_burst_churn_lockless,
     callback_sequential_churn, callback_sequential_churn_lockless,
     callback_concurrent_churn, callback_burst_churn, callback_burst_churn_lockless}

Benches ==
    FanOutBenches \cup LatencyBenches \cup ThroughputBenches \cup HttpBenches
        \cup ChurnBenches

-----------------------------------------------------------------------------
\* The interpreter.

Script(t) == bench.tasks[t]
Now(t) == Script(t)[at[t]]
Socks == DOMAIN inbox

\* Task t stands at an instruction of kind op, and the context runs.
AtOp(t, op) ==
    /\ ~ended
    /\ at[t] # 0
    /\ Now(t).op = op

Line(t, k) == IF k > Len(Script(t)) THEN 0 ELSE k
MovesTo(t, k) == at' = [at EXCEPT ![t] = Line(t, k)]
GoesOn(t) == MovesTo(t, at[t] + 1)

WriteFails(s) == \/ s \in shut \cup down
                 \/ s[1] \in broken
                 \/ Other(s) \in shut
ReadFails(s) == \/ s \in shut
                \/ s[1] \in broken
                \/ inbox[s] = 0 /\ Other(s) \in down \cup shut
Writable(s) == ~WriteFails(s) /\ inbox[Other(s)] < Capacity
Readable(s) == ~ReadFails(s) /\ inbox[s] > 0

WlInit ==
    /\ bench \in Benches
    /\ running = TRUE
    /\ ended = FALSE
    /\ at = [t \in DOMAIN bench.tasks |-> IF t \in bench.first THEN 1 ELSE 0]
    /\ inbox = [s \in EndsOf(bench.conns) |-> 0]
    /\ down = {}
    /\ shut = {}
    /\ broken = {}
    /\ latch = [t \in DOMAIN bench.tasks |-> 0]
    /\ woken = {}
    /\ parents = 0
    /\ backlog = [i \in 1..bench.conns |-> 0]

\* while (state.running()): a new lap, or the way out.
running_lap(t) ==
    /\ AtOp(t, "lap")
    /\ IF running THEN GoesOn(t) ELSE MovesTo(t, Now(t).to)
    /\ UNCHANGED <<bench, running, ended, inbox, down, shut, broken, latch, woken,
                   parents, backlog>>

Jumps(t) ==
    /\ AtOp(t, "jump")
    /\ MovesTo(t, Now(t).to)
    /\ UNCHANGED <<bench, running, ended, inbox, down, shut, broken, latch, woken,
                   parents, backlog>>

\* A read or a write that succeeds, or fails and goes where the code says.
Writes(t) ==
    /\ AtOp(t, "write")
    /\ \/ /\ Writable(Now(t).on)
          /\ inbox' = [inbox EXCEPT ![Other(Now(t).on)] = @ + 1]
          /\ GoesOn(t)
       \/ /\ WriteFails(Now(t).on)
          /\ MovesTo(t, Now(t).to)
          /\ UNCHANGED inbox
    /\ UNCHANGED <<bench, running, ended, down, shut, broken, latch, woken, parents,
                   backlog>>

Reads(t) ==
    /\ AtOp(t, "read")
    /\ \/ /\ Readable(Now(t).on)
          /\ inbox' = [inbox EXCEPT ![Now(t).on] = @ - 1]
          /\ GoesOn(t)
       \/ /\ ReadFails(Now(t).on)
          /\ MovesTo(t, Now(t).to)
          /\ UNCHANGED inbox
    /\ UNCHANGED <<bench, running, ended, down, shut, broken, latch, woken, parents,
                   backlog>>

\* Forking starts the children with a fresh latch; the last one to arrive wakes
\* the parent.  The corosio benchmarks make the latch anew in every lap, those
\* of Boost.Asio test the counter before they wait.
Forks(t) ==
    /\ AtOp(t, "fork")
    /\ at' = [k \in DOMAIN at |-> CASE k = t -> Line(t, at[t] + 1)
                                     [] k \in Now(t).kids -> 1
                                     [] OTHER -> at[k]]
    /\ latch' = [latch EXCEPT ![Now(t).latch] = Cardinality(Now(t).kids)]
    /\ woken' = woken \ {Now(t).latch}
    /\ UNCHANGED <<bench, running, ended, inbox, down, shut, broken, parents, backlog>>

Joins(t) ==
    /\ \/ AtOp(t, "join") /\ Now(t).latch \in woken
       \/ AtOp(t, "guard") /\ latch[Now(t).latch] = 0
    /\ GoesOn(t)
    /\ UNCHANGED <<bench, running, ended, inbox, down, shut, broken, latch, woken,
                   parents, backlog>>

WakesParent(l) == latch[l] = 1

arrive(t) ==
    /\ AtOp(t, "arrive")
    /\ LET l == Now(t).latch
       IN  /\ latch' = [latch EXCEPT ![l] = @ - 1]
           /\ woken' = IF WakesParent(l) THEN woken \cup {l} ELSE woken
    /\ GoesOn(t)
    /\ UNCHANGED <<bench, running, ended, inbox, down, shut, broken, parents, backlog>>

\* shutdown(send), close() of the lap's sockets, and the close() of every
\* socket by the last parent that finishes.
Shuts(t) ==
    /\ \/ /\ AtOp(t, "shutdown")
          /\ down' = down \cup {Now(t).on}
          /\ UNCHANGED <<shut, parents>>
       \/ /\ AtOp(t, "close")
          /\ shut' = shut \cup Now(t).socks
          /\ UNCHANGED <<down, parents>>
       \/ /\ AtOp(t, "last")
          /\ parents' = parents + 1
          /\ shut' = IF parents' = Now(t).of THEN Socks ELSE shut
          /\ UNCHANGED down
    /\ GoesOn(t)
    /\ UNCHANGED <<bench, running, ended, inbox, broken, latch, woken, backlog>>

\* A lap of a churn benchmark: fresh sockets, the connect, the accept.
Opens(t) ==
    /\ AtOp(t, "open")
    /\ LET i == Now(t).conn
       IN  \/ /\ inbox' = [s \in Socks |-> IF s[1] = i THEN 0 ELSE inbox[s]]
              /\ down' = {s \in down : s[1] # i}
              /\ shut' = {s \in shut : s[1] # i}
              /\ broken' = broken \ {i}
              /\ GoesOn(t)
           \/ /\ Now(t).to # 0
              /\ MovesTo(t, Now(t).to)
              /\ UNCHANGED <<inbox, down, shut, broken>>
    /\ UNCHANGED <<bench, running, ended, latch, woken, parents, backlog>>

Connects(t) ==
    /\ AtOp(t, "connect")
    /\ IF Now(t).conn \in broken
       THEN MovesTo(t, 0) /\ UNCHANGED backlog
       ELSE GoesOn(t) /\ backlog' = [backlog EXCEPT ![Now(t).listener] = @ + 1]
    /\ UNCHANGED <<bench, running, ended, inbox, down, shut, broken, latch, woken, parents>>

Accepts(t) ==
    /\ AtOp(t, "accept")
    /\ backlog[Now(t).listener] > 0
    /\ backlog' = [backlog EXCEPT ![Now(t).listener] = @ - 1]
    /\ GoesOn(t)
    /\ UNCHANGED <<bench, running, ended, inbox, down, shut, broken, latch, woken, parents>>

\* Task t waits in a read or a write.
Waits(t) ==
    \/ AtOp(t, "read") /\ ~Readable(Now(t).on) /\ ~ReadFails(Now(t).on)
    \/ AtOp(t, "write") /\ ~Writable(Now(t).on) /\ ~WriteFails(Now(t).on)

\* The stopper thread: clears the flag, in the churn benchmarks stops the
\* context, in the profiler workloads cancels the sockets: what waits fails.
Stopper ==
    /\ running
    /\ running' = FALSE
    /\ ended' = bench.halts
    /\ at' = [t \in DOMAIN at |-> IF bench.cancels /\ Waits(t) THEN Line(t, Now(t).to)
                                                           ELSE at[t]]
    /\ UNCHANGED <<bench, inbox, down, shut, broken, latch, woken, parents, backlog>>

\* A connection fails: what is in flight is lost and both ends see errors.
Breaks(i) ==
    /\ Cardinality(broken) < MaxBreaks
    /\ ~ended
    /\ i \notin broken
    /\ broken' = broken \cup {i}
    /\ inbox' = [s \in Socks |-> IF s[1] = i THEN 0 ELSE inbox[s]]
    /\ UNCHANGED <<bench, running, ended, at, down, shut, latch, woken, parents, backlog>>

TaskSteps(t) ==
    \/ running_lap(t) \/ Jumps(t) \/ Writes(t) \/ Reads(t) \/ Forks(t) \/ Joins(t)
    \/ arrive(t) \/ Shuts(t) \/ Opens(t) \/ Connects(t) \/ Accepts(t)

WlNext ==
    \/ \E t \in DOMAIN bench.tasks : TaskSteps(t)
    \/ Stopper
    \/ \E i \in 1..bench.conns : Breaks(i)

WlSpec == WlInit /\ [][WlNext]_wlVars

-----------------------------------------------------------------------------
\* Task t can take a step.
CanStep(t) ==
    /\ ~ended
    /\ at[t] # 0
    /\ CASE Now(t).op \in {"read", "write"} -> ~Waits(t)
         [] Now(t).op = "join" -> Now(t).latch \in woken
         [] Now(t).op = "guard" -> latch[Now(t).latch] = 0
         [] Now(t).op = "accept" -> backlog[Now(t).listener] > 0
         [] OTHER -> TRUE

\* Once the stopper has cleared the flag and nothing is left to do, every task
\* has returned, so run() returns and the benchmark's main thread is not left
\* waiting: no reader waits for a writer that has gone, no parent for a child
\* that failed without arriving, no echo server for sockets nobody closes.
\* The churn benchmarks end because their stopper stops the context.
BenchEnds ==
    ~running /\ (\A t \in DOMAIN at : ~CanStep(t)) =>
        ended \/ \A t \in DOMAIN at : at[t] = 0

\* The connections a task's own script, or that of a task it forks, uses.
RECURSIVE Uses(_)
Uses(t) ==
    UNION {CASE i.op \in {"read", "write", "shutdown"} -> {i.on[1]}
             [] i.op = "fork" -> UNION {Uses(k) : k \in i.kids}
             [] OTHER -> {} : i \in {Script(t)[j] : j \in 1..Len(Script(t))}}

RECURSIVE Idle(_)
Idle(t) ==
    \A i \in {Script(t)[j] : j \in 1..Len(Script(t))} :
        i.op = "fork" => \A k \in i.kids : at[k] = 0 /\ Idle(k)

\* The benchmarks whose laps are request and response measure whole laps: when
\* a task is about to begin one, the children of the last have returned and no
\* message of it is in flight, so no answer, wake-up or accepted connection is
\* taken for one of the next lap.  fan_out_bench.cpp:54 makes a latch per lap
\* "so a wakeup can never leak across rounds".  A throughput writer has no laps
\* of this kind: it does not wait for what it sent.
LapsAreWhole ==
    \A t \in DOMAIN at : AtOp(t, "lap") /\ t[1] # "write" =>
        /\ Idle(t)
        /\ \A i \in Uses(t) \ broken : inbox[Client(i)] = 0 /\ inbox[Server(i)] = 0
        /\ t[1] = "loop" => backlog[t[2]] = 0

=============================================================================
