------------------------------ MODULE UringIo ------------------------------
(***************************************************************************)
(* The io_uring back end's I/O objects: TCP and local stream sockets, UDP  *)
(* and local datagram sockets, stream files and random-access files, with  *)
(* the ring they submit to.                                                *)
(*                                                                         *)
(* As in IocpIo, a function of the back end is a SCRIPT, the sequence of   *)
(* its steps, and each step is an action defined once; threads execute     *)
(* their scripts one step at a time.  A step that runs under ring_mutex_   *)
(* or dispatch_mutex_ is one action.  The run loop is reduced to its two   *)
(* effects, pumping the ring and dispatching a queued operation; who leads *)
(* and who sleeps is the subject of UringScheduler.                        *)
(***************************************************************************)
EXTENDS Naturals, Sequences, FiniteSets, SequencesExt

CONSTANTS UringWorkers,   \* threads that run the io_context
          UringKinds,     \* kinds of object explored
          SqEntries,      \* entries of the submission queue (256 in the code)
          MaxUringCalls,  \* per kind, bound on the calls the program makes
          MaxUringStarts, \* per kind, bound on those that start an operation
          MaxRefusals,    \* bound on flushes the kernel refuses
          MaxReadFailures \* speculative_state::max_read_failures (4 in the code)

VARIABLES kind,       \* the kind of the object
          fd,         \* fd_: a descriptor number, 0 when closed
          names,      \* descriptor number -> the open file it names, 0 if none
          files,      \* files opened so far
          held,       \* the service's shared_ptr to the object still exists
          op,         \* the operation records embedded in (or owned by) it
          ring,       \* sq, kernel requests, cq, in-flight count, submit_op_posted_
          ready,      \* completed_ops_
          work,       \* outstanding_work_
          spec,       \* speculative_state
          peer,       \* remote_endpoint_ is set
          todo,       \* per thread, what is left of the function it is in
          turn,       \* a call on the object is in progress
          calls, starts, refusals,    \* bounded counters
          down        \* "no", "services" or "drained"

ring_vars == <<kind, fd, names, files, held, op, ring, ready, work, spec, peer,
               todo, turn, calls, starts, refusals, down>>

ASSUME UringAssumption ==
    /\ "stop" \notin UringWorkers /\ UringWorkers # {} /\ IsFiniteSet(UringWorkers)
    /\ SqEntries \in Nat \ {0} /\ MaxReadFailures \in Nat \ {0}
    /\ UringKinds \subseteq {"tcp", "local", "udp", "local_dgram", "file", "raf"}

Threads == UringWorkers \cup {"stop"}    \* "stop": whoever requests a stop
Numbers == 1 .. 2                        \* descriptor numbers, reused by the system
Do(verb, o) == <<verb, o>>

Ops(k) == CASE k \in {"tcp", "local"} -> {"rd", "wr", "conn", "wt"}
            [] k \in {"udp", "local_dgram"} -> {"send", "recv", "conn", "wt"}
            [] k = "file" -> {"rd", "wr"}
            [] k = "raf" -> {"read_at", "write_at"}
\* The operation types, as prepare, do_prep and do_cqe define them: the side whose
\* speculation flag they use, whether 0 bytes mean end of file (not for a
\* datagram), what the kernel may answer
uring_read_op == [read |-> TRUE, eof |-> TRUE, results |-> {"ok", "zero", "err"}]
uring_write_op == [read |-> FALSE, eof |-> FALSE, results |-> {"ok", "err"}]
uring_connect_op == [read |-> FALSE, eof |-> FALSE, results |-> {"ok", "err"}]
uring_wait_op == [read |-> FALSE, eof |-> FALSE, results |-> {"ok", "err"}]
uring_dgram_send_op == [read |-> FALSE, eof |-> FALSE, results |-> {"ok", "err"}]
uring_dgram_recv_op == [read |-> TRUE, eof |-> FALSE, results |-> {"ok", "err"}]
uring_file_read_op_base == [read |-> TRUE, eof |-> TRUE, results |-> {"ok", "zero", "err"}]
uring_file_write_op_base == [read |-> FALSE, eof |-> FALSE, results |-> {"ok", "err"}]
OpType == [rd |-> uring_read_op, wr |-> uring_write_op, conn |-> uring_connect_op,
           wt |-> uring_wait_op, send |-> uring_dgram_send_op, recv |-> uring_dgram_recv_op,
           read_at |-> uring_file_read_op_base, write_at |-> uring_file_write_op_base]
ReadSide(o) == OpType[o].read
Results(o) == OpType[o].results
AtEof(o) == OpType[o].eof

(***************************************************************************)
(* Scripts.                                                                *)
(*   probe    stop requested, empty buffer or a speculative system call:   *)
(*            a result in hand is delivered inline or queued               *)
(*   gate     only the stop test of probe (connect never speculates)       *)
(*   arm      prepare(): reset the slot, keep the object, start(token);    *)
(*            then work_started                                            *)
(*   bypass   cancelled (or, for files, empty) already: queue, do not submit*)
(*   submit   io_uring_submit_op under ring_mutex_; post: its submit_op_   *)
(***************************************************************************)
Launch(o) == <<Do("arm", o), Do("bypass", o), Do("submit", o)>>
Handler(o) == <<Do("disarm", o), Do("complete", o), Do("finish", o)>>
CancelFd == <<Do("cancel_fd", "any")>>
CloseFd == <<Do("flush_cancel", "any"), Do("close", "any")>>
\* io_uring_tcp_socket
tcp_read_some == <<Do("probe", "rd")>> \o Launch("rd")
tcp_write_some == <<Do("probe", "wr")>> \o Launch("wr")
tcp_connect == <<Do("gate", "conn")>> \o Launch("conn")
tcp_wait == Launch("wt")
tcp_cancel == CancelFd
tcp_close_socket == CloseFd
tcp_open_socket == <<Do("open", "any")>>

\* io_uring_local_stream_socket
local_read_some == <<Do("probe", "rd")>> \o Launch("rd")
local_write_some == <<Do("probe", "wr")>> \o Launch("wr")
local_connect == <<Do("gate", "conn")>> \o Launch("conn")
local_wait == Launch("wt")
local_release_socket == <<Do("release", "any")>>
local_cancel == CancelFd
local_close_socket == CloseFd
local_open_socket == <<Do("open", "any")>>
local_assign_socket == <<Do("open", "any"), Do("named", "any")>>

\* io_uring_udp_socket: submit_send and submit_recv serve all four calls
udp_submit_send == <<Do("probe", "send")>> \o Launch("send")
udp_submit_recv == <<Do("probe", "recv")>> \o Launch("recv")
udp_connect == <<Do("gate", "conn")>> \o Launch("conn")
udp_wait == Launch("wt")
udp_cancel == CancelFd
udp_close_socket == CloseFd
udp_open_datagram == <<Do("open", "any")>>

\* io_uring_local_datagram_socket
dgram_submit_send == <<Do("probe", "send")>> \o Launch("send")
dgram_submit_recv == <<Do("probe", "recv")>> \o Launch("recv")
dgram_connect == <<Do("gate", "conn")>> \o Launch("conn")
dgram_wait == Launch("wt")
dgram_release_socket == <<Do("release", "any")>>
dgram_cancel == CancelFd
dgram_close_socket == CloseFd
dgram_open_socket == <<Do("open", "any")>>
dgram_assign_socket == <<Do("open", "any"), Do("named", "any")>>

\* io_uring_stream_file and io_uring_random_access_file: no speculation
file_read_some == Launch("rd")
file_write_some == Launch("wr")
file_cancel == CancelFd
file_close == CloseFd
file_release == <<Do("release", "any")>>
file_open_file == <<Do("open", "any")>>
raf_read_some_at == Launch("read_at")
raf_write_some_at == Launch("write_at")
raf_cancel == CancelFd
raf_close_file == CloseFd
raf_release == <<Do("release", "any")>>
raf_open_file == <<Do("open", "any")>>

\* do_handler of each kind of operation: the stop callback is destroyed, the
\* result decoded, the coroutine resumed.  A socket operation that moved data
\* also restores speculation ("warm"), a connection writes the endpoints
\* ("connected").
read_done == <<Do("disarm", "rd"), Do("warm", "rd")>> \o Tail(Handler("rd"))
write_done == <<Do("disarm", "wr"), Do("warm", "wr")>> \o Tail(Handler("wr"))
connect_done == <<Do("disarm", "conn"), Do("connected", "conn")>> \o Tail(Handler("conn"))
local_connect_done == <<Do("disarm", "conn"), Do("connected", "conn")>> \o Tail(Handler("conn"))
wait_done == Handler("wt")
dgram_send_done == <<Do("disarm", "send"), Do("warm", "send")>> \o Tail(Handler("send"))
dgram_recv_done == <<Do("disarm", "recv"), Do("warm", "recv")>> \o Tail(Handler("recv"))
file_read_done == Handler("rd")
file_write_done == Handler("wr")
raf_read_done == Handler("read_at")
raf_write_done == Handler("write_at")

-----------------------------------------------------------------------------
Initiate(k, o) ==    \* the call that starts operation o
    CASE k = "tcp" -> (CASE o = "rd" -> tcp_read_some [] o = "wr" -> tcp_write_some
                         [] o = "conn" -> tcp_connect [] o = "wt" -> tcp_wait)
      [] k = "local" -> (CASE o = "rd" -> local_read_some [] o = "wr" -> local_write_some
                         [] o = "conn" -> local_connect [] o = "wt" -> local_wait)
      [] k = "udp" -> (CASE o = "send" -> udp_submit_send [] o = "recv" -> udp_submit_recv
                         [] o = "conn" -> udp_connect [] o = "wt" -> udp_wait)
      [] k = "local_dgram" -> (CASE o = "send" -> dgram_submit_send [] o = "recv" -> dgram_submit_recv
                         [] o = "conn" -> dgram_connect [] o = "wt" -> dgram_wait)
      [] k = "file" -> (CASE o = "rd" -> file_read_some [] o = "wr" -> file_write_some)
      [] k = "raf" -> (CASE o = "read_at" -> raf_read_some_at [] o = "write_at" -> raf_write_some_at)

DoHandler(k, o) ==    \* what dispatching operation o runs
    CASE o = "rd" -> IF k = "file" THEN file_read_done ELSE read_done
      [] o = "wr" -> IF k = "file" THEN file_write_done ELSE write_done
      [] o = "conn" -> IF k \in {"local", "local_dgram"} THEN local_connect_done ELSE connect_done
      [] o = "wt" -> wait_done
      [] o = "send" -> dgram_send_done [] o = "recv" -> dgram_recv_done
      [] o = "read_at" -> raf_read_done [] o = "write_at" -> raf_write_done

CancelOf(k) == CASE k = "tcp" -> tcp_cancel [] k = "local" -> local_cancel
                 [] k = "udp" -> udp_cancel [] k = "local_dgram" -> dgram_cancel
                 [] k = "file" -> file_cancel [] k = "raf" -> raf_cancel
CloseOf(k) == CASE k = "tcp" -> tcp_close_socket [] k = "local" -> local_close_socket
                [] k = "udp" -> udp_close_socket [] k = "local_dgram" -> dgram_close_socket
                [] k = "file" -> file_close [] k = "raf" -> raf_close_file
OpenOf(k) == CASE k = "tcp" -> {tcp_open_socket}
               [] k = "local" -> {local_open_socket, local_assign_socket}
               [] k = "udp" -> {udp_open_datagram}
               [] k = "local_dgram" -> {dgram_open_socket, dgram_assign_socket}
               [] k = "file" -> {file_open_file} [] k = "raf" -> {raf_open_file}
ReleaseOf(k) == CASE k = "local" -> {local_release_socket}
                  [] k = "local_dgram" -> {dgram_release_socket}
                  [] k = "file" -> {file_release} [] k = "raf" -> {raf_release}
                  [] OTHER -> {}
Returned == <<Do("return", "any")>>    \* the end of a call that started no operation

NewOp == [life |-> "idle", flag |-> FALSE, sqe |-> FALSE, token |-> "none", res |-> "ok",
          kres |-> "none", empty |-> FALSE, kept |-> FALSE, fd |-> 0, file |-> 0,
          asked |-> FALSE, stop |-> "no", out |-> "none"]

UringInit ==
    /\ kind \in UringKinds /\ fd = 1 /\ files = 1 /\ held = TRUE
    /\ names = [n \in Numbers |-> IF n = 1 THEN 1 ELSE 0]
    /\ op = [o \in Ops(kind) |-> NewOp]
    /\ ring = [sq |-> << >>, flight |-> {}, cq |-> << >>, inflight |-> 0, posted |-> FALSE]
    /\ ready = << >> /\ work = 0 /\ peer = FALSE
    /\ spec = [read |-> TRUE, write |-> TRUE, streak |-> 0, off |-> FALSE]
    /\ todo = [t \in Threads |-> << >>] /\ turn = FALSE
    /\ calls = 0 /\ starts = 0 /\ refusals = 0 /\ down = "no"

-----------------------------------------------------------------------------
(***************************************************************************)
(* The ring.  Entries of the submission queue are <<"op", o>>,             *)
(* <<"ud", o>> (cancel by user data) and <<"fd", n>> (cancel by            *)
(* descriptor); a request in the kernel is <<o, file>>, the file being the *)
(* one its descriptor names when the kernel takes it.                      *)
(***************************************************************************)
Taken(r, e) ==    \* the kernel takes one entry
    LET n == op[e[2]].fd
        hit == IF e[1] = "ud" THEN {p \in r.flight : p[1] = e[2]}
               ELSE {p \in r.flight : p[2] = names[e[2]]}
    IN CASE e[1] = "op" /\ names[n] = 0 -> [r EXCEPT !.cq = Append(@, <<e[2], "err">>)]
         [] e[1] = "op" /\ names[n] # 0 -> [r EXCEPT !.flight = @ \cup {<<e[2], names[n]>>}]
         [] OTHER -> [r EXCEPT !.flight = @ \ hit,
                        !.cq = @ \o SetToSeq({<<p[1], "canceled">> : p \in hit}) \o <<<<"cxl", "ok">>>>]
Flushed(r) ==    \* io_uring_submit
    LET after[i \in 0 .. Len(r.sq)] == IF i = 0 THEN [r EXCEPT !.sq = << >>]
                                       ELSE Taken(after[i - 1], r.sq[i])
    IN after[Len(r.sq)]

\* process_completions: results are stored, operations queued, cancel CQEs only
\* counted
IsOp(c) == c[1] # "cxl"
Reaped(r) == [r EXCEPT !.cq = << >>, !.inflight = @ - Len(r.cq)]
Arrived(r) == SelectSeq(r.cq, IsOp)
Stored(f, r) == [o \in DOMAIN f |->
    IF \E i \in DOMAIN r.cq : r.cq[i][1] = o
    THEN LET c == CHOOSE c \in Range(r.cq) : c[1] = o
         IN [f[o] EXCEPT !.res = c[2], !.kres = c[2]]
    ELSE f[o]]
Queue(r) == [i \in DOMAIN Arrived(r) |-> Arrived(r)[i][1]]

process_completions(r) ==
    /\ ring' = Reaped(r)
    /\ op' = Stored(op, r)
    /\ ready' = ready \o Queue(r)

\* io_uring_get_sqe, and one flush when the queue is full: entry e is staged,
\* counted in flight, or refused because the kernel took nothing
Room(e, staged(_), refused) ==
    \/ /\ Len(ring.sq) < SqEntries
       /\ staged([ring EXCEPT !.sq = Append(@, e), !.inflight = @ + 1])
       /\ UNCHANGED refusals
    \/ /\ Len(ring.sq) >= SqEntries
       /\ staged([Flushed(ring) EXCEPT !.sq = <<e>>, !.inflight = @ + 1])
       /\ UNCHANGED refusals
    \/ /\ Len(ring.sq) >= SqEntries /\ refusals < MaxRefusals
       /\ refusals' = refusals + 1 /\ refused

\* A request in the kernel ends by itself
KernelCompletes(o) == \E p \in ring.flight, e \in Results(o) :
    /\ p[1] = o /\ down = "no"
    /\ ring' = [ring EXCEPT !.flight = @ \ {p}, !.cq = Append(@, <<o, e>>)]
    /\ UNCHANGED <<kind, fd, names, files, held, op, ready, work, spec, peer, todo, turn,
                   calls, starts, refusals, down>>

-----------------------------------------------------------------------------
(***************************************************************************)
(* Calls.  Calls on one object are made one at a time; a call ends where   *)
(* its coroutine can be resumed elsewhere.                                 *)
(***************************************************************************)
Call(t, script) ==
    /\ t \in UringWorkers
    /\ todo[t] = << >> /\ ~turn /\ held /\ down = "no"
    /\ calls < MaxUringCalls[kind] /\ calls' = calls + 1
    /\ turn' = TRUE
    /\ todo' = [todo EXCEPT ![t] = script]
    /\ op' = [o \in DOMAIN op |-> IF op[o].life = "idle" THEN NewOp ELSE op[o]]
    /\ UNCHANGED <<kind, fd, names, files, held, ring, ready, work, spec, peer, refusals, down>>

StartOp(t) == \E o \in Ops(kind) :
    /\ op[o].life = "idle" /\ fd # 0 /\ Call(t, Initiate(kind, o))
    /\ starts < MaxUringStarts[kind] /\ starts' = starts + 1
CallCancel(t) == fd # 0 /\ UNCHANGED starts /\ Call(t, CancelOf(kind) \o Returned)
CallClose(t) == fd # 0 /\ UNCHANGED starts /\ Call(t, CloseOf(kind) \o Returned)
CallOpen(t) == \E s \in OpenOf(kind) : fd = 0 /\ UNCHANGED starts /\ Call(t, s \o Returned)
CallRelease(t) == \E s \in ReleaseOf(kind) : fd # 0 /\ UNCHANGED starts /\ Call(t, s \o Returned)
\* The handle is destroyed: close if open, then the service drops its pointer
CallDestroy(t) == UNCHANGED starts /\
    Call(t, (IF fd = 0 THEN << >> ELSE CloseOf(kind)) \o <<Do("erase", "any")>> \o Returned)

\* Mutant: no cancel entry is made.
CancelEntry_bug(o) == << >>
CancelEntry(o) == IF op[o].sqe THEN <<Do("cancel_ud", o)>> ELSE << >>
\* io_uring_op::on_cancel, run by the thread that requests the stop: the flag,
\* then a cancel entry if an SQE is linked to the operation
on_cancel(o) ==
    /\ op' = [op EXCEPT ![o].token = "firing", ![o].flag = TRUE, ![o].asked = TRUE,
                        ![o].stop = IF op[o].sqe THEN "late" ELSE "early"]
    /\ todo' = [todo EXCEPT !["stop"] = CancelEntry(o) \o <<Do("fired", o)>>]
StopToken(o) ==
    /\ op[o].token = "live" /\ todo["stop"] = << >> /\ down = "no"
    /\ on_cancel(o)
    /\ UNCHANGED <<kind, fd, names, files, held, ring, ready, work, spec, peer, turn,
                   calls, starts, refusals, down>>

-----------------------------------------------------------------------------
(***************************************************************************)
(* Steps of a thread inside a function.                                    *)
(***************************************************************************)
At(t, verb, o) == todo[t] # << >> /\ Head(todo[t]) = Do(verb, o)
Go(t) == todo' = [todo EXCEPT ![t] = Tail(@)]
Leave(t) == todo' = [todo EXCEPT ![t] = << >>] /\ turn' = FALSE
Asked(f) == [o \in DOMAIN f |-> [f[o] EXCEPT !.asked = @ \/ f[o].life = "flying"]]

Decode(r, o) == IF r.flag THEN "canceled"
                ELSE IF r.res \in {"err", "canceled"} THEN r.res
                ELSE IF AtEof(o) /\ r.res = "zero" /\ ~r.empty THEN "eof" ELSE "ok"

\* prepare() of a slot: everything reset, the object kept, the token's callback
\* armed (a token that is already stopped is one that StopToken stops next)
Prepared == [NewOp EXCEPT !.life = "flying", !.kept = TRUE, !.fd = fd, !.file = names[fd],
                          !.token = "live"]

MaySpeculate(o) == IF ReadSide(o) THEN spec.read /\ ~spec.off ELSE spec.write
OnExhausted(o) ==    \* on_read_exhausted, on_write_exhausted
    IF ReadSide(o)
    THEN [spec EXCEPT !.read = FALSE,
            !.streak = IF @ < MaxReadFailures THEN @ + 1 ELSE @,
            !.off = @ \/ spec.streak + 1 >= MaxReadFailures]
    ELSE [spec EXCEPT !.write = FALSE]
OnSuccess(o, e) == IF o = "rd" /\ e # "err" THEN [spec EXCEPT !.streak = 0] ELSE spec

\* A result in hand: delivered inline while the thread's budget lasts, else the
\* slot is prepared and queued as completed
Deliver(t, o, r) ==
    /\ Leave(t)
    /\ \/ op' = [op EXCEPT ![o] = [r EXCEPT !.life = "idle", !.out = Decode(r, o)]]
          /\ UNCHANGED <<ready, work>>
       \/ /\ op' = [op EXCEPT ![o] = [Prepared EXCEPT !.flag = r.flag, !.asked = r.asked,
                        !.res = r.res, !.kres = r.res, !.empty = r.empty]]
          /\ ready' = Append(ready, o) /\ work' = work + 1
    /\ UNCHANGED <<kind, fd, names, files, held, ring, peer, calls, starts, refusals, down>>

StoppedNow == [NewOp EXCEPT !.flag = TRUE, !.asked = TRUE]
Probe(t, o) ==
    /\ At(t, "probe", o)
    /\ \/ Deliver(t, o, StoppedNow) /\ UNCHANGED spec
       \/ Deliver(t, o, [NewOp EXCEPT !.res = "zero", !.kres = "zero", !.empty = TRUE])
          /\ UNCHANGED spec
       \/ /\ MaySpeculate(o)
          /\ \E e \in Results(o) :
               /\ Deliver(t, o, [NewOp EXCEPT !.res = e, !.kres = e])
               /\ spec' = OnSuccess(o, e)
       \/ /\ spec' = IF MaySpeculate(o) THEN OnExhausted(o) ELSE spec
          /\ Go(t)
          /\ UNCHANGED <<kind, fd, names, files, held, op, ring, ready, work, peer, turn,
                         calls, starts, refusals, down>>

Gate(t, o) ==
    /\ At(t, "gate", o) /\ UNCHANGED spec
    /\ \/ Deliver(t, o, StoppedNow)
       \/ /\ Go(t)
          /\ UNCHANGED <<kind, fd, names, files, held, op, ring, ready, work, peer, turn,
                         calls, starts, refusals, down>>

Arm(t, o) ==
    /\ At(t, "arm", o)
    /\ op' = [op EXCEPT ![o] = Prepared]
    /\ work' = work + 1 /\ Go(t)
    /\ UNCHANGED <<kind, fd, names, files, held, ring, ready, spec, peer, turn, calls, starts,
                   refusals, down>>

\* Files have no probe: an empty buffer is found here
Bypass(t, o) ==
    /\ At(t, "bypass", o)
    /\ \/ /\ op[o].flag
          /\ ready' = Append(ready, o) /\ Leave(t) /\ UNCHANGED op
       \/ /\ kind \in {"file", "raf"}
          /\ op' = [op EXCEPT ![o].res = "zero", ![o].kres = "zero", ![o].empty = TRUE]
          /\ ready' = Append(ready, o) /\ Leave(t)
       \/ /\ ~op[o].flag
          /\ Go(t) /\ UNCHANGED <<op, ready, turn>>
    /\ UNCHANGED <<kind, fd, names, files, held, ring, work, spec, peer, calls, starts,
                   refusals, down>>

\* io_uring_submit_op under ring_mutex_: the operation is visible to the kernel
\* and to on_cancel; the first submitter of a batch has to post submit_op_.
\* With no entry to be had the operation is queued as if complete, with res = 0.
Submit(t, o) == At(t, "submit", o) /\ turn' = FALSE /\
    LET staged(r) ==
            /\ ring' = [r EXCEPT !.posted = TRUE]
            /\ op' = [op EXCEPT ![o].sqe = TRUE]
            /\ todo' = [todo EXCEPT ![t] = IF ring.posted THEN << >> ELSE <<Do("post", "any")>>]
            /\ UNCHANGED ready
        refused ==
            /\ ready' = Append(ready, o)
            /\ todo' = [todo EXCEPT ![t] = << >>] /\ UNCHANGED <<ring, op>>
    IN /\ Room(<<"op", o>>, staged, refused)
       /\ UNCHANGED <<kind, fd, names, files, held, work, spec, peer, calls, starts, down>>

Post(t) ==    \* post(&submit_op_): counts as work until its handler has run
    /\ At(t, "post", "any") /\ Go(t)
    /\ ready' = Append(ready, "submit_op") /\ work' = work + 1
    /\ UNCHANGED <<kind, fd, names, files, held, op, ring, spec, peer, turn, calls, starts,
                   refusals, down>>

\* submit_cancel_by_user_data, submit_cancel_by_fd: best effort, an entry that
\* cannot be had is forgotten
submit_cancel_by_user_data(t, o) ==
    /\ At(t, "cancel_ud", o) /\ Go(t)
    /\ LET staged(r) == ring' = r IN Room(<<"ud", o>>, staged, UNCHANGED ring)
    /\ UNCHANGED <<kind, fd, names, files, held, op, ready, work, spec, peer, turn, calls,
                   starts, down>>
submit_cancel_by_fd(t) ==
    /\ At(t, "cancel_fd", "any") /\ Go(t)
    /\ op' = Asked(op)
    /\ LET staged(r) == ring' = r IN Room(<<"fd", fd>>, staged, UNCHANGED ring)
    /\ UNCHANGED <<kind, fd, names, files, held, ready, work, spec, peer, turn, calls,
                   starts, down>>
\* cancel_and_flush: the cancel entry reaches the kernel while fd is open
cancel_and_flush(t) ==
    /\ At(t, "flush_cancel", "any") /\ Go(t)
    /\ op' = Asked(op)
    /\ LET staged(r) == ring' = Flushed(r)
       IN Room(<<"fd", fd>>, staged, ring' \in {ring, Flushed(ring)})
    /\ UNCHANGED <<kind, fd, names, files, held, ready, work, spec, peer, turn, calls,
                   starts, down>>

CloseStep(t) ==    \* ::close(fd_), endpoints reset
    /\ At(t, "close", "any") /\ Go(t)
    /\ names' = [names EXCEPT ![fd] = 0] /\ fd' = 0 /\ peer' = FALSE
    /\ UNCHANGED <<kind, files, held, op, ring, ready, work, spec, turn, calls, starts,
                   refusals, down>>
ReleaseStep(t) ==    \* the caller owns the descriptor now; operations are left alone
    /\ At(t, "release", "any") /\ Go(t)
    /\ fd' = 0 /\ peer' = FALSE
    /\ UNCHANGED <<kind, names, files, held, op, ring, ready, work, spec, turn, calls, starts,
                   refusals, down>>
OpenStep(t) ==    \* a new file under the lowest free number, if the system grants one
    /\ At(t, "open", "any")
    /\ \/ \E n \in Numbers :
            /\ names[n] = 0 /\ \A m \in Numbers : m < n => names[m] # 0
            /\ names' = [names EXCEPT ![n] = files + 1]
            /\ fd' = n /\ files' = files + 1
            /\ Go(t) /\ UNCHANGED turn
       \/ Leave(t) /\ UNCHANGED <<names, fd, files>>
    /\ UNCHANGED <<kind, held, op, ring, ready, work, spec, peer, calls, starts, refusals, down>>
NamedStep(t) ==    \* assign_socket: getpeername
    /\ At(t, "named", "any") /\ Go(t)
    /\ peer' \in BOOLEAN
    /\ UNCHANGED <<kind, fd, names, files, held, op, ring, ready, work, spec, turn, calls,
                   starts, refusals, down>>
EraseStep(t) ==    \* service::destroy
    /\ At(t, "erase", "any") /\ Go(t)
    /\ held' = FALSE
    /\ UNCHANGED <<kind, fd, names, files, op, ring, ready, work, spec, peer, turn, calls,
                   starts, refusals, down>>
ReturnStep(t) ==
    /\ At(t, "return", "any") /\ Go(t) /\ turn' = FALSE
    /\ UNCHANGED <<kind, fd, names, files, held, op, ring, ready, work, spec, peer, calls,
                   starts, refusals, down>>
FiredStep(t, o) ==    \* the stop callback returns
    /\ At(t, "fired", o) /\ Go(t)
    /\ op' = [op EXCEPT ![o].token = "none"]
    /\ UNCHANGED <<kind, fd, names, files, held, ring, ready, work, spec, peer, turn, calls,
                   starts, refusals, down>>

\* The handler: coro_drain_if_shutdown destroys the stop callback, waiting for
\* one that is running on another thread
Disarm(t, o) ==
    /\ At(t, "disarm", o) /\ op[o].token # "firing" /\ Go(t)
    /\ op' = [op EXCEPT ![o].token = "none"]
    /\ UNCHANGED <<kind, fd, names, files, held, ring, ready, work, spec, peer, turn, calls,
                   starts, refusals, down>>
WarmStep(t, o) ==    \* on_async_read_ready, on_async_write_ready
    /\ At(t, "warm", o) /\ Go(t)
    /\ spec' = IF op[o].res # "ok" THEN spec
               ELSE IF ReadSide(o) THEN [spec EXCEPT !.read = @ \/ ~spec.off]
               ELSE [spec EXCEPT !.write = TRUE]
    /\ UNCHANGED <<kind, fd, names, files, held, op, ring, ready, work, peer, turn, calls,
                   starts, refusals, down>>
ConnectedStep(t, o) ==    \* res >= 0: the endpoints are written
    /\ At(t, "connected", o) /\ Go(t)
    /\ peer' = (peer \/ op[o].res \in {"ok", "zero"})
    /\ UNCHANGED <<kind, fd, names, files, held, op, ring, ready, work, spec, turn, calls,
                   starts, refusals, down>>
Complete(t, o) ==    \* the outcome is written, coro_resume: the slot may be used
                     \* again and the keepalive drops
    /\ At(t, "complete", o) /\ Go(t)
    /\ op' = [op EXCEPT ![o] = [NewOp EXCEPT !.out = Decode(op[o], o), !.asked = op[o].asked,
                                             !.kres = op[o].kres]]
    /\ UNCHANGED <<kind, fd, names, files, held, ring, ready, work, spec, peer, turn, calls,
                   starts, refusals, down>>
Finish(t, o) ==    \* do_one: work_finished
    /\ At(t, "finish", o) /\ Go(t)
    /\ work' = work - 1
    /\ UNCHANGED <<kind, fd, names, files, held, op, ring, ready, spec, peer, turn, calls,
                   starts, refusals, down>>

-----------------------------------------------------------------------------
(***************************************************************************)
(* The run loop and shutdown.                                              *)
(***************************************************************************)
Pump(t) ==    \* the head of do_one: submit and drain when the ring has anything
    /\ t \in UringWorkers /\ todo[t] = << >> /\ down = "no"
    /\ ring.sq # << >> \/ ring.cq # << >>
    /\ process_completions(Flushed(ring))
    /\ UNCHANGED <<kind, fd, names, files, held, work, spec, peer, todo, turn, calls, starts,
                   refusals, down>>
Dispatch(t) ==    \* do_one pops an operation and runs its handler
    /\ t \in UringWorkers /\ todo[t] = << >> /\ down = "no"
    /\ ready # << >> /\ Head(ready) # "submit_op"
    /\ ready' = Tail(ready)
    /\ todo' = [todo EXCEPT ![t] = DoHandler(kind, Head(ready))]
    /\ UNCHANGED <<kind, fd, names, files, held, op, ring, work, spec, peer, turn, calls,
                   starts, refusals, down>>
\* submit_sqes_op::do_handler, under ring_mutex_, then work_finished
SubmitSqes(t) ==
    /\ t \in UringWorkers /\ todo[t] = << >> /\ down = "no"
    /\ ready # << >> /\ Head(ready) = "submit_op"
    /\ LET r == Flushed([ring EXCEPT !.posted = FALSE])
       IN /\ ring' = Reaped(r)
          /\ op' = Stored(op, r)
          /\ ready' = Tail(ready) \o Queue(r)
    /\ work' = work - 1
    /\ UNCHANGED <<kind, fd, names, files, held, spec, peer, todo, turn, calls, starts,
                   refusals, down>>

\* Service shutdown (no thread is in the context): sockets are cancelled, files
\* closed; then the scheduler destroys what is queued, without resuming it
ServicesShutdown ==
    /\ down = "no" /\ \A t \in Threads : todo[t] = << >>
    /\ down' = "services"
    /\ IF fd # 0 /\ held
       THEN /\ op' = Asked(op)
            /\ IF kind \in {"file", "raf"}
               THEN /\ ring' = Flushed([ring EXCEPT !.sq = Append(@, <<"fd", fd>>), !.inflight = @ + 1])
                    /\ names' = [names EXCEPT ![fd] = 0] /\ fd' = 0
               ELSE /\ ring' = [ring EXCEPT !.sq = Append(@, <<"fd", fd>>), !.inflight = @ + 1]
                    /\ UNCHANGED <<names, fd>>
       ELSE UNCHANGED <<op, ring, names, fd>>
    /\ UNCHANGED <<kind, files, held, ready, work, spec, peer, todo, turn, calls, starts, refusals>>
SchedulerShutdown ==
    /\ down = "services" /\ down' = "drained"
    /\ op' = [o \in DOMAIN op |-> IF o \in Range(ready)
                                  THEN [op[o] EXCEPT !.life = "idle", !.kept = FALSE, !.token = "none"]
                                  ELSE op[o]]
    /\ ready' = << >>
    /\ UNCHANGED <<kind, fd, names, files, held, ring, work, spec, peer, todo, turn, calls,
                   starts, refusals>>
UringEnd == down = "drained" /\ UNCHANGED ring_vars

UringStep(t) ==
    \/ StartOp(t) \/ CallCancel(t) \/ CallClose(t) \/ CallOpen(t) \/ CallRelease(t) \/ CallDestroy(t)
    \/ Post(t) \/ submit_cancel_by_fd(t) \/ cancel_and_flush(t)
    \/ CloseStep(t) \/ ReleaseStep(t) \/ OpenStep(t) \/ NamedStep(t) \/ EraseStep(t) \/ ReturnStep(t)
    \/ Pump(t) \/ Dispatch(t) \/ SubmitSqes(t)
    \/ \E o \in Ops(kind) :
         \/ Probe(t, o) \/ Gate(t, o) \/ Arm(t, o) \/ Bypass(t, o) \/ Submit(t, o)
         \/ submit_cancel_by_user_data(t, o) \/ FiredStep(t, o)
         \/ Disarm(t, o) \/ WarmStep(t, o) \/ ConnectedStep(t, o)
         \/ Complete(t, o) \/ Finish(t, o)

UringNext ==
    \/ \E t \in Threads : UringStep(t)
    \/ \E o \in Ops(kind) : KernelCompletes(o) \/ StopToken(o)
    \/ ServicesShutdown \/ SchedulerShutdown \/ UringEnd

UringSpec == UringInit /\ [][UringNext]_ring_vars

-----------------------------------------------------------------------------
(***************************************************************************)
(* Properties.                                                             *)
(***************************************************************************)
\* Every record has its type, and the counters stay natural numbers: neither
\* outstanding_work_ nor io_uring_inflight_ is ever decremented below zero.
UringTypeOK ==
    /\ fd \in Numbers \cup {0} /\ names \in [Numbers -> 0 .. files]
    /\ held \in BOOLEAN /\ peer \in BOOLEAN /\ turn \in BOOLEAN
    /\ work \in Nat /\ ring.inflight \in Nat /\ ring.posted \in BOOLEAN
    /\ \A o \in Ops(kind) : op[o].life \in {"idle", "flying"} /\ op[o].token \in {"none", "live", "firing"}
    /\ \A i \in DOMAIN ready : ready[i] \in Ops(kind) \cup {"submit_op"}

Running(o) == \E t \in Threads : todo[t] # << >> /\
    \E i \in DOMAIN todo[t] : todo[t][i] \in {Do("complete", o), Do("submit", o)}
Homes(o) ==    \* the places from which the operation can still be completed
    Cardinality({i \in DOMAIN ring.sq : ring.sq[i] = <<"op", o>>})
      + Cardinality({p \in ring.flight : p[1] = o})
      + Cardinality({i \in DOMAIN ring.cq : ring.cq[i][1] = o})
      + Cardinality({i \in DOMAIN ready : ready[i] = o})
      + (IF Running(o) THEN 1 ELSE 0)
\* An operation that was started is in exactly one place until it is resumed:
\* staged, in the kernel, in the completion queue, in completed_ops_, or in the
\* hands of one thread.  Were it in two, its coroutine would be resumed twice
\* (and the embedded slot reused under the kernel); in none, never.
UringOneHome == \A o \in Ops(kind) :
    op[o].life = "flying" => Homes(o) = 1

\* io_uring_inflight_ is exactly the number of entries staged, in the kernel or
\* not yet drained, cancel entries included: do_one pumps the ring only when it
\* is not zero, and skips the kernel when it is.
InflightExact == ring.inflight = Len(ring.sq) + Cardinality(ring.flight) + Len(ring.cq)

\* outstanding_work_ counts exactly the started operations whose handler has not
\* returned, and submit_op_ while it is queued: run() returns when, and only
\* when, nothing is left to do.
UringWork == down = "no" => work =
    Cardinality({o \in Ops(kind) : op[o].life = "flying"})
      + Cardinality({t \in Threads : todo[t] # << >> /\ todo[t][Len(todo[t])][1] = "finish"
                                      /\ \A i \in DOMAIN todo[t] : todo[t][i][1] # "complete"})
      + Cardinality({i \in DOMAIN ready : ready[i] = "submit_op"})

\* A staged operation is always going to be flushed: submit_op_posted_ stays set
\* until submit_op_'s handler runs, and while it is set that operation is in
\* completed_ops_ or about to be posted, once.
StagedIsFlushed == down = "no" =>
    /\ (\E i \in DOMAIN ring.sq : ring.sq[i][1] = "op") => ring.posted
    /\ ring.posted <=> 1 = Cardinality({i \in DOMAIN ready : ready[i] = "submit_op"})
                           + Cardinality({t \in Threads : At(t, "post", "any")})

\* The kernel runs an operation on the file it was started on, although the
\* entry only names a descriptor and descriptors are recycled: closing flushes
\* what is staged before it frees the number (cancel_and_flush), unless the
\* kernel refuses the flush.
OwnFile == refusals = 0 => \A p \in ring.flight : p[2] = op[p[1]].file

\* Storage the kernel or the queue still points to is alive: the object is held
\* by its service or by the operation itself (impl_ptr).
UringKeptAlive == \A o \in Ops(kind) : op[o].life = "flying" => (held \/ op[o].kept)

\* An operation reports "canceled" only if its token was stopped, or cancel() or
\* close() was called, after it was started: a cancel entry never hits an
\* operation that was started later on the same slot or descriptor.
UringCanceledWasAsked == \A o \in Ops(kind) : op[o].out = "canceled" => op[o].asked

\* An operation reports an outcome that a system call or a completion entry gave
\* it, unless it was cancelled or the ring had no entry for it.
ResultIsTrue == \A o \in Ops(kind) :
    op[o].out \in {"ok", "eof"} => \/ op[o].kres \in {"ok", "zero"}
                                   \/ op[o].kres = "none" /\ refusals > 0

UringQuiet == /\ \A t \in Threads : todo[t] = << >>
              /\ ready = << >> /\ ring.sq = << >> /\ ring.cq = << >> /\ down = "no"
\* A stop requested once the operation is linked to an entry reaches the kernel:
\* when nothing is left to do the operation is not in the kernel any more
\* (unless the kernel refused a flush).
StopReachesKernel == UringQuiet /\ refusals = 0 =>
    \A p \in ring.flight : op[p[1]].stop # "late"
\* Once the object is closed and nothing is left to do, the kernel holds none of
\* the operations started on its files (unless it refused a flush).
CloseReachesKernel == UringQuiet /\ refusals = 0 =>
    \A p \in ring.flight : p[2] \in {names[n] : n \in Numbers}

\* The comment in on_cancel: without a linked entry "the bypass path in the
\* caller will see cancelled=true and complete synchronously".  So an operation
\* whose stop was requested does not stay in the kernel.
StopIsSeen == UringQuiet /\ refusals = 0 => \A p \in ring.flight : ~op[p[1]].flag


(***************************************************************************)
(* What was staged, stopped or closed reaches the kernel: when nothing is  *)
(* left to do no entry waits in the submission queue, and the kernel holds *)
(* no operation whose stop was requested after it was linked or whose file *)
(* was closed.                                                             *)
(***************************************************************************)
UringReaches ==
    /\ StagedIsFlushed
    /\ StopReachesKernel
    /\ CloseReachesKernel
=============================================================================
