------------------------------- MODULE IocpIo -------------------------------
(***************************************************************************)
(* The Windows back end's I/O objects: TCP and local stream sockets, their *)
(* acceptors, UDP sockets, stream files and random-access files, with the  *)
(* completion port they report to and the auxiliary wait reactor.          *)
(*                                                                         *)
(* The functions of the six services are made of the same few steps (arm   *)
(* the operation, count the work, submit it, hand it over, test for        *)
(* cancellation again, ...) and differ in which steps they take and in     *)
(* which order.  So each function is a SCRIPT, the sequence of its steps,  *)
(* and each step is an action, defined once; a thread executes the script  *)
(* of the function it is in one step at a time, interleaved with the other *)
(* threads, the kernel and the reactor thread.  One behaviour has one      *)
(* object, of a kind chosen at the start.                                  *)
(***************************************************************************)
EXTENDS Naturals, Sequences, FiniteSets

CONSTANTS Workers,    \* threads that run the io_context
          Kinds,      \* kinds of object explored
          MaxCalls,   \* bound on the calls the program makes
          MaxStarts   \* bound on those that start an operation

VARIABLES kind,       \* the kind of the object
          open,       \* "open", "closed", or "released" to another owner
          wrapper,    \* the user's handle still exists (holds a shared_ptr)
          op,         \* the operation records embedded in (or owned by) it
          todo,       \* per thread, what is left of the function it is in
          turn,       \* a call on the object is in progress
          work,       \* win_scheduler::outstanding_work_
          lep,        \* local_endpoint_ is set
          off,        \* offset_ of a stream file (capped)
          peer,       \* socket made for an accept: "none", "held" or "given"
          rx,         \* the wait reactor
          calls,      \* calls made so far (bounded by MaxCalls)
          starts,     \* operations started so far (bounded by MaxStarts)
          down        \* context shutdown: "no", "close", "join", "drain", "done"

io_vars == <<kind, open, wrapper, op, todo, turn, work, lep, off, peer, rx,
             calls, starts, down>>

ASSUME IocpAssumption ==
    /\ "stop" \notin Workers /\ Workers # {} /\ IsFiniteSet(Workers)
    /\ MaxCalls \in Nat /\ MaxStarts \in Nat
    /\ Kinds \subseteq {"tcp", "tcp_acceptor", "local", "local_acceptor",
                        "udp", "file", "raf"}

Threads == Workers \cup {"stop"}    \* "stop": whoever requests a stop
Do(verb, o) == <<verb, o>>
FlagAll == <<Do("flag_all", "any")>>    \* request_cancel on every operation

Ops(k) == CASE k \in {"tcp", "local"} -> {"conn", "rd", "wr", "wt"}
            [] k \in {"tcp_acceptor", "local_acceptor"} -> {"acc", "wt"}
            [] k = "udp" -> {"send_to", "recv_from", "conn", "send", "recv", "wt"}
            [] k = "file" -> {"rd", "wr"}
            [] k = "raf" -> {"read_at", "write_at"}
Reads == {"rd", "read_at"}    \* operations that report a 0-byte transfer as EOF

(***************************************************************************)
(* Steps shared by the scripts.                                            *)
(*   arm      keep the object alive, reset the record, start(token),       *)
(*            work_started                                                 *)
(*   empty    an empty buffer completes at once                            *)
(*   fail     a preparation that can fail: bind, a missing extension, ...  *)
(*   issue    the overlapped call                                          *)
(*   pend     on_pending: hand over to whoever dequeues the packet         *)
(*   recheck  cancelled since the call was issued?  then ask the kernel    *)
(*   ok, sync, socket, test, park, wake                    see the actions *)
(***************************************************************************)
Begin(o) == <<Do("arm", o)>>
Submit(o) == <<Do("issue", o), Do("pend", o), Do("recheck", o)>>
Register(o) == <<Do("test", o), Do("park", o), Do("wake", o)>>
Unregister(o) == <<Do("cancel_wait", o), Do("wake", o)>>
Complete(o) == <<Do("disarm", o), Do("resume", o), Do("finish", o)>>

\* win_tcp_socket_internal
tcp_connect == Begin("conn") \o
    <<Do("bind", "conn"), Do("fail", "conn"), Do("issue", "conn"), Do("pend", "conn")>>
tcp_read_some == Begin("rd") \o <<Do("empty", "rd")>> \o Submit("rd")
tcp_write_some == Begin("wr") \o <<Do("empty", "wr")>> \o Submit("wr")
tcp_wait(w) == Begin("wt") \o CASE w = "write" -> <<Do("ok", "wt")>>
                                [] w = "read"  -> Submit("wt")
                                [] w = "error" -> Register("wt")
tcp_cancel == <<Do("cancel_all", "conn")>> \o FlagAll
                \o Unregister("wt")
tcp_close_socket == FlagAll \o Unregister("wt")
                      \o <<Do("close", "conn")>>
tcp_connect_cancel == <<Do("cancel_io", "conn")>>
tcp_read_cancel == <<Do("cancel_io", "rd")>>
tcp_write_cancel == <<Do("cancel_io", "wr")>>
tcp_wait_cancel == <<Do("cancel_io", "wt")>> \o Unregister("wt")
tcp_connect_done == <<Do("connected", "conn")>> \o Complete("conn")
tcp_read_done == Complete("rd")
tcp_write_done == Complete("wr")
tcp_wait_done == Complete("wt")
tcp_open_socket == <<Do("open", "conn")>>
tcp_bind_socket == <<Do("bound", "conn")>>

\* win_tcp_acceptor_internal
tcp_accept == Begin("acc") \o <<Do("socket", "acc"), Do("fail", "acc")>> \o Submit("acc")
tcp_acceptor_wait(w) == Begin("wt") \o
    IF w = "write" THEN <<Do("ok", "wt")>> ELSE Register("wt")
tcp_acceptor_cancel == <<Do("cancel_all", "acc")>> \o FlagAll
                         \o Unregister("wt")
tcp_acceptor_close == FlagAll \o Unregister("wt")
                        \o <<Do("close", "acc")>>
tcp_accept_cancel == <<Do("cancel_io", "acc")>>
tcp_acceptor_wait_cancel == <<Do("cancel_io", "wt")>> \o Unregister("wt")
tcp_accept_done == <<Do("disarm", "acc"), Do("peer", "acc"), Do("resume", "acc"), Do("finish", "acc")>>
tcp_acceptor_wait_done == Complete("wt")
tcp_open_acceptor == <<Do("open", "acc")>>

\* win_local_stream_socket_internal
local_connect == Begin("conn") \o <<Do("fail", "conn")>> \o Submit("conn")
local_read_some == Begin("rd") \o <<Do("empty", "rd")>> \o Submit("rd")
local_write_some == Begin("wr") \o <<Do("empty", "wr")>> \o Submit("wr")
local_wait(w) == Begin("wt") \o CASE w = "write" -> <<Do("ok", "wt")>>
                                  [] w = "read"  -> Submit("wt")
                                  [] w = "error" -> Register("wt")
local_cancel == <<Do("cancel_all", "conn")>> \o FlagAll
                  \o Unregister("wt")
local_close_socket == FlagAll \o Unregister("wt")
                        \o <<Do("close", "conn")>>
local_release_socket == local_cancel \o <<Do("release", "conn")>>
local_assign_socket == local_close_socket \o <<Do("open", "conn")>>
local_connect_cancel == <<Do("cancel_io", "conn")>>
local_read_cancel == <<Do("cancel_io", "rd")>>
local_write_cancel == <<Do("cancel_io", "wr")>>
local_wait_cancel == <<Do("cancel_io", "wt")>> \o Unregister("wt")
local_connect_done == <<Do("connected", "conn")>> \o Complete("conn")
local_read_done == Complete("rd")
local_write_done == Complete("wr")
local_wait_done == Complete("wt")
local_open_socket == <<Do("open", "conn")>>

\* win_local_stream_acceptor_internal
local_accept == Begin("acc") \o <<Do("socket", "acc"), Do("fail", "acc")>> \o Submit("acc")
local_acceptor_wait(w) == Begin("wt") \o
    IF w = "write" THEN <<Do("ok", "wt")>> ELSE Register("wt")
local_acceptor_cancel == <<Do("cancel_all", "acc")>> \o FlagAll
                           \o Unregister("wt")
local_acceptor_close == FlagAll \o Unregister("wt")
                          \o <<Do("close", "acc")>>
local_acceptor_release == local_acceptor_cancel
                            \o <<Do("release", "acc")>>
local_accept_cancel == <<Do("cancel_io", "acc")>>
local_acceptor_wait_cancel == <<Do("cancel_io", "wt")>> \o Unregister("wt")
local_accept_done == <<Do("disarm", "acc"), Do("peer", "acc"), Do("resume", "acc"), Do("finish", "acc")>>
local_acceptor_wait_done == Complete("wt")
local_open_acceptor == <<Do("open", "acc")>>

\* win_udp_socket_internal
udp_send_to == Begin("send_to") \o Submit("send_to")
udp_recv_from == Begin("recv_from") \o <<Do("empty", "recv_from")>> \o Submit("recv_from")
udp_connect == Begin("conn") \o <<Do("sync", "conn")>>
udp_send == Begin("send") \o Submit("send")
udp_recv == Begin("recv") \o <<Do("empty", "recv")>> \o Submit("recv")
udp_wait(w) == Begin("wt") \o
    IF w = "write" THEN <<Do("ok", "wt")>> ELSE Register("wt")
udp_cancel == <<Do("cancel_all", "conn")>> \o FlagAll \o Unregister("wt")
udp_close_socket == FlagAll \o Unregister("wt") \o <<Do("close", "conn")>>
udp_send_to_cancel == <<Do("cancel_io", "send_to")>>
udp_recv_from_cancel == <<Do("cancel_io", "recv_from")>>
udp_connect_cancel == << >>
udp_send_cancel == <<Do("cancel_io", "send")>>
udp_recv_cancel == <<Do("cancel_io", "recv")>>
udp_wait_cancel == <<Do("cancel_io", "wt")>> \o Unregister("wt")
udp_send_to_done == Complete("send_to")
udp_recv_from_done == Complete("recv_from")
udp_connect_done == <<Do("connected", "conn")>> \o Complete("conn")
udp_send_done == Complete("send")
udp_recv_done == Complete("recv")
udp_wait_done == Complete("wt")
udp_open_datagram == <<Do("open", "conn")>>
udp_bind_datagram == <<Do("bound", "conn")>>

\* win_stream_file_internal: closing and releasing set no cancelled flag
file_read_some == Begin("rd") \o <<Do("empty", "rd")>> \o Submit("rd")
file_write_some == Begin("wr") \o <<Do("empty", "wr")>> \o Submit("wr")
file_cancel == <<Do("cancel_all", "rd")>> \o FlagAll
file_close_handle == <<Do("close", "rd")>>
file_release == <<Do("release", "rd")>>
file_assign == file_close_handle \o <<Do("open", "rd")>>
file_read_cancel == <<Do("cancel_io", "rd")>>
file_write_cancel == <<Do("cancel_io", "wr")>>
file_read_done == <<Do("advance", "rd")>> \o Complete("rd")
file_write_done == <<Do("advance", "wr")>> \o Complete("wr")
file_open == <<Do("open", "rd")>>

\* win_random_access_file_internal: each operation is allocated, listed in
\* outstanding_ops_ and deleted by its completion, before the coroutine resumes
raf_read_some_at == Begin("read_at") \o <<Do("empty", "read_at")>> \o Submit("read_at")
raf_write_some_at == Begin("write_at") \o <<Do("empty", "write_at")>> \o Submit("write_at")
raf_cancel == <<Do("cancel_all", "read_at")>> \o FlagAll
raf_close_handle == <<Do("close", "read_at")>>
raf_release == <<Do("release", "read_at")>>
raf_assign == raf_close_handle \o <<Do("open", "read_at")>>
raf_op_cancel(o) == <<Do("cancel_io", o)>>
raf_op_done(o) == <<Do("disarm", o), Do("resume", o), Do("finish", o)>>
raf_open_file == <<Do("open", "read_at")>>

(***************************************************************************)
(* Which script each entry point of the object runs.                       *)
(***************************************************************************)
Initiate(k, o) ==    \* the calls that start operation o
    CASE k = "tcp" -> (CASE o = "conn" -> {tcp_connect} [] o = "rd" -> {tcp_read_some}
                         [] o = "wr" -> {tcp_write_some}
                         [] o = "wt" -> {tcp_wait(w) : w \in {"read", "write", "error"}})
      [] k = "tcp_acceptor" -> (CASE o = "acc" -> {tcp_accept}
                         [] o = "wt" -> {tcp_acceptor_wait(w) : w \in {"read", "write"}})
      [] k = "local" -> (CASE o = "conn" -> {local_connect} [] o = "rd" -> {local_read_some}
                         [] o = "wr" -> {local_write_some}
                         [] o = "wt" -> {local_wait(w) : w \in {"read", "write", "error"}})
      [] k = "local_acceptor" -> (CASE o = "acc" -> {local_accept}
                         [] o = "wt" -> {local_acceptor_wait(w) : w \in {"read", "write"}})
      [] k = "udp" -> (CASE o = "send_to" -> {udp_send_to} [] o = "recv_from" -> {udp_recv_from}
                         [] o = "conn" -> {udp_connect} [] o = "send" -> {udp_send}
                         [] o = "recv" -> {udp_recv}
                         [] o = "wt" -> {udp_wait(w) : w \in {"read", "write"}})
      [] k = "file" -> (CASE o = "rd" -> {file_read_some} [] o = "wr" -> {file_write_some})
      [] k = "raf" -> (CASE o = "read_at" -> {raf_read_some_at}
                         [] o = "write_at" -> {raf_write_some_at})

Hook(k, o) ==    \* do_cancel_impl of operation o
    CASE k = "tcp" -> (CASE o = "conn" -> tcp_connect_cancel [] o = "rd" -> tcp_read_cancel
                         [] o = "wr" -> tcp_write_cancel [] o = "wt" -> tcp_wait_cancel)
      [] k = "tcp_acceptor" -> (CASE o = "acc" -> tcp_accept_cancel
                         [] o = "wt" -> tcp_acceptor_wait_cancel)
      [] k = "local" -> (CASE o = "conn" -> local_connect_cancel [] o = "rd" -> local_read_cancel
                         [] o = "wr" -> local_write_cancel [] o = "wt" -> local_wait_cancel)
      [] k = "local_acceptor" -> (CASE o = "acc" -> local_accept_cancel
                         [] o = "wt" -> local_acceptor_wait_cancel)
      [] k = "udp" -> (CASE o = "send_to" -> udp_send_to_cancel
                         [] o = "recv_from" -> udp_recv_from_cancel
                         [] o = "conn" -> udp_connect_cancel [] o = "send" -> udp_send_cancel
                         [] o = "recv" -> udp_recv_cancel [] o = "wt" -> udp_wait_cancel)
      [] k = "file" -> (CASE o = "rd" -> file_read_cancel [] o = "wr" -> file_write_cancel)
      [] k = "raf" -> raf_op_cancel(o)

Done(k, o) ==    \* do_complete of operation o, called by a thread of the io_context
    CASE k = "tcp" -> (CASE o = "conn" -> tcp_connect_done [] o = "rd" -> tcp_read_done
                         [] o = "wr" -> tcp_write_done [] o = "wt" -> tcp_wait_done)
      [] k = "tcp_acceptor" -> (CASE o = "acc" -> tcp_accept_done
                         [] o = "wt" -> tcp_acceptor_wait_done)
      [] k = "local" -> (CASE o = "conn" -> local_connect_done [] o = "rd" -> local_read_done
                         [] o = "wr" -> local_write_done [] o = "wt" -> local_wait_done)
      [] k = "local_acceptor" -> (CASE o = "acc" -> local_accept_done
                         [] o = "wt" -> local_acceptor_wait_done)
      [] k = "udp" -> (CASE o = "send_to" -> udp_send_to_done
                         [] o = "recv_from" -> udp_recv_from_done
                         [] o = "conn" -> udp_connect_done [] o = "send" -> udp_send_done
                         [] o = "recv" -> udp_recv_done [] o = "wt" -> udp_wait_done)
      [] k = "file" -> (CASE o = "rd" -> file_read_done [] o = "wr" -> file_write_done)
      [] k = "raf" -> raf_op_done(o)

CancelOf(k) == CASE k = "tcp" -> tcp_cancel [] k = "tcp_acceptor" -> tcp_acceptor_cancel
                 [] k = "local" -> local_cancel [] k = "local_acceptor" -> local_acceptor_cancel
                 [] k = "udp" -> udp_cancel [] k = "file" -> file_cancel [] k = "raf" -> raf_cancel
CloseOf(k) == CASE k = "tcp" -> tcp_close_socket [] k = "tcp_acceptor" -> tcp_acceptor_close
                [] k = "local" -> local_close_socket [] k = "local_acceptor" -> local_acceptor_close
                [] k = "udp" -> udp_close_socket [] k = "file" -> file_close_handle
                [] k = "raf" -> raf_close_handle
OpenOf(k) == CASE k = "tcp" -> {tcp_open_socket, tcp_open_socket \o tcp_bind_socket}
               [] k = "tcp_acceptor" -> {tcp_open_acceptor}
               [] k = "local" -> {local_open_socket, local_assign_socket}
               [] k = "local_acceptor" -> {local_open_acceptor}
               [] k = "udp" -> {udp_open_datagram, udp_open_datagram \o udp_bind_datagram}
               [] k = "file" -> {file_open, file_assign} [] k = "raf" -> {raf_open_file, raf_assign}
ReleaseOf(k) == CASE k = "local" -> {local_release_socket}
                  [] k = "local_acceptor" -> {local_acceptor_release}
                  [] k = "file" -> {file_release} [] k = "raf" -> {raf_release}
                  [] OTHER -> {}
Returned == <<Do("return", "any")>>    \* the end of a call that started no operation

NewOp == [life |-> "idle", ready |-> 0, flag |-> FALSE, res |-> "ok", kres |-> "ok",
          token |-> "none", kern |-> "no", io |-> 0, st |-> 0, kept |-> FALSE,
          out |-> "none", asked |-> FALSE, empty |-> FALSE]

IocpInit ==
    /\ kind \in Kinds /\ open = "open" /\ wrapper = TRUE
    /\ op = [o \in Ops(kind) |-> NewOp]
    /\ todo = [t \in Threads |-> << >>] /\ turn = FALSE /\ work = 0
    /\ lep = FALSE /\ off = 0 /\ peer = "none" /\ calls = 0 /\ starts = 0 /\ down = "no"
    /\ rx = [up |-> FALSE, reg |-> 0, can |-> FALSE, on |-> 0, pend |-> FALSE,
             byte |-> FALSE, stop |-> FALSE, pc |-> "drain", got |-> FALSE, fire |-> FALSE,
             broke |-> FALSE]

-----------------------------------------------------------------------------
(***************************************************************************)
(* Calls.  Calls on one object are made one at a time; a call ends where   *)
(* its coroutine can be resumed elsewhere, so the tail of an initiating    *)
(* function overlaps whatever the program does next on another thread.     *)
(***************************************************************************)
Call(t, script) ==
    /\ t \in Workers /\ todo[t] = << >> /\ ~turn /\ wrapper /\ down = "no"
    /\ calls < MaxCalls /\ calls' = calls + 1
    /\ turn' = TRUE
    /\ todo' = [todo EXCEPT ![t] = script]
    /\ UNCHANGED <<kind, open, wrapper, op, work, lep, off, peer, rx, down>>

StartOp(t) == \E o \in Ops(kind) : \E s \in Initiate(kind, o) :
    /\ op[o].life = "idle" /\ open = "open" /\ Call(t, s)
    /\ starts < MaxStarts /\ starts' = starts + 1
CallCancel(t) == open = "open" /\ UNCHANGED starts /\ Call(t, CancelOf(kind) \o Returned)
CallClose(t) == open = "open" /\ UNCHANGED starts /\ Call(t, CloseOf(kind) \o Returned)
CallOpen(t) == \E s \in OpenOf(kind) : open # "open" /\ UNCHANGED starts /\ Call(t, s \o Returned)
CallRelease(t) == \E s \in ReleaseOf(kind) : open = "open" /\ UNCHANGED starts /\ Call(t, s \o Returned)
\* service::destroy: close_internal, then the wrapper is deleted
CallDestroy(t) == UNCHANGED starts /\ Call(t, CloseOf(kind) \o <<Do("delete", "any")>> \o Returned)

\* The token of a started operation is stopped: the stop callback runs
\* on_cancel, the flag and then do_cancel_impl, on the requesting thread.
StopToken(o) ==
    /\ op[o].token = "live" /\ todo["stop"] = << >> /\ down = "no"
    /\ op' = [op EXCEPT ![o].token = "firing", ![o].flag = TRUE, ![o].asked = TRUE]
    /\ todo' = [todo EXCEPT !["stop"] = Hook(kind, o) \o <<Do("fired", o)>>]
    /\ UNCHANGED <<kind, open, wrapper, turn, work, lep, off, peer, rx, calls, starts, down>>

-----------------------------------------------------------------------------
(***************************************************************************)
(* Steps of a thread inside a function.                                    *)
(***************************************************************************)
At(t, verb, o) == todo[t] # << >> /\ Head(todo[t]) = Do(verb, o)
Go(t) == todo' = [todo EXCEPT ![t] = Tail(@)]
Jump(t, script) == todo' = [todo EXCEPT ![t] = script]
Ask(f) == [o \in DOMAIN f |-> [f[o] EXCEPT !.asked = @ \/ f[o].life # "idle"]]
CancelIo(r) == [r EXCEPT !.kern = IF @ = "pending" THEN "cancelled" ELSE @]    \* CancelIoEx

\* win_scheduler::on_completion: the result is stored, the packet is posted
OnCompletion(r, e) == [r EXCEPT !.res = e, !.ready = 1, !.st = @ + 1]
\* The initiating function completes the operation itself and returns
Now(t, o, e) ==
    /\ op' = [op EXCEPT ![o] = OnCompletion(@, e)]
    /\ Jump(t, << >>) /\ turn' = FALSE

\* shared_from_this, reset() and coro_op::start(token); a token that is already
\* stopped runs on_cancel inline
Arm(t, o) == At(t, "arm", o) /\ \E tok \in {"live", "fired"} :
    /\ op' = [op EXCEPT ![o] = [NewOp EXCEPT !.life = "flying", !.kept = TRUE,
                !.token = IF tok = "fired" THEN "none" ELSE "live",
                !.flag = tok = "fired", !.asked = tok = "fired"]]
    /\ Jump(t, (IF tok = "fired" THEN Hook(kind, o) ELSE << >>) \o Tail(todo[t]))
    /\ work' = work + 1
    /\ UNCHANGED <<kind, open, wrapper, turn, lep, off, peer, rx, calls, starts, down>>

\* An empty buffer (the program may pass one) completes at once
EmptyBuffer(t, o) ==
    /\ At(t, "empty", o)
    /\ \/ Go(t) /\ UNCHANGED <<op, turn>>
       \/ op' = [op EXCEPT ![o] = [OnCompletion(@, "zero") EXCEPT !.empty = TRUE]]
          /\ Jump(t, << >>) /\ turn' = FALSE
    /\ UNCHANGED <<kind, open, wrapper, work, lep, off, peer, rx, calls, starts, down>>

\* bind before ConnectEx (only without a local endpoint), a missing extension
\* function or an unassociated socket end the operation with an error; the
\* socket made for an accept is closed then
Prepare(t, o) == \E v \in {"bind", "fail"} : At(t, v, o)
    /\ \/ Go(t) /\ UNCHANGED <<op, turn, peer>>
       \/ /\ v = "bind" => ~lep
          /\ Now(t, o, "err") /\ peer' = IF o = "acc" THEN "none" ELSE peer
    /\ UNCHANGED <<kind, open, wrapper, work, lep, off, rx, calls, starts, down>>
PeerSocket(t, o) ==
    /\ At(t, "socket", o) /\ peer' = "held"
    /\ Go(t)
    /\ UNCHANGED <<kind, open, wrapper, op, turn, work, lep, off, rx, calls, starts, down>>

\* WSARecv, WSASend, ConnectEx, AcceptEx, ReadFile, ...: refused, or pending
Issue(t, o) ==
    /\ At(t, "issue", o)
    /\ \/ open = "open" /\ Go(t) /\ op' = [op EXCEPT ![o].kern = "pending"]
          /\ UNCHANGED <<turn, peer>>
       \/ Now(t, o, "err") /\ peer' = IF o = "acc" THEN "none" ELSE peer
    /\ UNCHANGED <<kind, open, wrapper, work, lep, off, rx, calls, starts, down>>

\* Mutant: a packet that was dequeued meanwhile is forgotten.
PostsAgain_bug(o) == 0
\* on_pending: if the packet was dequeued meanwhile, post it again
PostsAgain(o) == IF op[o].ready = 1 THEN 1 ELSE 0
OnPending(t, o) ==
    /\ At(t, "pend", o) /\ op' = [op EXCEPT ![o].ready = 1,
                        ![o].st = @ + PostsAgain(o)]
    /\ Go(t) /\ turn' = FALSE
    /\ UNCHANGED <<kind, open, wrapper, work, lep, off, peer, rx, calls, starts, down>>

\* The test of op.cancelled after on_pending, and the CancelIoEx it leads to
AfterPending(o) == IF op[o].flag THEN <<Do("cancel_io", o)>> ELSE << >>
Recheck(t, o) ==
    /\ At(t, "recheck", o) /\ Jump(t, AfterPending(o))
    /\ UNCHANGED <<kind, open, wrapper, op, turn, work, lep, off, peer, rx, calls, starts, down>>
CancelOne(t, o) ==
    /\ At(t, "cancel_io", o) /\ Go(t)
    /\ op' = IF open = "open" THEN [op EXCEPT ![o] = CancelIo(@)] ELSE op
    /\ UNCHANGED <<kind, open, wrapper, turn, work, lep, off, peer, rx, calls, starts, down>>

\* wait(write) completes at once; connect of a datagram socket is synchronous
SyncResult(t, o) ==
    /\ \/ At(t, "ok", o) /\ Now(t, o, "ok")
       \/ At(t, "sync", o) /\ \E e \in {"ok", "err"} : Now(t, o, e)
    /\ UNCHANGED <<kind, open, wrapper, work, lep, off, peer, rx, calls, starts, down>>

-----------------------------------------------------------------------------
(* cancel, close, release, open                                             *)

CancelAll(t, o) ==
    /\ At(t, "cancel_all", o) /\ Go(t)
    /\ op' = Ask([p \in DOMAIN op |-> CancelIo(op[p])])
    /\ UNCHANGED <<kind, open, wrapper, turn, work, lep, off, peer, rx, calls, starts, down>>
RequestCancelAll(t) ==
    /\ At(t, "flag_all", "any") /\ Go(t)
    /\ op' = Ask([p \in DOMAIN op |-> [op[p] EXCEPT !.flag = TRUE]])
    /\ UNCHANGED <<kind, open, wrapper, turn, work, lep, off, peer, rx, calls, starts, down>>
\* CancelIoEx and closesocket or CloseHandle, if the handle is valid; the cached
\* endpoints are cleared and a stream position goes back to 0
CloseHandle(t, o) ==
    /\ At(t, "close", o) /\ Go(t)
    /\ op' = IF open = "open"
             THEN Ask([p \in DOMAIN op |-> [op[p] EXCEPT !.kern = IF @ = "no" THEN @ ELSE "closed"]])
             ELSE op
    /\ open' = "closed" /\ lep' = FALSE /\ off' = 0
    /\ UNCHANGED <<kind, wrapper, turn, work, peer, rx, calls, starts, down>>
\* The handle is given away: what is pending on it stays pending
Release(t, o) ==
    /\ At(t, "release", o) /\ Go(t)
    /\ open' = "released" /\ lep' = FALSE /\ off' = 0
    /\ UNCHANGED <<kind, wrapper, op, turn, work, peer, rx, calls, starts, down>>
\* A new handle is made or adopted, or the call fails
Open(t, o) ==
    /\ At(t, "open", o) /\ open' \in {"open", "closed"}
    /\ IF open' = "open" THEN Go(t) ELSE Jump(t, Returned)
    /\ UNCHANGED <<kind, wrapper, op, turn, work, lep, off, peer, rx, calls, starts, down>>
Endpoint(t, o) ==
    /\ \/ At(t, "bound", o) /\ lep' \in {lep, TRUE}      \* bind may fail
       \/ At(t, "set_ep", o) /\ lep' = TRUE
    /\ Go(t)
    /\ UNCHANGED <<kind, open, wrapper, op, turn, work, off, peer, rx, calls, starts, down>>
DeleteWrapper(t) ==
    /\ At(t, "delete", "any") /\ wrapper' = FALSE
    /\ Go(t)
    /\ UNCHANGED <<kind, open, op, turn, work, lep, off, peer, rx, calls, starts, down>>
Return(t) ==
    /\ At(t, "return", "any") /\ turn' = FALSE
    /\ Go(t)
    /\ UNCHANGED <<kind, open, wrapper, op, work, lep, off, peer, rx, calls, starts, down>>
Fired(t, o) ==
    /\ At(t, "fired", o) /\ op' = [op EXCEPT ![o].token = "none"]
    /\ Go(t)
    /\ UNCHANGED <<kind, open, wrapper, turn, work, lep, off, peer, rx, calls, starts, down>>

-----------------------------------------------------------------------------
(* The wait reactor: registration by the callers, the loop of its thread    *)

\* register_wait constructs the reactor on first use and completes an already
\* cancelled operation instead of parking it
TestWait(t, o) ==
    /\ At(t, "test", o)
    /\ rx' = [rx EXCEPT !.up = TRUE]
    /\ IF op[o].flag THEN Now(t, o, "ok") ELSE Go(t) /\ UNCHANGED <<op, turn>>
    /\ UNCHANGED <<kind, open, wrapper, work, lep, off, peer, calls, starts, down>>
ParkWait(t, o) ==
    /\ At(t, "park", o) /\ Go(t)
    /\ turn' = FALSE
    /\ rx' = [rx EXCEPT !.reg = @ + 1]
    /\ UNCHANGED <<kind, open, wrapper, op, work, lep, off, peer, calls, starts, down>>
CancelWait(t, o) ==
    /\ At(t, "cancel_wait", o) /\ Go(t)
    /\ rx' = IF rx.up THEN [rx EXCEPT !.can = TRUE] ELSE rx
    /\ UNCHANGED <<kind, open, wrapper, op, turn, work, lep, off, peer, calls, starts, down>>
\* wake_self: at most one unread byte, guarded by wake_pending_
WakeSelf(r) == IF r.pend \/ ~r.up THEN r ELSE [r EXCEPT !.pend = TRUE, !.byte = TRUE]
Wake(t, o) ==
    /\ At(t, "wake", o) /\ Go(t)
    /\ rx' = WakeSelf(rx)
    /\ UNCHANGED <<kind, open, wrapper, op, turn, work, lep, off, peer, calls, starts, down>>

PostWaits(f, n, e) == IF n = 0 THEN f ELSE
    [f EXCEPT !["wt"] = [@ EXCEPT !.res = e, !.ready = 1, !.st = @ + n]]
rx_only == <<kind, open, wrapper, todo, turn, work, lep, off, peer, calls, starts, down>>

\* Both lists are taken; a cancelled entry is completed and erased
RxDrain ==
    /\ rx.up
    /\ rx.pc = "drain"
    /\ ~rx.stop
    /\ LET n == rx.on + rx.reg IN
       /\ op' = PostWaits(op, IF rx.can /\ n > 0 THEN 1 ELSE 0, "ok")
       /\ rx' = [rx EXCEPT !.on = IF rx.can /\ n > 0 THEN n - 1 ELSE n, !.reg = 0,
                           !.can = FALSE, !.pc = "poll"]
    /\ UNCHANGED rx_only
\* WSAPoll returns: the wake byte, the watched socket, or both; the byte is read
RxPoll == rx.pc = "poll" /\ \E fire \in BOOLEAN :
    /\ fire => rx.on > 0
    /\ rx.byte \/ fire
    /\ rx' = [rx EXCEPT !.pc = "act", !.got = rx.byte, !.byte = FALSE, !.fire = fire]
    /\ UNCHANGED <<rx_only, op>>
RxPollFails ==
    /\ rx.pc = "poll"
    /\ rx' = [rx EXCEPT !.pc = "exit", !.broke = TRUE]
    /\ UNCHANGED <<rx_only, op>>
\* wake_pending_ is cleared, then the ready entry is completed and erased
RxAct == rx.pc = "act" /\ \E e \in {"ok", "err"} :
    /\ op' = PostWaits(op, IF rx.fire THEN 1 ELSE 0, e)
    /\ rx' = [rx EXCEPT !.pc = "drain", !.pend = rx.pend /\ ~rx.got, !.got = FALSE,
                        !.fire = FALSE, !.on = IF rx.fire THEN @ - 1 ELSE @]
    /\ UNCHANGED rx_only
\* Leaving the loop: everything still there is completed as aborted
RxExit ==
    /\ (rx.pc = "exit" \/ (rx.up /\ rx.pc = "drain" /\ rx.stop))
    /\ op' = PostWaits(op, rx.on + rx.reg, "aborted")
    /\ rx' = [rx EXCEPT !.pc = "dead", !.on = 0, !.reg = 0, !.can = FALSE]
    /\ UNCHANGED rx_only

-----------------------------------------------------------------------------
(* The kernel and the completion port                                       *)

\* An overlapped operation ends.  Cancelled or closed, it ends as aborted, or
\* as deleted by a local close, unless it had just finished
KernelDone(o) ==
    /\ op[o].kern # "no"
    /\ \E e \in {"ok", "err"} \cup (IF o \in Reads THEN {"zero"} ELSE {})
              \cup (IF op[o].kern = "pending" THEN {} ELSE {"aborted"})
              \cup (IF op[o].kern = "closed" /\ kind \notin {"file", "raf"}
                    THEN {"deleted"} ELSE {}) :
         op' = [op EXCEPT ![o].kern = "no", ![o].kres = e, ![o].io = @ + 1]
    /\ UNCHANGED <<kind, open, wrapper, todo, turn, work, lep, off, peer, rx, calls, starts, down>>

\* do_one: a key_io packet carries the result, a key_result_stored one does not;
\* whoever of initiator and dequeuer comes second completes the operation
DoOneIo(t, o) ==
    /\ t \in Workers /\ todo[t] = << >> /\ down = "no"
    /\ op[o].io > 0
    /\ op' = [op EXCEPT ![o].io = @ - 1, ![o].res = op[o].kres, ![o].ready = 1,
                        ![o].life = IF op[o].ready = 1 THEN "completing" ELSE @]
    /\ IF op[o].ready = 1 THEN Jump(t, Done(kind, o)) ELSE UNCHANGED todo
    /\ UNCHANGED <<kind, open, wrapper, turn, work, lep, off, peer, rx, calls, starts, down>>
DoOneStored(t, o) ==
    /\ t \in Workers /\ todo[t] = << >> /\ down = "no"
    /\ op[o].st > 0
    /\ op' = [op EXCEPT ![o].st = @ - 1, ![o].ready = 1,
                        ![o].life = IF op[o].ready = 1 THEN "completing" ELSE @]
    /\ IF op[o].ready = 1 THEN Jump(t, Done(kind, o)) ELSE UNCHANGED todo
    /\ UNCHANGED <<kind, open, wrapper, turn, work, lep, off, peer, rx, calls, starts, down>>

-----------------------------------------------------------------------------
(* Steps of a completion                                                    *)

Success(o) == op[o].res = "ok" /\ ~op[o].flag

\* The connect completion: on success the endpoints are read from the socket
Connected(t, o) ==
    /\ At(t, "connected", o)
    /\ Jump(t, (IF Success(o) /\ open = "open" THEN <<Do("set_ep", o)>> ELSE << >>)
               \o Tail(todo[t]))
    /\ UNCHANGED <<kind, open, wrapper, op, turn, work, lep, off, peer, rx, calls, starts, down>>
\* A file operation that moved data advances the stream position
Advance(t, o) ==
    /\ At(t, "advance", o) /\ Go(t)
    /\ off' = IF op[o].res = "ok" /\ off < 2 THEN off + 1 ELSE off
    /\ UNCHANGED <<kind, open, wrapper, op, turn, work, lep, peer, rx, calls, starts, down>>
\* stop_cb.reset() waits for a running callback; the keepalive moves to the thread
Disarm(t, o) ==
    /\ At(t, "disarm", o) /\ op[o].token # "firing"
    /\ Go(t)
    /\ op' = [op EXCEPT ![o].token = "none", ![o].kept = FALSE]
    /\ UNCHANGED <<kind, open, wrapper, turn, work, lep, off, peer, rx, calls, starts, down>>
\* The accepted socket goes to the caller, or is closed with its wrapper
GivePeer(t, o) ==
    /\ At(t, "peer", o) /\ Go(t)
    /\ peer' = IF Success(o) /\ peer = "held" THEN "given" ELSE "none"
    /\ UNCHANGED <<kind, open, wrapper, op, turn, work, lep, off, rx, calls, starts, down>>

\* decode_io_result over iocp_make_err: cancelled, then error, then EOF
Decode(o) ==
    IF op[o].flag \/ op[o].res = "aborted" THEN "canceled"
    ELSE IF op[o].res \in {"err", "deleted"} THEN op[o].res
    ELSE IF o \in Reads /\ op[o].res = "zero" /\ ~op[o].empty THEN "eof"
    ELSE "ok"
\* invoke_handler: the result is written and the coroutine resumes
Resume(t, o) ==
    /\ At(t, "resume", o) /\ Go(t)
    /\ op' = [op EXCEPT ![o] = [NewOp EXCEPT !.out = Decode(o), !.flag = @ \/ op[o].flag, !.asked = op[o].asked,
                                   !.token = op[o].token, !.kept = op[o].kept]]
    /\ UNCHANGED <<kind, open, wrapper, turn, work, lep, off, peer, rx, calls, starts, down>>
WorkFinished(t, o) ==
    /\ At(t, "finish", o) /\ Go(t)
    /\ work' = work - 1
    /\ UNCHANGED <<kind, open, wrapper, op, turn, lep, off, peer, rx, calls, starts, down>>

-----------------------------------------------------------------------------
(***************************************************************************)
(* Shutdown of the context: the object's service closes its handle, then   *)
(* the scheduler stops the wait reactor, joins it, and takes packets from  *)
(* the port until no work is left, dropping each operation's keepalive.    *)
(***************************************************************************)
NoThreadBusy == \A t \in Threads : todo[t] = << >>
Shutdown ==
    /\ down = "no"
    /\ NoThreadBusy
    /\ down' = "close"
    /\ \E t \in Workers : Jump(t, CloseOf(kind))
    /\ UNCHANGED <<kind, open, wrapper, op, turn, work, lep, off, peer, rx, calls, starts>>
StopReactor ==
    /\ down = "close"
    /\ NoThreadBusy
    /\ down' = "join"
    /\ rx' = WakeSelf([rx EXCEPT !.stop = TRUE])
    /\ UNCHANGED <<kind, open, wrapper, op, todo, turn, work, lep, off, peer, calls, starts>>
JoinReactor ==
    /\ down = "join" /\ (~rx.up \/ rx.pc = "dead")
    /\ down' = "drain"
    /\ UNCHANGED <<kind, open, wrapper, op, todo, turn, work, lep, off, peer, rx, calls, starts>>
DrainPacket(o) ==
    /\ down = "drain"
    /\ work > 0
    /\ \E k \in {"io", "st"} : op[o][k] > 0 /\
         op' = [op EXCEPT ![o][k] = @ - 1, ![o].life = "idle", ![o].kept = FALSE,
                          ![o].token = "none", ![o].out = "none"]
    /\ work' = work - 1
    /\ peer' = IF o = "acc" THEN "none" ELSE peer
    /\ UNCHANGED <<kind, open, wrapper, todo, turn, lep, off, rx, calls, starts, down>>
Drained ==
    /\ down = "drain"
    /\ work = 0
    /\ down' = "done"
    /\ UNCHANGED <<kind, open, wrapper, op, todo, turn, work, lep, off, peer, rx, calls, starts>>
\* The drain loop polls an empty port again and again while work is left
IocpEnd == (down = "done" \/ (down = "drain" /\ work > 0)) /\ UNCHANGED io_vars

Step(t) ==
    \/ \E o \in Ops(kind) :
         \/ Arm(t, o) \/ EmptyBuffer(t, o) \/ Prepare(t, o)
         \/ PeerSocket(t, o) \/ Issue(t, o) \/ OnPending(t, o) \/ Recheck(t, o)
         \/ CancelOne(t, o) \/ SyncResult(t, o) \/ CancelAll(t, o) \/ CloseHandle(t, o)
         \/ Release(t, o) \/ Open(t, o) \/ Endpoint(t, o) \/ Fired(t, o)
         \/ TestWait(t, o) \/ ParkWait(t, o) \/ CancelWait(t, o) \/ Wake(t, o)
         \/ Connected(t, o) \/ Advance(t, o) \/ Disarm(t, o) \/ GivePeer(t, o)
         \/ Resume(t, o) \/ WorkFinished(t, o)
    \/ RequestCancelAll(t) \/ DeleteWrapper(t) \/ Return(t)

IocpNext ==
    \/ \E t \in Workers : \/ StartOp(t) \/ CallCancel(t) \/ CallClose(t) \/ CallOpen(t)
                          \/ CallRelease(t) \/ CallDestroy(t)
    \/ \E o \in Ops(kind) : \/ StopToken(o) \/ KernelDone(o) \/ DrainPacket(o)
    \/ \E t \in Workers, o \in Ops(kind) : DoOneIo(t, o) \/ DoOneStored(t, o)
    \/ \E t \in Threads : Step(t)
    \/ RxDrain \/ RxPoll \/ RxPollFails \/ RxAct \/ RxExit
    \/ Shutdown \/ StopReactor \/ JoinReactor \/ Drained \/ IocpEnd

IocpSpec == IocpInit /\ [][IocpNext]_io_vars

-----------------------------------------------------------------------------
(* Properties                                                               *)

IocpTypeOK ==
    /\ kind \in Kinds /\ open \in {"open", "closed", "released"}
    /\ wrapper \in BOOLEAN /\ turn \in BOOLEAN /\ lep \in BOOLEAN
    /\ work \in Nat /\ off \in 0..2 /\ peer \in {"none", "held", "given"}
    /\ down \in {"no", "close", "join", "drain", "done"} /\ calls \in 0..MaxCalls /\ starts \in 0..MaxStarts
    /\ \A o \in Ops(kind) : /\ op[o].life \in {"idle", "flying", "completing"}
                            /\ op[o].kern \in {"no", "pending", "cancelled", "closed"}
                            /\ op[o].token \in {"none", "live", "firing"}
    /\ rx.pc \in {"drain", "poll", "act", "exit", "dead"}

Has(t, verb, o) == \E i \in 1..Len(todo[t]) : todo[t][i] = Do(verb, o)
Bit(b) == IF b THEN 1 ELSE 0
\* The function that started o has not yet reached the point where it hands it over
Starting(o) == \E t \in Workers : \E v \in {"pend", "park", "ok", "sync"} : Has(t, v, o)
Homes(o) == Bit(op[o].kern # "no") + op[o].io + op[o].st + Bit(op[o].life = "completing")
              + (IF o = "wt" THEN rx.reg + rx.on ELSE 0)

\* A started operation is in exactly one place: still with the function that
\* started it, in the kernel, in the completion queue, in the wait reactor, or
\* being completed.  So no operation is lost and none is completed twice,
\* whichever of on_pending and do_one comes first.
OneHome == \A o \in Ops(kind) :
    /\ Homes(o) <= 1
    /\ op[o].life = "idle" => Homes(o) = 0
    /\ op[o].life = "flying" /\ ~Starting(o) => Homes(o) = 1

\* While the kernel, the port, the wait reactor or a running stop callback can
\* still reach an operation, its shared_ptr keeps the object (and with it the
\* operation) alive, even after the user's handle is gone.
KeptAlive == \A o \in Ops(kind) :
    \/ op[o].kern # "no" \/ op[o].io + op[o].st > 0 \/ op[o].token = "firing"
    \/ o = "wt" /\ rx.reg + rx.on > 0
    => op[o].kept

\* The ready_ handshake: an operation is not completed while the function that
\* started it is still before on_pending, whatever the order of the two.
NotBeforePending == \A o \in Ops(kind) :
    op[o].life = "completing" => ~Starting(o)

\* outstanding_work_ is the number of operations started and not finished, so it
\* neither stops run() under a pending operation nor keeps it from returning.
WorkCounted ==
    LET started == {o \in Ops(kind) : op[o].life = "flying"}
        ending == {t \in Workers : \E o \in Ops(kind) : Has(t, "finish", o)}
    IN  work = Cardinality(started) + Cardinality(ending)

\* An operation ended by closing its own socket never reports connection_reset:
\* close_socket flags every operation before closesocket can complete one with
\* ERROR_NETNAME_DELETED.
LocalCloseNotReset == \A o \in Ops(kind) : op[o].out # "deleted"

\* The socket created for an accept never stays behind in the operation: it is
\* handed to the caller or closed in every ending, refused, failed, cancelled or
\* drained at shutdown.
PeerNotLeaked ==
    "acc" \in Ops(kind) /\ op["acc"].life = "idle" => peer # "held"

\* Everything that happens by itself has happened: no thread is inside a
\* function, no packet is queued, the kernel holds no cancelled, closed or file
\* operation, the reactor thread sleeps in WSAPoll or is gone.  The steps these
\* conditions speak of are bounded in number, so every behaviour in which they
\* are taken reaches such a state unless the program, the peer or a stop request
\* acts again: what must eventually happen has happened here.
Quiet ==
    /\ NoThreadBusy
    /\ \A o \in Ops(kind) :
         /\ op[o].io + op[o].st = 0
         /\ op[o].kern \in (IF kind \in {"file", "raf"} THEN {"no"} ELSE {"no", "pending"})
    /\ rx.up => rx.pc = "dead" \/ (rx.pc = "poll" /\ ~rx.byte)

\* Closing (or destroying) an object ends every operation started on it, also
\* one parked in the wait reactor, unless WSAPoll failed and the reactor is gone.
CloseEnds == Quiet /\ open = "closed" /\ ~rx.broke =>
    \A o \in Ops(kind) : op[o].life = "idle"

\* A cancelled operation ends: the stop callback may run before the overlapped
\* call is issued, and the second test after on_pending makes up for it.  A TCP
\* connect has no second test, and a wait may be parked after its cancellation
\* was dropped by the reactor, so neither is claimed here.
CancelEnds == Quiet => \A o \in Ops(kind) \ {"wt"} :
    op[o].life # "idle" /\ op[o].flag => kind = "tcp" /\ o = "conn"

\* A shutdown that has begun leaves no operation behind: once nothing more
\* happens by itself, no work is counted and no operation is kept alive.
ShutdownEnds == Quiet /\ down = "drain" /\ ~rx.broke =>
    work = 0 /\ \A o \in Ops(kind) : ~op[o].kept

\* An operation that ends as canceled was asked to: by its own stop token, or by
\* a cancel, close or release made while it was pending.
CanceledWasAsked == \A o \in Ops(kind) \ {"wt"} : op[o].out = "canceled" => op[o].asked

(***************************************************************************)
(* The books of an overlapped operation, through initiation, the packet    *)
(* that may be dequeued before on_pending, the wait reactor, cancellation, *)
(* close and shutdown: it has one home and one unit of work, lies in a     *)
(* living object, is dispatched only once pending, ends cancelled only if  *)
(* somebody asked, and a local close does not look like a reset by the     *)
(* peer.                                                                   *)
(***************************************************************************)
IocpLedger ==
    /\ IocpTypeOK
    /\ OneHome
    /\ KeptAlive
    /\ NotBeforePending
    /\ WorkCounted
    /\ PeerNotLeaked
    /\ LocalCloseNotReset
    /\ CanceledWasAsked

=============================================================================
