----------------------------- MODULE TlsStream -----------------------------
(***************************************************************************)
(* The OpenSSL and wolfSSL streams: coroutines that call the TLS engine,   *)
(* and between the calls carry its records to and from the transport under *)
(* one async mutex.  The engine, the mutex and the transport are external, *)
(* modelled by what the coroutines see of them: an engine call consumes    *)
(* records that were read, produces records to write and answers ok,       *)
(* want_read, want_write, zero (the peer's close_notify) or an error.      *)
(* A record on its way out is its number in the session.                   *)
(***************************************************************************)
EXTENDS Integers, Sequences, SequencesExt

CONSTANTS TlsModes,    \* among "half" (one operation at a time), "full" (read beside write,
                       \* OpenSSL and no renegotiation) and "any" (read beside write)
          MaxRecords,  \* records the peer sends in a behaviour
          MaxTlsOps,   \* operations started in a behaviour
          MaxStops     \* stop requests in a behaviour

VARIABLES lib, mode,   \* "openssl" or "wolfssl"; how the program uses the stream
          ssl,         \* the session: NoSession or the engine's state
          used,        \* used_
          hostname,    \* hostname_
          setup_failed,\* the native context's flag
          in, out,     \* records in the engine's buffers: "bio" for OpenSSL, "r" and "w" for wolfSSL
          out_buf,     \* OpenSSL's out_buf_
          current_op,  \* wolfSSL's current_op_
          task,        \* the two coroutines: "r" reads, handshakes and shuts down, "w" writes
          io_cm,       \* the async mutex: holder and waiters
          tin, tend,   \* the transport: records in flight to us, and its end
          wire,        \* records of this session that were written
          seq,         \* records the engine produced in this session
          broken,      \* a write failed or was given up with records in it
          expect,      \* history: the hostname the last handshake must check
          recs, ops, stops
tls_vars == <<lib, mode, ssl, used, hostname, setup_failed, in, out, out_buf, current_op, task, io_cm,
              tin, tend, wire, seq, broken, expect, recs, ops, stops>>

Slots == {"r", "w"}
Buffers == {"bio", "r", "w"}
NoSession == [hs |-> "none", host |-> "", reneg |-> FALSE, received |-> FALSE, sent |-> FALSE, frag |-> FALSE, renegd |-> FALSE]
NewSession(h) == [NoSession EXCEPT !.hs = "fresh", !.host = h]
IdleTask == [kind |-> "none", pc |-> "idle", then |-> "ret", got |-> 0, stop |-> FALSE, res |-> "none"]
Empty == [b \in Buffers |-> <<>>]

TlsInit ==
    /\ mode \in TlsModes /\ lib \in (IF mode = "full" THEN {"openssl"} ELSE {"openssl", "wolfssl"})
    /\ ssl = (IF lib = "openssl" THEN NewSession("") ELSE NoSession)   \* init_ssl; wolfSSL defers it
    /\ used = FALSE /\ hostname = "" /\ setup_failed \in BOOLEAN
    /\ in = Empty /\ out = Empty /\ out_buf = <<>> /\ current_op = "none"
    /\ task = [s \in Slots |-> IdleTask]
    /\ io_cm = [holder |-> "none", queue |-> <<>>]
    /\ tin = <<>> /\ tend = "open" /\ wire = <<>> /\ seq = 0 /\ broken = FALSE
    /\ expect = ""
    /\ recs = 0 /\ ops = 0 /\ stops = 0

---------------------------------------------------------------------------
(* The engine (external) *)

Answer(ret, take, emit, s) == [ret |-> ret, take |-> take, emit |-> emit, ssl |-> s]
Dead == [ssl EXCEPT !.hs = "dead"]
EngineConnect(i) ==
    CASE ssl.hs = "fresh" -> Answer("want_read", 0, 1, [ssl EXCEPT !.hs = "hello"])
      [] ssl.hs = "hello" /\ i = <<>> -> Answer("want_read", 0, 0, ssl)
      [] ssl.hs = "hello" /\ i # <<>> /\ Head(i) = "hello" -> Answer("ok", 1, 1, [ssl EXCEPT !.hs = "done"])
      [] OTHER -> Answer("err", IF i = <<>> THEN 0 ELSE 1, 0, Dead)
EngineRead(i) ==
    CASE ssl.hs # "done" -> Answer("err", 0, 0, ssl)
      [] ssl.hs = "done" /\ ssl.received -> Answer("zero", 0, 0, ssl)
      [] ssl.hs = "done" /\ ~ssl.received /\ i = <<>> -> Answer("want_read", 0, 0, ssl)
      [] OTHER ->
          CASE Head(i) = "data" -> Answer("ok", 1, 0, ssl)
            [] Head(i) = "close" -> Answer("zero", 1, 0, [ssl EXCEPT !.received = TRUE])
            [] Head(i) = "reneg" /\ ~ssl.reneg -> Answer("want_read", 1, 1, [ssl EXCEPT !.reneg = TRUE, !.renegd = TRUE])
            [] Head(i) = "hello" /\ ssl.reneg -> Answer("want_read", 1, 1, [ssl EXCEPT !.reneg = FALSE])
            [] OTHER -> Answer("err", 1, 0, Dead)
EngineWrite(i) ==
    CASE ssl.hs # "done" \/ ssl.sent -> Answer("err", 0, 0, ssl)
      [] ssl.hs = "done" /\ ~ssl.sent /\ ~ssl.reneg -> Answer("ok", 0, 1, ssl)
      [] OTHER -> IF i = <<>> THEN Answer("want_read", 0, 0, ssl)
                  ELSE IF Head(i) = "hello" THEN Answer("ok", 1, 2, [ssl EXCEPT !.reneg = FALSE])
                  ELSE Answer("err", 1, 0, Dead)
EngineShutdown(i) ==
    CASE ssl.hs # "done" -> Answer("err", 0, 0, ssl)
      [] ssl.hs = "done" /\ ~ssl.sent -> Answer(IF ssl.received THEN "ok" ELSE "sent", 0, 1, [ssl EXCEPT !.sent = TRUE])
      [] OTHER -> IF ssl.received THEN Answer("ok", 0, 0, ssl)
                  ELSE IF i = <<>> THEN Answer("want_read", 0, 0, ssl)
                  ELSE IF Head(i) = "close" THEN Answer("ok", 1, 0, [ssl EXCEPT !.received = TRUE])
                  ELSE Answer("err", 1, 0, Dead)
Engine(kind, i) ==
    CASE kind = "handshake" -> EngineConnect(i) [] kind = "read" -> EngineRead(i)
      [] kind = "write" -> EngineWrite(i)       [] kind = "shutdown" -> EngineShutdown(i)
\* a call that produces records may fill the output buffer and ask for a write first
Answers(kind, i) ==
    LET a == Engine(kind, i) IN
    IF a.emit > 0 /\ ~ssl.frag THEN {a, Answer("want_write", 0, 1, [ssl EXCEPT !.frag = TRUE])}
    ELSE {[a EXCEPT !.ssl.frag = FALSE]}

---------------------------------------------------------------------------
(* What each coroutine does with the engine's answer *)

Return(res) == [flush |-> FALSE, then |-> "ret", res |-> res]
Flush(then) == [flush |-> TRUE, then |-> then, res |-> "ok"]
Input == [flush |-> FALSE, then |-> "input", res |-> "ok"]

do_read_some(ret) ==
    CASE ret = "ok" -> Return("ok")            [] ret = "want_write" -> Flush("call")
      [] ret = "want_read" -> Flush("input")   [] ret = "zero" -> Return("eof")
      [] OTHER -> Return("error")
do_write_some(ret) ==
    CASE ret = "ok" -> Flush("ret")            [] ret = "want_write" -> Flush("call")
      [] ret = "want_read" -> Flush("input")   [] OTHER -> Return("error")
do_handshake(ret) ==
    CASE ret = "ok" -> Flush("ret")            [] ret = "want_write" -> Flush("call")
      [] ret = "want_read" -> Flush("input")   [] OTHER -> Return("error")
do_shutdown(ret) ==
    CASE ret = "ok" -> Flush("ret")            [] ret = "want_write" -> Flush("call")
      [] ret \in {"want_read", "sent"} -> Flush("input")
      [] OTHER -> Return("error")

\* wolfSSL: reading and writing do not flush before they wait for input
wolf_do_read_some(ret) ==
    CASE ret = "ok" -> Return("ok")            [] ret = "want_write" -> Flush("call")
      [] ret = "want_read" -> Input            [] ret = "zero" -> Return("eof")
      [] OTHER -> Return("error")
wolf_do_write_some(ret) ==
    CASE ret = "ok" -> Flush("ret")            [] ret = "want_write" -> Flush("call")
      [] ret = "want_read" -> Input            [] OTHER -> Return("error")
wolf_do_handshake(ret) ==
    CASE ret = "ok" -> Flush("ret")            [] ret = "want_write" -> Flush("call")
      [] ret = "want_read" -> Flush("input")   [] OTHER -> Return("error")
wolf_do_shutdown(ret) ==
    CASE ret = "ok" -> Flush("ret")            [] ret = "want_write" -> Flush("call")
      [] ret \in {"want_read", "sent"} -> Flush("input")
      [] OTHER -> Return("error")

After(kind, ret) ==
    IF lib = "openssl"
    THEN CASE kind = "read" -> do_read_some(ret)           [] kind = "write" -> do_write_some(ret)
           [] kind = "handshake" -> do_handshake(ret)      [] kind = "shutdown" -> do_shutdown(ret)
    ELSE CASE kind = "read" -> wolf_do_read_some(ret)      [] kind = "write" -> wolf_do_write_some(ret)
           [] kind = "handshake" -> wolf_do_handshake(ret) [] kind = "shutdown" -> wolf_do_shutdown(ret)

\* eof is reported only after the peer's close_notify; wolfSSL's test also holds after our own
has_peer_shutdown == ssl.received \/ (lib = "wolfssl" /\ ssl.sent)
normalize_openssl_shutdown_read_error(e) == IF e = "canceled" THEN e ELSE "truncated"
ReadError(kind, e) ==
    CASE kind = "read" /\ e = "eof" -> IF has_peer_shutdown THEN "eof" ELSE "truncated"
      [] kind = "shutdown" -> IF lib = "openssl" THEN normalize_openssl_shutdown_read_error(e)
                              ELSE IF e = "canceled" THEN e ELSE "ok"
      [] OTHER -> e
\* wolfSSL takes a failed write of its close_notify for the end
WriteError(s, e) ==
    IF lib = "wolfssl" /\ task[s].kind = "shutdown" /\ task[s].then = "input" THEN "ok" ELSE e

---------------------------------------------------------------------------
(* Starting an operation *)

Busy == \E s \in Slots : task[s].pc # "idle"
MayStartTls(s) ==
    /\ ops < MaxTlsOps /\ task[s].pc = "idle"
    /\ mode = "half" => ~Busy
Begin(s, kind) ==
    /\ task' = [o \in Slots |-> IF o = s THEN [IdleTask EXCEPT !.kind = kind, !.pc = "call"]
                              ELSE IF task[o].pc = "idle" THEN IdleTask ELSE task[o]]
    /\ current_op' = IF lib = "wolfssl" THEN s ELSE "none"
    /\ ops' = ops + 1
StartData(s, kind) ==
    /\ MayStartTls(s) /\ used /\ ssl # NoSession
    /\ \A o \in Slots : task[o].kind \in {"none", "read", "write"} \/ task[o].pc = "idle"
    /\ kind = "shutdown" => ~Busy
    /\ Begin(s, kind)
    /\ UNCHANGED <<lib, mode, ssl, used, hostname, setup_failed, in, out, out_buf, io_cm, tin, tend, wire, seq, broken, expect, recs, stops>>
read_some == StartData("r", "read")
write_some == StartData("w", "write")
shutdown == StartData("r", "shutdown")

\* reset(): OpenSSL keeps the SSL and drains what the engine had produced, wolfSSL frees
\* the session and forgets all buffers
Reset(S) == IF lib = "openssl" THEN NewSession(S.host) ELSE NoSession
ResetOut(o) == Empty
ResetIn(i) == IF lib = "openssl" THEN i ELSE Empty
Name(role) == IF role = "client" THEN hostname ELSE ""
\* apply_hostname_verification, init_ssl_for_role: an existing session is not initialised again
NamedSession(S, role) == IF lib = "openssl" THEN [S EXCEPT !.host = Name(role)]
                         ELSE IF S = NoSession THEN NewSession(Name(role)) ELSE S
\* Mutant: the stream is not marked as used.
UsedAfter_bug == used
UsedAfter == TRUE
handshake(role) ==
    /\ ~Busy /\ MayStartTls("r") /\ ~setup_failed
    /\ LET S == IF used THEN Reset(ssl) ELSE ssl IN
       \/ ssl' = NamedSession(S, role) /\ Begin("r", "handshake")
       \* a name or an ALPN list that cannot be applied
       \/ /\ ssl' = (IF lib = "openssl" THEN S ELSE NoSession)
          /\ task' = [task EXCEPT !["r"] = [IdleTask EXCEPT !.kind = "handshake", !.res = "invalid"]]
          /\ ops' = ops + 1 /\ UNCHANGED current_op
    /\ in' = (IF used THEN ResetIn(in) ELSE in) /\ out' = (IF used THEN ResetOut(out) ELSE out)
    /\ used' = UsedAfter
    /\ wire' = <<>> /\ seq' = 0 /\ broken' = FALSE
    /\ expect' = Name(role)
    /\ UNCHANGED <<lib, mode, hostname, setup_failed, out_buf, io_cm, tin, tend, recs, stops>>
\* a context whose settings could not be applied refuses every handshake
HandshakeRefused ==
    /\ MayStartTls("r") /\ setup_failed /\ ~Busy
    /\ used' = (used \/ lib = "wolfssl") /\ ops' = ops + 1
    /\ task' = [task EXCEPT !["r"] = [IdleTask EXCEPT !.kind = "handshake", !.res = "invalid"]]
    /\ UNCHANGED <<lib, mode, ssl, hostname, setup_failed, in, out, out_buf, current_op, io_cm, tin, tend, wire, seq, broken, expect, recs, stops>>
reset ==
    /\ ~Busy /\ used
    /\ ssl' = Reset(ssl) /\ in' = ResetIn(in) /\ out' = ResetOut(out) /\ used' = FALSE
    /\ wire' = <<>> /\ seq' = 0 /\ broken' = FALSE /\ expect' = ""
    /\ task' = [s \in Slots |-> IdleTask] /\ out_buf' = <<>>
    /\ UNCHANGED <<lib, mode, hostname, setup_failed, current_op, io_cm, tin, tend, recs, ops, stops>>
set_hostname(h) ==
    /\ hostname # h /\ hostname' = h /\ ops < MaxTlsOps /\ ~Busy
    /\ UNCHANGED <<lib, mode, ssl, used, setup_failed, in, out, out_buf, current_op, task, io_cm, tin, tend, wire, seq, broken, expect, recs, ops, stops>>

---------------------------------------------------------------------------
(* Running *)

\* the coroutine ends, with its result
Done(f, s, res) == [f EXCEPT ![s] = [IdleTask EXCEPT !.kind = f[s].kind, !.res = res]]
\* capy::async_mutex (external): first come, first served
Locked(s) == IF io_cm.holder = "none" THEN [io_cm EXCEPT !.holder = s] ELSE [io_cm EXCEPT !.queue = Append(@, s)]
Unlocked == IF io_cm.queue = <<>> THEN [holder |-> "none", queue |-> <<>>]
            ELSE [holder |-> Head(io_cm.queue), queue |-> Tail(io_cm.queue)]

\* recv_callback and send_callback use the buffers current_op_ points to
BufferOf(s) == IF lib = "openssl" THEN "bio" ELSE current_op
\* the buffers the coroutine itself reads into and writes from
OwnBuffer(s) == IF lib = "openssl" THEN "bio" ELSE s
Numbers(n) == [i \in 1 .. n |-> seq + i]

\* From here the coroutine runs until it awaits the mutex and, holding it, the transport.
\* flush_output copies the pending records into out_buf_ before it asks for the mutex;
\* wolfSSL writes from the operation's own buffer.
Proceed(s, o, f) ==
    LET p == o[OwnBuffer(s)] IN
    IF f.flush /\ p # <<>>
    THEN /\ task' = [task EXCEPT ![s].pc = "write", ![s].then = f.then, ![s].got = Len(p)]
         /\ out_buf' = IF lib = "openssl" THEN p \o SubSeq(out_buf, Len(p) + 1, Len(out_buf)) ELSE out_buf
         /\ out' = IF lib = "openssl" THEN [o EXCEPT !["bio"] = <<>>] ELSE o
         /\ io_cm' = Locked(s) /\ UNCHANGED current_op
    ELSE /\ CASE f.then = "ret" -> task' = Done(task, s, f.res) /\ current_op' = "none" /\ UNCHANGED io_cm
              [] f.then = "input" -> task' = [task EXCEPT ![s].pc = "read", ![s].then = "ret"] /\ io_cm' = Locked(s) /\ UNCHANGED current_op
              [] f.then = "call" -> task' = [task EXCEPT ![s].pc = "call", ![s].then = "ret"] /\ UNCHANGED <<io_cm, current_op>>
         /\ out' = o /\ UNCHANGED out_buf
Call(s) ==
    /\ task[s].pc = "call" /\ BufferOf(s) # "none"
    /\ \E a \in Answers(task[s].kind, in[BufferOf(s)]) :
        /\ ssl' = a.ssl
        /\ in' = [in EXCEPT ![BufferOf(s)] = SubSeq(@, a.take + 1, Len(@))]
        /\ seq' = seq + a.emit
        /\ Proceed(s, [out EXCEPT ![BufferOf(s)] = @ \o Numbers(a.emit)], After(task[s].kind, a.ret))
    /\ UNCHANGED <<lib, mode, used, hostname, setup_failed, tin, tend, wire, broken, expect, recs, ops, stops>>
\* flush_output loops until nothing is pending, wolfSSL's loops write once
Resume(s) ==
    /\ task[s].pc = "flushed"
    /\ Proceed(s, out, [Flush(task[s].then) EXCEPT !.flush = lib = "openssl"])
    /\ UNCHANGED <<lib, mode, ssl, used, hostname, setup_failed, in, tin, tend, wire, seq, broken, expect, recs, ops, stops>>

\* a stopped coroutine leaves the mutex's queue with an error, and what it had to write is lost or late
LockCanceled(s) ==
    /\ task[s].pc \in {"write", "read"} /\ io_cm.holder # s /\ task[s].stop
    /\ io_cm' = [io_cm EXCEPT !.queue = SelectSeq(@, LAMBDA x : x # s)]
    /\ broken' = (broken \/ task[s].pc = "write")
    /\ task' = Done(task, s, "canceled") /\ current_op' = "none"
    /\ UNCHANGED <<lib, mode, ssl, used, hostname, setup_failed, in, out, out_buf, tin, tend, wire, seq, expect, recs, ops, stops>>

Chunk(s) == IF lib = "openssl" THEN SubSeq(out_buf, 1, task[s].got) ELSE out[s]
Written(s) == IF lib = "openssl" THEN out ELSE [out EXCEPT ![s] = <<>>]
\* out_buf_ matters only while somebody writes from it
Forget(s) == IF \E o \in Slots \ {s} : task[o].pc = "write" THEN out_buf ELSE <<>>
WriteOk(s) ==
    /\ task[s].pc = "write" /\ io_cm.holder = s /\ tend # "err"
    /\ wire' = wire \o Chunk(s) /\ out' = Written(s) /\ out_buf' = Forget(s)
    /\ task' = [task EXCEPT ![s].pc = "flushed", ![s].got = 0] /\ io_cm' = Unlocked
    /\ UNCHANGED <<lib, mode, ssl, used, hostname, setup_failed, in, current_op, tin, tend, seq, broken, expect, recs, ops, stops>>
WriteFails(s) ==
    /\ task[s].pc = "write" /\ io_cm.holder = s
    /\ \E e \in (IF tend = "err" THEN {"err"} ELSE {}) \cup (IF task[s].stop THEN {"canceled"} ELSE {}) :
        task' = Done(task, s, WriteError(s, e))
    /\ broken' = TRUE /\ current_op' = "none" /\ io_cm' = Unlocked /\ out' = Written(s) /\ out_buf' = Forget(s)
    /\ UNCHANGED <<lib, mode, ssl, used, hostname, setup_failed, in, tin, tend, wire, seq, expect, recs, ops, stops>>

\* read_input, or the read into the operation's own buffer: any number of records at once
ReadOk(s) ==
    /\ task[s].pc = "read" /\ io_cm.holder = s /\ tin # <<>>
    /\ \E n \in 1 .. Len(tin) :
        /\ in' = [in EXCEPT ![OwnBuffer(s)] = @ \o SubSeq(tin, 1, n)]
        /\ tin' = SubSeq(tin, n + 1, Len(tin))
    /\ task' = [task EXCEPT ![s].pc = "call"] /\ io_cm' = Unlocked
    /\ UNCHANGED <<lib, mode, ssl, used, hostname, setup_failed, out, out_buf, current_op, tend, wire, seq, broken, expect, recs, ops, stops>>
ReadFails(s) ==
    /\ task[s].pc = "read" /\ io_cm.holder = s
    /\ \E e \in (IF tin = <<>> /\ tend # "open" THEN {tend} ELSE {}) \cup (IF task[s].stop THEN {"canceled"} ELSE {}) :
        task' = Done(task, s, ReadError(task[s].kind, e))
    /\ current_op' = "none" /\ io_cm' = Unlocked
    /\ UNCHANGED <<lib, mode, ssl, used, hostname, setup_failed, in, out, out_buf, tin, tend, wire, seq, broken, expect, recs, ops, stops>>

---------------------------------------------------------------------------
(* The peer, the transport and stop requests *)

PeerSends(t) ==
    /\ Busy /\ recs < MaxRecords /\ Len(tin) < 2 /\ tend = "open" /\ (t = "reneg" => mode # "full")
    /\ tin' = Append(tin, t) /\ recs' = recs + 1
    /\ UNCHANGED <<lib, mode, ssl, used, hostname, setup_failed, in, out, out_buf, current_op, task, io_cm, tend, wire, seq, broken, expect, ops, stops>>
TransportEnds(e) ==
    /\ Busy /\ tend = "open" /\ tend' = e
    /\ UNCHANGED <<lib, mode, ssl, used, hostname, setup_failed, in, out, out_buf, current_op, task, io_cm, tin, wire, seq, broken, expect, recs, ops, stops>>
StopTask(s) ==
    /\ stops < MaxStops /\ task[s].pc # "idle" /\ ~task[s].stop
    /\ task' = [task EXCEPT ![s].stop = TRUE] /\ stops' = stops + 1
    /\ UNCHANGED <<lib, mode, ssl, used, hostname, setup_failed, in, out, out_buf, current_op, io_cm, tin, tend, wire, seq, broken, expect, recs, ops>>

Runs(s) == Call(s) \/ Resume(s) \/ LockCanceled(s) \/ WriteOk(s) \/ WriteFails(s) \/ ReadOk(s) \/ ReadFails(s)
TlsNext ==
    \/ read_some \/ write_some \/ shutdown \/ HandshakeRefused \/ reset
    \/ \E r \in {"client", "server"} : handshake(r)
    \/ \E h \in {"", "a"} : set_hostname(h)
    \/ \E s \in Slots : Call(s) \/ Resume(s) \/ LockCanceled(s) \/ WriteOk(s) \/ WriteFails(s)
                        \/ ReadOk(s) \/ ReadFails(s) \/ StopTask(s)
    \/ \E t \in {"hello", "data", "reneg", "close"} : PeerSends(t)
    \/ \E e \in {"eof", "err"} : TransportEnds(e)
TlsSpec == TlsInit /\ [][TlsNext]_tls_vars
\* the loop resumes what can go on and the transport completes writes; the peer need not send
TlsFairSpec == TlsSpec /\ \A s \in Slots : WF_tls_vars(Runs(s))

---------------------------------------------------------------------------
\* The state has the types of its declarations; a shutdown never ends with plain eof.
TlsTypeOK ==
    /\ lib \in {"openssl", "wolfssl"} /\ ssl.hs \in {"none", "fresh", "hello", "done", "dead"}
    /\ \A s \in Slots : /\ task[s].pc \in {"idle", "call", "flushed", "write", "read"}
                        /\ task[s].res \in {"none", "ok", "eof", "truncated", "canceled", "err", "error", "invalid"}
                        /\ task[s].kind = "shutdown" => task[s].res # "eof"
    /\ io_cm.holder \in Slots \cup {"none"} /\ Len(io_cm.queue) <= 1
    /\ current_op \in Slots \cup {"none"}

\* The mutex is held exactly by a coroutine that awaits the transport, through errors,
\* cancellation of a waiter and early returns: two never write, or read, at once.
TransportOwned ==
    /\ \A s \in Slots : io_cm.holder = s \/ Contains(io_cm.queue, s) <=> task[s].pc \in {"write", "read"}
    /\ io_cm.holder = "none" => io_cm.queue = <<>>
    /\ ~Contains(io_cm.queue, io_cm.holder)

\* The records of a session reach the wire in the order in which the engine produced
\* them, none lost, repeated or left over from an earlier session, until a write fails.
WireIsOutput == ~broken /\ ~(lib = "wolfssl" /\ ssl.renegd) => wire = [i \in 1 .. Len(wire) |-> i]

\* An operation that returns success has sent what the engine produced for it: a peer
\* that waits for the last handshake record, the data or the close_notify gets it.
SentBeforeReturn ==
    \A s \in Slots :
        task[s].pc = "idle" /\ task[s].res = "ok" /\ task[s].kind \in {"write", "handshake"}
        /\ ~broken /\ (\A o \in Slots \ {s} : task[o].kind = "none")
        => Len(wire) = seq \/ (lib = "wolfssl" /\ ssl.renegd)

\* read_some reports eof only after the peer's close_notify (or, with wolfSSL, after our
\* own): a transport that just ends is a truncated stream.
EofNeedsCloseNotify ==
    task["r"].kind = "read" /\ task["r"].pc = "idle" /\ task["r"].res = "eof" /\ ssl.hs = "done"
    => ssl.received \/ (lib = "wolfssl" /\ ssl.sent)

\* A coroutine asks the peer for more only after its own records are sent, else both
\* sides wait for each other; wolfSSL's read and write loops do not do this.
FlushBeforeWait ==
    \A s \in Slots :
        task[s].pc = "read" /\ (\A o \in Slots \ {s} : task[o].pc = "idle") /\ ~broken
        => out[OwnBuffer(s)] = <<>> \/ (lib = "wolfssl" /\ task[s].kind \in {"read", "write"})

\* A handshake that completes ran with the hostname set before it began, and without one
\* in the server role, also on a stream that was used or whose last attempt failed.
HostnameChecked ==
    task["r"].kind = "handshake" /\ task["r"].res = "ok" => ssl.host = expect

\* openssl_stream.cpp: "Supports one concurrent read_some and one concurrent write_some":
\* a write ends though the peer sends nothing to the read beside it.
DuplexWriteEnds == task["w"].pc # "idle" ~> task["w"].pc = "idle"


(***************************************************************************)
(* A read reports the end of the data only after close_notify, and a       *)
(* handshake succeeds only with the hostname that was set for it, on a     *)
(* stream that is used again after a reset() or a failed attempt.          *)
(***************************************************************************)
TlsVerdicts ==
    /\ EofNeedsCloseNotify
    /\ HostnameChecked
=============================================================================
