-------------------------- MODULE ReactorDatagram --------------------------
(***************************************************************************)
(* A UDP or Unix datagram socket of the reactor back ends: send_to,        *)
(* recv_from, connect, send, recv and wait, their stop tokens, cancel and  *)
(* close.  recv and recv_from share a descriptor slot and its flags, and   *)
(* so do send and send_to; the documentation allows one of each pair at a  *)
(* time.  Datagrams are numbered, and a number stands for the payload and  *)
(* for the sender.                                                         *)
(*                                                                         *)
(* The steps inside one call that ReactorSocket models one by one (post    *)
(* and work_finished, the descriptor's queueing) are merged here.          *)
(***************************************************************************)
EXTENDS Naturals, FiniteSets, Sequences, SequencesExt

CONSTANTS MaxDgrams,   \* datagrams that arrive
          MaxOps,      \* operations that are started
          MaxDCalls    \* calls of cancel and close

DatagramAssumption == {MaxDgrams, MaxOps, MaxDCalls} \subseteq Nat
ASSUME DatagramAssumption

VARIABLES
    dop,        \* the operation objects
    dslot,      \* the descriptor's slots
    dpend,      \* the pending-cancel flags, by slot
    dready,     \* read_ready, write_ready
    dqueued,    \* operations in the scheduler's queues
    dopen,      \* the descriptor is open
    dcall,      \* the user's current call
    remote,     \* remote_endpoint_ is set
    kernel,     \* external: queue of datagrams, room to send, peer, events
    source,     \* the endpoint the caller of recv_from passed
    got,        \* what it must hold: the sender of the last datagram from recv_from
    delivered, discarded, dseen, dops, dcalls

dgVars == <<dop, dslot, dpend, dready, dqueued, dopen, dcall, remote, kernel,
            source, got, delivered, discarded, dseen, dops, dcalls>>
dgUser == <<source, got, delivered, discarded>>
dgDesc == <<dslot, dpend, dready, dqueued>>
dgEnv  == <<dseen, dcalls>>

Receives == {"recv", "recv_from"}
Sends == {"send", "send_to"}
DOps == Receives \cup Sends \cup {"connect", "wait_read", "wait_write", "wait_error"}
\* op_to_desc_slot, op_to_cancel_flag
SlotOf(k) == IF k \in Receives THEN "read" ELSE IF k \in Sends THEN "write" ELSE k
Slots == {SlotOf(k) : k \in DOps}
\* an operation without a stop token is one whose token never fires
DTokens == {"live", "stopped"}
\* the cached edge that register_op is given
FlagOf(k) == IF k \in Receives \cup {"wait_read"} THEN "r" ELSE "w"
Cached(k) == k # "wait_error" /\ FlagOf(k) \in dready

\* got: the datagram in the buffer; sout: source_out is set
FreshDOp == [coro |-> "idle", cb |-> "none", tok |-> "live", cancelled |-> FALSE,
             errn |-> FALSE, got |-> 0, sout |-> FALSE, inline |-> FALSE]

DgramTypeOK ==
    /\ dop \in [DOps -> [coro : {"idle", "park", "suspended", "resuming"},
                         cb : {"none", "armed", "claim"}, tok : DTokens,
                         cancelled : BOOLEAN, errn : BOOLEAN, got : 0..MaxDgrams,
                         sout : BOOLEAN, inline : BOOLEAN]]
    /\ dslot \in [Slots -> DOps \cup {"none"}]
    /\ dpend \subseteq Slots /\ dready \subseteq {"r", "w"}
    /\ dqueued \subseteq DOps
    /\ kernel.events \subseteq {"r", "w", "e"}
    /\ {kernel.room, kernel.peer, remote, dopen} \subseteq BOOLEAN
    /\ discarded \subseteq 1..MaxDgrams

DgInit ==
    /\ dop = [k \in DOps |-> FreshDOp]
    /\ dslot = [s \in Slots |-> "none"] /\ dpend = {} /\ dready = {} /\ dqueued = {}
    /\ dopen = TRUE /\ dcall = "none" /\ remote = FALSE
    /\ kernel = [queue |-> <<>>, room |-> TRUE, peer |-> FALSE, events |-> {}]
    /\ source = 0 /\ got = 0 /\ delivered = <<>> /\ discarded = {}
    /\ dseen = 0 /\ dops = 0 /\ dcalls = 0

-----------------------------------------------------------------------------
(* The kernel (external).                                                  *)

DgramArrives ==
    /\ dopen /\ dseen < MaxDgrams /\ dseen' = dseen + 1
    /\ kernel' = [kernel EXCEPT !.queue = Append(@, dseen + 1), !.events = @ \cup {"r"}]
    /\ UNCHANGED <<dop, dgDesc, dopen, dcall, remote, dgUser, dops, dcalls>>

RoomAgain ==
    /\ dopen /\ ~kernel.room
    /\ kernel' = [kernel EXCEPT !.room = TRUE, !.events = @ \cup {"w"}]
    /\ UNCHANGED <<dop, dgDesc, dopen, dcall, remote, dgUser, dgEnv, dops>>

\* an ICMP error, say
DgramError ==
    /\ dopen /\ dslot["wait_error"] # "none" /\ "e" \notin kernel.events
    /\ kernel' = [kernel EXCEPT !.events = @ \cup {"e"}]
    /\ UNCHANGED <<dop, dgDesc, dopen, dcall, remote, dgUser, dgEnv, dops>>

-----------------------------------------------------------------------------
(* System calls: what perform_io, or the speculative call, leaves in the   *)
(* operation and in the kernel.                                            *)

\* recvmsg: a datagram, or EAGAIN
perform_recv(k, op, kern) ==
    IF kern.queue = <<>> THEN [done |-> FALSE, op |-> op, kern |-> kern]
    ELSE [done |-> TRUE, op |-> [op EXCEPT !.got = Head(kern.queue)],
          kern |-> [kern EXCEPT !.queue = Tail(@)]]
\* sendmsg; the buffer may be full afterwards
perform_send(k, op, kern, fills) ==
    [done |-> kern.room, op |-> op, kern |-> [kern EXCEPT !.room = @ /\ ~fills]]
\* SO_ERROR, which never says EAGAIN
perform_connect(op, kern) == [done |-> TRUE, op |-> op, kern |-> kern]
perform_wait(op, kern) == [done |-> TRUE, op |-> op, kern |-> kern]

perform_io(k, op, kern, fills) ==
    CASE k \in Receives -> perform_recv(k, op, kern)
      [] k \in Sends    -> perform_send(k, op, kern, fills)
      [] k = "connect"  -> perform_connect(op, kern)
      [] OTHER          -> perform_wait(op, kern)

-----------------------------------------------------------------------------
(* Starting an operation.                                                  *)

\* One operation of each pair at a time; calls do not overlap.
Begins(k) ==
    /\ dopen /\ dcall = "none"
    /\ \A j \in DOps : dop[j].coro # "park" /\ (SlotOf(j) = SlotOf(k) => dop[j].coro = "idle")
    /\ dops < MaxOps /\ dops' = dops + 1

\* op.start: a token already stopped runs cancel_single_op at once, which
\* finds the operation in no slot and leaves the pending flag
Started(op, t) ==
    [op EXCEPT !.tok = t, !.cb = IF t = "live" THEN "armed" ELSE "none",
               !.cancelled = (t = "stopped")]
PendAfterStart(k, t) == dpend \cup (IF t = "stopped" THEN {SlotOf(k)} ELSE {})

\* the call ended the operation: within the inline budget the coroutine goes
\* on at once and no stop callback is armed
Inline(k, op, t) ==
    /\ dop' = [dop EXCEPT ![k] = [op EXCEPT !.tok = t, !.coro = "resuming", !.inline = TRUE]]
    /\ UNCHANGED <<dqueued, dpend>>
Post(k, op, t) ==
    /\ dop' = [dop EXCEPT ![k] = [Started(op, t) EXCEPT !.coro = "suspended"]]
    /\ dqueued' = dqueued \cup {k} /\ dpend' = PendAfterStart(k, t)
Ends(k, op, t) == Inline(k, op, t) \/ Post(k, op, t)
Blocks(k, op, t) ==
    /\ dop' = [dop EXCEPT ![k] = [Started(op, t) EXCEPT !.coro = "park"]]
    /\ dpend' = PendAfterStart(k, t) /\ UNCHANGED dqueued

\* op.reset()
Reset(k) == FreshDOp

\* the speculative call of send_to, recv_from, send and recv
Speculate(k, op, t) ==
    \E fills \in BOOLEAN, fails \in BOOLEAN :
        LET r == perform_io(k, op, kernel, fills)
        IN  /\ fails => ~r.done
            /\ kernel' = r.kern
            /\ IF r.done \/ fails THEN Ends(k, [r.op EXCEPT !.errn = fails], t)
                                  ELSE Blocks(k, r.op, t)
            /\ UNCHANGED <<dslot, dready, dopen, dcall, remote, dgUser, dgEnv>>

\* an empty buffer: posted with 0 bytes and no system call
EmptyBuffer(k, t) ==
    /\ Post(k, Reset(k), t)
    /\ UNCHANGED <<dslot, dready, dopen, dcall, remote, kernel, dgUser, dgEnv>>

do_send_to(t) == Begins("send_to") /\ Speculate("send_to", Reset("send_to"), t)
do_send(t) == Begins("send") /\ Speculate("send", Reset("send"), t)
do_recv(t) == Begins("recv") /\ (Speculate("recv", Reset("recv"), t) \/ EmptyBuffer("recv", t))
do_recv_from(t) ==
    /\ Begins("recv_from")
    /\ \/ Speculate("recv_from", [Reset("recv_from") EXCEPT !.sout = TRUE], t)
       \/ EmptyBuffer("recv_from", t)

\* connect: the endpoint is kept as soon as the system call succeeds
do_connect(t) ==
    /\ Begins("connect")
    /\ \E result \in {"ok", "error", "in_progress"} :
         /\ kernel' = [kernel EXCEPT !.peer = @ \/ result # "error",
                             !.events = @ \cup (IF result = "in_progress" THEN {"w"} ELSE {})]
         /\ remote' = (remote \/ result = "ok")
         /\ IF result = "in_progress" THEN Blocks("connect", Reset("connect"), t)
            ELSE Ends("connect", [Reset("connect") EXCEPT !.errn = result = "error"], t)
    /\ UNCHANGED <<dslot, dready, dopen, dcall, dgUser, dgEnv>>

\* wait: writability is taken for granted
do_dgram_wait(k, t) ==
    /\ k \in {"wait_read", "wait_write", "wait_error"} /\ Begins(k)
    /\ IF k = "wait_write" THEN Ends(k, Reset(k), t) ELSE Blocks(k, Reset(k), t)
    /\ UNCHANGED <<dslot, dready, dopen, dcall, remote, kernel, dgUser, dgEnv>>

Retries(k) == Cached(k)
\* register_op, under the descriptor's mutex
register_op(k) ==
    \E fills \in BOOLEAN :
        LET r == IF Retries(k) THEN perform_io(k, dop[k], kernel, fills)
                 ELSE [done |-> FALSE, op |-> dop[k], kern |-> kernel]
            cancelled == dop[k].cancelled \/ SlotOf(k) \in dpend
            parks == ~r.done /\ ~cancelled
        IN  /\ dop[k].coro = "park"
            /\ kernel' = r.kern
            /\ dready' = dready \ (IF Cached(k) THEN {FlagOf(k)} ELSE {})
            /\ dpend' = dpend \ {SlotOf(k)}
            /\ dop' = [dop EXCEPT ![k] = [r.op EXCEPT !.coro = "suspended",
                                                      !.cancelled = cancelled]]
            /\ dslot' = [dslot EXCEPT ![SlotOf(k)] = IF parks THEN k ELSE @]
            /\ dqueued' = dqueued \cup (IF parks THEN {} ELSE {k})
            /\ UNCHANGED <<dopen, dcall, remote, dgUser, dgEnv, dops>>

-----------------------------------------------------------------------------
(* Stop tokens.                                                            *)

DgStops(k) ==
    /\ dop[k].coro # "idle" /\ dop[k].tok = "live"
    /\ dop' = [dop EXCEPT ![k].tok = "stopped", ![k].cb = IF @ = "armed" THEN "claim" ELSE @,
                          ![k].cancelled = @ \/ dop[k].cb = "armed"]
    /\ UNCHANGED <<dgDesc, dopen, dcall, remote, kernel, dgUser, dgEnv, dops>>

Emptied(s) == [dslot EXCEPT ![s] = "none"]
\* cancel_single_op: claim and post, or leave the pending flag
dgram_cancel_single_op(k) ==
    LET s == SlotOf(k)
    IN  /\ dop[k].cb = "claim"
        /\ dop' = [dop EXCEPT ![k].cb = "none"]
        /\ IF dslot[s] = k
           THEN dslot' = Emptied(s) /\ dqueued' = dqueued \cup {k} /\ UNCHANGED dpend
           ELSE dpend' = dpend \cup {s} /\ UNCHANGED <<dslot, dqueued>>
        /\ UNCHANGED <<dready, dopen, dcall, remote, kernel, dgUser, dgEnv, dops>>

-----------------------------------------------------------------------------
(* The reactor: invoke_deferred_io and the completion functions.           *)

\* the operations that an event ends, and what is left of them and the kernel
DgHandle ==
    \E fills \in BOOLEAN :
        LET ev     == kernel.events
            err    == "e" \in ev
            rd     == dslot["read"]   wr == dslot["write"]
            tryR   == "r" \in ev /\ rd # "none" /\ ~err
            tryW   == "w" \in ev /\ wr # "none" /\ ~err
            r      == IF tryR THEN perform_io(rd, dop[rd], kernel, FALSE)
                      ELSE [done |-> FALSE, op |-> FreshDOp, kern |-> kernel]
            s      == IF tryW THEN perform_io(wr, dop[wr], r.kern, fills)
                      ELSE [done |-> FALSE, op |-> FreshDOp, kern |-> r.kern]
            woken  == IF err THEN Slots
                      ELSE (IF r.done THEN {"read"} ELSE {})
                           \cup (IF "r" \in ev THEN {"wait_read"} ELSE {})
                           \cup (IF s.done THEN {"write"} ELSE {})
                           \cup (IF "w" \in ev THEN {"connect", "wait_write"} ELSE {})
            ended  == {dslot[x] : x \in woken} \ {"none"}
        IN  /\ ev # {}
            /\ kernel' = [s.kern EXCEPT !.events = {}]
            /\ dslot' = [x \in Slots |-> IF x \in woken THEN "none" ELSE dslot[x]]
            /\ dqueued' = dqueued \cup ended
            /\ dready' = dready \cup (IF "r" \in ev /\ rd = "none" THEN {"r"} ELSE {})
                                \cup (IF "w" \in ev /\ wr = "none" /\ dslot["connect"] = "none"
                                      THEN {"w"} ELSE {})
            /\ dop' = [k \in DOps |->
                         [(CASE k = rd /\ r.done -> r.op [] k = wr /\ s.done -> s.op
                             [] OTHER -> dop[k]) EXCEPT !.errn = @ \/ (err /\ k \in ended)]]
            /\ UNCHANGED <<dpend, dopen, dcall, remote, dgUser, dgEnv, dops>>

\* complete_datagram_op: the source is written only by a receive that succeeded
WritesSource(k) == dop[k].sout /\ ~dop[k].errn /\ ~dop[k].cancelled
\* complete_connect_op: a connect that succeeds keeps the endpoint
KeepsRemote(k) == k = "connect" /\ ~dop[k].errn /\ ~dop[k].cancelled
complete_datagram_op(k) ==
    /\ k \in dqueued /\ dop[k].coro = "suspended" /\ dop[k].cb # "claim"
    /\ dqueued' = dqueued \ {k}
    /\ dop' = [dop EXCEPT ![k].coro = "resuming", ![k].cb = "none"]
    /\ source' = IF WritesSource(k) THEN dop[k].got ELSE source
    /\ remote' = (remote \/ KeepsRemote(k))
    /\ UNCHANGED <<dslot, dpend, dready, dopen, dcall, kernel, got, delivered,
                   discarded, dgEnv, dops>>

\* await_resume: a token stopped by now makes the operation cancelled.  The
\* inline path wrote the source before.
dgram_await_resume(k) ==
    LET op == dop[k]
        ok == op.tok # "stopped" /\ ~op.cancelled /\ ~op.errn
        has == op.got # 0
        src == IF op.inline /\ op.sout /\ ~op.errn THEN op.got ELSE source
    IN  /\ op.coro = "resuming"
        /\ source' = src
        /\ got' = CASE k # "recv_from" -> got [] ~ok -> src
                      [] has -> op.got [] OTHER -> got
        /\ delivered' = IF ok /\ has THEN Append(delivered, op.got) ELSE delivered
        /\ discarded' = discarded \cup (IF ~ok /\ has THEN {op.got} ELSE {})
        /\ dop' = [dop EXCEPT ![k] = FreshDOp]
        /\ UNCHANGED <<dgDesc, dopen, dcall, remote, kernel, dgEnv, dops>>

-----------------------------------------------------------------------------
(* cancel() and close().                                                   *)

DgCallBegin(c) ==
    /\ dopen /\ dcall = "none" /\ \A k \in DOps : dop[k].coro # "park"
    /\ dcalls < MaxDCalls /\ dcalls' = dcalls + 1 /\ dcall' = c
    /\ dop' = [k \in DOps |-> [dop[k] EXCEPT !.cancelled = @ \/ dop[k].coro # "idle"]]
    /\ UNCHANGED <<dgDesc, dopen, remote, kernel, dgUser, dseen, dops>>

DgParked == {dslot[s] : s \in Slots} \ {"none"}
dgram_do_cancel ==
    /\ dcall = "cancel" /\ dcall' = "none"
    /\ dqueued' = dqueued \cup DgParked /\ dslot' = [s \in Slots |-> "none"]
    /\ UNCHANGED <<dop, dpend, dready, dopen, remote, kernel, dgUser, dgEnv, dops>>

\* close_socket or release_socket: the flags, the descriptor and both cached
\* endpoints go
dgram_do_close ==
    /\ dcall = "close" /\ dcall' = "none"
    /\ dqueued' = dqueued \cup DgParked /\ dslot' = [s \in Slots |-> "none"]
    /\ dpend' = {} /\ dready' = {} /\ dopen' = FALSE /\ remote' = FALSE
    /\ discarded' = discarded \cup Range(kernel.queue)
    /\ kernel' = [queue |-> <<>>, room |-> TRUE, peer |-> FALSE, events |-> {}]
    /\ UNCHANGED <<dop, source, got, delivered, dgEnv, dops>>

-----------------------------------------------------------------------------
DgNext ==
    \/ \E t \in DTokens : \/ do_send_to(t) \/ do_recv_from(t) \/ do_connect(t)
                          \/ do_send(t) \/ do_recv(t)
                          \/ \E k \in DOps : do_dgram_wait(k, t)
    \/ \E k \in DOps : \/ register_op(k) \/ DgStops(k) \/ dgram_cancel_single_op(k)
                       \/ complete_datagram_op(k) \/ dgram_await_resume(k)
    \/ DgHandle
    \/ \E c \in {"cancel", "close"} : DgCallBegin(c)
    \/ dgram_do_cancel \/ dgram_do_close
    \/ DgramArrives \/ RoomAgain \/ DgramError

DgSpec == DgInit /\ [][DgNext]_dgVars

-----------------------------------------------------------------------------
(* Properties.                                                             *)

\* A suspended operation is in exactly one place, the slot it shares with its
\* twin or the scheduler's queue: a stop callback (cancel_single_op), cancel,
\* close and an event that claim it at the same time leave it in one of them.
DgramOnePlace ==
    \A k \in DOps :
        Cardinality({s \in Slots : dslot[s] = k}) + (IF k \in dqueued THEN 1 ELSE 0)
            = IF dop[k].coro = "suspended" THEN 1 ELSE 0

\* Every datagram is in the kernel's queue, in one operation, in the hands of
\* the caller or dropped with a receive that ended cancelled: none is lost by
\* a retry on a cached edge (register_op), none is given out twice, and the
\* caller gets them in the order of arrival.
DgramConserved ==
    LET held == {dop[k].got : k \in DOps} \ {0}
    IN  /\ 1..dseen = Range(kernel.queue) \cup held \cup Range(delivered) \cup discarded
        /\ Len(kernel.queue) + Cardinality(held) + Len(delivered) + Cardinality(discarded) = dseen
        /\ \A i, j \in DOMAIN delivered : i < j => delivered[i] < delivered[j]

\* What the socket says of its peers is true: the caller's endpoint names the
\* sender of the datagram it was given, and is left alone by a recv_from that
\* gave none (complete_datagram_op, source_out); a remote endpoint is cached
\* only while the kernel has that peer.
DgramPeers ==
    /\ dop["recv_from"].coro = "idle" => source = got
    /\ remote => kernel.peer

\* Nothing moves until the user, a peer or a token does.
DgQuiet ==
    /\ dcall = "none" /\ kernel.events = {} /\ dqueued = {}
    /\ \A k \in DOps : dop[k].coro \in {"idle", "suspended"} /\ dop[k].cb # "claim"

\* A receive does not stay parked with a datagram in the queue, nor a send
\* with room for it, though the kernel reports each change once and the report
\* may come between the speculative call and register_op; and nothing stays
\* parked that its token, cancel() or close() told to stop.
DgramServed ==
    DgQuiet => /\ dslot["read"] # "none" => kernel.queue = <<>>
               /\ dslot["write"] # "none" => ~kernel.room
               /\ \A k \in DgParked : dopen /\ ~dop[k].cancelled /\ dop[k].tok # "stopped"

=============================================================================
