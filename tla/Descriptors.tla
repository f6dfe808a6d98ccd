----------------------------- MODULE Descriptors -----------------------------
(***************************************************************************)
(* Who owns a descriptor.  Every function that acquires, adopts, hands     *)
(* over or closes operating-system descriptors is written as the sequence  *)
(* of its system calls, each with what its error path closes; one object   *)
(* of one kind lives through a few such calls, any of which may fail.      *)
(* The cached local endpoint goes with the descriptor it was read from.    *)
(***************************************************************************)
EXTENDS Integers, Sequences, FiniteSets

CONSTANTS DescKinds,    \* the kinds of object that live, a subset of EveryKind
          MaxDescCalls  \* calls made on the object

VARIABLES dkind,     \* the kind of object
          opened,    \* the descriptors that are open in the process
          numbers,   \* descriptors handed out so far (never reused: a stale one is then visible)
          member,    \* the members of the object that hold descriptors (0: none)
          caller,    \* descriptors that belong to the caller
          local,     \* the local variables of the running function
          script,    \* what is left of it
          helper,    \* what is left of the thread it started
          linked,    \* the thread's connect() reached the listening socket
          named,     \* local_endpoint_ was read from this descriptor (0: the default endpoint)
          stray,     \* some close() named a descriptor that was not open
          desc_calls
descVars == <<dkind, opened, numbers, member, caller, local, script, helper, linked, named, stray, desc_calls>>

Members == {"fd_", "second", "third"}
Locals == {"new", "other", "given", "listener"}
Nothing == [m \in Members |-> 0]
NoLocals == [l \in Locals |-> 0]

(***************************************************************************)
(* The steps of a function.  A fallible one says which local variables its *)
(* error path closes (undo) and which members (shut).                      *)
(***************************************************************************)
Step(op, r, m, undo, shut) == [op |-> op, r |-> r, m |-> m, undo |-> undo, shut |-> shut]
Get(r, undo) == Step("get", r, "", undo, {})              \* socket(), open(), pipe(), ...
Call(undo) == Step("call", "", "", undo, {})              \* fcntl(), bind(), ...
CallOr(undo, shut) == Step("call", "", "", undo, shut)
Keep(m, r) == Step("keep", r, m, {}, {})                  \* member = local
Shut(m) == Step("shut", "", m, {}, {})                    \* if (member >= 0) close(member), member = -1
Give(m) == Step("give", "", m, {}, {})                    \* return member, member = -1
Return(r) == Step("return", r, "", {}, {})                \* return local
Drop(r) == Step("drop", r, "", {}, {})                    \* close(local)
Name == Step("name", "", "", {}, {})                      \* getsockname() succeeded: cache it; or it failed
Forget == Step("forget", "", "", {}, {})                  \* local_endpoint_ = {}
Times(n, s) == [i \in 1..n |-> s]

(***************************************************************************)
(* Sockets of the reactor back ends.                                       *)
(***************************************************************************)
epoll_configure == <<>>
select_set_fd_options(u) == Times(4, Call(u))   \* F_GETFL, F_SETFL, F_SETFD, FD_SETSIZE
select_configure_ip_socket(u) == select_set_fd_options(u)
select_configure_ip_acceptor(u) == select_set_fd_options(u)
select_configure_local_socket(u) == select_set_fd_options(u)
select_validate_assigned_fd == <<Call({})>>
kqueue_set_fd_options(u) == Times(4, Call(u))   \* F_GETFL, F_SETFL, F_SETFD, SO_NOSIGPIPE
kqueue_configure_ip_socket(u) == kqueue_set_fd_options(u)
kqueue_configure_ip_acceptor(u) == kqueue_set_fd_options(u)
kqueue_configure_local_socket(u) == kqueue_set_fd_options(u)
do_close_socket == <<Shut("fd_"), Forget>>
do_release_socket == <<Give("fd_"), Forget>>
create_socket == <<Get("new", {})>>
init_and_register == <<Keep("fd_", "new")>>
do_open_socket(configure) == do_close_socket \o create_socket \o configure \o init_and_register
do_assign_fd(validate) ==
    do_close_socket \o Times(4, Call({})) \o validate \o <<Keep("fd_", "given"), Name>>
do_bind == <<Call({}), Name>>
acceptor_do_close_socket == <<Shut("fd_"), Forget>>
acceptor_do_release_socket == <<Give("fd_"), Forget>>
init_acceptor_fd == <<Keep("fd_", "new")>>
do_open_acceptor(configure) == acceptor_do_close_socket \o create_socket \o configure \o init_acceptor_fd
acceptor_do_bind == <<Call({}), Name>>
do_listen == <<Call({})>>
\* the accepted descriptor goes to the peer socket, here the caller
epoll_do_accept == <<Get("new", {}), Return("new")>>
select_do_accept == <<Get("new", {})>> \o Times(4, Call({"new"})) \o <<Return("new")>>
kqueue_do_accept == <<Get("new", {}), Call({"new"}), Call({"new"}), Call({"new"}), Return("new")>>

(***************************************************************************)
(* Sockets of io_uring: the new descriptor is made before the old closes.  *)
(***************************************************************************)
UringOpens == <<Get("new", {}), Shut("fd_"), Keep("fd_", "new")>>
UringAdopts == <<Shut("fd_"), Keep("fd_", "given"), Name>>
UringBinds == <<Call({}), Name>>
uring_tcp_open == UringOpens
uring_udp_open == UringOpens
uring_local_stream_open == UringOpens
uring_local_datagram_open == UringOpens
uring_acceptor_open == UringOpens
uring_local_acceptor_open == UringOpens
uring_local_stream_assign == UringAdopts
uring_local_datagram_assign == UringAdopts
uring_tcp_bind == UringBinds
uring_udp_bind == UringBinds
uring_local_datagram_bind == UringBinds
uring_acceptor_bind == UringBinds
uring_local_acceptor_bind == UringBinds
uring_tcp_close == <<Shut("fd_"), Forget>>
uring_udp_close == <<Shut("fd_"), Forget>>
uring_local_stream_close == <<Shut("fd_"), Forget>>
uring_local_datagram_close == <<Shut("fd_"), Forget>>
uring_acceptor_close == <<Shut("fd_")>>          \* local_endpoint_ stays
uring_local_acceptor_close == <<Shut("fd_")>>
uring_local_stream_release == <<Give("fd_"), Forget>>
uring_local_datagram_release == <<Give("fd_"), Forget>>
uring_local_acceptor_release == <<Give("fd_"), Forget>>

(***************************************************************************)
(* Sockets of IOCP: a new socket must also be tied to the completion port. *)
(***************************************************************************)
WinMakes(close) == close \o <<Get("new", {}), Call({"new"}), Keep("fd_", "new")>>
win_tcp_close == <<Shut("fd_"), Forget>>
win_udp_close == <<Shut("fd_"), Forget>>
win_local_stream_close == <<Shut("fd_"), Forget>>
win_acceptor_close == <<Shut("fd_"), Forget>>
win_local_acceptor_close == <<Shut("fd_"), Forget>>
win_tcp_open == WinMakes(win_tcp_close)
win_udp_open == WinMakes(win_udp_close)
win_local_stream_open == WinMakes(win_local_stream_close)
win_acceptor_open == WinMakes(win_acceptor_close)
win_local_acceptor_open == WinMakes(win_local_acceptor_close)
win_tcp_bind == <<Call({}), Name>>
win_udp_bind == <<Call({}), Name>>
win_acceptor_bind == <<Call({}), Name>>
win_local_acceptor_bind == <<Call({}), Call({}), Name>>    \* an abstract name is refused first
win_local_stream_assign == win_local_stream_close \o <<Call({}), Keep("fd_", "given")>>
win_local_stream_release == <<Give("fd_"), Forget>>
win_local_acceptor_release == <<Give("fd_"), Forget>>
\* the socket to accept into: completion port, AcceptEx entry point, AcceptEx
win_accept == <<Get("new", {}), Call({"new"}), Call({"new"}), Call({"new"}), Return("new")>>
win_local_accept == <<Get("new", {}), Call({"new"}), Call({"new"}), Call({"new"}), Return("new")>>

(***************************************************************************)
(* Files.                                                                  *)
(***************************************************************************)
posix_stream_close == <<Shut("fd_")>>
posix_stream_open == posix_stream_close \o <<Get("new", {}), Keep("fd_", "new"), CallOr({}, {"fd_"})>>
posix_stream_assign == posix_stream_close \o <<Keep("fd_", "given")>>
posix_stream_release == <<Give("fd_")>>
posix_raf_close == <<Shut("fd_")>>
posix_raf_open == posix_raf_close \o <<Get("new", {}), Keep("fd_", "new")>>
posix_raf_assign == posix_raf_close \o <<Keep("fd_", "given")>>
posix_raf_release == <<Give("fd_")>>
uring_stream_close == <<Shut("fd_")>>
uring_stream_open == uring_stream_close \o <<Get("new", {}), Keep("fd_", "new")>>
uring_stream_assign == uring_stream_close \o <<Keep("fd_", "given")>>
uring_stream_release == <<Give("fd_")>>
uring_raf_close == <<Shut("fd_")>>
uring_raf_open == uring_raf_close \o <<Get("new", {}), Keep("fd_", "new")>>
uring_raf_assign == uring_raf_close \o <<Keep("fd_", "given")>>
uring_raf_release == <<Give("fd_")>>
win_stream_close == <<Shut("fd_")>>
\* completion port, SetEndOfFile, and for append GetFileSizeEx after handle_ is set
win_stream_open ==
    <<Get("new", {}), Call({"new"}), Call({"new"}), Keep("fd_", "new"), CallOr({}, {"fd_"})>>
win_stream_assign == win_stream_close \o <<Call({}), Keep("fd_", "given")>>
win_stream_release == <<Give("fd_")>>
win_raf_close == <<Shut("fd_")>>
win_raf_open == <<Get("new", {}), Call({"new"}), Call({"new"}), Keep("fd_", "new")>>
win_raf_assign == win_raf_close \o <<Call({}), Keep("fd_", "given")>>
win_raf_release == <<Give("fd_")>>

(***************************************************************************)
(* Schedulers, wake-up channels and connected pairs.                       *)
(***************************************************************************)
\* epoll_create1, eventfd, timerfd_create, and two epoll_ctl
epoll_scheduler ==
    <<Get("new", {}), Get("other", {"new"}), Get("listener", {"new", "other"})>>
    \o Times(2, Call({"new", "other", "listener"}))
    \o <<Keep("fd_", "new"), Keep("second", "other"), Keep("third", "listener")>>
destroy_epoll_scheduler == <<Shut("third"), Shut("second"), Shut("fd_")>>
\* kqueue, FD_CLOEXEC, EVFILT_USER
kqueue_scheduler == <<Get("new", {})>> \o Times(2, Call({"new"})) \o <<Keep("fd_", "new")>>
destroy_kqueue_scheduler == <<Shut("fd_")>>
\* pipe() makes both ends or none; three fcntl for each end
select_scheduler ==
    <<Step("pipe", "", "", {}, {})>> \o Times(6, Call({"new", "other"}))
    \o <<Keep("fd_", "new"), Keep("second", "other")>>
destroy_select_scheduler == <<Shut("fd_"), Shut("second")>>
\* the ring, the eventfd, the entry for its poll and its submission
lazy_init_ring ==
    <<Get("new", {}), Get("other", {"new"})>> \o Times(2, Call({"new", "other"}))
    \o <<Keep("fd_", "new"), Keep("second", "other")>>
destroy_io_uring_scheduler == <<Shut("second"), Shut("fd_")>>
\* the completion port, and the waitable timer of win_timers_thread, which may be missing
win_scheduler == <<Get("new", {}), Keep("fd_", "new"), Step("try", "other", "", {}, {}), Keep("second", "other")>>
destroy_win_scheduler == <<Shut("second"), Shut("fd_")>>
open_signal_pipe ==
    <<Step("pipe", "", "", {}, {})>> \o Times(6, Call({"new", "other"}))
    \o <<Keep("fd_", "new"), Keep("second", "other")>>
\* bind, listen, getsockname; the connecting end; connect; accept, after which the listener closes
make_wakeup_pair ==
    <<Get("listener", {})>> \o Times(3, Call({"listener"}))
    \o <<Get("new", {"listener"}), Call({"new", "listener"}), Get("other", {"new", "listener"}),
         Drop("listener"), Keep("second", "new"), Keep("fd_", "other")>>
close_wakeup_pair == <<Shut("fd_"), Shut("second")>>
make_pair_fds == <<Step("pipe", "", "", {}, {})>> \o Times(4, Call({"new", "other"}))
\* Mutant: both are closed though the first socket has taken one of them.
assign_pair_bug ==
    <<Call({"new", "other"}), Keep("fd_", "new"), CallOr({"other", "new"}, {"fd_"}), Keep("second", "other")>>
assign_pair ==
    <<Call({"new", "other"}), Keep("fd_", "new"), CallOr({"other"}, {"fd_"}), Keep("second", "other")>>
connect_pair == make_pair_fds \o assign_pair
\* Windows: the listener is bound and listens, a thread connects, this one accepts and joins it
make_pair_sockets ==
    <<Get("listener", {}), Call({"listener"}), Call({"listener"}), Step("spawn", "", "", {}, {}),
      Step("accept", "new", "", {}, {}), Step("join", "", "", {}, {}), Drop("listener"),
      Step("settle", "", "", {}, {})>>
PairWorker == <<Get("other", {}), Step("connect", "", "", {"other"}, {})>>
win_assign_pair ==
    <<Call({"new", "other"}), Keep("fd_", "new"), CallOr({"other"}, {"fd_"}), Keep("second", "other")>>
win_connect_pair == make_pair_sockets \o win_assign_pair
destroy_pair == <<Shut("fd_"), Shut("second")>>

(***************************************************************************)
(* The objects.  A call that an object does not have is the empty script.  *)
(***************************************************************************)
NoDescCall == <<>>
Object(open, assign, bind, close, release) ==
    [open |-> open, assign |-> assign, bind |-> bind, close |-> close, release |-> release, accept |-> NoDescCall]
Accepting(o, accept) == [o EXCEPT !.accept = accept]
Sole(open, close) == Object(open, NoDescCall, NoDescCall, close, NoDescCall)
ReactorSocketKind(configure) == Object(do_open_socket(configure), NoDescCall, do_bind, do_close_socket, NoDescCall)
ReactorLocalKind(configure, validate) ==
    Object(do_open_socket(configure), do_assign_fd(validate), do_bind, do_close_socket, do_release_socket)
ReactorAcceptorKind(configure, accept) ==
    Accepting(Object(do_open_acceptor(configure), NoDescCall, acceptor_do_bind \o do_listen,
                     acceptor_do_close_socket, acceptor_do_release_socket), accept)
Owned == {"new"}
AllKinds ==
    [epoll_socket |-> ReactorSocketKind(epoll_configure),
     epoll_local |-> ReactorLocalKind(epoll_configure, <<>>),
     epoll_acceptor |-> ReactorAcceptorKind(epoll_configure, epoll_do_accept),
     select_socket |-> ReactorSocketKind(select_configure_ip_socket(Owned)),
     select_local |-> ReactorLocalKind(select_configure_local_socket(Owned), select_validate_assigned_fd),
     select_acceptor |-> ReactorAcceptorKind(select_configure_ip_acceptor(Owned), select_do_accept),
     kqueue_socket |-> ReactorSocketKind(kqueue_configure_ip_socket(Owned)),
     kqueue_local |-> ReactorLocalKind(kqueue_configure_local_socket(Owned), <<>>),
     kqueue_acceptor |-> ReactorAcceptorKind(kqueue_configure_ip_acceptor(Owned), kqueue_do_accept),
     uring_tcp |-> Object(uring_tcp_open, NoDescCall, uring_tcp_bind, uring_tcp_close, NoDescCall),
     uring_udp |-> Object(uring_udp_open, NoDescCall, uring_udp_bind, uring_udp_close, NoDescCall),
     uring_local_stream |-> Object(uring_local_stream_open, uring_local_stream_assign, NoDescCall,
                                   uring_local_stream_close, uring_local_stream_release),
     uring_local_datagram |-> Object(uring_local_datagram_open, uring_local_datagram_assign,
                                     uring_local_datagram_bind, uring_local_datagram_close,
                                     uring_local_datagram_release),
     uring_acceptor |-> Object(uring_acceptor_open, NoDescCall, uring_acceptor_bind, uring_acceptor_close, NoDescCall),
     uring_local_acceptor |-> Object(uring_local_acceptor_open, NoDescCall, uring_local_acceptor_bind,
                                     uring_local_acceptor_close, uring_local_acceptor_release),
     win_tcp |-> Object(win_tcp_open, NoDescCall, win_tcp_bind, win_tcp_close, NoDescCall),
     win_udp |-> Object(win_udp_open, NoDescCall, win_udp_bind, win_udp_close, NoDescCall),
     win_local_stream |-> Object(win_local_stream_open, win_local_stream_assign, NoDescCall,
                                 win_local_stream_close, win_local_stream_release),
     win_acceptor |-> Accepting(Object(win_acceptor_open, NoDescCall, win_acceptor_bind, win_acceptor_close,
                                       NoDescCall), win_accept),
     win_local_acceptor |-> Accepting(Object(win_local_acceptor_open, NoDescCall, win_local_acceptor_bind,
                                             win_local_acceptor_close, win_local_acceptor_release),
                                      win_local_accept),
     posix_stream |-> Object(posix_stream_open, posix_stream_assign, NoDescCall, posix_stream_close, posix_stream_release),
     posix_raf |-> Object(posix_raf_open, posix_raf_assign, NoDescCall, posix_raf_close, posix_raf_release),
     uring_stream |-> Object(uring_stream_open, uring_stream_assign, NoDescCall, uring_stream_close, uring_stream_release),
     uring_raf |-> Object(uring_raf_open, uring_raf_assign, NoDescCall, uring_raf_close, uring_raf_release),
     win_stream |-> Object(win_stream_open, win_stream_assign, NoDescCall, win_stream_close, win_stream_release),
     win_raf |-> Object(win_raf_open, win_raf_assign, NoDescCall, win_raf_close, win_raf_release),
     epoll_loop |-> Sole(epoll_scheduler, destroy_epoll_scheduler),
     kqueue_loop |-> Sole(kqueue_scheduler, destroy_kqueue_scheduler),
     select_loop |-> Sole(select_scheduler, destroy_select_scheduler),
     uring_loop |-> Sole(lazy_init_ring, destroy_io_uring_scheduler),
     win_loop |-> Sole(win_scheduler, destroy_win_scheduler),
     signal_pipe |-> Sole(open_signal_pipe, NoDescCall),
     wakeup_pair |-> Sole(make_wakeup_pair, close_wakeup_pair),
     pair |-> Sole(connect_pair, destroy_pair),
     win_pair |-> Sole(win_connect_pair, destroy_pair)]
FileKinds == {"posix_stream", "posix_raf", "uring_stream", "uring_raf", "win_stream", "win_raf"}
EveryKind == DOMAIN AllKinds
Does(call) == AllKinds[dkind][call]

DescInit ==
    /\ dkind \in DescKinds
    /\ opened = {} /\ numbers = 0 /\ member = Nothing /\ caller = {} /\ local = NoLocals
    /\ script = <<>> /\ helper = <<>> /\ linked = FALSE /\ named = 0 /\ stray = FALSE /\ desc_calls = 0

(***************************************************************************)
(* The calls of the public objects, with their guards: open() on an open   *)
(* socket returns at once, a file closes the old file first; bind() and    *)
(* release() need an open object, assign() a closed socket.                *)
(***************************************************************************)
is_open == member["fd_"] # 0
DescIdle == script = <<>> /\ desc_calls < MaxDescCalls
Starts(steps, args) ==
    /\ DescIdle /\ steps # NoDescCall
    /\ script' = steps /\ local' = args /\ desc_calls' = desc_calls + 1
    /\ UNCHANGED <<dkind, opened, numbers, member, caller, helper, linked, named, stray>>
ClosesFirst == IF is_open THEN Does("close") ELSE <<>>
desc_open ==
    \/ ~is_open /\ Starts(Does("open"), NoLocals)
    \/ dkind \in FileKinds /\ is_open /\ Starts(ClosesFirst \o Does("open"), NoLocals)
desc_assign ==
    \E d \in caller :
        /\ Does("assign") # NoDescCall /\ (is_open => dkind \in FileKinds)
        /\ Starts(ClosesFirst \o Does("assign"), [NoLocals EXCEPT !["given"] = d])
desc_bind == is_open /\ Starts(Does("bind"), NoLocals)
desc_close == is_open /\ Starts(Does("close"), NoLocals)
desc_release == is_open /\ Starts(Does("release"), NoLocals)
desc_accept == is_open /\ Starts(Does("accept"), NoLocals)
\* the caller's own descriptors: made by the caller, and closed
CallerMakes ==
    /\ DescIdle /\ Does("assign") # NoDescCall /\ caller = {}
    /\ numbers' = numbers + 1 /\ opened' = opened \cup {numbers'} /\ caller' = {numbers'}
    /\ desc_calls' = desc_calls + 1
    /\ UNCHANGED <<dkind, member, local, script, helper, linked, named, stray>>

(***************************************************************************)
(* The running function.                                                   *)
(***************************************************************************)
Values(ls) == {local[l] : l \in ls} \ {0}
Held(ms) == {member[m] : m \in ms} \ {0}
Closes(ds) == opened' = opened \ ds /\ stray' = (stray \/ ~(ds \subseteq opened))
At(op) == script # <<>> /\ Head(script).op = op
Goes == script' = Tail(script)
Fresh(r) ==
    /\ numbers' = numbers + 1 /\ opened' = opened \cup {numbers'}
    /\ local' = [local EXCEPT ![r] = numbers'] /\ Goes
    /\ UNCHANGED <<dkind, member, caller, helper, linked, named, stray, desc_calls>>
Acquires == (At("get") \/ At("try")) /\ Fresh(Head(script).r)
AcquiresPipe ==
    /\ At("pipe")
    /\ numbers' = numbers + 2 /\ opened' = opened \cup {numbers + 1, numbers + 2}
    /\ local' = [local EXCEPT !["new"] = numbers + 1, !["other"] = numbers + 2] /\ Goes
    /\ UNCHANGED <<dkind, member, caller, helper, linked, named, stray, desc_calls>>
Succeeds ==
    /\ At("call") /\ Goes
    /\ UNCHANGED <<dkind, opened, numbers, member, caller, local, helper, linked, named, stray, desc_calls>>
Misses ==
    /\ At("try") /\ Goes
    /\ UNCHANGED <<dkind, opened, numbers, member, caller, local, helper, linked, named, stray, desc_calls>>
Fails ==
    /\ At("get") \/ At("call") \/ At("pipe")
    /\ opened' = opened \ (Values(Head(script).undo) \cup Held(Head(script).shut))
    /\ stray' = (stray \/ ~(Values(Head(script).undo) \subseteq opened \ Held(Head(script).shut)))
    /\ member' = [m \in Members |-> IF m \in Head(script).shut THEN 0 ELSE member[m]]
    /\ script' = <<>>
    /\ UNCHANGED <<dkind, numbers, caller, local, helper, linked, named, desc_calls>>
MovesOn ==
    LET s == Head(script) IN
    /\ script # <<>> /\ Goes
    /\ \/ /\ s.op = "keep" /\ member' = [member EXCEPT ![s.m] = local[s.r]]
          /\ caller' = caller \ {local[s.r]} /\ UNCHANGED <<opened, named, stray>>
       \/ /\ s.op = "shut" /\ Closes(Held({s.m})) /\ member' = [member EXCEPT ![s.m] = 0]
          /\ UNCHANGED <<caller, named>>
       \/ /\ s.op = "give" /\ caller' = caller \cup Held({s.m}) /\ member' = [member EXCEPT ![s.m] = 0]
          /\ UNCHANGED <<opened, named, stray>>
       \/ s.op = "return" /\ caller' = caller \cup {local[s.r]} /\ UNCHANGED <<opened, member, named, stray>>
       \/ s.op = "drop" /\ Closes(Values({s.r})) /\ UNCHANGED <<caller, member, named>>
       \/ s.op = "name" /\ named' \in {named, member["fd_"]} /\ UNCHANGED <<opened, caller, member, stray>>
       \/ s.op = "forget" /\ named' = 0 /\ UNCHANGED <<opened, caller, member, stray>>
    /\ UNCHANGED <<dkind, numbers, local, helper, linked, desc_calls>>
\* make_pair_sockets(): the thread, and the caller that waits in accept() and in join()
Spawns ==
    /\ At("spawn") /\ helper' = PairWorker /\ linked' = FALSE /\ Goes
    /\ UNCHANGED <<dkind, opened, numbers, member, caller, local, named, stray, desc_calls>>
WorkerSteps ==
    /\ helper # <<>>
    /\ \/ /\ Head(helper).op = "get" /\ helper' = Tail(helper)
          /\ numbers' = numbers + 1 /\ opened' = opened \cup {numbers'}
          /\ local' = [local EXCEPT !["other"] = numbers'] /\ UNCHANGED <<linked, stray>>
       \/ Head(helper).op = "get" /\ helper' = <<>> /\ UNCHANGED <<numbers, opened, local, linked, stray>>
       \/ /\ Head(helper).op = "connect" /\ helper' = <<>> /\ linked' = TRUE
          /\ UNCHANGED <<numbers, opened, local, stray>>
       \/ /\ Head(helper).op = "connect" /\ helper' = <<>> /\ Closes(Values({"other"}))
          /\ local' = [local EXCEPT !["other"] = 0] /\ UNCHANGED <<numbers, linked>>
    /\ UNCHANGED <<dkind, member, caller, script, named, desc_calls>>
\* accept() waits for a connection, or fails by itself
PairAccepts == At("accept") /\ linked /\ Fresh("new")
PairAcceptFails ==
    /\ At("accept") /\ Goes
    /\ UNCHANGED <<dkind, opened, numbers, member, caller, local, helper, linked, named, stray, desc_calls>>
PairJoins ==
    /\ At("join") /\ helper = <<>> /\ Goes
    /\ UNCHANGED <<dkind, opened, numbers, member, caller, local, helper, linked, named, stray, desc_calls>>
\* with one end missing the other is closed and the function fails
PairSettles ==
    LET ends == {"new", "other"} whole == \A l \in ends : local[l] # 0 IN
    /\ At("settle")
    /\ IF whole THEN Goes /\ UNCHANGED <<opened, stray>> ELSE script' = <<>> /\ Closes(Values(ends))
    /\ UNCHANGED <<dkind, numbers, member, caller, local, helper, linked, named, desc_calls>>

DescNext ==
    \/ desc_open \/ desc_assign \/ desc_bind \/ desc_close \/ desc_release \/ desc_accept \/ CallerMakes
    \/ Acquires \/ AcquiresPipe \/ Succeeds \/ Misses \/ Fails \/ MovesOn
    \/ Spawns \/ WorkerSteps \/ PairAccepts \/ PairAcceptFails \/ PairJoins \/ PairSettles

DescSpec == DescInit /\ [][DescNext]_descVars

(***************************************************************************)
(* Properties.                                                             *)
(***************************************************************************)
\* When no function runs, every open descriptor belongs to exactly one owner, a member of the
\* object or the caller, every descriptor an owner names is open, and no close() ever named one
\* that was not: whatever call failed on the way, its error path closed what it had opened, and
\* nothing else, once (the error paths of the open, assign, accept, constructor and pair functions).
DescriptorOwned ==
    /\ ~stray
    /\ script = <<>> => /\ opened = Held(Members) \cup caller
                        /\ Held(Members) \cap caller = {}
                        /\ \A m, n \in Members : m # n /\ member[m] # 0 => member[m] # member[n]

\* What tcp_acceptor.hpp:476 says, "The cached endpoint value is set during bind() and cleared
\* during close()": on an open object local_endpoint() returns an endpoint read from its own
\* descriptor or the default one, never that of a closed predecessor.
EndpointIsCurrent == script = <<>> /\ is_open /\ named # 0 => named = member["fd_"]
=============================================================================
