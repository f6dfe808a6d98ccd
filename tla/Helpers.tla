------------------------------ MODULE Helpers ------------------------------
(***************************************************************************)
(* The calls that are built from the library's own operations: delay(),    *)
(* connect() over a range of endpoints, and io_context::run_until, which   *)
(* cuts one wait into waits of at most a second.  A caller makes one of    *)
(* the three calls; the clock ticks, and a stop may be asked for, at any   *)
(* moment in between.                                                      *)
(***************************************************************************)
EXTENDS Integers, Sequences

CONSTANTS Horizon,       \* the clock's last tick
          Slice,         \* ticks in the second that run_one_until waits at most
          MaxEndpoints,  \* candidates of connect()
          MaxHandlers    \* handlers that run in the whole call

HelpersAssumption == {Horizon, Slice, MaxEndpoints, MaxHandlers} \subseteq Nat \ {0}
ASSUME HelpersAssumption

VARIABLES call,      \* the call and how far it is
          clock,
          stopped,   \* the stop token, or io_context::stop
          until,     \* the deadline of delay or run_until
          left,      \* candidates not looked at yet
          tried,     \* endpoints that were attempted, with their results
          sock,      \* the endpoint the socket is connected to, or Closed, Opened
          wait,      \* when the current wait of run_one_until must end
          ran,       \* handlers that ran
          answer

hVars == <<call, clock, stopped, until, left, tried, sock, wait, ran, answer>>

Calls == {"delay", "connect", "run_until"}
Closed == -1
Opened == 0

HelpersTypeOK ==
    /\ call.name \in Calls /\ clock \in 0..Horizon /\ stopped \in BOOLEAN
    /\ until \in -1..Horizon /\ sock \in -1..MaxEndpoints /\ ran \in 0..MaxHandlers

\* a candidate is an endpoint that the caller's condition accepts, or not
HelpersInit ==
    /\ \E c \in Calls : call = [name |-> c, at |-> "begin"]
    /\ clock = 0 /\ stopped \in BOOLEAN
    /\ until \in IF call.name = "connect" THEN {0} ELSE -1..Horizon
    /\ left \in IF call.name = "connect"
                THEN UNION {[1..n -> BOOLEAN] : n \in 0..MaxEndpoints} ELSE {<<>>}
    /\ tried = <<>> /\ sock \in IF call.name = "connect" THEN {Closed, Opened} ELSE {Closed}
    /\ wait = 0 /\ ran = 0 /\ answer = "none"

Busy == call.at # "done"

Tick ==
    /\ Busy /\ clock < Horizon /\ clock' = clock + 1
    /\ UNCHANGED <<call, stopped, until, left, tried, sock, wait, ran, answer>>
AskStop ==
    /\ Busy /\ ~stopped /\ stopped' = TRUE
    /\ UNCHANGED <<call, clock, until, left, tried, sock, wait, ran, answer>>

Ends(a) == call' = [call EXCEPT !.at = "done"] /\ answer' = a

-----------------------------------------------------------------------------
(* delay(): the stop first, then the deadline, then a timer.               *)

delay_suspend ==
    /\ call = [name |-> "delay", at |-> "begin"]
    /\ CASE stopped -> Ends("canceled")
         [] ~stopped /\ until <= clock -> Ends("ok")
         [] OTHER -> call' = [call EXCEPT !.at = "timer"] /\ UNCHANGED answer
    /\ UNCHANGED <<clock, stopped, until, left, tried, sock, wait, ran>>

\* the wait of the timer (TimerService) ends
delay_resume ==
    /\ call = [name |-> "delay", at |-> "timer"]
    /\ \/ clock >= until /\ Ends("ok")
       \/ stopped /\ Ends("canceled")
    /\ UNCHANGED <<clock, stopped, until, left, tried, sock, wait, ran>>

-----------------------------------------------------------------------------
(* connect(): candidates in order.                                         *)

\* the error of the last attempt
last_ec == IF tried = <<>> THEN "none" ELSE tried[Len(tried)].ec

\* the condition turns the candidate down
connect_skip ==
    /\ call = [name |-> "connect", at |-> "begin"] /\ left # <<>> /\ ~Head(left)
    /\ left' = Tail(left)
    /\ UNCHANGED <<call, clock, stopped, until, tried, sock, wait, ran, answer>>
\* a socket that is open is closed, and connect() opens it again
connect_attempt ==
    /\ call = [name |-> "connect", at |-> "begin"] /\ left # <<>> /\ Head(left)
    /\ left' = Tail(left)
    /\ tried' = Append(tried, [ep |-> Len(left), ec |-> "none"])
    /\ sock' = Opened
    /\ call' = [call EXCEPT !.at = "connecting"]
    /\ UNCHANGED <<clock, stopped, until, wait, ran, answer>>
connect_result ==
    /\ call = [name |-> "connect", at |-> "connecting"]
    /\ \E ec \in IF stopped THEN {"canceled"} ELSE {"ok", "refused"} :
         /\ tried' = [tried EXCEPT ![Len(tried)].ec = ec]
         /\ sock' = IF ec = "ok" THEN tried[Len(tried)].ep ELSE sock
         /\ IF ec = "refused" THEN call' = [call EXCEPT !.at = "begin"] /\ UNCHANGED answer
            ELSE Ends(ec)
    /\ UNCHANGED <<clock, stopped, until, left, wait, ran>>
\* every candidate failed or was turned down
connect_exhausted ==
    /\ call = [name |-> "connect", at |-> "begin"] /\ left = <<>>
    /\ Ends(IF last_ec = "none" THEN "no_such_device" ELSE last_ec)
    /\ UNCHANGED <<clock, stopped, until, left, tried, sock, wait, ran>>

-----------------------------------------------------------------------------
(* io_context::run_one_until, run_until.                                   *)

\* rel_time, between zero and a second
slice(now) ==
    LET rel == until - now IN IF rel < 0 THEN 0 ELSE IF rel > Slice THEN Slice ELSE rel

run_one_until ==
    /\ call = [name |-> "run_until", at |-> "begin"]
    /\ wait' = clock + slice(clock)
    /\ call' = [call EXCEPT !.at = "wait_one"]
    /\ UNCHANGED <<clock, stopped, until, left, tried, sock, ran, answer>>

\* wait_one ran a handler: run_until counts it and goes round again
wait_one_ran ==
    /\ call = [name |-> "run_until", at |-> "wait_one"] /\ ~stopped /\ ran < MaxHandlers
    /\ ran' = ran + 1 /\ call' = [call EXCEPT !.at = "begin"]
    /\ UNCHANGED <<clock, stopped, until, left, tried, sock, wait, answer>>

\* Mutant: a wait that found nothing ends the call, before its time.
GivesUp_bug == TRUE
GivesUp == stopped \/ clock >= until
\* wait_one found nothing to run
wait_one_empty ==
    /\ call = [name |-> "run_until", at |-> "wait_one"] /\ (stopped \/ clock >= wait)
    /\ IF GivesUp THEN Ends("empty")
       ELSE call' = [call EXCEPT !.at = "begin"] /\ UNCHANGED answer
    /\ UNCHANGED <<clock, stopped, until, left, tried, sock, wait, ran>>

HelpersNext ==
    \/ Tick \/ AskStop
    \/ delay_suspend \/ delay_resume
    \/ connect_skip \/ connect_attempt \/ connect_result \/ connect_exhausted
    \/ run_one_until \/ wait_one_ran \/ wait_one_empty

HelpersSpec == HelpersInit /\ [][HelpersNext]_hVars

-----------------------------------------------------------------------------
(* Properties.                                                             *)

\* A delay that ends without an error has lasted until its deadline, and
\* run_until does not come back before its time while the context runs,
\* although it waits a second at a time.
NotBeforeTime ==
    call.at = "done" /\ call.name \in {"delay", "run_until"} =>
        \/ clock >= until
        \/ stopped /\ answer # "ok"

\* connect() over a range: the candidates are tried in order; a success is of
\* the last endpoint tried, to which the socket is then connected; a
\* cancelled attempt is the last; a failure is the last attempt's error, and
\* that of an empty range when nothing was tried.
ConnectInOrder ==
    /\ \A i \in DOMAIN tried : i < Len(tried) => tried[i].ec = "refused"
                                                 /\ tried[i].ep > tried[i + 1].ep
    /\ call = [name |-> "connect", at |-> "done"] =>
         /\ answer = (IF tried = <<>> THEN "no_such_device" ELSE last_ec)
         /\ answer = "ok" <=> sock \notin {Closed, Opened}
         /\ answer = "ok" => sock = tried[Len(tried)].ep

(***************************************************************************)
(* delay() and run_until() last as long as they were asked to, and         *)
(* connect() over a range tries the endpoints in order and reports the     *)
(* attempt that counts.                                                    *)
(***************************************************************************)
HelpersKeepFaith ==
    /\ NotBeforeTime
    /\ ConnectInOrder
=============================================================================
