---------------------------- MODULE MCIoLiveness ----------------------------
(***************************************************************************)
(* Liveness of what the reactor serves: a socket that is read from, and a  *)
(* timer with two waiting coroutines.  A behaviour explores one of the     *)
(* two, and `part` says which; the fairness of each is that of its module  *)
(* and binds only where it is the one explored.                            *)
(***************************************************************************)
EXTENDS ReactorSocket, TimerService

VARIABLE part    \* "socket" or "timers"

\* Every coroutine waits on the one timer.
SharedTimer == [w \in Waiters |-> CHOOSE t \in Timers : TRUE]

MCInit == SockInit /\ Init /\ part \in {"socket", "timers"}

MCNext == \/ part = "socket" /\ SockNext /\ UNCHANGED <<part, vars>>
          \/ part = "timers" /\ Next /\ UNCHANGED <<part, sockVars>>

\* SockFairness, where the socket is explored
SocketFairness ==
    LET In(A) == part = "socket" /\ A
    IN /\ SF_sockVars(In(Proceed))
       /\ WF_sockVars(In(Reactor))
       /\ WF_sockVars(In(Handler))
       /\ \A k \in Kinds : /\ SF_sockVars(In(Callback(k)))
                           /\ WF_sockVars(In(Dispatch(k)))
                           /\ WF_sockVars(In(CompleteOp(k)))

\* Fairness of TimerService, where the timer is explored
TimerFairness ==
    LET In(A) == part = "timers" /\ A
    IN /\ WF_vars(In(Tick))
       /\ \A t \in Timers : WF_vars(In(OwnerStep(t)))
       /\ \A w \in Waiters : WF_vars(In(StopStep(w))) /\ WF_vars(In(Complete(w)))
       /\ WF_vars(In(ReactorStep))

MCSpec == /\ MCInit /\ [][MCNext]_<<part, sockVars, vars>>
          /\ SocketFairness /\ TimerFairness
=============================================================================
