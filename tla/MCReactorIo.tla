----------------------------- MODULE MCReactorIo -----------------------------
(***************************************************************************)
(* Safety of what the reactor serves: a socket with its operations, an     *)
(* acceptor with its, and the timer service with two timers.  They meet in *)
(* the scheduler's queue, which each of them models as it sees it, so a    *)
(* behaviour explores one of the three, and `part` says which; the others  *)
(* rest in one fixed initial state.                                        *)
(***************************************************************************)
EXTENDS ReactorSocket, ReactorAcceptor, TimerService

CONSTANTS t1, t2, w1, w2   \* two timers, each with one waiting coroutine

VARIABLE part    \* "socket", "acceptor" or "timers"

OwnTimers == [w \in Waiters |-> IF w = w1 THEN t1 ELSE t2]

MCInit == /\ part \in {"socket", "acceptor", "timers"}
          /\ SockInit /\ Init
          /\ AccInit /\ (part # "acceptor" => has_service /\ afile = "closed")

\* the program is through with the acceptor, or waits for a connection
AccEnd == /\ acall.name = "none" /\ \A k \in AOps : aop[k].coro = "idle" \/ k \in aslot
          /\ UNCHANGED accVars

MCNext == \/ part = "socket" /\ SockNext /\ UNCHANGED <<part, vars, accVars>>
          \/ part = "acceptor" /\ (AccNext \/ AccEnd) /\ UNCHANGED <<part, vars, sockVars>>
          \/ part = "timers" /\ Next /\ UNCHANGED <<part, sockVars, accVars>>

MCSpec == MCInit /\ [][MCNext]_<<part, sockVars, accVars, vars>>
=============================================================================
