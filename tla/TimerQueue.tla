----------------------------- MODULE TimerQueue -----------------------------
(***************************************************************************)
(* What the timer heap of include/boost/corosio/detail/timer_service.hpp   *)
(* promises to the service that owns it: a map from timers to expiry       *)
(* times, of which any can be found, moved and taken out.  TimerHeapSpec   *)
(* implements it with a binary heap and an index stored in every timer.    *)
(***************************************************************************)
EXTENDS Integers

CONSTANTS Timers, Times, None

VARIABLES due   \* the expiry of every timer in the queue, None if it is out

TypeOK == due \in [Timers -> Times \union {None}]

Init == due = [t \in Timers |-> None]

(* Nothing but the expiry of t changes. *)
Only(t) == due' = [due EXCEPT ![t] = due'[t]]

Insert(t) == due[t] = None /\ due'[t] \in Times /\ Only(t)

Update(t) == due[t] # None /\ due'[t] \in Times /\ Only(t)

Remove(t) == due[t] # None /\ due'[t] = None /\ Only(t)

Next == \E t \in Timers : Insert(t) \/ Update(t) \/ Remove(t)

Spec == Init /\ [][Next]_due
=============================================================================
