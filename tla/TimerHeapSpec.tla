---------------------------- MODULE TimerHeapSpec ----------------------------
(***************************************************************************)
(* The timer heap on its own: any sequence of the operations timer_service *)
(* performs on it, shown to implement the queue of TimerQueue.             *)
(***************************************************************************)
EXTENDS TimerHeap

CONSTANTS Times, None

ASSUME TimesAssumption == Times \subseteq Int /\ None \notin Times

VARIABLE H

Init == H = EmptyHeap

Insert(t, e) ==
    /\ ~ InHeap(H, t)
    /\ H' = PushTimer(H, t, e)

Update(t, e) ==
    /\ InHeap(H, t)
    /\ H' = RekeyTimer(H, t, e)

Erase(t) ==
    /\ InHeap(H, t)
    /\ H' = remove_timer_impl(H, t)

(* What process_expired takes from the heap. *)
PopNearest ==
    /\ H.heap # << >>
    /\ H' = remove_timer_impl(H, H.heap[1].timer)

Next ==
    \/ \E t \in Timers, e \in Times : Insert(t, e) \/ Update(t, e)
    \/ \E t \in Timers : Erase(t)
    \/ PopNearest

Spec == Init /\ [][Next]_H

-----------------------------------------------------------------------------

(***************************************************************************)
(* heap_index_ is exact: every entry of the heap is found through its      *)
(* timer's index, and a timer that is not in the heap has npos.            *)
(* remove_timer_impl and update_timer act on heap_[index] without looking  *)
(* at whose entry it is.                                                   *)
(***************************************************************************)
IndexExact ==
    /\ \A i \in 1..Len(H.heap) : H.index[H.heap[i].timer] = i
    /\ \A t \in Timers : H.index[t] # npos => InHeap(H, t)

(***************************************************************************)
(* The front of the heap is never later than any other entry: what         *)
(* process_expired tests against now() and refresh_cached_nearest          *)
(* publishes is the earliest expiry.                                       *)
(***************************************************************************)
FrontIsEarliest ==
    \A i \in 1..Len(H.heap) : Time(H, 1) <= Time(H, i)

(***************************************************************************)
(* The heap implements the queue of TimerQueue: an operation on one timer  *)
(* changes that timer's expiry and nothing else.                           *)
(***************************************************************************)
Queue == INSTANCE TimerQueue WITH
    due <- [t \in Timers |->
                IF InHeap(H, t) THEN Time(H, H.index[t]) ELSE None]

\* Every step of the heap is one of the queue's, or changes no expiry.
ImplementsQueue == Queue!Spec

(***************************************************************************)
(* After any sequence of insertions, new expiries and removals the index   *)
(* kept in each timer is its place in heap_ (IndexExact), and the front is *)
(* the earliest (FrontIsEarliest).                                         *)
(***************************************************************************)
HeapSound ==
    /\ IndexExact
    /\ FrontIsEarliest
=============================================================================
