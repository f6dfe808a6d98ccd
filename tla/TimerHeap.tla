------------------------------ MODULE TimerHeap ------------------------------
(***************************************************************************)
(* The binary min-heap of timer_service: heap_ and the heap_index_ kept in *)
(* every timer::implementation.  The service removes timers from the       *)
(* middle of the heap (cancel) and moves them (expires_at), and finds them *)
(* by the index alone, so an index that is wrong once removes somebody     *)
(* else's timer later.                                                     *)
(*                                                                         *)
(* Positions count from 1 (the code's index + 1), so that the parent of i  *)
(* is i \div 2, its children are 2i and 2i + 1, and 0 stands for npos.     *)
(* The heap operators work on the record [heap, index] and are used by     *)
(* TimerService as they are.                                               *)
(***************************************************************************)
EXTENDS Integers, Sequences

CONSTANT Timers

npos == 0

EmptyHeap == [heap |-> << >>, index |-> [t \in Timers |-> npos]]

InHeap(H, t) == H.index[t] \in 1..Len(H.heap)

Time(H, i) == H.heap[i].time

-----------------------------------------------------------------------------

(* A swap of the times alone. *)
MutSwapTimes(H, i, j) ==
    [H EXCEPT !.heap[i].time = Time(H, j), !.heap[j].time = Time(H, i)]

swap_heap(H, i, j) ==
    [heap  |-> [H.heap EXCEPT ![i] = H.heap[j], ![j] = H.heap[i]],
     index |-> [H.index EXCEPT ![H.heap[j].timer] = i,
                               ![H.heap[i].timer] = j]]

(* One turn of the loop of up_heap: climb while earlier than the parent. *)
Climb(s) ==
    LET parent == s.at \div 2
    IN  IF s.at > 1 /\ Time(s.H, s.at) < Time(s.H, parent)
        THEN [H |-> swap_heap(s.H, s.at, parent), at |-> parent]
        ELSE s

up_heap(H, i) ==
    LET turn[k \in 0..Len(H.heap)] ==
            IF k = 0 THEN [H |-> H, at |-> i] ELSE Climb(turn[k - 1])
    IN  turn[Len(H.heap)].H

(* The child of i the loop of down_heap compares with: the earlier one. *)
MinChild(H, i) ==
    IF 2 * i = Len(H.heap) \/ Time(H, 2 * i) < Time(H, 2 * i + 1)
    THEN 2 * i
    ELSE 2 * i + 1

(* One turn of the loop of down_heap: sink unless strictly earlier. *)
Sink(s) ==
    IF /\ 2 * s.at <= Len(s.H.heap)
       /\ ~ (Time(s.H, s.at) < Time(s.H, MinChild(s.H, s.at)))
    THEN [H |-> swap_heap(s.H, s.at, MinChild(s.H, s.at)),
          at |-> MinChild(s.H, s.at)]
    ELSE s

down_heap(H, i) ==
    LET turn[k \in 0..Len(H.heap)] ==
            IF k = 0 THEN [H |-> H, at |-> i] ELSE Sink(turn[k - 1])
    IN  turn[Len(H.heap)].H

-----------------------------------------------------------------------------

(* The push of insert_waiter. *)
PushTimer(H, t, e) ==
    up_heap([heap  |-> Append(H.heap, [time |-> e, timer |-> t]),
             index |-> [H.index EXCEPT ![t] = Len(H.heap) + 1]],
            Len(H.heap) + 1)

(* The re-keying of update_timer: a later time sinks, an earlier one       *)
(* climbs; a timer outside the heap is left alone.                         *)
RekeyTimer(H, t, e) ==
    LET i == H.index[t]
        K == [H EXCEPT !.heap[i].time = e]
    IN  CASE ~ InHeap(H, t)   -> H
          [] e < Time(H, i)   -> up_heap(K, i)
          [] OTHER            -> down_heap(K, i)

(* Drop the last entry, whose timer is t. *)
PopBack(H, t) ==
    [heap  |-> SubSeq(H.heap, 1, Len(H.heap) - 1),
     index |-> [H.index EXCEPT ![t] = npos]]

(* A removal that only ever sinks the entry swapped into the hole: right   *)
(* for the root, wrong when the last leaf belongs to another subtree.      *)
MutRemoveOnlySinks(H, t) ==
    LET i == H.index[t]
        K == PopBack(swap_heap(H, i, Len(H.heap)), t)
    IN  CASE ~ InHeap(H, t)    -> H
          [] i = Len(H.heap)   -> PopBack(H, t)
          [] OTHER             -> down_heap(K, i)

remove_timer_impl(H, t) ==
    LET i == H.index[t]
        K == PopBack(swap_heap(H, i, Len(H.heap)), t)
    IN  CASE ~ InHeap(H, t)                               -> H
          [] i = Len(H.heap)                              -> PopBack(H, t)
          [] i < Len(H.heap) /\ i > 1
               /\ Time(K, i) < Time(K, i \div 2)          -> up_heap(K, i)
          [] OTHER                                        -> down_heap(K, i)
=============================================================================
