----------------------------- MODULE TimerProofs -----------------------------
(***************************************************************************)
(* The heap of the timer service, for any number of timers, and the        *)
(* verdict of timeout(), for any depth of nesting.                         *)
(*                                                                         *)
(* HeapSound holds, and the heap implements the queue of TimerQueue.  The  *)
(* loops of up_heap and down_heap are proved with their loop invariants    *)
(* (the heap is ordered except around the entry that moves, whose children *)
(* are not earlier than its parent) and a bound on their turns.  Induction *)
(* over the turns is the least-number principle, applied to the set of     *)
(* turns that satisfy the invariant.                                       *)
(*                                                                         *)
(* For timeout() with one thread: once await_resume begins, every request  *)
(* for stop has run its callbacks, so the stopped sources are the levels   *)
(* from some m to the innermost, and nothing adds to them but the          *)
(* unwinding itself.  What each level reads is therefore exact, and m is   *)
(* the one level that finds itself stopped under a parent that is not: its *)
(* deadline (or one above the caller, when m is 0) is to blame.  That      *)
(* there is such a level is the least-number principle.                    *)
(***************************************************************************)
EXTENDS TimerHeapSpec, Timeout, WellFoundedInduction, TLAPS

\* A set of natural numbers has a least element.
LEMMA LeastElement ==
  ASSUME NEW T, T \subseteq Nat, T # {}
  PROVE  \E x \in T : \A y \in T : x <= y
<1>1. PICK x \in T : \A y \in T : ~ (<<y, x>> \in OpToRel(<, Nat))
  BY NatLessThanWellFounded, WFMin, Zenon
<1>2. \A y \in T : ~(y < x)
  BY <1>1, Zenon DEF OpToRel
<1>3. \A y \in T : x <= y
  BY <1>2
<1> QED BY <1>3, Zenon

\* A set that holds 0, and with each number up to n the next one, holds them all.
LEMMA UpTo ==
  ASSUME NEW n \in Nat, NEW S, 0 \in S, \A k \in 0..n : k < n /\ k \in S => k + 1 \in S
  PROVE  \A k \in 0..n : k \in S
<1> DEFINE T == {k \in 0..n : k \notin S}
<1> SUFFICES ASSUME T # {} PROVE FALSE
  BY Zenon
<1>0. T \subseteq Nat
  OBVIOUS
<1>1. PICK x \in T : \A y \in T : x <= y
  <2> HIDE DEF T
  <2> QED BY <1>0, LeastElement, Zenon
<1>2. x \in 0..n /\ x # 0 /\ x - 1 \in 0..n /\ x - 1 \notin T
  BY <1>1
<1>3. (x - 1) + 1 \in S
  BY <1>2
<1> QED BY <1>1, <1>2, <1>3

\* Halves, as the loops use them for the parent of an entry.
LEMMA Half ==
  ASSUME NEW i \in Nat
  PROVE  /\ i \div 2 \in Nat /\ (i = 2 * (i \div 2) \/ i = 2 * (i \div 2) + 1)
         /\ i > 1 => i \div 2 > 0 /\ i \div 2 < i
OBVIOUS

-----------------------------------------------------------------------------
(* The recursive functions of the loops exist, so that the loops take the  *)
(* turns they say.                                                         *)

Turns(g, b, n) == g = [k \in 0..n |-> IF k = 0 THEN b ELSE Climb(g[k - 1])]

\* The recursive function of the turns of up_heap exists, for any number of them.
LEMMA ClimbTurns ==
  ASSUME NEW b, NEW n \in Nat
  PROVE  \E g : Turns(g, b, n)
<1> DEFINE S == {m \in Nat : \E g : Turns(g, b, m)}
<1>1. 0 \in S
  <2>1. Turns([k \in 0..0 |-> b], b, 0)
    BY DEF Turns
  <2> QED BY <2>1, Zenon
<1>2. ASSUME NEW m \in Nat, m \in S PROVE m + 1 \in S
  <2>1. PICK g : Turns(g, b, m)
    BY <1>2, Zenon
  <2> DEFINE h == [k \in 0..(m + 1) |-> IF k = 0 THEN b ELSE Climb(g[k - 1])]
  <2>2. \A k \in 0..m : h[k] = g[k]
    BY <2>1 DEF Turns
  <2>3. \A k \in 0..(m + 1) : k # 0 => h[k - 1] = g[k - 1]
    BY <2>2
  <2>4. h = [k \in 0..(m + 1) |-> IF k = 0 THEN b ELSE Climb(h[k - 1])]
    BY <2>3, Zenon
  <2>5. Turns(h, b, m + 1)
    BY <2>4, Zenon DEF Turns
  <2> QED BY <2>5
<1>3. \A k \in 0..n : k \in S
  <2> HIDE DEF S
  <2> QED BY <1>1, <1>2, UpTo
<1> QED BY <1>3

\* up_heap is the last of its turns.
LEMMA UpTurns ==
  ASSUME NEW K, NEW i, Len(K.heap) \in Nat
  PROVE  \E g : /\ Turns(g, [H |-> K, at |-> i], Len(K.heap))
                /\ up_heap(K, i) = g[Len(K.heap)].H
<1>1. PICK g : Turns(g, [H |-> K, at |-> i], Len(K.heap))
  BY ClimbTurns, Zenon
<1> QED BY <1>1, Zenon DEF up_heap, Turns

-----------------------------------------------------------------------------
(* Heaps whose index is exact, and what a swap does to them.               *)

\* What the heap holds of a timer.
Entry == [time : Times, timer : Timers]

\* heap_index_ leads to the timer's entry, and nothing else leads into the heap.
HeapOK(K) ==
  /\ K \in [heap : Seq(Entry), index : [Timers -> Nat]]
  /\ \A i \in 1..Len(K.heap) : K.index[K.heap[i].timer] = i
  /\ \A t \in Timers : K.index[t] # 0 => /\ K.index[t] \in 1..Len(K.heap)
                                         /\ K.heap[K.index[t]].timer = t

\* The expiry of t, as the heap has it.
DueOf(K, t) == IF InHeap(K, t) THEN Time(K, K.index[t]) ELSE None

Same(K, L) == Len(L.heap) = Len(K.heap) /\ \A t \in Timers : DueOf(L, t) = DueOf(K, t)

\* What the provers need of the types.
LEMMA HeapFacts ==
  ASSUME NEW K, HeapOK(K)
  PROVE  /\ Len(K.heap) \in Nat /\ K.heap \in Seq(Entry) /\ K.index \in [Timers -> Nat]
         /\ \A i \in 1..Len(K.heap) : /\ K.heap[i] \in Entry /\ K.heap[i].timer \in Timers
                                      /\ Time(K, i) \in Int /\ Time(K, i) \in Times
                                      /\ K.index[K.heap[i].timer] = i
         /\ \A t \in Timers : InHeap(K, t) <=> K.index[t] # 0
<1>1. /\ Len(K.heap) \in Nat /\ K.heap \in Seq(Entry) /\ K.index \in [Timers -> Nat]
      /\ K.heap \in [1..Len(K.heap) -> Entry]
  BY DEF HeapOK
<1>2. ASSUME NEW i \in 1..Len(K.heap)
      PROVE  /\ K.heap[i] \in Entry /\ K.heap[i].timer \in Timers
             /\ Time(K, i) \in Int /\ Time(K, i) \in Times
             /\ K.index[K.heap[i].timer] = i
  <2>1. K.heap[i] \in Entry
    BY <1>1, Zenon
  <2>2. K.heap[i].timer \in Timers /\ K.heap[i].time \in Times
    BY <2>1, Zenon DEF Entry
  <2>3. K.index[K.heap[i].timer] = i
    BY Zenon DEF HeapOK
  <2> QED BY <2>1, <2>2, <2>3, TimesAssumption, Zenon DEF Time
<1>3. ASSUME NEW t \in Timers PROVE InHeap(K, t) <=> K.index[t] # 0
  <2>1. K.index[t] # 0 => K.index[t] \in 1..Len(K.heap)
    BY Zenon DEF HeapOK
  <2>2. K.index[t] \in 1..Len(K.heap) => K.index[t] # 0
    BY <1>1
  <2> QED BY <2>1, <2>2, Zenon DEF InHeap
<1> QED BY <1>1, <1>2, <1>3, Zenon

\* Exchanging two values of a function.
LEMMA Exchange ==
  ASSUME NEW D, NEW E, NEW f \in [D -> E], NEW i \in D, NEW j \in D, i # j,
         NEW u \in E, NEW v \in E, NEW g, g = [f EXCEPT ![i] = u, ![j] = v]
  PROVE  /\ g \in [D -> E] /\ g[i] = u /\ g[j] = v
         /\ \A k \in D : k # i /\ k # j => g[k] = f[k]
BY Zenon

\* A swap keeps the index exact and every timer's expiry.
LEMMA SwapKeeps ==
  ASSUME NEW K, HeapOK(K), NEW i \in 1..Len(K.heap), NEW j \in 1..Len(K.heap), i # j
  PROVE  /\ HeapOK(swap_heap(K, i, j)) /\ Same(K, swap_heap(K, i, j))
         /\ Time(swap_heap(K, i, j), i) = Time(K, j)
         /\ Time(swap_heap(K, i, j), j) = Time(K, i)
         /\ \A k \in 1..Len(K.heap) : k # i /\ k # j => Time(swap_heap(K, i, j), k) = Time(K, k)
         /\ swap_heap(K, i, j).heap[j] = K.heap[i]
<1> DEFINE L == swap_heap(K, i, j)
           h == K.heap
           x == K.index
           g == L.heap
           y == L.index
           a == h[i].timer
           b == h[j].timer
           n == Len(h)
<1>1. /\ n \in Nat /\ h \in [1..n -> Entry] /\ x \in [Timers -> Nat]
      /\ a \in Timers /\ b \in Timers /\ i \in 1..n /\ j \in 1..n
  BY HeapFacts DEF HeapOK
<1>a. \A k \in 1..n : x[h[k].timer] = k /\ h[k].timer \in Timers
  BY HeapFacts, Zenon
<1>b. \A t \in Timers : x[t] # 0 => x[t] \in 1..n /\ h[x[t]].timer = t
  BY Zenon DEF HeapOK
<1>2. /\ g = [h EXCEPT ![i] = h[j], ![j] = h[i]]
      /\ y = [x EXCEPT ![b] = i, ![a] = j]
      /\ L = [heap |-> g, index |-> y]
  BY Zenon DEF swap_heap
<1> HIDE DEF L, h, x, g, y, n
<1>c. a # b /\ h[i] \in Entry /\ h[j] \in Entry /\ i \in Nat /\ j \in Nat
  BY <1>1, <1>a
<1>3. /\ g \in [1..n -> Entry] /\ g[i] = h[j] /\ g[j] = h[i]
      /\ \A k \in 1..n : k # i /\ k # j => g[k] = h[k]
  BY <1>1, <1>2, <1>c, Exchange, Zenon
<1>4. g \in Seq(Entry) /\ Len(g) = n
  BY <1>1, <1>3
<1>5. /\ y \in [Timers -> Nat] /\ y[b] = i /\ y[a] = j
      /\ \A t \in Timers : t # a /\ t # b => y[t] = x[t]
  BY <1>1, <1>2, <1>c, Exchange, Zenon
<1>6. ASSUME NEW k \in 1..n PROVE y[g[k].timer] = k
  <2>1. CASE k = i
    BY <1>3, <1>5, <2>1, Zenon
  <2>2. CASE k = j
    BY <1>3, <1>5, <2>2, Zenon
  <2>3. CASE k # i /\ k # j
    <3>1. h[k].timer # a /\ h[k].timer # b /\ h[k].timer \in Timers /\ x[h[k].timer] = k
      BY <1>1, <1>a, <2>3, Zenon
    <3> QED BY <1>3, <1>5, <2>3, <3>1, Zenon
  <2> QED BY <2>1, <2>2, <2>3, Zenon
<1>7. ASSUME NEW t \in Timers, y[t] # 0
      PROVE  y[t] \in 1..n /\ g[y[t]].timer = t /\ x[t] # 0 /\ g[y[t]] = h[x[t]]
  <2>1. CASE t = a \/ t = b
    BY <1>1, <1>a, <1>3, <1>5, <2>1
  <2>2. CASE t # a /\ t # b
    <3>1. y[t] = x[t] /\ x[t] \in 1..n /\ h[x[t]].timer = t
      BY <1>5, <1>7, <1>b, <2>2, Zenon
    <3> QED BY <1>3, <1>7, <2>2, <3>1, Zenon
  <2> QED BY <2>1, <2>2, Zenon
<1>d. ASSUME NEW t \in Timers, y[t] = 0 PROVE x[t] = 0
  BY <1>1, <1>5, <1>d
<1>8. HeapOK(L)
  <2>1. L.heap = g /\ L.index = y /\ L \in [heap : Seq(Entry), index : [Timers -> Nat]]
    BY <1>2, <1>4, <1>5, Zenon
  <2> QED BY <1>4, <1>6, <1>7, <2>1, Zenon DEF HeapOK
<1>9. Same(K, L)
  <2>0. L.heap = g /\ L.index = y /\ K.heap = h /\ K.index = x
    BY <1>2, Zenon DEF h, x
  <2> SUFFICES ASSUME NEW t \in Timers PROVE DueOf(L, t) = DueOf(K, t)
    BY <1>4, <2>0, Zenon DEF Same, n
  <2>1. (InHeap(L, t) <=> y[t] # 0) /\ (InHeap(K, t) <=> x[t] # 0)
    BY <1>8, <2>0, HeapFacts, Zenon
  <2>2. CASE y[t] # 0
    BY <1>7, <2>0, <2>1, <2>2, Zenon DEF DueOf, Time
  <2>3. CASE y[t] = 0
    BY <1>d, <2>0, <2>1, <2>3, Zenon DEF DueOf
  <2> QED BY <2>2, <2>3, Zenon
<1> QED BY <1>3, <1>8, <1>9, Zenon DEF Time, L, n, g, h

-----------------------------------------------------------------------------
(* up_heap.                                                                *)

\* No entry is earlier than its parent.
Ordered(K) == \A i \in 2..Len(K.heap) : Time(K, i \div 2) <= Time(K, i)

\* Only the entry that climbs may be earlier than its parent, and its children
\* are not earlier than its parent.
UpOrdered(K, at) ==
  /\ \A i \in 2..Len(K.heap) : i # at => Time(K, i \div 2) <= Time(K, i)
  /\ at > 1 => \A i \in 2..Len(K.heap) : i \div 2 = at => Time(K, at \div 2) <= Time(K, i)

\* The loop invariant of up_heap, after k turns from the heap K.
UpOK(K, s, k) ==
  /\ HeapOK(s.H) /\ Same(K, s.H) /\ s.at \in 1..Len(K.heap)
  /\ UpOrdered(s.H, s.at)
  /\ Ordered(s.H) \/ s.at + k <= Len(K.heap)

\* A turn of the loop of up_heap keeps its invariant.
LEMMA ClimbKeeps ==
  ASSUME NEW K, HeapOK(K), NEW s, NEW k \in Nat, UpOK(K, s, k), k < Len(K.heap)
  PROVE  UpOK(K, Climb(s), k + 1)
<1> DEFINE L == s.H
           p == s.at \div 2
           n == Len(K.heap)
<1>0. /\ HeapOK(L) /\ Same(K, L) /\ s.at \in 1..n /\ UpOrdered(L, s.at)
      /\ Len(L.heap) = n /\ n \in Nat
  BY HeapFacts, Zenon DEF UpOK, Same
<1>t. \A i \in 1..n : Time(L, i) \in Int
  BY <1>0, HeapFacts, Zenon
<1>1. CASE s.at > 1 /\ Time(L, s.at) < Time(L, p)
  <2> DEFINE M == swap_heap(L, s.at, p)
  <2>1. p \in 1..n /\ p # s.at /\ p < s.at /\ p \in Nat
    BY <1>0, <1>1, Half
  <2>2. /\ HeapOK(M) /\ Same(L, M) /\ Time(M, s.at) = Time(L, p) /\ Time(M, p) = Time(L, s.at)
        /\ \A i \in 1..n : i # s.at /\ i # p => Time(M, i) = Time(L, i)
    BY <1>0, <2>1, SwapKeeps
  <2>3. Climb(s) = [H |-> M, at |-> p]
    BY <1>1, Zenon DEF Climb
  <2> HIDE DEF M
  <2>4. Same(K, M) /\ Len(M.heap) = n
    BY <1>0, <2>2, Zenon DEF Same
  <2>5. ASSUME NEW i \in 2..n, i # p PROVE Time(M, i \div 2) <= Time(M, i)
    <3>1. i \div 2 \in 1..n /\ i \div 2 # i /\ i \in 1..n
      BY <1>0, Half
    <3>2. CASE i = s.at
      BY <1>1, <1>t, <1>0, <2>1, <2>2, <3>2
    <3>3. CASE i # s.at /\ i \div 2 = p
      <4>1. Time(L, p) <= Time(L, i)
        BY <1>0, <3>3, Zenon DEF UpOrdered
      <4> QED BY <1>1, <1>0, <1>t, <2>1, <2>2, <2>5, <3>1, <3>3, <4>1
    <3>4. CASE i # s.at /\ i \div 2 = s.at
      <4>1. Time(L, p) <= Time(L, i)
        BY <1>0, <1>1, <3>4, Zenon DEF UpOrdered
      <4> QED BY <1>0, <1>t, <2>1, <2>2, <2>5, <3>1, <3>4, <4>1, Zenon
    <3>5. CASE i # s.at /\ i \div 2 # p /\ i \div 2 # s.at
      <4>1. Time(L, i \div 2) <= Time(L, i)
        BY <1>0, <3>5, Zenon DEF UpOrdered
      <4> QED BY <2>2, <2>5, <3>1, <3>5, <4>1, Zenon
    <3> QED BY <3>2, <3>3, <3>4, <3>5, Zenon
  <2>6. ASSUME p > 1, NEW i \in 2..n, i \div 2 = p PROVE Time(M, p \div 2) <= Time(M, i)
    <3>1. p \div 2 \in 1..n /\ p \div 2 # p /\ p \div 2 < p /\ i # p /\ i \in 1..n
      BY <1>0, <2>1, <2>6, Half
    <3>2. Time(L, p \div 2) <= Time(L, p) /\ Time(M, p \div 2) = Time(L, p \div 2)
      BY <1>0, <2>1, <2>2, <2>6, <3>1 DEF UpOrdered
    <3>3. CASE i = s.at
      BY <2>2, <3>2, <3>3, Zenon
    <3>4. CASE i # s.at
      <4>1. Time(L, p) <= Time(L, i) /\ Time(M, i) = Time(L, i)
        BY <1>0, <2>2, <2>6, <3>1, <3>4, Zenon DEF UpOrdered
      <4> QED BY <1>t, <2>1, <3>1, <3>2, <4>1
    <3> QED BY <3>3, <3>4, Zenon
  <2>7. UpOrdered(M, p)
    BY <2>4, <2>5, <2>6, Zenon DEF UpOrdered
  <2>8. p + (k + 1) <= n \/ Ordered(M)
    <3>1. CASE Ordered(L)
      <4>1. Time(L, p) <= Time(L, s.at)
        BY <1>0, <1>1, <3>1 DEF Ordered
      <4> QED BY <1>1, <1>0, <1>t, <2>1, <4>1
    <3>2. CASE s.at + k <= n
      BY <1>0, <2>1, <3>2
    <3> QED BY <3>1, <3>2, Zenon DEF UpOK
  <2> QED BY <2>1, <2>2, <2>3, <2>4, <2>7, <2>8 DEF UpOK
<1>2. CASE ~(s.at > 1 /\ Time(L, s.at) < Time(L, p))
  <2>1. Climb(s) = s
    BY <1>2, Zenon DEF Climb
  <2>2. ASSUME NEW i \in 2..n PROVE Time(L, i \div 2) <= Time(L, i)
    <3>1. CASE i # s.at
      BY <1>0, <3>1, Zenon DEF UpOrdered
    <3>2. CASE i = s.at
      <4>1. p \in 1..n /\ s.at > 1
        BY <1>0, <3>2, Half
      <4> QED BY <1>0, <1>2, <1>t, <3>2, <4>1
    <3> QED BY <3>1, <3>2, Zenon
  <2>3. Ordered(L)
    BY <1>0, <2>2, Zenon DEF Ordered
  <2> QED BY <1>0, <2>1, <2>3, Zenon DEF UpOK
<1> QED BY <1>1, <1>2, Zenon

\* up_heap restores the order, and moves no timer's expiry.
LEMMA UpHeap ==
  ASSUME NEW K, HeapOK(K), NEW i \in 1..Len(K.heap), UpOrdered(K, i)
  PROVE  HeapOK(up_heap(K, i)) /\ Ordered(up_heap(K, i)) /\ Same(K, up_heap(K, i))
<1> DEFINE n == Len(K.heap)
           b == [H |-> K, at |-> i]
<1>0. n \in Nat
  BY HeapFacts, Zenon
<1>1. PICK g : Turns(g, b, n) /\ up_heap(K, i) = g[n].H
  BY <1>0, UpTurns, Zenon
<1>2. g[0] = b /\ \A k \in 0..n : k < n => g[k + 1] = Climb(g[k])
  BY <1>0, <1>1 DEF Turns
<1> DEFINE S == {k \in 0..n : UpOK(K, g[k], k)}
<1>3. 0 \in S
  <2>1. UpOK(K, b, 0)
    BY <1>0 DEF UpOK, Same
  <2> QED BY <1>0, <1>2, <2>1
<1>4. ASSUME NEW k \in 0..n, k < n, k \in S PROVE k + 1 \in S
  <2>1. UpOK(K, g[k], k) /\ k \in Nat
    BY <1>4
  <2>2. UpOK(K, Climb(g[k]), k + 1)
    BY <1>4, <2>1, ClimbKeeps, Zenon
  <2> QED BY <1>0, <1>2, <1>4, <2>2
<1>5. n \in S
  <2> HIDE DEF S
  <2>1. \A k \in 0..n : k \in S
    BY <1>0, <1>3, <1>4, UpTo, Zenon
  <2> QED BY <1>0, <2>1
<1>6. UpOK(K, g[n], n)
  BY <1>5, Zenon
<1>7. Ordered(g[n].H)
  BY <1>0, <1>6 DEF UpOK
<1> QED BY <1>1, <1>6, <1>7, Zenon DEF UpOK

-----------------------------------------------------------------------------
(* down_heap.                                                              *)

\* The turns of down_heap, as a recursive function.
SinkTurns(g, b, n) == g = [k \in 0..n |-> IF k = 0 THEN b ELSE Sink(g[k - 1])]

\* It exists.
LEMMA SinkTurnsExist ==
  ASSUME NEW b, NEW n \in Nat
  PROVE  \E g : SinkTurns(g, b, n)
<1> DEFINE S == {m \in Nat : \E g : SinkTurns(g, b, m)}
<1>1. 0 \in S
  <2>1. SinkTurns([k \in 0..0 |-> b], b, 0)
    BY DEF SinkTurns
  <2> QED BY <2>1, Zenon
<1>2. ASSUME NEW m \in Nat, m \in S PROVE m + 1 \in S
  <2>1. PICK g : SinkTurns(g, b, m)
    BY <1>2, Zenon
  <2> DEFINE h == [k \in 0..(m + 1) |-> IF k = 0 THEN b ELSE Sink(g[k - 1])]
  <2>2. \A k \in 0..m : h[k] = g[k]
    BY <2>1 DEF SinkTurns
  <2>3. \A k \in 0..(m + 1) : k # 0 => h[k - 1] = g[k - 1]
    BY <2>2
  <2>4. h = [k \in 0..(m + 1) |-> IF k = 0 THEN b ELSE Sink(h[k - 1])]
    BY <2>3, Zenon
  <2>5. SinkTurns(h, b, m + 1)
    BY <2>4, Zenon DEF SinkTurns
  <2> QED BY <2>5
<1>3. \A k \in 0..n : k \in S
  <2> HIDE DEF S
  <2> QED BY <1>1, <1>2, UpTo
<1> QED BY <1>3

\* down_heap is the last of its turns.
LEMMA DownTurns ==
  ASSUME NEW K, NEW i, Len(K.heap) \in Nat
  PROVE  \E g : /\ SinkTurns(g, [H |-> K, at |-> i], Len(K.heap))
                /\ down_heap(K, i) = g[Len(K.heap)].H
<1>1. PICK g : SinkTurns(g, [H |-> K, at |-> i], Len(K.heap))
  BY SinkTurnsExist, Zenon
<1> QED BY <1>1, Zenon DEF down_heap, SinkTurns

\* Only the children of the entry that sinks may be earlier than it, and they
\* are not earlier than its parent.
DownOrdered(K, at) ==
  /\ \A i \in 2..Len(K.heap) : i \div 2 # at => Time(K, i \div 2) <= Time(K, i)
  /\ at > 1 => \A i \in 2..Len(K.heap) : i \div 2 = at => Time(K, at \div 2) <= Time(K, i)

\* The loop invariant of down_heap, after k turns from the heap K.
DownOK(K, s, k) ==
  /\ HeapOK(s.H) /\ Same(K, s.H) /\ s.at \in 1..Len(K.heap)
  /\ DownOrdered(s.H, s.at)
  /\ Ordered(s.H) \/ s.at > k

\* MinChild is the earlier of the children there are.
LEMMA MinChildIs ==
  ASSUME NEW K, HeapOK(K), NEW at \in 1..Len(K.heap), 2 * at <= Len(K.heap)
  PROVE  /\ MinChild(K, at) \in 2..Len(K.heap) /\ MinChild(K, at) > at
         /\ MinChild(K, at) \div 2 = at
         /\ \A i \in 2..Len(K.heap) : i \div 2 = at => Time(K, MinChild(K, at)) <= Time(K, i)
<1> DEFINE n == Len(K.heap)
<1>0. n \in Nat /\ \A i \in 1..n : Time(K, i) \in Int
  BY HeapFacts, Zenon
<1>1. \A i \in 2..n : i \div 2 = at => i = 2 * at \/ i = 2 * at + 1
  BY <1>0, Half
<1>2. (2 * at) \div 2 = at /\ (2 * at + 1) \div 2 = at
  BY <1>0
<1>3. CASE 2 * at = n \/ Time(K, 2 * at) < Time(K, 2 * at + 1)
  <2>1. MinChild(K, at) = 2 * at
    BY <1>3, Zenon DEF MinChild
  <2>2. ASSUME NEW i \in 2..n, i \div 2 = at PROVE Time(K, 2 * at) <= Time(K, i)
    <3>1. Time(K, 2 * at) \in Int /\ Time(K, i) \in Int
      BY <1>0
    <3>2. i = 2 * at \/ (i = 2 * at + 1 /\ 2 * at # n)
      BY <1>0, <1>1, <2>2
    <3> QED BY <1>3, <3>1, <3>2
  <2>3. 2 * at \in 2..n /\ 2 * at > at
    BY <1>0
  <2> QED BY <1>2, <2>1, <2>2, <2>3, Zenon
<1>4. CASE ~(2 * at = n \/ Time(K, 2 * at) < Time(K, 2 * at + 1))
  <2>1. MinChild(K, at) = 2 * at + 1 /\ 2 * at + 1 <= n
    BY <1>0, <1>4 DEF MinChild
  <2>2. ASSUME NEW i \in 2..n, i \div 2 = at PROVE Time(K, 2 * at + 1) <= Time(K, i)
    <3>1. Time(K, 2 * at + 1) \in Int /\ Time(K, 2 * at) \in Int
      BY <1>0, <2>1
    <3>2. i = 2 * at \/ i = 2 * at + 1
      BY <1>1, <2>2, Zenon
    <3> QED BY <1>4, <3>1, <3>2
  <2>3. 2 * at + 1 \in 2..n /\ 2 * at + 1 > at
    BY <1>0, <2>1
  <2> QED BY <1>2, <2>1, <2>2, <2>3, Zenon
<1> QED BY <1>3, <1>4, Zenon

\* A turn of the loop of down_heap keeps its invariant.
LEMMA SinkKeeps ==
  ASSUME NEW K, HeapOK(K), NEW s, NEW k \in Nat, DownOK(K, s, k), k < Len(K.heap)
  PROVE  DownOK(K, Sink(s), k + 1)
<1> DEFINE L == s.H
           at == s.at
           m == MinChild(L, at)
           n == Len(K.heap)
<1>0. /\ HeapOK(L) /\ Same(K, L) /\ at \in 1..n /\ DownOrdered(L, at)
      /\ Len(L.heap) = n /\ n \in Nat
  BY HeapFacts, Zenon DEF DownOK, Same
<1>t. \A i \in 1..n : Time(L, i) \in Int
  BY <1>0, HeapFacts, Zenon
<1>m. 2 * at <= n => /\ m \in 2..n /\ m \in 1..n /\ m > at /\ m # at /\ m \div 2 = at
                     /\ \A i \in 2..n : i \div 2 = at => Time(L, m) <= Time(L, i)
  <2> SUFFICES ASSUME 2 * at <= n
               PROVE  /\ m \in 2..n /\ m \in 1..n /\ m > at /\ m # at /\ m \div 2 = at
                      /\ \A i \in 2..n : i \div 2 = at => Time(L, m) <= Time(L, i)
    BY Zenon
  <2>1. /\ m \in 2..n /\ m > at /\ m \div 2 = at
        /\ \A i \in 2..n : i \div 2 = at => Time(L, m) <= Time(L, i)
    <3> HIDE DEF L, at, n
    <3> QED BY <1>0, MinChildIs, Zenon
  <2> QED BY <1>0, <2>1
<1>1. CASE 2 * at <= n /\ ~(Time(L, at) < Time(L, m))
  <2> DEFINE M == swap_heap(L, at, m)
  <2>2. /\ HeapOK(M) /\ Same(L, M) /\ Time(M, at) = Time(L, m) /\ Time(M, m) = Time(L, at)
        /\ \A i \in 1..n : i # at /\ i # m => Time(M, i) = Time(L, i)
    BY <1>0, <1>1, <1>m, SwapKeeps
  <2>3. Sink(s) = [H |-> M, at |-> m]
    BY <1>0, <1>1, Zenon DEF Sink
  <2> HIDE DEF M, m
  <2>4. Same(K, M) /\ Len(M.heap) = n
    BY <1>0, <2>2, Zenon DEF Same
  <2>5. ASSUME NEW i \in 2..n, i \div 2 # m PROVE Time(M, i \div 2) <= Time(M, i)
    <3>1. i \div 2 \in 1..n /\ i \div 2 # i /\ i \in 1..n
      BY <1>0, Half
    <3>2. CASE i = m
      BY <1>0, <1>1, <1>m, <1>t, <2>2, <3>2
    <3>3. CASE i # m /\ i \div 2 = at
      <4>1. Time(L, m) <= Time(L, i) /\ Time(M, i) = Time(L, i)
        BY <1>1, <1>m, <2>2, <3>1, <3>3, Zenon
      <4> QED BY <2>2, <3>3, <4>1, Zenon
    <3>4. CASE i = at
      <4>1. Time(L, i \div 2) <= Time(L, m)
        BY <1>0, <1>1, <1>m, <3>4 DEF DownOrdered
      <4>2. Time(M, i \div 2) = Time(L, i \div 2) /\ Time(M, i) = Time(L, m)
        BY <1>m, <1>1, <2>2, <2>5, <3>1, <3>4, Zenon
      <4> QED BY <4>1, <4>2, Zenon
    <3>5. CASE i # m /\ i # at /\ i \div 2 # at
      <4>1. Time(L, i \div 2) <= Time(L, i)
        BY <1>0, <3>5, Zenon DEF DownOrdered
      <4> QED BY <2>2, <2>5, <3>1, <3>5, <4>1, Zenon
    <3> QED BY <3>2, <3>3, <3>4, <3>5, Zenon
  <2>6. ASSUME NEW i \in 2..n, i \div 2 = m PROVE Time(M, m \div 2) <= Time(M, i)
    <3>1. i \in 1..n /\ i # m /\ i # at /\ i \div 2 # at /\ m \div 2 = at
      BY <1>0, <1>1, <1>m, <2>6, Half
    <3>2. Time(L, m) <= Time(L, i)
      BY <1>0, <2>6, <3>1, Zenon DEF DownOrdered
    <3> QED BY <2>2, <3>1, <3>2, Zenon
  <2>7. DownOrdered(M, m)
    BY <2>4, <2>5, <2>6, Zenon DEF DownOrdered
  <2>8. m > k + 1 \/ Ordered(M)
    <3>1. CASE at > k
      BY <1>0, <1>1, <1>m, <3>1
    <3>2. CASE Ordered(L)
      <4>1. Time(L, at) = Time(L, m)
        BY <1>0, <1>1, <1>m, <1>t, <3>2 DEF Ordered
      <4>2. \A i \in 1..n : Time(M, i) = Time(L, i)
        BY <2>2, <4>1, Zenon
      <4>3. ASSUME NEW i \in 2..n PROVE Time(M, i \div 2) <= Time(M, i)
        <5>1. i \div 2 \in 1..n /\ i \in 1..n
          BY <1>0, Half
        <5> QED BY <1>0, <3>2, <4>2, <5>1, Zenon DEF Ordered
      <4> QED BY <2>4, <4>3, Zenon DEF Ordered
    <3> QED BY <3>1, <3>2, Zenon DEF DownOK
  <2> QED BY <1>1, <1>m, <2>2, <2>3, <2>4, <2>7, <2>8 DEF DownOK
<1>2. CASE ~(2 * at <= n /\ ~(Time(L, at) < Time(L, m)))
  <2>1. Sink(s) = s
    BY <1>0, <1>2, Zenon DEF Sink
  <2>2. ASSUME NEW i \in 2..n PROVE Time(L, i \div 2) <= Time(L, i)
    <3>1. CASE i \div 2 # at
      BY <1>0, <3>1, Zenon DEF DownOrdered
    <3>2. CASE i \div 2 = at
      <4>1. 2 * at <= n /\ i \in 1..n
        BY <1>0, <3>2, Half
      <4>2. Time(L, at) < Time(L, m) /\ Time(L, m) <= Time(L, i)
        BY <1>2, <1>m, <3>2, <4>1, Zenon
      <4>3. Time(L, at) \in Int /\ Time(L, m) \in Int /\ Time(L, i) \in Int
        BY <1>0, <1>m, <1>t, <4>1, Zenon
      <4>4. Time(L, at) <= Time(L, i)
        BY <4>2, <4>3
      <4> QED BY <3>2, <4>4, Zenon
    <3> QED BY <3>1, <3>2, Zenon
  <2>3. Ordered(L)
    BY <1>0, <2>2, Zenon DEF Ordered
  <2> QED BY <1>0, <2>1, <2>3, Zenon DEF DownOK
<1> QED BY <1>1, <1>2, Zenon

\* down_heap restores the order, and moves no timer's expiry.
LEMMA DownHeap ==
  ASSUME NEW K, HeapOK(K), NEW i \in 1..Len(K.heap), DownOrdered(K, i)
  PROVE  HeapOK(down_heap(K, i)) /\ Ordered(down_heap(K, i)) /\ Same(K, down_heap(K, i))
<1> DEFINE n == Len(K.heap)
           b == [H |-> K, at |-> i]
<1>0. n \in Nat
  BY HeapFacts, Zenon
<1>1. PICK g : SinkTurns(g, b, n) /\ down_heap(K, i) = g[n].H
  BY <1>0, DownTurns, Zenon
<1>2. g[0] = b /\ \A k \in 0..n : k < n => g[k + 1] = Sink(g[k])
  BY <1>0, <1>1 DEF SinkTurns
<1> DEFINE S == {k \in 0..n : DownOK(K, g[k], k)}
<1>3. 0 \in S
  <2>1. DownOK(K, b, 0)
    BY <1>0 DEF DownOK, Same
  <2> QED BY <1>0, <1>2, <2>1
<1>4. ASSUME NEW k \in 0..n, k < n, k \in S PROVE k + 1 \in S
  <2>1. DownOK(K, g[k], k) /\ k \in Nat
    BY <1>4
  <2>2. DownOK(K, Sink(g[k]), k + 1)
    BY <1>4, <2>1, SinkKeeps, Zenon
  <2> QED BY <1>0, <1>2, <1>4, <2>2
<1>5. n \in S
  <2> HIDE DEF S
  <2>1. \A k \in 0..n : k \in S
    BY <1>0, <1>3, <1>4, UpTo, Zenon
  <2> QED BY <1>0, <2>1
<1>6. DownOK(K, g[n], n)
  BY <1>5, Zenon
<1>7. Ordered(g[n].H)
  BY <1>0, <1>6 DEF DownOK
<1> QED BY <1>1, <1>6, <1>7, Zenon DEF DownOK

-----------------------------------------------------------------------------
(* The operations of timer_service on the heap.                            *)

\* The heap L has expiry d for t, and for the other timers what K has.
Changed(K, L, t, d) ==
  \A u \in Timers : DueOf(L, u) = IF u = t THEN d ELSE DueOf(K, u)

\* insert_waiter's push adds t with its expiry.
LEMMA PushKeeps ==
  ASSUME NEW K, HeapOK(K), Ordered(K), NEW t \in Timers, NEW e \in Times, ~InHeap(K, t)
  PROVE  /\ HeapOK(PushTimer(K, t, e)) /\ Ordered(PushTimer(K, t, e))
         /\ Changed(K, PushTimer(K, t, e), t, e)
<1> DEFINE n == Len(K.heap)
           h == K.heap
           x == K.index
           v == [time |-> e, timer |-> t]
           g == Append(h, v)
           y == [x EXCEPT ![t] = n + 1]
           L == [heap |-> g, index |-> y]
<1>1. /\ n \in Nat /\ h \in Seq(Entry) /\ x \in [Timers -> Nat] /\ x[t] = 0
      /\ \A k \in 1..n : Time(K, k) \in Int /\ x[h[k].timer] = k /\ h[k].timer \in Timers
  BY HeapFacts, Zenon
<1>b. \A u \in Timers : x[u] # 0 => x[u] \in 1..n /\ h[x[u]].timer = u
  BY Zenon DEF HeapOK
<1>2. v \in Entry /\ v.timer = t /\ v.time = e
  BY Zenon DEF Entry
<1>3. /\ g \in Seq(Entry) /\ Len(g) = n + 1 /\ g[n + 1] = v
      /\ \A k \in 1..n : g[k] = h[k]
  <2> HIDE DEF v
  <2> QED BY <1>1, <1>2
<1>4. /\ y \in [Timers -> Nat] /\ y[t] = n + 1
      /\ \A u \in Timers : u # t => y[u] = x[u]
  BY <1>1
<1>l. L.heap = g /\ L.index = y /\ PushTimer(K, t, e) = up_heap(L, n + 1)
  BY Zenon DEF PushTimer
<1>r. L \in [heap : Seq(Entry), index : [Timers -> Nat]]
  <2> HIDE DEF g, y
  <2> QED BY <1>3, <1>4, Zenon
<1> HIDE DEF L, g, y, h, x, v, n
<1>5. ASSUME NEW k \in 1..(n + 1) PROVE y[g[k].timer] = k
  <2>1. CASE k = n + 1
    BY <1>2, <1>3, <1>4, <2>1, Zenon
  <2>2. CASE k \in 1..n
    <3>1. h[k].timer # t
      BY <1>1, <2>2
    <3> QED BY <1>1, <1>3, <1>4, <2>2, <3>1
  <2> QED BY <1>1, <2>1, <2>2
<1>6. ASSUME NEW u \in Timers, y[u] # 0
      PROVE  y[u] \in 1..(n + 1) /\ g[y[u]].timer = u
  <2>1. CASE u = t
    BY <1>1, <1>2, <1>3, <1>4, <2>1
  <2>2. CASE u # t
    <3>1. y[u] = x[u] /\ x[u] \in 1..n /\ h[x[u]].timer = u
      BY <1>4, <1>6, <1>b, <2>2, Zenon
    <3> QED BY <1>1, <1>3, <3>1
  <2> QED BY <2>1, <2>2, Zenon
<1>7. HeapOK(L)
  BY <1>3, <1>5, <1>6, <1>l, <1>r, Zenon DEF HeapOK
<1>8. /\ \A k \in 1..n : Time(L, k) = Time(K, k)
      /\ Time(L, n + 1) = e /\ Len(L.heap) = n + 1
  BY <1>2, <1>3, <1>l, Zenon DEF Time, h
<1>9. UpOrdered(L, n + 1)
  <2>1. ASSUME NEW k \in 2..(n + 1), k # n + 1 PROVE Time(L, k \div 2) <= Time(L, k)
    <3>1. k \in 2..n /\ k \in 1..n /\ k \div 2 \in 1..n
      BY <1>1, <2>1, Half
    <3>2. Time(K, k \div 2) <= Time(K, k)
      BY <3>1, Zenon DEF Ordered, n, h
    <3> QED BY <1>8, <3>1, <3>2, Zenon
  <2>2. ASSUME NEW k \in 2..(n + 1) PROVE k \div 2 # n + 1
    BY <1>1, Half
  <2> QED BY <1>8, <2>1, <2>2, Zenon DEF UpOrdered
<1>10. n + 1 \in 1..Len(L.heap)
  BY <1>1, <1>8
<1>11. Changed(K, L, t, e)
  <2> SUFFICES ASSUME NEW u \in Timers
               PROVE  DueOf(L, u) = IF u = t THEN e ELSE DueOf(K, u)
    BY Zenon DEF Changed
  <2>0. (InHeap(L, u) <=> y[u] # 0) /\ (InHeap(K, u) <=> x[u] # 0)
    BY <1>7, <1>l, HeapFacts, Zenon DEF x
  <2>1. CASE u = t
    BY <1>1, <1>4, <1>8, <1>l, <2>0, <2>1 DEF DueOf
  <2>2. CASE u # t
    BY <1>b, <1>4, <1>8, <1>l, <2>0, <2>2, Zenon DEF DueOf, x
  <2> QED BY <2>1, <2>2, Zenon
<1> QED BY <1>7, <1>9, <1>10, <1>11, <1>l, UpHeap, Zenon DEF Changed, Same

\* update_timer gives t its new expiry.
LEMMA RekeyKeeps ==
  ASSUME NEW K, HeapOK(K), Ordered(K), NEW t \in Timers, NEW e \in Times, InHeap(K, t)
  PROVE  /\ HeapOK(RekeyTimer(K, t, e)) /\ Ordered(RekeyTimer(K, t, e))
         /\ Changed(K, RekeyTimer(K, t, e), t, e)
<1> DEFINE n == Len(K.heap)
           h == K.heap
           x == K.index
           i == x[t]
           v == [h[i] EXCEPT !.time = e]
           g == [h EXCEPT ![i] = v]
           L == [K EXCEPT !.heap[i].time = e]
<1>1. /\ n \in Nat /\ h \in [1..n -> Entry] /\ x \in [Timers -> Nat] /\ i \in 1..n
      /\ \A k \in 1..n : Time(K, k) \in Int /\ x[h[k].timer] = k /\ h[k].timer \in Timers
  BY HeapFacts DEF InHeap
<1>b. \A u \in Timers : x[u] # 0 => x[u] \in 1..n /\ h[x[u]].timer = u
  BY Zenon DEF HeapOK
<1>2. v \in Entry /\ v.timer = h[i].timer /\ v.time = e
  <2>1. h[i] \in Entry
    BY <1>1, Zenon
  <2> HIDE DEF h, i
  <2> QED BY <2>1, Zenon DEF Entry
<1>l. /\ L.heap = g /\ L.index = x
      /\ L \in [heap : Seq(Entry), index : [Timers -> Nat]]
  <2>1. K \in [heap : Seq(Entry), index : [Timers -> Nat]]
    BY Zenon DEF HeapOK
  <2>2. L = [K EXCEPT !.heap = g]
    BY <2>1, Zenon
  <2>3. g \in Seq(Entry)
    <3> HIDE DEF v, i, h, n, x
    <3>1. g \in [1..n -> Entry]
      BY <1>1, <1>2, Zenon
    <3> QED BY <1>1, <3>1
  <2> HIDE DEF g, L
  <2> QED BY <2>1, <2>2, <2>3, Zenon
<1>u. RekeyTimer(K, t, e) = IF e < Time(K, i) THEN up_heap(L, i) ELSE down_heap(L, i)
  BY Zenon DEF RekeyTimer
<1> HIDE DEF L, v, i, h, n, x
<1>3. /\ g \in [1..n -> Entry] /\ Len(g) = n /\ g[i] = v
      /\ \A k \in 1..n : k # i => g[k] = h[k]
  BY <1>1, <1>2
<1> HIDE DEF g
<1>4. \A k \in 1..n : g[k].timer = h[k].timer
  BY <1>2, <1>3, Zenon
<1>5. HeapOK(L)
  BY <1>1, <1>b, <1>3, <1>4, <1>l, ZenonT(60) DEF HeapOK
<1>6. /\ \A k \in 1..n : k # i => Time(L, k) = Time(K, k)
      /\ Time(L, i) = e /\ Len(L.heap) = n /\ e \in Int
  BY <1>2, <1>3, <1>l, TimesAssumption, Zenon DEF Time, h
<1>o. \A k \in 2..n : Time(K, k \div 2) <= Time(K, k)
  BY Zenon DEF Ordered, n, h
<1>7. \A k \in 2..n : k \in 1..n /\ k \div 2 \in 1..n /\ k \div 2 # k /\ k \div 2 < k
  BY <1>1, Half
<1>g. ASSUME i > 1, NEW k \in 2..n, k \div 2 = i PROVE Time(L, i \div 2) <= Time(L, k)
  <2>1. i \in 2..n /\ i \div 2 \in 1..n /\ i \div 2 # i /\ k # i /\ k \in 1..n
    BY <1>1, <1>7, <1>g
  <2>2. Time(K, i \div 2) <= Time(K, i) /\ Time(K, i) <= Time(K, k)
    BY <1>g, <1>o, <2>1, Zenon
  <2>3. Time(K, i \div 2) \in Int /\ Time(K, i) \in Int /\ Time(K, k) \in Int
    BY <1>1, <2>1, Zenon
  <2>4. Time(L, i \div 2) = Time(K, i \div 2) /\ Time(L, k) = Time(K, k)
    BY <1>6, <2>1, Zenon
  <2> QED BY <2>2, <2>3, <2>4
<1>8. ASSUME e < Time(K, i) PROVE UpOrdered(L, i)
  <2>1. ASSUME NEW k \in 2..n, k # i PROVE Time(L, k \div 2) <= Time(L, k)
    <3>1. Time(K, k \div 2) <= Time(K, k) /\ Time(L, k) = Time(K, k)
      BY <1>o, <1>6, <1>7, <2>1, Zenon
    <3>2. CASE k \div 2 = i
      BY <1>1, <1>6, <1>7, <1>8, <3>1, <3>2
    <3>3. CASE k \div 2 # i
      BY <1>6, <1>7, <3>1, <3>3, Zenon
    <3> QED BY <3>2, <3>3, Zenon
  <2> QED BY <1>6, <1>g, <2>1, Zenon DEF UpOrdered
<1>9. ASSUME ~(e < Time(K, i)) PROVE DownOrdered(L, i)
  <2>1. ASSUME NEW k \in 2..n, k \div 2 # i PROVE Time(L, k \div 2) <= Time(L, k)
    <3>1. Time(K, k \div 2) <= Time(K, k) /\ Time(L, k \div 2) = Time(K, k \div 2)
      BY <1>o, <1>6, <1>7, <2>1, Zenon
    <3>2. CASE k = i
      BY <1>1, <1>6, <1>7, <1>9, <3>1, <3>2
    <3>3. CASE k # i
      BY <1>6, <1>7, <3>1, <3>3, Zenon
    <3> QED BY <3>2, <3>3, Zenon
  <2> QED BY <1>6, <1>g, <2>1, Zenon DEF DownOrdered
<1>10. Changed(K, L, t, e)
  <2> SUFFICES ASSUME NEW u \in Timers
               PROVE  DueOf(L, u) = IF u = t THEN e ELSE DueOf(K, u)
    BY Zenon DEF Changed
  <2>0. (InHeap(L, u) <=> x[u] # 0) /\ (InHeap(K, u) <=> x[u] # 0)
    BY <1>5, <1>l, HeapFacts DEF x
  <2>1. CASE u = t
    BY <1>1, <1>6, <1>l, <2>0, <2>1, Zenon DEF DueOf, i
  <2>2. CASE u # t
    <3>1. x[u] # 0 => x[u] \in 1..n /\ x[u] # i
      BY <1>1, <1>b, <2>2 DEF i
    <3> QED BY <1>6, <1>l, <2>0, <2>2, <3>1, Zenon DEF DueOf, x
  <2> QED BY <2>1, <2>2, Zenon
<1>11. i \in 1..Len(L.heap)
  BY <1>1, <1>6, Zenon
<1>12. CASE e < Time(K, i)
  BY <1>5, <1>8, <1>10, <1>11, <1>12, <1>u, UpHeap, Zenon DEF Changed, Same
<1>13. CASE ~(e < Time(K, i))
  BY <1>5, <1>9, <1>10, <1>11, <1>13, <1>u, DownHeap, Zenon DEF Changed, Same
<1> QED BY <1>12, <1>13, Zenon

\* Dropping the last entry takes its timer out and moves no other.
LEMMA PopBackKeeps ==
  ASSUME NEW K, HeapOK(K), NEW t \in Timers, Len(K.heap) > 0,
         K.heap[Len(K.heap)].timer = t
  PROVE  /\ HeapOK(PopBack(K, t)) /\ Len(PopBack(K, t).heap) = Len(K.heap) - 1
         /\ \A k \in 1..(Len(K.heap) - 1) : Time(PopBack(K, t), k) = Time(K, k)
         /\ Changed(K, PopBack(K, t), t, None)
<1> DEFINE n == Len(K.heap)
           h == K.heap
           x == K.index
           g == SubSeq(h, 1, n - 1)
           y == [x EXCEPT ![t] = npos]
           L == PopBack(K, t)
<1>1. /\ n \in Nat /\ n > 0 /\ h \in Seq(Entry) /\ x \in [Timers -> Nat] /\ h[n].timer = t
      /\ \A k \in 1..n : x[h[k].timer] = k /\ h[k].timer \in Timers
  BY HeapFacts, Zenon
<1>b. \A u \in Timers : x[u] # 0 => x[u] \in 1..n /\ h[x[u]].timer = u
  BY Zenon DEF HeapOK
<1>l. L = [heap |-> g, index |-> y] /\ L.heap = g /\ L.index = y
  BY Zenon DEF PopBack
<1>m. n = Len(h)
  BY Zenon
<1> HIDE DEF n, h, x, L
<1>3. g \in Seq(Entry) /\ Len(g) = n - 1 /\ \A k \in 1..(n - 1) : g[k] = h[k]
  BY <1>1, <1>m
<1>4. /\ y \in [Timers -> Nat] /\ y[t] = 0 /\ \A u \in Timers : u # t => y[u] = x[u]
  BY <1>1, Zenon DEF npos
<1>r. L \in [heap : Seq(Entry), index : [Timers -> Nat]]
  <2> HIDE DEF g, y
  <2> QED BY <1>3, <1>4, <1>l, Zenon
<1> HIDE DEF g, y
<1>5. ASSUME NEW k \in 1..(n - 1) PROVE y[g[k].timer] = k
  <2>1. k \in 1..n /\ h[k].timer # t
    BY <1>1
  <2> QED BY <1>1, <1>3, <1>4, <2>1
<1>6. ASSUME NEW u \in Timers, y[u] # 0
      PROVE  y[u] = x[u] /\ x[u] \in 1..(n - 1) /\ g[y[u]].timer = u
  <2>1. u # t /\ y[u] = x[u] /\ x[u] \in 1..n /\ h[x[u]].timer = u
    BY <1>4, <1>6, <1>b, Zenon
  <2>2. x[u] # n
    BY <1>1, <2>1, Zenon
  <2> QED BY <1>1, <1>3, <2>1, <2>2
<1>7. HeapOK(L)
  BY <1>3, <1>5, <1>6, <1>l, <1>r, Zenon DEF HeapOK
<1>8. \A k \in 1..(n - 1) : Time(L, k) = Time(K, k)
  BY <1>3, <1>l, Zenon DEF Time, h
<1>9. Changed(K, L, t, None)
  <2> SUFFICES ASSUME NEW u \in Timers
               PROVE  DueOf(L, u) = IF u = t THEN None ELSE DueOf(K, u)
    BY Zenon DEF Changed
  <2>0. (InHeap(L, u) <=> y[u] # 0) /\ (InHeap(K, u) <=> x[u] # 0)
    BY <1>7, <1>l, HeapFacts, Zenon DEF x
  <2>1. CASE y[u] = 0
    BY <1>4, <2>0, <2>1, Zenon DEF DueOf
  <2>2. CASE y[u] # 0
    <3>1. u # t /\ y[u] = x[u] /\ x[u] \in 1..(n - 1)
      BY <1>4, <1>6, <2>2, Zenon
    <3> QED BY <1>8, <1>l, <2>0, <2>2, <3>1, Zenon DEF DueOf, x
  <2> QED BY <2>1, <2>2, Zenon
<1> QED BY <1>3, <1>7, <1>8, <1>9, <1>l, Zenon DEF n, h, L

\* The heap with the hole of t filled by the last entry: it may climb or sink,
\* and the guard of remove_timer_impl tells which.
LEMMA HoleFilled ==
  ASSUME NEW K, HeapOK(K), Ordered(K), NEW i \in 1..Len(K.heap), i < Len(K.heap),
         NEW L, HeapOK(L), Len(L.heap) = Len(K.heap) - 1,
         \A k \in 1..(Len(K.heap) - 1) : k # i => Time(L, k) = Time(K, k)
  PROVE  IF i > 1 /\ Time(L, i) < Time(L, i \div 2) THEN UpOrdered(L, i) ELSE DownOrdered(L, i)
<1> DEFINE n == Len(K.heap) - 1
<1>0. /\ n \in Nat /\ i \in 1..n /\ Len(L.heap) = n
      /\ \A k \in 1..n : Time(K, k) \in Int /\ Time(L, k) \in Int
  <2>1. Len(K.heap) \in Nat /\ \A k \in 1..Len(K.heap) : Time(K, k) \in Int
    BY HeapFacts, Zenon
  <2>2. n \in Nat /\ i \in 1..n /\ Len(L.heap) = n
    BY <2>1
  <2>3. \A k \in 1..Len(L.heap) : Time(L, k) \in Int
    BY HeapFacts, Zenon
  <2>4. \A k \in 1..n : k \in 1..Len(K.heap) /\ k \in 1..Len(L.heap)
    BY <2>1, <2>2
  <2> QED BY <2>1, <2>2, <2>3, <2>4, Zenon
<1>1. \A k \in 1..n : k # i => Time(L, k) = Time(K, k)
  BY Zenon
<1>2. \A k \in 2..n : Time(K, k \div 2) <= Time(K, k)
  BY <1>0 DEF Ordered
<1> HIDE DEF n
<1>3. \A k \in 2..n : k \in 1..n /\ k \div 2 \in 1..n /\ k \div 2 # k /\ k \div 2 < k
  BY <1>0, Half
<1>4. ASSUME i > 1
      PROVE  /\ Time(L, i \div 2) = Time(K, i \div 2) /\ Time(K, i \div 2) <= Time(K, i)
             /\ i \div 2 \in 1..n /\ i \in 2..n
  BY <1>0, <1>1, <1>2, <1>3, <1>4
<1>5. ASSUME i > 1, NEW k \in 2..n, k \div 2 = i PROVE Time(L, i \div 2) <= Time(L, k)
  <2>1. Time(K, i) <= Time(K, k) /\ Time(L, k) = Time(K, k) /\ k \in 1..n
    BY <1>1, <1>2, <1>3, <1>5, Zenon
  <2>2. Time(K, i \div 2) \in Int /\ Time(K, i) \in Int /\ Time(K, k) \in Int
    BY <1>0, <1>4, <1>5, <2>1, Zenon
  <2> QED BY <1>4, <1>5, <2>1, <2>2
<1>6. CASE i > 1 /\ Time(L, i) < Time(L, i \div 2)
  <2>1. ASSUME NEW k \in 2..n, k # i PROVE Time(L, k \div 2) <= Time(L, k)
    <3>1. CASE k \div 2 = i
      <4>1. Time(L, i \div 2) <= Time(L, k)
        BY <1>5, <1>6, <3>1, Zenon
      <4>2. Time(L, i) \in Int /\ Time(L, i \div 2) \in Int /\ Time(L, k) \in Int
        BY <1>0, <1>3, <1>4, <1>6, Zenon
      <4>3. Time(L, i) <= Time(L, k)
        BY <1>6, <4>1, <4>2
      <4> QED BY <3>1, <4>3, Zenon
    <3>2. CASE k \div 2 # i
      BY <1>1, <1>2, <1>3, <2>1, <3>2, Zenon
    <3> QED BY <3>1, <3>2, Zenon
  <2> QED BY <1>0, <1>5, <1>6, <2>1, Zenon DEF UpOrdered
<1>7. CASE ~(i > 1 /\ Time(L, i) < Time(L, i \div 2))
  <2>1. ASSUME NEW k \in 2..n, k \div 2 # i PROVE Time(L, k \div 2) <= Time(L, k)
    <3>1. CASE k = i
      <4>1. i > 1 /\ Time(L, i) \in Int /\ Time(L, i \div 2) \in Int
        BY <1>0, <1>3, <3>1
      <4>2. Time(L, i \div 2) <= Time(L, i)
        BY <1>7, <4>1
      <4> QED BY <3>1, <4>2, Zenon
    <3>2. CASE k # i
      BY <1>1, <1>2, <1>3, <2>1, <3>2, Zenon
    <3> QED BY <3>1, <3>2, Zenon
  <2> QED BY <1>0, <1>5, <1>7, <2>1, Zenon DEF DownOrdered
<1> QED BY <1>6, <1>7, Zenon

\* remove_timer_impl takes t out, wherever it is in the heap.
LEMMA RemoveKeeps ==
  ASSUME NEW K, HeapOK(K), Ordered(K), NEW t \in Timers, InHeap(K, t)
  PROVE  /\ HeapOK(remove_timer_impl(K, t)) /\ Ordered(remove_timer_impl(K, t))
         /\ Changed(K, remove_timer_impl(K, t), t, None)
<1> DEFINE n == Len(K.heap)
           i == K.index[t]
           M == swap_heap(K, i, n)
           L == PopBack(M, t)
<1>1. n \in Nat /\ i \in 1..n /\ n > 0 /\ n \in 1..n /\ K.heap[i].timer = t
  BY HeapFacts DEF InHeap, HeapOK
<1>2. CASE i = n
  <2>0. K.index[t] = Len(K.heap) /\ ~(K.index[t] < Len(K.heap))
    BY <1>1, <1>2
  <2>1. remove_timer_impl(K, t) = PopBack(K, t)
    <3> HIDE DEF i, n, M, L
    <3> QED BY <2>0, Zenon DEF remove_timer_impl
  <2> DEFINE P == PopBack(K, t)
  <2>2. /\ HeapOK(P) /\ Len(P.heap) = n - 1 /\ Changed(K, P, t, None)
        /\ \A k \in 1..(n - 1) : Time(P, k) = Time(K, k)
    BY <1>1, <1>2, PopBackKeeps, Zenon
  <2>3. ASSUME NEW k \in 2..(n - 1) PROVE Time(P, k \div 2) <= Time(P, k)
    <3>1. k \in 2..n /\ k \in 1..(n - 1) /\ k \div 2 \in 1..(n - 1)
      BY <1>1, Half
    <3>2. Time(K, k \div 2) <= Time(K, k)
      BY <3>1, Zenon DEF Ordered
    <3> QED BY <2>2, <3>1, <3>2, Zenon
  <2>4. Ordered(P)
    BY <2>2, <2>3, Zenon DEF Ordered
  <2> QED BY <2>1, <2>2, <2>4, Zenon
<1>3. CASE i # n
  <2>1. /\ HeapOK(M) /\ Same(K, M) /\ M.heap[n] = K.heap[i] /\ Len(M.heap) = n
        /\ \A k \in 1..n : k # i /\ k # n => Time(M, k) = Time(K, k)
    BY <1>1, <1>3, SwapKeeps, ZenonT(60) DEF Same
  <2>2. M.heap[n].timer = t
    BY <1>1, <2>1, Zenon
  <2>3. remove_timer_impl(K, t) = IF i > 1 /\ Time(L, i) < Time(L, i \div 2)
                                  THEN up_heap(L, i) ELSE down_heap(L, i)
    BY <1>1, <1>3 DEF remove_timer_impl
  <2> HIDE DEF M
  <2>4. /\ HeapOK(L) /\ Len(L.heap) = n - 1 /\ Changed(M, L, t, None)
        /\ \A k \in 1..(n - 1) : Time(L, k) = Time(M, k)
    BY <1>1, <2>1, <2>2, PopBackKeeps, Zenon
  <2> HIDE DEF L
  <2>5. Changed(K, L, t, None)
    BY <2>1, <2>4, Zenon DEF Changed, Same
  <2>6. i < n /\ i \in 1..Len(L.heap) /\ \A k \in 1..(n - 1) : k # i => Time(L, k) = Time(K, k)
    BY <1>1, <1>3, <2>1, <2>4
  <2>7. IF i > 1 /\ Time(L, i) < Time(L, i \div 2) THEN UpOrdered(L, i) ELSE DownOrdered(L, i)
    BY <1>1, <2>4, <2>6, HoleFilled, Zenon
  <2>8. CASE i > 1 /\ Time(L, i) < Time(L, i \div 2)
    BY <2>3, <2>4, <2>5, <2>6, <2>7, <2>8, UpHeap DEF Changed, Same
  <2>9. CASE ~(i > 1 /\ Time(L, i) < Time(L, i \div 2))
    BY <2>3, <2>4, <2>5, <2>6, <2>7, <2>9, DownHeap, Zenon DEF Changed, Same
  <2> QED BY <2>8, <2>9, Zenon
<1> QED BY <1>2, <1>3, Zenon

-----------------------------------------------------------------------------
(* The theorems.                                                           *)

\* The inductive invariant: an exact index, and a heap in order.
HeapInv == HeapOK(H) /\ Ordered(H)

\* A step changes the expiry of one timer and keeps the invariant.
LEMMA HeapStep ==
  ASSUME HeapInv, Next
  PROVE  /\ HeapInv'
         /\ \E t \in Timers :
              \/ \E e \in Times : ~InHeap(H, t) /\ Changed(H, H', t, e)
              \/ \E e \in Times : InHeap(H, t) /\ Changed(H, H', t, e)
              \/ InHeap(H, t) /\ Changed(H, H', t, None)
<1> USE DEF HeapInv
<1>1. ASSUME NEW t \in Timers, NEW e \in Times, Insert(t, e)
      PROVE  HeapInv' /\ ~InHeap(H, t) /\ Changed(H, H', t, e)
  BY <1>1, PushKeeps, Zenon DEF Insert
<1>2. ASSUME NEW t \in Timers, NEW e \in Times, Update(t, e)
      PROVE  HeapInv' /\ InHeap(H, t) /\ Changed(H, H', t, e)
  BY <1>2, RekeyKeeps, Zenon DEF Update
<1>3. ASSUME NEW t \in Timers, Erase(t)
      PROVE  HeapInv' /\ InHeap(H, t) /\ Changed(H, H', t, None)
  BY <1>3, RemoveKeeps, Zenon DEF Erase
<1>4. ASSUME PopNearest
      PROVE  HeapInv' /\ \E t \in Timers : InHeap(H, t) /\ Changed(H, H', t, None)
  <2> DEFINE t == H.heap[1].timer
  <2>1. Len(H.heap) \in Nat /\ Len(H.heap) > 0
    <3>1. H.heap \in Seq(Entry) /\ H.heap # << >>
      BY <1>4, Zenon DEF PopNearest, HeapOK
    <3> QED BY <3>1
  <2>2. t \in Timers /\ InHeap(H, t)
    BY <2>1, HeapFacts DEF InHeap
  <2>3. H' = remove_timer_impl(H, t)
    BY <1>4, Zenon DEF PopNearest
  <2> HIDE DEF t
  <2> QED BY <2>2, <2>3, RemoveKeeps, Zenon
<1> QED BY <1>1, <1>2, <1>3, <1>4, Zenon DEF Next

\* The empty heap is in order.
LEMMA HeapInvInit == ASSUME Init PROVE HeapInv
<1>1. H.heap = << >> /\ H.index = [t \in Timers |-> 0]
      /\ H \in [heap : Seq(Entry), index : [Timers -> Nat]] /\ Len(H.heap) = 0
  BY DEF Init, EmptyHeap, npos
<1>2. HeapOK(H)
  BY <1>1 DEF HeapOK
<1>3. Ordered(H)
  BY <1>1 DEF Ordered
<1> QED BY <1>2, <1>3, Zenon DEF HeapInv

\* In a heap in order the front is the earliest: the first entry earlier than
\* the front would be earlier than its parent.
LEMMA FrontFirst == ASSUME HeapInv PROVE HeapSound
<1> DEFINE n == Len(H.heap)
<1>0. n \in Nat /\ \A i \in 1..n : Time(H, i) \in Int
  BY HeapFacts, Zenon DEF HeapInv
<1>1. FrontIsEarliest
  <2> DEFINE T == {i \in 1..n : ~(Time(H, 1) <= Time(H, i))}
  <2> SUFFICES ASSUME T # {} PROVE FALSE
    BY Zenon DEF FrontIsEarliest
  <2>1. T \subseteq Nat
    BY <1>0
  <2>2. PICK x \in T : \A y \in T : x <= y
    <3> HIDE DEF T
    <3> QED BY <2>1, LeastElement, Zenon
  <2>3. x \in 2..n /\ ~(Time(H, 1) <= Time(H, x)) /\ x \in Nat
    BY <1>0, <2>2
  <2>4. x \div 2 \in 1..n /\ x \div 2 < x
    BY <1>0, <2>3, Half
  <2>5. x \div 2 \notin T
    BY <2>1, <2>2, <2>3, <2>4
  <2>6. Time(H, 1) <= Time(H, x \div 2) /\ Time(H, x \div 2) <= Time(H, x)
    BY <2>3, <2>4, <2>5, Zenon DEF HeapInv, Ordered
  <2> QED BY <1>0, <2>3, <2>4, <2>6
<1>2. IndexExact
  BY HeapFacts, Zenon DEF HeapInv, HeapOK, IndexExact, npos
<1> QED BY <1>1, <1>2, Zenon DEF HeapSound

\* After any sequence of push, update_timer, remove_timer_impl and pops, for any
\* number of timers, every heap_index_ is exact and the front is the earliest.
THEOREM HeapIsSound == Spec => []HeapSound
<1>1. Init => HeapInv
  BY HeapInvInit, Zenon
<1>2. HeapInv /\ [Next]_H => HeapInv'
  <2>1. HeapInv /\ Next => HeapInv'
    BY HeapStep, Zenon
  <2>2. HeapInv /\ UNCHANGED H => HeapInv'
    BY Zenon DEF HeapInv
  <2> QED BY <2>1, <2>2, Zenon
<1>3. HeapInv => HeapSound
  BY FrontFirst, Zenon
<1> QED BY <1>1, <1>2, <1>3, PTL DEF Spec

\* The heap of timer_service implements the map from timers to expiries of
\* TimerQueue: every operation changes one timer's expiry and no other.
THEOREM HeapImplementsQueue == Spec => ImplementsQueue
<1> DEFINE due == [t \in Timers |-> IF InHeap(H, t) THEN Time(H, H.index[t]) ELSE None]
<1>1. Init => HeapInv
  BY HeapInvInit, Zenon
<1>2. HeapInv /\ [Next]_H => HeapInv'
  <2>1. HeapInv /\ Next => HeapInv'
    BY HeapStep, Zenon
  <2>2. HeapInv /\ UNCHANGED H => HeapInv'
    BY Zenon DEF HeapInv
  <2> QED BY <2>1, <2>2, Zenon
<1>3. Init => Queue!Init
  BY DEF Init, Queue!Init, EmptyHeap, InHeap, npos
<1>4. HeapInv /\ [Next]_H => [Queue!Next]_due
  <2> SUFFICES ASSUME HeapInv, [Next]_H PROVE Queue!Next \/ due' = due
    BY Zenon
  <2>1. CASE UNCHANGED H
    BY <2>1, Zenon DEF InHeap, Time
  <2>2. CASE Next
    <3>1. PICK t \in Timers :
              \/ \E e \in Times : ~InHeap(H, t) /\ Changed(H, H', t, e)
              \/ \E e \in Times : InHeap(H, t) /\ Changed(H, H', t, e)
              \/ InHeap(H, t) /\ Changed(H, H', t, None)
      BY <2>2, HeapStep, Zenon
    <3>2. due = [u \in Timers |-> DueOf(H, u)] /\ due' = [u \in Timers |-> DueOf(H', u)]
      BY Zenon DEF DueOf, InHeap, Time
    <3>3. ASSUME NEW d, Changed(H, H', t, d)
          PROVE  due'[t] = d /\ due' = [due EXCEPT ![t] = due'[t]]
      <4> HIDE DEF due
      <4> QED BY <3>2, <3>3, Zenon DEF Changed
    <3>4. InHeap(H, t) => due[t] \in Times
      BY HeapFacts, Zenon DEF InHeap, HeapInv
    <3>5. ~InHeap(H, t) => due[t] = None
      BY Zenon
    <3> QED BY <3>1, <3>3, <3>4, <3>5, TimesAssumption
            DEF Queue!Next, Queue!Insert, Queue!Update, Queue!Remove, Queue!Only
  <2> QED BY <2>1, <2>2, Zenon
<1> QED BY <1>1, <1>2, <1>3, <1>4, PTL DEF Spec, ImplementsQueue, Queue!Spec

-----------------------------------------------------------------------------
(* The invariant, for any number of threads.                               *)

Reading == {"parent", "fired", "inner"}
Resuming == Reading \cup {"unwind", "done"}

\* Which levels a phase is at, and what it has done to the callbacks.
PhaseOK ==
  /\ pc.at = "wait" => pc.level = 1
  /\ pc.at \in {"parent", "fired", "unwind"} => pc.level \in Levels
  /\ pc.at = "inner" => pc.level = Depth
  /\ pc.at = "suspend" => pc.level > 0 /\ inner = "none"
                          /\ \A i \in Levels : i < pc.level => cb[i] # "none"
  /\ pc.at \in {"wait"} \cup Reading => \A i \in Levels : cb[i] # "none"
  /\ pc.at = "unwind" => \A i \in Levels : i > pc.level => cb[i] = "none" /\ i \in src
  /\ pc.at = "done" => \A i \in Levels : cb[i] = "none" /\ i \in src

\* The operation has ended when await_resume begins, and has a result.
ResultOK ==
  /\ pc.at \in Resuming => inner \in {"ok", "error", "canceled"}
  /\ pc.at \in {"unwind", "done"} => result # "none"

\* A source is stopped because the caller stopped or because a deadline has
\* passed, up to the unwinding, which stops them all.
StopHasReason ==
  /\ \A i \in Levels : timer[i] = "due" => i \in expired
  /\ \A i \in Levels : cb[i] = "running" => i - 1 \in src
  /\ pc.at \notin {"unwind", "done"} /\ src # {} => 0 \in src \/ expired # {}
  /\ inner = "canceled" => Depth \in src /\ (0 \in src \/ expired # {})

ToInv == TimeoutTypeOK /\ PhaseOK /\ ResultOK /\ StopHasReason

\* The invariant holds before await_suspend.
LEMMA ToInvInit == TimeoutInit => ToInv
BY TimeoutAssumption
   DEF TimeoutAssumption, TimeoutInit, ToInv, TimeoutTypeOK, PhaseOK, ResultOK,
       StopHasReason, Levels, Reading, Resuming, Outcomes

PCs == [at : {"suspend", "wait", "parent", "fired", "inner", "unwind", "done"},
        level : 0..(Depth + 1)]

\* What a step of each kind does to the types.
LEMMA TypeKept ==
  ASSUME TimeoutTypeOK, threads' = threads,
         src' \subseteq 0..Depth, expired' \subseteq Levels,
         cb' \in [Levels -> {"none", "armed", "running"}],
         timer' \in [Levels -> {"none", "armed", "due", "done"}],
         inner' \in {"none", "pending", "ok", "error", "canceled"},
         pc' \in PCs, seen' \in [Levels -> [parent : BOOLEAN, fired : BOOLEAN]],
         result' \in Outcomes
  PROVE  TimeoutTypeOK'
BY Zenon DEF TimeoutTypeOK, PCs

\* Stopping one more source keeps the sources in range.
LEMMA SourceInRange ==
  ASSUME NEW S, S \subseteq 0..Depth, NEW i, i \in Levels \/ i = 0
  PROVE  S \cup {i} \subseteq 0..Depth
<1>1. i \in 0..Depth
  BY TimeoutAssumption DEF TimeoutAssumption, Levels
<1> QED BY <1>1, Zenon

\* Every step keeps the types.
LEMMA ToTypeStep ==
  TimeoutTypeOK /\ PhaseOK /\ ResultOK /\ [TimeoutNext]_toVars => TimeoutTypeOK'
<1> SUFFICES ASSUME TimeoutTypeOK, PhaseOK, ResultOK, [TimeoutNext]_toVars
             PROVE  TimeoutTypeOK'
  BY Zenon
<1>0. /\ Depth \in Nat \ {0} /\ threads \in BOOLEAN
      /\ src \subseteq 0..Depth /\ expired \subseteq Levels
      /\ cb \in [Levels -> {"none", "armed", "running"}]
      /\ timer \in [Levels -> {"none", "armed", "due", "done"}]
      /\ inner \in {"none", "pending", "ok", "error", "canceled"}
      /\ pc \in PCs /\ seen \in [Levels -> [parent : BOOLEAN, fired : BOOLEAN]]
      /\ result \in Outcomes
  BY TimeoutAssumption, Zenon DEF TimeoutAssumption, TimeoutTypeOK, PCs
<1>1. CASE SuspendLevel
  <2>1. pc' \in PCs
    BY <1>0, <1>1 DEF SuspendLevel, PCs, Levels
  <2>2. /\ src' \subseteq 0..Depth
        /\ cb' \in [Levels -> {"none", "armed", "running"}]
        /\ timer' \in [Levels -> {"none", "armed", "due", "done"}]
    BY <1>0, <1>1 DEF SuspendLevel, Levels
  <2> QED BY <1>0, <1>1, <2>1, <2>2, TypeKept, Zenon DEF SuspendLevel
<1>2. CASE StartInner
  BY <1>0, <1>2, TypeKept DEF StartInner, PCs
<1>3. CASE InnerEnds \/ ParentStops
  <2>1. inner' \in {"none", "pending", "ok", "error", "canceled"}
    BY <1>0, <1>3, Zenon DEF InnerEnds, ParentStops
  <2>2. src' \subseteq 0..Depth
    <3>1. src' = src \/ src' = src \cup {0}
      BY <1>3, Zenon DEF InnerEnds, ParentStops
    <3> QED BY <1>0, <3>1, SourceInRange, Zenon
  <2>3. /\ threads' = threads /\ cb' = cb /\ timer' = timer /\ expired' = expired
        /\ pc' = pc /\ seen' = seen /\ result' = result
    BY <1>3, Zenon DEF InnerEnds, ParentStops
  <2> QED BY <1>0, <2>1, <2>2, <2>3, TypeKept, Zenon
<1>4. ASSUME NEW i \in Levels, ForwardBegins(i) \/ ForwardEnds(i)
      PROVE  TimeoutTypeOK'
  <2>1. src' \subseteq 0..Depth /\ cb' \in [Levels -> {"none", "armed", "running"}]
    <3>1. src' = src \/ src' = src \cup {i}
      BY <1>4, Zenon DEF ForwardBegins, ForwardEnds
    <3>2. cb' = [cb EXCEPT ![i] = "running"] \/ cb' = [cb EXCEPT ![i] = "armed"]
      BY <1>4, Zenon DEF ForwardBegins, ForwardEnds
    <3>3. src' \subseteq 0..Depth
      BY <1>0, <3>1, SourceInRange, Zenon
    <3> QED BY <1>0, <3>2, <3>3, Zenon
  <2>2. /\ threads' = threads /\ timer' = timer /\ expired' = expired
        /\ inner' = inner /\ pc' = pc /\ seen' = seen /\ result' = result
    BY <1>4, Zenon DEF ForwardBegins, ForwardEnds
  <2> QED BY <1>0, <2>1, <2>2, TypeKept, Zenon
<1>5. ASSUME NEW i \in Levels, TimerDue(i) \/ TimerCanceled(i) \/ make_timeout(i)
      PROVE  TimeoutTypeOK'
  <2>1. /\ src' \subseteq 0..Depth /\ expired' \subseteq Levels
        /\ timer' \in [Levels -> {"none", "armed", "due", "done"}]
    <3>1. src' = src \/ src' = src \cup {i}
      BY <1>5, Zenon DEF TimerDue, TimerCanceled, make_timeout
    <3>2. expired' = expired \/ expired' = expired \cup {i}
      BY <1>5, Zenon DEF TimerDue, TimerCanceled, make_timeout
    <3>3. timer' = [timer EXCEPT ![i] = "due"] \/ timer' = [timer EXCEPT ![i] = "done"]
      BY <1>5, Zenon DEF TimerDue, TimerCanceled, make_timeout
    <3>4. src' \subseteq 0..Depth
      BY <1>0, <3>1, SourceInRange, Zenon
    <3>5. timer' \in [Levels -> {"none", "armed", "due", "done"}]
      BY <1>0, <3>3, Zenon
    <3> QED BY <1>0, <3>2, <3>4, <3>5, Zenon
  <2>2. threads' = threads /\ cb' = cb /\ inner' = inner /\ pc' = pc /\ seen' = seen /\ result' = result
    BY <1>5, Zenon DEF TimerDue, TimerCanceled, make_timeout
  <2> QED BY <1>0, <2>1, <2>2, TypeKept, Zenon
<1>6. CASE ResumeBegins
  BY <1>0, <1>6, TypeKept DEF ResumeBegins, PCs
<1>7. CASE ReadParent
  <2> DEFINE b == pc.level - 1 \in src
  <2>0. b \in BOOLEAN /\ seen' = [seen EXCEPT ![pc.level].parent = b]
    BY <1>7 DEF ReadParent
  <2> HIDE DEF b
  <2>1. seen' \in [Levels -> [parent : BOOLEAN, fired : BOOLEAN]]
    BY <1>0, <2>0
  <2>2. pc' \in PCs
    BY <1>0, <1>7, Zenon DEF ReadParent, PCs
  <2> QED BY <1>0, <1>7, <2>1, <2>2, TypeKept, Zenon DEF ReadParent
<1>8. CASE ReadFired
  <2> DEFINE b == pc.level \in src
  <2>0. b \in BOOLEAN /\ seen' = [seen EXCEPT ![pc.level].fired = b]
    BY <1>8 DEF ReadFired
  <2> HIDE DEF b
  <2>1. seen' \in [Levels -> [parent : BOOLEAN, fired : BOOLEAN]]
    BY <1>0, <2>0, Zenon
  <2>2. pc' \in PCs
    BY <1>0, <1>8 DEF ReadFired, PCs
  <2> QED BY <1>0, <1>8, <2>1, <2>2, TypeKept, Zenon DEF ReadFired
<1>9. CASE InnerResult
  <2>1. pc' \in PCs
    BY <1>0, <1>9, Zenon DEF InnerResult, PCs
  <2>2. result' \in Outcomes
    BY <1>9, Zenon DEF InnerResult, ResultOK, Resuming, Reading, Outcomes
  <2> QED BY <1>0, <1>9, <2>1, <2>2, TypeKept, Zenon DEF InnerResult
<1>10. CASE Unwind
  <2>1. pc.level \in Levels
    BY <1>10, Zenon DEF Unwind, PhaseOK
  <2>2. pc' \in PCs
    BY <1>0, <1>10, <2>1 DEF Unwind, PCs, Levels
  <2>3. src' \subseteq 0..Depth /\ cb' \in [Levels -> {"none", "armed", "running"}]
    BY <1>0, <1>10, <2>1 DEF Unwind, destroy_parent_cb, Levels
  <2>4. result' \in Outcomes
    BY <1>0, <1>10, Zenon DEF Unwind, Outcomes
  <2> QED BY <1>0, <1>10, <2>2, <2>3, <2>4, TypeKept, Zenon DEF Unwind
<1>11. CASE UNCHANGED toVars
  BY <1>0, <1>11, TypeKept, Zenon DEF toVars
<1> QED
  BY <1>1, <1>2, <1>3, <1>4, <1>5, <1>6, <1>7, <1>8, <1>9, <1>10, <1>11, Zenon
     DEF TimeoutNext

\* The steps that the awaiting coroutine does not take part in: they stop
\* sources, and never arm or drop a callback.
EnvStep ==
  \/ ParentStops
  \/ \E i \in Levels : \/ ForwardBegins(i) \/ ForwardEnds(i)
                       \/ TimerDue(i) \/ TimerCanceled(i) \/ make_timeout(i)

\* The callbacks, the timers, the operation and the caller keep the invariant.
LEMMA EnvKeeps ==
  ASSUME ToInv, EnvStep
  PROVE  /\ PhaseOK' /\ ResultOK' /\ StopHasReason'
         /\ UNCHANGED <<threads, inner, pc, seen, result>>
         /\ src \subseteq src' /\ expired \subseteq expired'
         /\ \A i \in Levels : cb'[i] = "none" <=> cb[i] = "none"
<1>0. TimeoutTypeOK /\ PhaseOK /\ ResultOK /\ StopHasReason
  BY Zenon DEF ToInv
<1>1. UNCHANGED <<threads, inner, pc, seen, result>>
  BY Zenon DEF EnvStep, ParentStops, ForwardBegins, ForwardEnds, TimerDue,
         TimerCanceled, make_timeout
<1>2. src \subseteq src' /\ expired \subseteq expired'
  BY Zenon DEF EnvStep, ParentStops, ForwardBegins, ForwardEnds, TimerDue,
         TimerCanceled, make_timeout
<1>3. \A i \in Levels : cb'[i] = "none" <=> cb[i] = "none"
  BY <1>0 DEF EnvStep, ParentStops, ForwardBegins, ForwardEnds, TimerDue,
         TimerCanceled, make_timeout, TimeoutTypeOK
<1>4. PhaseOK'
  BY <1>0, <1>1, <1>2, <1>3, Zenon DEF PhaseOK
<1>5. ResultOK'
  BY <1>0, <1>1, Zenon DEF ResultOK
<1>6. StopHasReason'
  <2>1. \A i \in Levels : timer'[i] = "due" => i \in expired'
    BY <1>0 DEF EnvStep, ParentStops, ForwardBegins, ForwardEnds, TimerDue,
         TimerCanceled, make_timeout, TimeoutTypeOK, StopHasReason
  <2>2. \A i \in Levels : cb'[i] = "running" => i - 1 \in src'
    BY <1>0, <1>2, Zenon
       DEF EnvStep, ParentStops, ForwardBegins, ForwardEnds, TimerDue,
           TimerCanceled, make_timeout, TimeoutTypeOK, StopHasReason
  <2>3. src' # src => 0 \in src' \/ expired # {} \/ src # {}
    BY <1>0, Zenon
       DEF EnvStep, ParentStops, ForwardBegins, ForwardEnds, TimerDue,
           TimerCanceled, make_timeout, StopHasReason
  <2> QED BY <1>0, <1>1, <1>2, <2>1, <2>2, <2>3, Zenon DEF StopHasReason
<1> QED BY <1>1, <1>2, <1>3, <1>4, <1>5, <1>6, Zenon

\* await_suspend and the operation.
LEMMA SuspendKeeps ==
  ASSUME ToInv, SuspendLevel \/ StartInner \/ InnerEnds
  PROVE  PhaseOK' /\ ResultOK' /\ StopHasReason'
<1>0. /\ TimeoutTypeOK /\ PhaseOK /\ ResultOK /\ StopHasReason
      /\ Depth \in Nat \ {0} /\ pc \in PCs
  BY TimeoutAssumption, Zenon DEF TimeoutAssumption, ToInv, TimeoutTypeOK, PCs
<1>1. CASE SuspendLevel
  <2>1. pc.at = "suspend" /\ pc'.at = "suspend" /\ pc'.level = pc.level + 1
    BY <1>0, <1>1, Zenon DEF SuspendLevel, PCs
  <2>2. PhaseOK'
    BY <1>0, <1>1, <2>1
       DEF PhaseOK, SuspendLevel, Reading, Levels, TimeoutTypeOK, PCs
  <2>3. ResultOK'
    BY <2>1, Zenon DEF ResultOK, Resuming, Reading
  <2>4. StopHasReason'
    BY <1>0, <1>1, <2>1, Zenon DEF StopHasReason, SuspendLevel, TimeoutTypeOK
  <2> QED BY <2>2, <2>3, <2>4, Zenon
<1>2. CASE StartInner
  <2>1. pc.at = "suspend" /\ pc.level = Depth + 1 /\ pc'.at = "wait" /\ pc'.level = 1
    BY <1>2, Zenon DEF StartInner
  <2>2. PhaseOK'
    BY <1>0, <1>2, <2>1 DEF PhaseOK, StartInner, Reading, Levels
  <2>3. ResultOK' /\ StopHasReason'
    BY <1>0, <1>2, <2>1, Zenon
       DEF ResultOK, StopHasReason, StartInner, Resuming, Reading
  <2> QED BY <2>2, <2>3, Zenon
<1>3. CASE InnerEnds
  <2>1. pc.at \notin Resuming /\ pc.at # "suspend"
    BY <1>0, <1>3, Zenon DEF ResultOK, PhaseOK, InnerEnds
  <2>2. UNCHANGED <<threads, src, cb, timer, expired, pc, seen, result>>
    BY <1>3, Zenon DEF InnerEnds
  <2>3. PhaseOK' /\ ResultOK'
    BY <1>0, <2>1, <2>2, Zenon DEF PhaseOK, ResultOK, Resuming, Reading
  <2>4. inner' = "canceled" => Depth \in src
    BY <1>3, Zenon DEF InnerEnds
  <2>5. StopHasReason'
    BY <1>0, <2>1, <2>2, <2>4, Zenon DEF StopHasReason, Resuming
  <2> QED BY <2>3, <2>5, Zenon
<1> QED BY <1>1, <1>2, <1>3, Zenon

\* await_resume.
LEMMA ResumeKeeps ==
  ASSUME ToInv,
         ResumeBegins \/ ReadParent \/ ReadFired \/ InnerResult \/ Unwind
  PROVE  PhaseOK' /\ ResultOK' /\ StopHasReason'
<1>0. /\ TimeoutTypeOK /\ PhaseOK /\ ResultOK /\ StopHasReason
      /\ Depth \in Nat \ {0} /\ pc \in PCs
  BY TimeoutAssumption, Zenon DEF TimeoutAssumption, ToInv, TimeoutTypeOK, PCs
<1>1. CASE ResumeBegins
  <2>1. /\ pc.at = "wait" /\ pc'.at = "parent" /\ pc'.level = 1
        /\ UNCHANGED <<src, cb, timer, expired, inner, result>>
    BY <1>1, Zenon DEF ResumeBegins
  <2> QED
    BY <1>0, <1>1, <2>1
       DEF PhaseOK, ResultOK, StopHasReason, ResumeBegins, Reading, Resuming,
           Levels
<1>2. CASE ReadParent
  <2>1. /\ pc.at = "parent" /\ pc'.at = "fired" /\ pc'.level = pc.level
        /\ UNCHANGED <<src, cb, timer, expired, inner, result>>
    BY <1>0, <1>2, Zenon DEF ReadParent, PCs
  <2> QED
    BY <1>0, <2>1, Zenon DEF PhaseOK, ResultOK, StopHasReason, Reading, Resuming
<1>3. CASE ReadFired
  <2>1. /\ pc.at = "fired" /\ pc.level \in Levels
        /\ \/ pc'.at = "parent" /\ pc'.level = pc.level + 1 /\ pc.level < Depth
           \/ pc'.at = "inner" /\ pc'.level = pc.level /\ pc.level = Depth
        /\ UNCHANGED <<src, cb, timer, expired, inner, result>>
    BY <1>0, <1>3 DEF ReadFired, PCs, PhaseOK, Levels
  <2> QED
    BY <1>0, <2>1
       DEF PhaseOK, ResultOK, StopHasReason, Reading, Resuming, Levels
<1>4. CASE InnerResult
  <2>1. /\ pc.at = "inner" /\ pc'.at = "unwind" /\ pc'.level = pc.level /\ pc.level = Depth
        /\ UNCHANGED <<src, cb, timer, expired, inner>>
        /\ result' \in {"canceled", inner}
    BY <1>0, <1>4, Zenon DEF InnerResult, PCs, PhaseOK
  <2> QED
    BY <1>0, <2>1
       DEF PhaseOK, ResultOK, StopHasReason, Reading, Resuming, Levels
<1>5. CASE Unwind
  <2>1. /\ pc.at = "unwind" /\ pc.level \in Levels
        /\ src' = src \cup {pc.level}
        /\ cb' = [cb EXCEPT ![pc.level] = "none"]
        /\ result' \in {"timeout", result}
        /\ \/ pc.level > 1 /\ pc'.at = "unwind" /\ pc'.level = pc.level - 1
           \/ pc.level = 1 /\ pc'.at = "done"
        /\ UNCHANGED <<timer, expired, inner>>
    BY <1>0, <1>5 DEF Unwind, destroy_parent_cb, PCs, PhaseOK, Levels
  <2>2. /\ cb'[pc.level] = "none"
        /\ \A i \in Levels : i # pc.level => cb'[i] = cb[i]
    BY <1>0, <2>1, Zenon DEF TimeoutTypeOK
  <2>3. PhaseOK'
    BY <1>0, <2>1, <2>2 DEF PhaseOK, Levels, Reading
  <2>4. ResultOK'
    BY <1>0, <2>1, Zenon DEF ResultOK, Resuming
  <2>5. StopHasReason'
    BY <1>0, <2>1, <2>2, Zenon DEF StopHasReason
  <2> QED BY <2>3, <2>4, <2>5, Zenon
<1> QED BY <1>1, <1>2, <1>3, <1>4, <1>5, Zenon

\* Every step keeps the invariant, on any number of threads.
LEMMA ToInvStep == ToInv /\ [TimeoutNext]_toVars => ToInv'
<1> SUFFICES ASSUME ToInv, [TimeoutNext]_toVars PROVE ToInv'
  BY Zenon
<1>1. TimeoutTypeOK'
  BY ToTypeStep, Zenon DEF ToInv
<1>2. CASE UNCHANGED toVars
  BY <1>1, <1>2 DEF ToInv, toVars, PhaseOK, ResultOK, StopHasReason
<1>3. CASE TimeoutNext
  BY <1>1, <1>3, EnvKeeps, SuspendKeeps, ResumeKeeps, Zenon
     DEF ToInv, TimeoutNext, EnvStep
<1> QED BY <1>2, <1>3, Zenon

-----------------------------------------------------------------------------
(* One thread.                                                             *)

\* A level that is stopped while its parent is not.
Outermost(i) == seen[i].fired /\ ~seen[i].parent

\* While await_resume reads, a stopped source has stopped all the levels
\* below it, and what was read is still so.
ReadsExact ==
  /\ 0 \in src => Levels \subseteq src
  /\ \A i \in Levels :
       /\ (i < pc.level \/ pc.at = "inner" \/ (pc.at = "fired" /\ i = pc.level))
             => seen[i].parent = (i - 1 \in src)
       /\ i < pc.level \/ pc.at = "inner" => seen[i].fired = (i \in src)

\* While the levels give their verdicts, from the innermost out.
VerdictOK ==
  /\ \A i \in Levels : Outermost(i) => expired # {}
  /\ result = "timeout" => expired # {}
  /\ result = "canceled" /\ 0 \notin src =>
       \E m \in Levels : m <= pc.level /\ Outermost(m)
  /\ 0 \notin src /\ expired = {} =>
       result = inner /\ \A i \in Levels : ~seen[i].fired

OneThreadOK ==
  ~threads =>
    /\ pc.at \in Reading \cup {"unwind"} => Settled
    /\ pc.at \in Reading => ReadsExact
    /\ pc.at = "unwind" => VerdictOK
    /\ TimeoutBlames

\* Before await_suspend nothing has been read.
LEMMA OneThreadInit == TimeoutInit => OneThreadOK
BY DEF TimeoutInit, OneThreadOK, Reading, TimeoutBlames

\* On one thread nothing but the passing of time happens between the handlers.
LEMMA OneThreadEnv ==
  ASSUME ToInv, OneThreadOK, EnvStep
  PROVE  OneThreadOK'
<1>0. TimeoutTypeOK /\ PhaseOK /\ StopHasReason
  BY Zenon DEF ToInv
<1>1. /\ UNCHANGED <<threads, inner, pc, seen, result>>
      /\ src \subseteq src' /\ expired \subseteq expired'
      /\ \A i \in Levels : cb'[i] = "none" <=> cb[i] = "none"
  BY EnvKeeps, Zenon
<1> SUFFICES ASSUME ~threads PROVE OneThreadOK'
  BY <1>1, Zenon DEF OneThreadOK
<1>2. CASE pc.at \in Reading \cup {"unwind"}
  <2>1. ~MayAct /\ Settled
    BY <1>2, Zenon DEF MayAct, Between, OneThreadOK, Reading
  <2>2. src' = src
    BY <1>0, <2>1, Zenon
       DEF EnvStep, ParentStops, ForwardBegins, ForwardEnds, TimerDue,
           TimerCanceled, make_timeout, Settled, StopHasReason
  <2>3. Settled'
    BY <1>1, <2>1, <2>2, Zenon DEF Settled
  <2>4. ReadsExact => ReadsExact'
    BY <1>1, <2>2, Zenon DEF ReadsExact
  <2>5. VerdictOK => VerdictOK'
    BY <1>1, <2>2, Zenon DEF VerdictOK, Outermost
  <2> QED
    BY <1>1, <1>2, <2>3, <2>4, <2>5, Zenon
       DEF OneThreadOK, TimeoutBlames, Reading
<1>3. CASE pc.at = "done"
  <2>1. 0 \in src' => 0 \in src
    BY <1>0, <1>3
       DEF EnvStep, ParentStops, ForwardBegins, ForwardEnds, TimerDue,
           TimerCanceled, make_timeout, Levels
  <2> QED BY <1>1, <1>3, <2>1, Zenon DEF OneThreadOK, TimeoutBlames, Reading
<1>4. CASE pc.at \notin Reading \cup {"unwind", "done"}
  BY <1>1, <1>4, Zenon DEF OneThreadOK, TimeoutBlames
<1> QED BY <1>2, <1>3, <1>4, Zenon

\* A stop of the caller has reached every level when all callbacks have run.
LEMMA StopReachesAll ==
  ASSUME ToInv, Settled, 0 \in src, \A i \in Levels : cb[i] # "none"
  PROVE  Levels \subseteq src
<1> SUFFICES ASSUME Levels \ src # {} PROVE FALSE
  BY Zenon
<1>1. Depth \in Nat
  BY TimeoutAssumption, Zenon DEF TimeoutAssumption
<1>2. PICK x \in Levels \ src : \A y \in Levels \ src : x <= y
  <2>1. Levels \ src \subseteq Nat
    BY <1>1 DEF Levels
  <2> QED BY <2>1, LeastElement, Zenon
<1>3. x - 1 \in src
  BY <1>1, <1>2 DEF Levels
<1> QED BY <1>2, <1>3, Zenon DEF Settled

\* Of the levels that are stopped the outermost has a parent that is not.
LEMMA SomeOutermost ==
  ASSUME ToInv, Depth \in src, 0 \notin src
  PROVE  \E m \in Levels : m \in src /\ m - 1 \notin src
<1>1. Depth \in Nat \ {0}
  BY TimeoutAssumption, Zenon DEF TimeoutAssumption
<1>2. PICK x \in Levels \cap src : \A y \in Levels \cap src : x <= y
  <2>1. Levels \cap src \subseteq Nat /\ Levels \cap src # {}
    BY <1>1 DEF Levels
  <2> QED BY <2>1, LeastElement, Zenon
<1>3. x - 1 \notin src
  BY <1>1, <1>2 DEF Levels
<1> QED BY <1>2, <1>3, Zenon

\* Every step keeps what holds on one thread.
LEMMA OneThreadStep ==
  ASSUME ToInv, OneThreadOK, [TimeoutNext]_toVars
  PROVE  OneThreadOK'
<1>0. /\ TimeoutTypeOK /\ PhaseOK /\ ResultOK /\ StopHasReason
      /\ Depth \in Nat \ {0} /\ pc \in PCs
  BY TimeoutAssumption, Zenon DEF TimeoutAssumption, ToInv, TimeoutTypeOK, PCs
<1>1. CASE EnvStep
  BY <1>1, OneThreadEnv, Zenon
<1>2. CASE SuspendLevel \/ StartInner \/ InnerEnds
  <2>1. pc'.at \in {"suspend", "wait"} /\ threads' = threads
    <3>1. CASE SuspendLevel \/ StartInner
      BY <1>0, <3>1 DEF SuspendLevel, StartInner, PCs
    <3>2. CASE InnerEnds
      BY <1>0, <3>2, Zenon DEF InnerEnds, ResultOK, PCs, Resuming, Reading
    <3> QED BY <1>2, <3>1, <3>2, Zenon
  <2> QED BY <2>1, Zenon DEF OneThreadOK, Reading, TimeoutBlames
<1>3. CASE ResumeBegins
  <2>1. /\ pc.at = "wait" /\ pc'.at = "parent" /\ pc'.level = 1
        /\ UNCHANGED <<threads, src, cb, seen>> /\ (threads \/ Settled)
    BY <1>3, Zenon DEF ResumeBegins
  <2>2. ~threads => Settled'
    BY <2>1, Zenon DEF Settled
  <2>3. ~threads /\ 0 \in src => Levels \subseteq src
    BY <1>0, <2>1, StopReachesAll, Zenon DEF PhaseOK
  <2>4. ~threads => ReadsExact'
    BY <1>0, <2>1, <2>3 DEF ReadsExact, Levels
  <2> QED BY <2>1, <2>2, <2>4, Zenon DEF OneThreadOK, Reading, TimeoutBlames
<1>4. CASE ReadParent
  <2>1. /\ pc.at = "parent" /\ pc'.at = "fired" /\ pc'.level = pc.level
        /\ UNCHANGED <<threads, src, cb>> /\ pc.level \in Levels
    BY <1>0, <1>4, Zenon DEF ReadParent, PCs, PhaseOK
  <2>2. /\ seen'[pc.level].parent = (pc.level - 1 \in src)
        /\ \A i \in Levels : i # pc.level => seen'[i] = seen[i]
    BY <1>0, <1>4, <2>1 DEF ReadParent, TimeoutTypeOK
  <2>3. ~threads => Settled'
    BY <2>1, Zenon DEF Settled, OneThreadOK, Reading
  <2>4. ~threads => ReadsExact'
    BY <1>0, <2>1, <2>2 DEF ReadsExact, OneThreadOK, Reading, Levels
  <2> QED BY <2>1, <2>3, <2>4, Zenon DEF OneThreadOK, Reading, TimeoutBlames
<1>5. CASE ReadFired
  <2>1. /\ pc.at = "fired" /\ pc.level \in Levels
        /\ \/ pc'.at = "parent" /\ pc'.level = pc.level + 1 /\ pc.level < Depth
           \/ pc'.at = "inner" /\ pc'.level = pc.level /\ pc.level = Depth
        /\ UNCHANGED <<threads, src, cb>>
    BY <1>0, <1>5 DEF ReadFired, PCs, PhaseOK, Levels
  <2>2. /\ seen'[pc.level].fired = (pc.level \in src)
        /\ seen'[pc.level].parent = seen[pc.level].parent
        /\ \A i \in Levels : i # pc.level => seen'[i] = seen[i]
    BY <1>0, <1>5, <2>1 DEF ReadFired, TimeoutTypeOK
  <2>3. ~threads => Settled'
    BY <2>1, Zenon DEF Settled, OneThreadOK, Reading
  <2>4. ~threads => ReadsExact'
    BY <1>0, <2>1, <2>2 DEF ReadsExact, OneThreadOK, Reading, Levels
  <2> QED BY <2>1, <2>3, <2>4, Zenon DEF OneThreadOK, Reading, TimeoutBlames
<1>6. CASE InnerResult
  <2>1. /\ pc.at = "inner" /\ pc'.at = "unwind" /\ pc'.level = Depth
        /\ UNCHANGED <<threads, src, cb, expired, inner, seen>>
        /\ result' = IF Depth \in src THEN "canceled" ELSE inner
        /\ inner \in {"ok", "error", "canceled"}
    BY <1>0, <1>6, Zenon
       DEF InnerResult, PCs, PhaseOK, ResultOK, Resuming, Reading
  <2>2. ASSUME ~threads
        PROVE  /\ Settled' /\ (0 \in src => Levels \subseteq src)
               /\ \A i \in Levels : /\ seen[i].parent = (i - 1 \in src)
                                    /\ seen[i].fired = (i \in src)
    BY <2>1, <2>2, Zenon DEF OneThreadOK, Reading, ReadsExact, Settled
  <2>3. src # {} => 0 \in src \/ expired # {}
    BY <1>0, <2>1, Zenon DEF StopHasReason
  <2>4. ASSUME ~threads PROVE VerdictOK'
    <3>1. ASSUME NEW i \in Levels, Outermost(i) PROVE expired # {}
      <4>1. i \in src /\ i - 1 \notin src
        BY <2>2, <2>4, <3>1, Zenon DEF Outermost
      <4>2. 0 \notin src
        BY <1>0, <2>2, <2>4, <4>1 DEF Levels
      <4> QED BY <2>3, <4>1, <4>2, Zenon
    <3>2. result' # "timeout"
      BY <2>1, Zenon
    <3>3. ASSUME result' = "canceled", 0 \notin src
          PROVE  \E m \in Levels : m <= Depth /\ Outermost(m)
      <4>1. Depth \in src
        BY <1>0, <2>1, <3>3, Zenon DEF StopHasReason
      <4>2. PICK m \in Levels : m \in src /\ m - 1 \notin src
        BY <3>3, <4>1, SomeOutermost, Zenon
      <4>3. Outermost(m)
        BY <2>2, <2>4, <4>2, Zenon DEF Outermost
      <4>4. m <= Depth
        BY <1>0, <4>2 DEF Levels
      <4> QED BY <4>3, <4>4, Zenon
    <3>4. ASSUME 0 \notin src, expired = {}
          PROVE  result' = inner /\ \A i \in Levels : ~seen[i].fired
      BY <2>1, <2>2, <2>3, <2>4, <3>4, Zenon
    <3>5. \A i \in Levels : Outermost(i)' <=> Outermost(i)
      BY <2>1, Zenon DEF Outermost
    <3>6. \A i \in Levels : Outermost(i)' => expired' # {}
      BY <2>1, <3>1, <3>5, Zenon
    <3>7. result' = "canceled" /\ 0 \notin src' =>
            \E m \in Levels : m <= pc'.level /\ Outermost(m)'
      BY <2>1, <3>3, <3>5, Zenon
    <3>8. 0 \notin src' /\ expired' = {} =>
            result' = inner' /\ \A i \in Levels : ~seen'[i].fired
      BY <2>1, <3>4, Zenon
    <3> QED BY <3>2, <3>6, <3>7, <3>8, Zenon DEF VerdictOK
  <2> QED BY <2>1, <2>2, <2>4, Zenon DEF OneThreadOK, Reading, TimeoutBlames
<1>7. CASE Unwind
  <2>1. /\ pc.at = "unwind" /\ pc.level \in Levels
        /\ src' = src \cup {pc.level}
        /\ cb' = [cb EXCEPT ![pc.level] = "none"]
        /\ result' = IF IsTimeout(seen[pc.level], result) THEN "timeout" ELSE result
        /\ \/ pc.level > 1 /\ pc'.at = "unwind" /\ pc'.level = pc.level - 1
           \/ pc.level = 1 /\ pc'.at = "done"
        /\ UNCHANGED <<threads, timer, expired, inner, seen>>
    BY <1>0, <1>7 DEF Unwind, destroy_parent_cb, PCs, PhaseOK, Levels
  <2>2. /\ cb'[pc.level] = "none"
        /\ \A i \in Levels : i # pc.level => cb'[i] = cb[i]
    BY <1>0, <2>1, Zenon DEF TimeoutTypeOK
  <2>3. 0 \in src' <=> 0 \in src
    BY <1>0, <2>1 DEF Levels
  <2> SUFFICES ASSUME ~threads PROVE OneThreadOK'
    BY <2>1, Zenon DEF OneThreadOK
  <2>4. VerdictOK /\ Settled
    BY <2>1, Zenon DEF OneThreadOK, Reading
  <2>5. Settled'
    BY <1>0, <2>1, <2>2, <2>4 DEF Settled, PhaseOK, Levels
  <2>6. /\ result' = "timeout" => expired # {}
        /\ result' = "canceled" /\ 0 \notin src =>
             \E m \in Levels : m < pc.level /\ Outermost(m)
        /\ 0 \notin src /\ expired = {} => result' = inner
    BY <1>0, <2>1, <2>4 DEF VerdictOK, IsTimeout, Outermost, Levels
  <2>7. CASE pc.level > 1
    <3>1. pc'.at = "unwind" /\ pc'.level = pc.level - 1
      BY <2>1, <2>7
    <3>2. VerdictOK'
      BY <1>0, <2>1, <2>3, <2>4, <2>6, <3>1 DEF VerdictOK, Outermost, Levels
    <3> QED BY <2>5, <3>1, <3>2, Zenon DEF OneThreadOK, Reading, TimeoutBlames
  <2>8. CASE pc.level = 1
    <3>1. pc'.at = "done" /\ (result' = "canceled" => 0 \in src)
      BY <1>0, <2>1, <2>6, <2>8 DEF Levels
    <3>2. TimeoutBlames'
      BY <2>1, <2>3, <2>6, <3>1, Zenon DEF TimeoutBlames
    <3> QED BY <3>1, <3>2, Zenon DEF OneThreadOK, Reading
  <2> QED BY <1>0, <2>1, <2>7, <2>8, Zenon DEF Levels
<1>8. CASE UNCHANGED toVars
  BY <1>8, Zenon
     DEF toVars, OneThreadOK, Reading, TimeoutBlames, VerdictOK, Outermost,
         ReadsExact, Settled
<1> QED
  BY <1>1, <1>2, <1>3, <1>4, <1>5, <1>6, <1>7, <1>8, Zenon
     DEF TimeoutNext, EnvStep

(***************************************************************************)
(* However deeply timeouts nest and however the operation, the deadlines   *)
(* and the caller's stop interleave, await_resume leaves no callback and   *)
(* no timer behind; on one thread it reports a timeout only if a deadline  *)
(* has passed, a cancellation only if the caller stopped, and otherwise    *)
(* the operation's own result.                                             *)
(***************************************************************************)
THEOREM TimeoutIsRight == TimeoutSpec => []TimeoutRight
<1>1. TimeoutInit => ToInv /\ OneThreadOK
  BY ToInvInit, OneThreadInit, Zenon
<1>2. ToInv /\ OneThreadOK /\ [TimeoutNext]_toVars => (ToInv /\ OneThreadOK)'
  BY ToInvStep, OneThreadStep, Zenon
<1>3. ToInv /\ OneThreadOK => TimeoutRight
  <2>1. ToInv => TimeoutTidy
    BY Zenon DEF ToInv, PhaseOK, ResultOK, TimeoutTidy, TimeoutTypeOK
  <2>2. OneThreadOK => TimeoutBlames
    BY Zenon DEF OneThreadOK, TimeoutBlames
  <2> QED BY <2>1, <2>2, Zenon DEF TimeoutRight
<1> QED BY <1>1, <1>2, <1>3, PTL DEF TimeoutSpec
=============================================================================
