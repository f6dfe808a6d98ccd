------------------------- MODULE ReactorBalanceProofs -------------------------
(***************************************************************************)
(* The books of ReactorScheduler balance, for any number of threads,       *)
(* posters and operations: the laws of counting that the steps rest on,    *)
(* the first state, and what the inductive invariant says of QueueLedger.  *)
(***************************************************************************)
EXTENDS ReactorSchedulerProofs, ReactorStepProofs

-----------------------------------------------------------------------------
(* Counting an entry in a queue.                                           *)

LEMMA PositionsFinite ==
  ASSUME NEW A, NEW q \in Seq(A), NEW E
  PROVE  /\ IsFiniteSet(Positions(E, q))
         /\ Cardinality(Positions(E, q)) \in Nat
<1>1. Positions(E, q) \subseteq 1..Len(q) /\ Len(q) \in Nat
  BY DEF Positions
<1>2. IsFiniteSet(1..Len(q))
  BY <1>1, FS_Interval
<1> QED
  BY <1>1, <1>2, FS_Subset, FS_CardinalityType, Zenon

LEMMA NatCount ==
  ASSUME NEW A, NEW q \in Seq(A), NEW x
  PROVE  IsFiniteSet(Positions({x}, q)) /\ Count(x, q) \in Nat
BY PositionsFinite, Zenon DEF Count

\* Tagging the elements of a set does not change how many there are.
LEMMA Tagged ==
  ASSUME NEW S, IsFiniteSet(S), NEW a, NEW b
  PROVE  IsFiniteSet(Tag(a, b, S)) /\ Cardinality(Tag(a, b, S)) = Cardinality(S)
<1> DEFINE f == [i \in S |-> <<a, b, i>>]
<1>1. f \in Bijection(S, Tag(a, b, S))
  BY Zenon DEF Bijection, Injection, Surjection, IsInjective, Tag
<1>2. ExistsBijection(S, Tag(a, b, S))
  BY <1>1, Zenon DEF ExistsBijection
<1> QED
  BY <1>2, FS_Bijection, Zenon

\* So does moving the positions of a queue behind another.
LEMMA Behind ==
  ASSUME NEW S, IsFiniteSet(S), S \subseteq Int, NEW n \in Int
  PROVE  /\ IsFiniteSet({i + n : i \in S})
         /\ Cardinality({i + n : i \in S}) = Cardinality(S)
<1> DEFINE T == {i + n : i \in S}
           f == [i \in S |-> i + n]
<1>1. f \in Bijection(S, T)
  <2>1. f \in [S -> T]
    BY Zenon
  <2>2. \A i, j \in S : f[i] = f[j] => i = j
    OBVIOUS
  <2>3. \A y \in T : \E i \in S : f[i] = y
    BY Zenon
  <2> QED
    BY <2>1, <2>2, <2>3, Zenon DEF Bijection, Injection, Surjection, IsInjective
<1>2. ExistsBijection(S, T)
  BY <1>1, Zenon DEF ExistsBijection
<1> QED
  BY <1>2, FS_Bijection, Zenon

LEMMA ConcatCount ==
  ASSUME NEW A, NEW s \in Seq(A), NEW u \in Seq(A), NEW x
  PROVE  Count(x, s \o u) = Count(x, s) + Count(x, u)
<1> DEFINE P == Positions({x}, s)
           U == Positions({x}, u)
           Q == {i + Len(s) : i \in U}
<1>1. /\ DOMAIN (s \o u) = 1..(Len(s) + Len(u))
      /\ DOMAIN s = 1..Len(s) /\ DOMAIN u = 1..Len(u)
      /\ Len(s) \in Nat /\ Len(u) \in Nat
  OBVIOUS
<1>2. \A i \in DOMAIN (s \o u) :
        (s \o u)[i] = IF i <= Len(s) THEN s[i] ELSE u[i - Len(s)]
  OBVIOUS
<1>3. Positions({x}, s \o u) = P \cup Q
  <2>1. ASSUME NEW i \in Positions({x}, s \o u) PROVE i \in P \cup Q
    <3>1. CASE i <= Len(s)
      BY <1>1, <1>2, <2>1, <3>1 DEF Positions
    <3>2. CASE ~(i <= Len(s))
      <4>1. i - Len(s) \in U /\ i = (i - Len(s)) + Len(s)
        BY <1>1, <1>2, <2>1, <3>2 DEF Positions
      <4> QED
        BY <4>1, Zenon
    <3> QED
      BY <3>1, <3>2, Zenon
  <2>2. ASSUME NEW i \in P PROVE i \in Positions({x}, s \o u)
    BY <1>1, <1>2 DEF Positions
  <2>3. ASSUME NEW j \in U PROVE j + Len(s) \in Positions({x}, s \o u)
    <3>1. j + Len(s) \in DOMAIN (s \o u) /\ ~(j + Len(s) <= Len(s))
          /\ (j + Len(s)) - Len(s) = j
      BY <1>1 DEF Positions
    <3> QED
      BY <1>2, <3>1, Zenon DEF Positions
  <2> QED
    BY <2>1, <2>2, <2>3, Zenon
<1>4. P \cap Q = {}
  BY <1>1 DEF Positions
<1>5. IsFiniteSet(P) /\ IsFiniteSet(U) /\ U \subseteq Int
  <2>1. U \subseteq Int
    BY <1>1 DEF Positions
  <2> QED
    BY <2>1, PositionsFinite, Zenon
<1> HIDE DEF P, U
<1>6. IsFiniteSet(Q) /\ Cardinality(Q) = Cardinality(U)
  <2>1. Len(s) \in Int
    BY <1>1
  <2> QED
    BY <1>5, <2>1, Behind, Zenon
<1> HIDE DEF Q
<1>7. Cardinality(P \cup Q) = Cardinality(P) + Cardinality(Q)
                                - Cardinality(P \cap Q)
  BY <1>5, <1>6, FS_Union, Zenon
<1>8. Cardinality(P) \in Nat /\ Cardinality(U) \in Nat /\ Cardinality(P \cap Q) = 0
  BY <1>4, <1>5, FS_CardinalityType, FS_EmptySet, Zenon
<1> QED
  <2>1. Count(x, s) = Cardinality(P) /\ Count(x, u) = Cardinality(U)
    BY Zenon DEF Count, P, U
  <2>2. Count(x, s \o u) = Cardinality(P \cup Q)
    BY <1>3, Zenon DEF Count
  <2> QED
    BY <1>6, <1>7, <1>8, <2>1, <2>2

LEMMA SmallCount ==
  ASSUME NEW x, NEW y
  PROVE  /\ Count(x, <<>>) = 0
         /\ Count(x, <<y>>) = One(y = x)
<1>1. Positions({x}, <<>>) = {}
  BY DEF Positions
<1>2. y = x => Positions({x}, <<y>>) = {1}
  BY DEF Positions
<1>3. y # x => Positions({x}, <<y>>) = {}
  BY DEF Positions
<1> QED
  BY <1>1, <1>2, <1>3, FS_EmptySet, FS_Singleton, Zenon DEF Count, One

\* A queue does not hold what is not of its type.
LEMMA CountOther ==
  ASSUME NEW A, NEW q \in Seq(A), NEW x, x \notin A
  PROVE  Count(x, q) = 0
<1>1. Positions({x}, q) = {}
  BY DEF Positions
<1> QED
  BY <1>1, FS_EmptySet, Zenon DEF Count

\* An enumeration holds each element of its set once.
LEMMA OrderCount ==
  ASSUME NEW S, IsFiniteSet(S), NEW order \in Orders(S), NEW x
  PROVE  Count(x, order) = One(x \in S)
<1>1. order \in Seq(S)
  BY EnumerationType, Zenon
<1>2. CASE x \notin S
  BY <1>1, <1>2, CountOther, Zenon DEF One
<1>3. CASE x \in S
  <2>1. /\ order \in [1..Cardinality(S) -> S]
        /\ \A i, j \in 1..Cardinality(S) : order[i] = order[j] => i = j
        /\ \A y \in S : \E i \in 1..Cardinality(S) : order[i] = y
    BY Zenon DEF Orders, Bijection, Injection, Surjection, IsInjective
  <2>2. PICK i \in 1..Cardinality(S) : order[i] = x
    BY <1>3, <2>1, Zenon
  <2>3. Positions({x}, order) = {i}
    BY <2>1, <2>2 DEF Positions
  <2> QED
    BY <1>3, <2>3, FS_Singleton, Zenon DEF Count, One
<1> QED
  BY <1>2, <1>3, Zenon

-----------------------------------------------------------------------------
(* The places of one entry.                                                *)

\* The union of two sets that have no element in common.
LEMMA DisjointUnion ==
  ASSUME NEW S, NEW T, IsFiniteSet(S), IsFiniteSet(T), S \cap T = {}
  PROVE  /\ IsFiniteSet(S \cup T)
         /\ Cardinality(S) \in Nat /\ Cardinality(T) \in Nat
         /\ Cardinality(S \cup T) = Cardinality(S) + Cardinality(T)
<1>1. Cardinality(S) \in Nat /\ Cardinality(T) \in Nat
  BY FS_CardinalityType, Zenon
<1>2. Cardinality(S \cap T) = 0
  BY FS_EmptySet, Zenon
<1>3. /\ IsFiniteSet(S \cup T)
      /\ Cardinality(S \cup T) = Cardinality(S) + Cardinality(T) - Cardinality(S \cap T)
  BY FS_Union, Zenon
<1> QED
  BY <1>1, <1>2, <1>3

LEMMA PlacesSplit ==
  ASSUME NEW x, x # None, NEW c, NEW pq, NEW lo, NEW at, NEW e
  PROVE  PlacesOf({x}, c, pq, lo, at, e)
         = Shared(x, c) \cup Elsewhere(Threads, x, pq, lo, at, e)
<1> DEFINE P(t) == Tag("private", t, Positions({x}, pq[t]))
           L(t) == Tag("local", t, Positions({x}, lo[t]))
           R(t) == InHandler(t, x, Executing(at[t], e[t]))
           H == {u \in Threads : at[u] = "handler" /\ e[u] \in {x}}
           B == InQueues("private", {x}, pq)
           C == InQueues("local", {x}, lo)
           D == InHandlers({x}, at, e)
<1>1. PlacesOf({x}, c, pq, lo, at, e) = Shared(x, c) \cup B \cup C \cup D
  BY Zenon DEF PlacesOf, Shared
<1>2. \A p : p \in D <=> \E u \in Threads : p \in R(u)
  <2>1. \A u : u \in H <=> u \in Threads /\ at[u] = "handler" /\ e[u] = x
    BY Zenon
  <2>2. \A u, p : p \in R(u) <=> at[u] = "handler" /\ e[u] = x /\ p = <<"handler", u, 0>>
    BY Zenon DEF InHandler, Executing
  <2>3. \A p : p \in D <=> \E u \in H : p = <<"handler", u, 0>>
    BY Zenon DEF InHandlers
  <2> HIDE DEF H, R, D
  <2> QED
    BY <2>1, <2>2, <2>3, Zenon
<1>3. \A u : OwnOf(u, x, pq, lo, at, e) = P(u) \cup L(u) \cup R(u)
  BY Zenon DEF OwnOf, Own
<1>4. \A p : p \in B <=> \E u \in Threads : p \in P(u)
  BY Zenon DEF InQueues
<1>5. \A p : p \in C <=> \E u \in Threads : p \in L(u)
  BY Zenon DEF InQueues
<1>6. \A p : p \in Elsewhere(Threads, x, pq, lo, at, e)
               <=> \E u \in Threads : p \in OwnOf(u, x, pq, lo, at, e)
  BY Zenon DEF Elsewhere
<1> HIDE DEF P, L, R, B, C, D
<1>7. \A p : p \in B \cup C \cup D <=> p \in Elsewhere(Threads, x, pq, lo, at, e)
  BY <1>2, <1>3, <1>4, <1>5, <1>6
<1> QED
  BY <1>1, <1>7, Zenon

LEMMA ElsewhereSplit ==
  ASSUME NEW t \in Threads, NEW x, NEW pq, NEW lo, NEW at, NEW e
  PROVE  Elsewhere(Threads, x, pq, lo, at, e)
         = OwnOf(t, x, pq, lo, at, e) \cup Elsewhere(Threads \ {t}, x, pq, lo, at, e)
<1>1. ASSUME NEW T
      PROVE  \A p : p \in Elsewhere(T, x, pq, lo, at, e)
                      <=> \E u \in T : p \in OwnOf(u, x, pq, lo, at, e)
  BY Zenon DEF Elsewhere
<1> QED
  BY <1>1, Zenon

\* How many places thread u has for x.
LEMMA OwnCount ==
  ASSUME NEW A, NEW u, NEW x, NEW p \in Seq(A), NEW l \in Seq(A), NEW e
  PROVE  /\ IsFiniteSet(Own(u, x, p, l, e))
         /\ Cardinality(Own(u, x, p, l, e))
            = Count(x, p) + Count(x, l) + One(e = x)
<1> DEFINE P == Tag("private", u, Positions({x}, p))
           L == Tag("local", u, Positions({x}, l))
           R == InHandler(u, x, e)
<1>1. IsFiniteSet(Positions({x}, p)) /\ IsFiniteSet(Positions({x}, l))
      /\ Count(x, p) \in Nat /\ Count(x, l) \in Nat
  BY NatCount, Zenon
<1>2. IsFiniteSet(P) /\ Cardinality(P) = Count(x, p)
  BY <1>1, Tagged, Zenon DEF Count
<1>3. IsFiniteSet(L) /\ Cardinality(L) = Count(x, l)
  BY <1>1, Tagged, Zenon DEF Count
<1>4. IsFiniteSet(R) /\ Cardinality(R) = One(e = x)
  BY FS_EmptySet, FS_Singleton, Zenon DEF InHandler, One
<1>5. P \cap L = {}
  BY DEF Tag
<1>6. (P \cup L) \cap R = {}
  BY DEF InHandler, Tag
<1> HIDE DEF P, L, R
<1>7. IsFiniteSet(P \cup L) /\ Cardinality(P \cup L) = Count(x, p) + Count(x, l)
  <2>1. IsFiniteSet(P \cup L) /\ Cardinality(P \cup L) = Cardinality(P) + Cardinality(L)
    BY <1>2, <1>3, <1>5, DisjointUnion, Zenon
  <2> QED
    BY <1>2, <1>3, <2>1, Zenon
<1>8. /\ IsFiniteSet(P \cup L \cup R)
      /\ Cardinality(P \cup L \cup R) = Count(x, p) + Count(x, l) + One(e = x)
  BY <1>4, <1>6, <1>7, DisjointUnion
<1> QED
  BY <1>8, Zenon DEF Own, P, L, R

LEMMA SharedCount ==
  ASSUME NEW A, NEW x, NEW c \in Seq(A)
  PROVE  IsFiniteSet(Shared(x, c)) /\ Cardinality(Shared(x, c)) = Count(x, c)
<1>1. IsFiniteSet(Positions({x}, c))
  BY NatCount, Zenon
<1> QED
  BY <1>1, Tagged, Zenon DEF Shared, Count

LEMMA ElsewhereFinite ==
  ASSUME NEW x, NEW c, NEW pq, NEW lo, Queues(c, pq, lo), NEW at, NEW e,
         NEW T \in SUBSET Threads
  PROVE  IsFiniteSet(Elsewhere(T, x, pq, lo, at, e))
<1> DEFINE f == [u \in T |-> OwnOf(u, x, pq, lo, at, e)]
           F == {OwnOf(u, x, pq, lo, at, e) : u \in T}
<1>1. IsFiniteSet(T)
  BY SortsAssumption, FS_Subset, Zenon
<1>2. f \in Surjection(T, F)
  BY Zenon DEF Surjection
<1>3. IsFiniteSet(F)
  BY <1>1, <1>2, FS_Surjection, Zenon
<1>4. \A G \in F : IsFiniteSet(G)
  <2>1. ASSUME NEW u \in T PROVE IsFiniteSet(OwnOf(u, x, pq, lo, at, e))
    <3>1. pq[u] \in Seq(Ops \cup {Task, Desc}) /\ lo[u] \in Seq(Ops \cup {Task, Desc})
      BY QueueTypes, Zenon
    <3> QED
      BY <3>1, OwnCount, Zenon DEF OwnOf
  <2> QED
    BY <2>1, Zenon
<1> QED
  BY <1>3, <1>4, FS_UNION, Zenon DEF Elsewhere

LEMMA ThreadPlaces ==
  ASSUME NEW x, x # None, NEW c, NEW pq, NEW lo, Queues(c, pq, lo), NEW at, NEW e,
         NEW t \in Threads
  PROVE  ThreadSplit(x, c, pq, lo, at, e, t)
<1> DEFINE S == Shared(x, c)
           M == OwnOf(t, x, pq, lo, at, e)
           R == Elsewhere(Threads \ {t}, x, pq, lo, at, e)
<1>1. PlacesOf({x}, c, pq, lo, at, e) = S \cup M \cup R
  BY PlacesSplit, ElsewhereSplit
<1>2. IsFiniteSet(S) /\ Cardinality(S) = Count(x, c) /\ Count(x, c) \in Nat
  BY SharedCount, NatCount, Zenon DEF Queues
<1>3. /\ IsFiniteSet(M)
      /\ Cardinality(M) = Count(x, pq[t]) + Count(x, lo[t])
                           + One(Executing(at[t], e[t]) = x)
      /\ Count(x, pq[t]) \in Nat /\ Count(x, lo[t]) \in Nat
  <2>1. pq[t] \in Seq(Ops \cup {Task, Desc}) /\ lo[t] \in Seq(Ops \cup {Task, Desc})
    BY QueueTypes, Zenon
  <2>2. /\ IsFiniteSet(Own(t, x, pq[t], lo[t], Executing(at[t], e[t])))
        /\ Cardinality(Own(t, x, pq[t], lo[t], Executing(at[t], e[t])))
           = Count(x, pq[t]) + Count(x, lo[t]) + One(Executing(at[t], e[t]) = x)
    BY <2>1, OwnCount
  <2>3. Count(x, pq[t]) \in Nat /\ Count(x, lo[t]) \in Nat
    BY <2>1, NatCount, Zenon
  <2> QED
    BY <2>2, <2>3, Zenon DEF OwnOf
<1>4. IsFiniteSet(R) /\ Cardinality(R) \in Nat
  BY ElsewhereFinite, FS_CardinalityType, Zenon
<1>5. S \cap M = {}
  BY DEF Shared, OwnOf, Own, InHandler, Tag
<1>6. \A p \in R : \E u \in Threads \ {t} : p \in OwnOf(u, x, pq, lo, at, e)
  BY Zenon DEF Elsewhere
<1>7. \A u : \A p \in OwnOf(u, x, pq, lo, at, e) : p[1] # "completed" /\ p[2] = u
  BY DEF OwnOf, Own, InHandler, Tag
<1>8. \A p \in S : p[1] = "completed"
  BY DEF Shared, Tag
<1> HIDE DEF S, M, R
<1>9. (S \cup M) \cap R = {}
  BY <1>6, <1>7, <1>8 DEF M
<1>10. /\ IsFiniteSet(S \cup M)
       /\ Cardinality(S \cup M) = Cardinality(S) + Cardinality(M)
  BY <1>2, <1>3, <1>5, DisjointUnion, Zenon
<1>11. /\ IsFiniteSet(S \cup M \cup R)
       /\ Cardinality(S \cup M \cup R) = Cardinality(S \cup M) + Cardinality(R)
  BY <1>4, <1>9, <1>10, DisjointUnion, Zenon
<1>12. Cardinality(PlacesOf({x}, c, pq, lo, at, e))
         = Cardinality(S) + Cardinality(M) + Cardinality(R)
  BY <1>1, <1>10, <1>11, Zenon
<1>13. One(Executing(at[t], e[t]) = x) \in Nat
  BY Zenon DEF One
<1>14. Cardinality(PlacesOf({x}, c, pq, lo, at, e))
         = Count(x, c) + Count(x, pq[t]) + Count(x, lo[t])
           + One(Executing(at[t], e[t]) = x) + Cardinality(R)
  BY <1>2, <1>3, <1>4, <1>12, <1>13
<1> QED
  BY <1>4, <1>14, Zenon DEF ThreadSplit, R

LEMMA SharedPlaces ==
  ASSUME NEW x, x # None, NEW c, NEW pq, NEW lo, Queues(c, pq, lo), NEW at, NEW e
  PROVE  /\ IsFiniteSet(PlacesOf({x}, c, pq, lo, at, e))
         /\ Cardinality(Elsewhere(Threads, x, pq, lo, at, e)) \in Nat
         /\ Cardinality(PlacesOf({x}, c, pq, lo, at, e))
            = Count(x, c) + Cardinality(Elsewhere(Threads, x, pq, lo, at, e))
<1> DEFINE S == Shared(x, c)
           R == Elsewhere(Threads, x, pq, lo, at, e)
<1>1. PlacesOf({x}, c, pq, lo, at, e) = S \cup R
  BY PlacesSplit
<1>2. IsFiniteSet(S) /\ Cardinality(S) = Count(x, c) /\ Count(x, c) \in Nat
  BY SharedCount, NatCount, Zenon DEF Queues
<1>3. IsFiniteSet(R) /\ Cardinality(R) \in Nat
  BY ElsewhereFinite, FS_CardinalityType, Zenon
<1>4. \A p \in R : \E u \in Threads : p \in OwnOf(u, x, pq, lo, at, e)
  BY Zenon DEF Elsewhere
<1>5. \A u : \A p \in OwnOf(u, x, pq, lo, at, e) : p[1] # "completed"
  BY DEF OwnOf, Own, InHandler, Tag
<1>6. \A p \in S : p[1] = "completed"
  BY DEF Shared, Tag
<1> HIDE DEF S, R
<1>7. S \cap R = {}
  BY <1>4, <1>5, <1>6, Zenon
<1>8. /\ IsFiniteSet(S \cup R)
      /\ Cardinality(S \cup R) = Cardinality(S) + Cardinality(R)
  BY <1>2, <1>3, <1>7, DisjointUnion, Zenon
<1> QED
  BY <1>1, <1>2, <1>3, <1>8, Zenon DEF R

-----------------------------------------------------------------------------
(* Sets that change, and the units of the threads.                         *)

\* A set that changes in one element at most.
LEMMA SetChange ==
  ASSUME NEW S, IsFiniteSet(S), NEW R, NEW x, \A y : y # x => (y \in R <=> y \in S)
  PROVE  /\ IsFiniteSet(R)
         /\ Cardinality(S) \in Nat /\ Cardinality(R) \in Nat
         /\ Cardinality(R) = Cardinality(S) + One(x \in R) - One(x \in S)
<1>1. Cardinality(S) \in Nat
  BY FS_CardinalityType, Zenon
<1>2. CASE x \in R
  <2>1. R = S \cup {x}
    BY <1>2, Zenon
  <2> QED
    BY <1>1, <1>2, <2>1, FS_AddElement DEF One
<1>3. CASE x \notin R
  <2>1. R = S \ {x}
    BY <1>3, Zenon
  <2>2. x \in S => Cardinality(S) # 0
    BY FS_EmptySet, Zenon
  <2> QED
    BY <1>1, <1>3, <2>1, <2>2, FS_RemoveElement DEF One
<1> QED
  BY <1>2, <1>3, Zenon

\* The private units of one thread.
LEMMA UnitsOwn ==
  ASSUME NEW u, NEW n \in Nat
  PROVE  IsFiniteSet(UnitsOf(u, n)) /\ Cardinality(UnitsOf(u, n)) = n
<1> DEFINE T == UnitsOf(u, n)
           f == [i \in 1..n |-> <<u, i>>]
<1>1. f \in Bijection(1..n, T)
  BY Zenon DEF Bijection, Injection, Surjection, IsInjective, UnitsOf
<1>2. ExistsBijection(1..n, T)
  BY <1>1, Zenon DEF ExistsBijection
<1>3. IsFiniteSet(1..n) /\ Cardinality(1..n) = n
  BY FS_Interval
<1> QED
  BY <1>2, <1>3, FS_Bijection, Zenon

LEMMA UnitsFinite ==
  ASSUME NEW w \in [Threads -> Nat], NEW T \in SUBSET Threads
  PROVE  IsFiniteSet(UnitsIn(T, w)) /\ Cardinality(UnitsIn(T, w)) \in Nat
<1> DEFINE f == [u \in T |-> UnitsOf(u, w[u])]
           F == {UnitsOf(u, w[u]) : u \in T}
<1>1. IsFiniteSet(T)
  BY SortsAssumption, FS_Subset, Zenon
<1>2. f \in Surjection(T, F)
  BY Zenon DEF Surjection
<1>3. IsFiniteSet(F)
  BY <1>1, <1>2, FS_Surjection, Zenon
<1>4. \A u \in T : w[u] \in Nat
  BY Zenon
<1>5. \A G \in F : IsFiniteSet(G)
  BY <1>4, UnitsOwn, Zenon
<1>6. IsFiniteSet(UnitsIn(T, w))
  BY <1>3, <1>5, FS_UNION, Zenon DEF UnitsIn
<1> QED
  BY <1>6, FS_CardinalityType, Zenon

LEMMA UnitsCount ==
  ASSUME NEW w \in [Threads -> Nat], NEW t \in Threads
  PROVE  Cardinality(UnitsIn(Threads, w)) = w[t] + Cardinality(UnitsIn(Threads \ {t}, w))
<1> DEFINE M == UnitsOf(t, w[t])
           R == UnitsIn(Threads \ {t}, w)
<1>1. ASSUME NEW T
      PROVE  \A p : p \in UnitsIn(T, w) <=> \E u \in T : p \in UnitsOf(u, w[u])
  BY Zenon DEF UnitsIn
<1>2. UnitsIn(Threads, w) = M \cup R
  BY <1>1, Zenon
<1>3. IsFiniteSet(M) /\ Cardinality(M) = w[t] /\ w[t] \in Nat
  BY UnitsOwn, Zenon
<1>4. IsFiniteSet(R) /\ Cardinality(R) \in Nat
  BY UnitsFinite, Zenon
<1>5. M \cap R = {}
  BY <1>1 DEF UnitsOf
<1> HIDE DEF M, R
<1>6. Cardinality(M \cup R) = Cardinality(M) + Cardinality(R)
  BY <1>3, <1>4, <1>5, FS_Union, FS_EmptySet
<1> QED
  BY <1>2, <1>3, <1>4, <1>6, Zenon DEF R

\* All that the steps of the scheduler assume of counting is true.
LEMMA CountingHolds == Counting
<1>1. CountNatLaw
  BY NatCount, Zenon DEF CountNatLaw
<1>2. CountConcatLaw
  BY ConcatCount, Zenon DEF CountConcatLaw
<1>3. CountSmallLaw
  BY SmallCount, Zenon DEF CountSmallLaw
<1>4. CountOrderLaw
  <2> SUFFICES ASSUME NEW S, IsFiniteSet(S), NEW order \in Orders(S)
               PROVE  /\ order \in Seq(S) /\ (S # {} => order # <<>>)
                      /\ \A x : Count(x, order) = One(x \in S)
    BY Zenon DEF CountOrderLaw
  <2>1. order \in Seq(S)
    BY EnumerationType, Zenon
  <2>2. \A x : Count(x, order) = One(x \in S)
    BY OrderCount, Zenon
  <2>3. ASSUME NEW x \in S, order = <<>> PROVE FALSE
    <3>1. Count(x, order) = 0
      BY <2>3, SmallCount, Zenon
    <3>2. Count(x, order) = 1
      BY <2>2, <2>3, Zenon DEF One
    <3> QED
      BY <3>1, <3>2
  <2> QED
    BY <2>1, <2>2, <2>3, Zenon
<1>5. SetLaws
  <2>1. \A S : IsFiniteSet(S) =>
          Cardinality(S) \in Nat /\ \A R \in SUBSET S : IsFiniteSet(R)
    BY FS_CardinalityType, FS_Subset, Zenon
  <2>2. \A S, R : IsFiniteSet(S) /\ IsFiniteSet(R) /\ S \cap R = {} =>
          Cardinality(S \cup R) = Cardinality(S) + Cardinality(R)
    BY DisjointUnion, Zenon
  <2>3. \A S, R, x : IsFiniteSet(S) /\ (\A y : y # x => (y \in R <=> y \in S)) =>
          /\ IsFiniteSet(R)
          /\ Cardinality(S) \in Nat /\ Cardinality(R) \in Nat
          /\ Cardinality(R) = Cardinality(S) + One(x \in R) - One(x \in S)
    BY SetChange, Zenon
  <2> QED
    BY <2>1, <2>2, <2>3, Zenon DEF SetLaws
<1>6. PlaceLaws
  <2> SUFFICES ASSUME NEW x, NEW c, NEW pq, NEW lo, NEW at, NEW e,
                      x # None, Queues(c, pq, lo)
               PROVE  /\ SharedSplit(x, c, pq, lo, at, e)
                      /\ \A t \in Threads : ThreadSplit(x, c, pq, lo, at, e, t)
    BY Zenon DEF PlaceLaws
  <2>1. SharedSplit(x, c, pq, lo, at, e)
    BY SharedPlaces, Zenon DEF SharedSplit
  <2>2. ASSUME NEW t \in Threads PROVE ThreadSplit(x, c, pq, lo, at, e, t)
    BY ThreadPlaces, Zenon
  <2> QED
    BY <2>1, <2>2, Zenon
<1>7. UnitLaws
  <2> SUFFICES ASSUME NEW w \in [Threads -> Nat]
               PROVE  /\ Cardinality(UnitsIn(Threads, w)) \in Nat
                      /\ \A t \in Threads :
                           /\ Cardinality(UnitsIn(Threads \ {t}, w)) \in Nat
                           /\ Cardinality(UnitsIn(Threads, w))
                              = w[t] + Cardinality(UnitsIn(Threads \ {t}, w))
    BY Zenon DEF UnitLaws
  <2>1. \A T \in SUBSET Threads : Cardinality(UnitsIn(T, w)) \in Nat
    BY UnitsFinite, Zenon
  <2>2. \A t \in Threads : Cardinality(UnitsIn(Threads, w))
                           = w[t] + Cardinality(UnitsIn(Threads \ {t}, w))
    BY UnitsCount, Zenon
  <2>3. \A t : Threads \ {t} \in SUBSET Threads /\ Threads \in SUBSET Threads
    BY Zenon
  <2> QED
    BY <2>1, <2>2, <2>3, Zenon
<1> QED
  BY <1>1, <1>2, <1>3, <1>4, <1>5, <1>6, <1>7, Zenon DEF Counting

LEMMA PlacesNow ==
  ASSUME NEW x
  PROVE  /\ Places({x}) = PlacesOf({x}, completed_ops, private_queue, local_ops, pc, cur)
         /\ Places({x})' = PlacesOf({x}, completed_ops', private_queue', local_ops', pc', cur')
BY Zenon DEF Places, PlacesOf

LEMMA UnitsNow ==
  /\ Units = Cardinality(UnitsIn(Threads, private_work))
  /\ Units' = Cardinality(UnitsIn(Threads, private_work'))
BY Zenon DEF Units, PrivateUnits

-----------------------------------------------------------------------------
(* The ledger holds in every state.                                        *)

\* Where an entry is, and where a private unit.
LEMMA PlaceIn ==
  ASSUME NEW E, NEW q
  PROVE  q \in Places(E) <=>
           \/ \E i \in Positions(E, completed_ops) : q = <<"completed", None, i>>
           \/ \E t \in Threads : \E i \in Positions(E, private_queue[t]) :
                 q = <<"private", t, i>>
           \/ \E t \in Threads : \E i \in Positions(E, local_ops[t]) : q = <<"local", t, i>>
           \/ \E t \in Threads : pc[t] = "handler" /\ cur[t] \in E /\ q = <<"handler", t, 0>>
<1> DEFINE A == Tag("completed", None, Positions(E, completed_ops))
           B == InQueues("private", E, private_queue)
           C == InQueues("local", E, local_ops)
           D == InHandlers(E, pc, cur)
<1>1. q \in Places(E) <=> q \in A \/ q \in B \/ q \in C \/ q \in D
  BY Zenon DEF Places
<1>2. \A kind, t, S : q \in Tag(kind, t, S) <=> \E i \in S : q = <<kind, t, i>>
  BY Zenon DEF Tag
<1>3. q \in B <=> \E t \in Threads : q \in Tag("private", t, Positions(E, private_queue[t]))
  BY Zenon DEF InQueues
<1>4. q \in C <=> \E t \in Threads : q \in Tag("local", t, Positions(E, local_ops[t]))
  BY Zenon DEF InQueues
<1>5. q \in D <=> \E t \in Threads :
                     pc[t] = "handler" /\ cur[t] \in E /\ q = <<"handler", t, 0>>
  BY Zenon DEF InHandlers
<1> HIDE DEF B, C, D
<1> QED
  BY <1>1, <1>2, <1>3, <1>4, <1>5

LEMMA UnitAt ==
  ASSUME NEW q
  PROVE  q \in PrivateUnits
         <=> \E t \in Threads : \E i \in 1..private_work[t] : q = <<t, i>>
<1>1. q \in PrivateUnits <=> \E t \in Threads : q \in UnitsOf(t, private_work[t])
  BY Zenon DEF PrivateUnits, UnitsIn
<1> QED
  BY <1>1, Zenon DEF UnitsOf

LEMMA LedgerInit == Init => LedgerInv
<1> SUFFICES ASSUME Init PROVE LedgerInv
  BY Zenon
<1>0. TypeInv
  BY TypeInit, TypeGroups, Zenon
<1>1. /\ completed_ops = <<Task>> /\ outstanding_work = 0 /\ enqueued = FALSE
      /\ st = [o \in Ops |-> "new"] /\ guard = [p \in Posters |-> FALSE]
      /\ pc = [a \in Actors |-> "idle"] /\ private_queue = [t \in Threads |-> <<>>]
      /\ private_work = [t \in Threads |-> 0] /\ local_ops = [t \in Threads |-> <<>>]
  BY Zenon DEF Init
<1>2. ASSUME NEW x \in Entries PROVE Places({x}) = {}
  <2>1. x # Task
    BY SortsAssumption, Zenon DEF Entries
  <2>2. Positions({x}, completed_ops) = {}
    BY <1>1, <2>1 DEF Positions
  <2>3. \A t \in Threads : /\ Positions({x}, private_queue[t]) = {}
                           /\ Positions({x}, local_ops[t]) = {}
                           /\ pc[t] # "handler"
    BY <1>1 DEF Positions, Actors
  <2>4. \A q : q \notin Places({x})
    BY <2>2, <2>3, PlaceIn, Zenon
  <2> QED
    BY <2>4, Zenon
<1>3. EntryOK
  BY <1>1, <1>2, FS_EmptySet, Zenon DEF EntryOK, N, One, Entries
<1>4. ThreadsOK
  BY <1>1 DEF ThreadsOK, ThreadOK, One, CleanPCs, SplicePCs, Actors
<1>5. PosterOK
  BY <1>1, Zenon DEF PosterOK, HoldPCs, Actors
<1>6. Balance
  <2>1. /\ LiveOps = {} /\ FiredTimers = {} /\ CleaningUp = {} /\ Guards = {}
        /\ Claimers = {}
    BY <1>1, Zenon
       DEF LiveOps, Live, FiredTimers, CleaningUp, Guards, Claimers, ClaimPCs,
           Actors, Ops
  <2>2. PrivateUnits = {}
    <3>1. \A q : q \notin PrivateUnits
      BY <1>1, UnitAt
    <3> QED
      BY <3>1, Zenon
  <2> QED
    BY <1>1, <2>1, <2>2, FS_EmptySet DEF Balance, Units
<1> QED
  BY <1>3, <1>4, <1>5, <1>6, Zenon DEF LedgerInv

-----------------------------------------------------------------------------
(* From the ledger to what the property says.                              *)

\* The operations that have completed and whose entry is not consumed yet.
Due == {o \in Ops : st[o] \in {"queued", "resumed"}}

\* The place q holds the entry x.
Holds(q, x) ==
  \/ \E i \in DOMAIN completed_ops : q = <<"completed", None, i>> /\ completed_ops[i] = x
  \/ \E t \in Threads : \E i \in DOMAIN private_queue[t] :
        q = <<"private", t, i>> /\ private_queue[t][i] = x
  \/ \E t \in Threads : \E i \in DOMAIN local_ops[t] :
        q = <<"local", t, i>> /\ local_ops[t][i] = x
  \/ \E t \in Threads : q = <<"handler", t, 0>> /\ pc[t] = "handler" /\ cur[t] = x

LEMMA PlaceHolds ==
  ASSUME NEW E, NEW q
  PROVE  q \in Places(E) <=> \E x \in E : Holds(q, x)
<1>1. \A s, i : i \in Positions(E, s) <=> i \in DOMAIN s /\ s[i] \in E
  BY Zenon DEF Positions
<1>2. q \in Places(E) <=>
        \/ \E i \in DOMAIN completed_ops :
              completed_ops[i] \in E /\ q = <<"completed", None, i>>
        \/ \E t \in Threads : \E i \in DOMAIN private_queue[t] :
              private_queue[t][i] \in E /\ q = <<"private", t, i>>
        \/ \E t \in Threads : \E i \in DOMAIN local_ops[t] :
              local_ops[t][i] \in E /\ q = <<"local", t, i>>
        \/ \E t \in Threads : pc[t] = "handler" /\ cur[t] \in E /\ q = <<"handler", t, 0>>
  BY <1>1, PlaceIn
<1> QED
  BY <1>2, Zenon DEF Holds

\* A place holds one entry.
LEMMA PlacesApart ==
  ASSUME NEW q, NEW x, NEW y, Holds(q, x), Holds(q, y)
  PROVE  x = y
BY DEF Holds

LEMMA PlacesUnion ==
  ASSUME NEW E, NEW q
  PROVE  q \in Places(E) <=> \E x \in E : q \in Places({x})
<1>1. \A x : q \in Places({x}) <=> Holds(q, x)
  BY PlaceHolds
<1> QED
  BY <1>1, PlaceHolds, Zenon

\* The operations that are due and their places correspond.
LEMMA PlacesDue ==
  ASSUME TypeInv, LedgerInv
  PROVE  /\ IsFiniteSet(Places(Ops)) /\ IsFiniteSet(Due)
         /\ Cardinality(Places(Ops)) = Cardinality(Due)
<1>1. ASSUME NEW o \in Ops
      PROVE  /\ o \in Due => \E q : Places({o}) = {q}
             /\ o \notin Due => Places({o}) = {}
  <2>1. Queues(completed_ops, private_queue, local_ops) /\ o # None
    BY SortsAssumption DEF TypeInv, DataOK, Queues
  <2>2. IsFiniteSet(Places({o}))
    <3>1. IsFiniteSet(PlacesOf({o}, completed_ops, private_queue, local_ops, pc, cur))
      BY <2>1, SharedPlaces, Zenon
    <3> QED
      BY <3>1, PlacesNow, Zenon
  <2>3. Cardinality(Places({o})) = One(o \in Due)
    BY Zenon DEF LedgerInv, EntryOK, N, Due, One
  <2> QED
    BY <2>2, <2>3, FS_EmptySet, FS_Singleton, Zenon DEF One
<1> DEFINE g == [o \in Due |-> CHOOSE q : Places({o}) = {q}]
<1>2. \A o \in Due : Places({o}) = {g[o]}
  BY <1>1, Zenon DEF Due
<1> HIDE DEF g
<1>3. \A o \in Due : g[o] \in Places(Ops)
  BY <1>2, PlacesUnion, ZenonT(60) DEF Due
<1>4. \A o, p \in Due : g[o] = g[p] => o = p
  <2>1. ASSUME NEW o \in Due PROVE Holds(g[o], o)
    <3>1. g[o] \in Places({o})
      BY <1>2, Zenon
    <3>2. \E x \in {o} : Holds(g[o], x)
      BY <3>1, PlaceHolds
    <3> QED
      BY <3>2, Zenon
  <2> QED
    BY <2>1, PlacesApart, Zenon
<1>5. \A q \in Places(Ops) : \E o \in Due : g[o] = q
  <2> SUFFICES ASSUME NEW q \in Places(Ops) PROVE \E o \in Due : g[o] = q
    BY Zenon
  <2>1. PICK o \in Ops : q \in Places({o})
    BY PlacesUnion, Zenon
  <2> QED
    BY <1>1, <1>2, <2>1
<1>6. g \in [Due -> Places(Ops)]
  BY <1>3, Zenon DEF g
<1>7. g \in Bijection(Due, Places(Ops))
  BY <1>4, <1>5, <1>6, Zenon DEF Bijection, Injection, Surjection, IsInjective
<1>8. IsFiniteSet(Due)
  BY SortsAssumption, FS_Subset, Zenon DEF Due
<1>9. ExistsBijection(Due, Places(Ops))
  BY <1>7, Zenon DEF ExistsBijection
<1> QED
  BY <1>8, <1>9, FS_Bijection, Zenon

\* Each private unit is for an entry of the private queue or for a thread that
\* is cleaning up, so there are not more of them.
LEMMA UnitsCovered ==
  ASSUME TypeInv, LedgerInv
  PROVE  Units <= Cardinality(Places(Ops)) + Cardinality(CleaningUp)
<1> DEFINE C == {<<"cleanup", t, 0>> : t \in CleaningUp}
           h == [u \in PrivateUnits |->
                   IF u[2] <= Len(private_queue[u[1]]) THEN <<"private", u[1], u[2]>>
                   ELSE <<"cleanup", u[1], 0>>]
<1>1. IsFiniteSet(Places(Ops)) /\ Cardinality(Places(Ops)) \in Nat
  BY PlacesDue, FS_CardinalityType, Zenon
<1>2. IsFiniteSet(C) /\ Cardinality(C) = Cardinality(CleaningUp)
  <2> DEFINE f == [t \in CleaningUp |-> <<"cleanup", t, 0>>]
  <2>1. f \in Bijection(CleaningUp, C)
    BY Zenon DEF Bijection, Injection, Surjection, IsInjective
  <2>2. ExistsBijection(CleaningUp, C)
    BY <2>1, Zenon DEF ExistsBijection
  <2> QED
    BY CountingHolds, <2>2, CountsFinite, FS_Bijection
<1>3. /\ private_queue \in [Threads -> Seq(Ops)] /\ private_work \in [Threads -> Nat]
  BY Zenon DEF TypeInv, DataOK
<1>4. \A u : u \in PrivateUnits <=>
        \E t \in Threads : \E i \in 1..private_work[t] : u = <<t, i>>
  BY UnitAt, Zenon
<1>5. ASSUME NEW t \in Threads, NEW i \in 1..private_work[t]
      PROVE  /\ i \in Nat \ {0}
             /\ i <= Len(private_queue[t]) => <<"private", t, i>> \in Places(Ops)
             /\ ~(i <= Len(private_queue[t])) =>
                   /\ i = Len(private_queue[t]) + 1
                   /\ <<"cleanup", t, 0>> \in C
  <2>1. i \in Nat \ {0} /\ private_queue[t] \in Seq(Ops) /\ Len(private_queue[t]) \in Nat
        /\ i <= private_work[t] /\ private_work[t] \in Nat
    BY <1>3
  <2>2. ASSUME i <= Len(private_queue[t]) PROVE <<"private", t, i>> \in Places(Ops)
    <3>1. i \in Positions(Ops, private_queue[t])
      BY <2>1, <2>2 DEF Positions
    <3> QED
      BY <3>1, PlaceIn
  <2>3. ASSUME ~(i <= Len(private_queue[t]))
        PROVE  i = Len(private_queue[t]) + 1 /\ t \in CleaningUp
    <3>1. private_work[t] <= Len(private_queue[t]) + One(pc[t] \in CleanPCs)
      BY Zenon DEF LedgerInv, ThreadsOK, ThreadOK
    <3>2. pc[t] \in CleanPCs /\ One(pc[t] \in CleanPCs) = 1
      <4>1. pc[t] \notin CleanPCs => One(pc[t] \in CleanPCs) = 0
        BY Zenon DEF One
      <4>2. pc[t] \in CleanPCs
        BY <2>1, <2>3, <3>1, <4>1
      <4> QED
        BY <4>2, Zenon DEF One
    <3> QED
      BY <2>1, <2>3, <3>1, <3>2 DEF CleaningUp, CleanPCs
  <2> QED
    BY <2>1, <2>2, <2>3
<1> DEFINE T == Places(Ops) \cup C
<1>6. \A u \in PrivateUnits : h[u] \in T
  BY <1>4, <1>5
<1>7. \A u, w \in PrivateUnits : h[u] = h[w] => u = w
  <2> SUFFICES ASSUME NEW u \in PrivateUnits, NEW w \in PrivateUnits, h[u] = h[w]
               PROVE  u = w
    BY Zenon
  <2>1. PICK t \in Threads : \E i \in 1..private_work[t] : u = <<t, i>>
    BY <1>4, Zenon
  <2>2. PICK s \in Threads : \E j \in 1..private_work[s] : w = <<s, j>>
    BY <1>4, Zenon
  <2>3. PICK i \in 1..private_work[t] : u = <<t, i>>
    BY <2>1, Zenon
  <2>4. PICK j \in 1..private_work[s] : w = <<s, j>>
    BY <2>2, Zenon
  <2>5. /\ h[u] = IF i <= Len(private_queue[t]) THEN <<"private", t, i>>
                  ELSE <<"cleanup", t, 0>>
        /\ h[w] = IF j <= Len(private_queue[s]) THEN <<"private", s, j>>
                  ELSE <<"cleanup", s, 0>>
    BY <2>3, <2>4, Zenon
  <2> HIDE DEF h
  <2> QED
    BY <1>5, <2>3, <2>4, <2>5
<1>8. h \in [PrivateUnits -> T]
  BY <1>6, Zenon
<1> HIDE DEF h
<1>9. h \in Injection(PrivateUnits, T)
  BY <1>7, <1>8, Zenon DEF Injection, IsInjective
<1> HIDE DEF T, C
<1>10. IsFiniteSet(T)
       /\ Cardinality(T) = Cardinality(Places(Ops)) + Cardinality(C)
                            - Cardinality(Places(Ops) \cap C)
  BY <1>1, <1>2, FS_Union DEF T
<1>11. Cardinality(Places(Ops) \cap C) \in Nat
  BY <1>1, FS_Intersection, FS_CardinalityType, Zenon
<1>12. Cardinality(PrivateUnits) <= Cardinality(T) /\ Cardinality(PrivateUnits) \in Nat
       /\ Cardinality(T) \in Nat
  BY <1>9, <1>10, FS_Injection, FS_CardinalityType
<1> QED
  BY <1>1, <1>2, <1>10, <1>11, <1>12, CountingHolds, CountsNat DEF Units

LEMMA LedgerSuffices ==
  ASSUME TypeInv, LedgerInv
  PROVE  QueueLedger
<1>1. TypeOK
  BY TypeGroups, Zenon
<1>2. OneEntryEach
  BY Zenon DEF LedgerInv, EntryOK, N, One, OneEntryEach
<1>3. WorkLedger
  <2> DEFINE Held == {o \in Ops : st[o] \in {"pending", "posting"}}
  <2>1. LiveOps = Held \cup Due /\ Held \cap Due = {}
    BY Zenon DEF LiveOps, Live, Due
  <2>2. IsFiniteSet(Held) /\ IsFiniteSet(Due)
    BY SortsAssumption, FS_Subset DEF Due
  <2>3. Cardinality(Held) \in Nat /\ Cardinality(Due) \in Nat
    BY <2>2, FS_CardinalityType, Zenon
  <2> HIDE DEF Held
  <2>4. Cardinality(LiveOps) = Cardinality(Held) + Cardinality(Due)
    BY <2>1, <2>2, <2>3, FS_Union, FS_EmptySet
  <2>5. Cardinality(Places(Ops)) = Cardinality(Due)
    BY PlacesDue, Zenon
  <2>6. outstanding_work + Units
        = Cardinality(LiveOps) + Cardinality(FiredTimers) + Cardinality(CleaningUp)
          + Cardinality(Guards) + Cardinality(Claimers)
    BY Zenon DEF LedgerInv, Balance
  <2>7. Units <= Cardinality(Places(Ops)) + Cardinality(CleaningUp)
    BY UnitsCovered, Zenon
  <2>8. outstanding_work \in Int /\ Units \in Nat
    BY UnitsNow, UnitsFinite, Zenon DEF TypeInv, DataOK
  <2>9. outstanding_work >= 0
    BY <2>3, <2>4, <2>5, <2>6, <2>7, <2>8, CountingHolds, CountsNat
  <2>10. outstanding_work + Units
         = Cardinality(Held) + Cardinality(FiredTimers) + Cardinality(Places(Ops))
           + Cardinality(CleaningUp) + Cardinality(Guards) + Cardinality(Claimers)
    BY <2>3, <2>4, <2>5, <2>6, <2>8, CountingHolds, CountsNat
  <2> QED
    BY <2>9, <2>10
       DEF WorkLedger, Units, Held, FiredTimers, Guards, Claimers, ClaimPCs
<1> QED
  BY <1>1, <1>2, <1>3, Zenon DEF QueueLedger

\* The books of the scheduler balance for any number of threads, posters and
\* operations: splicing the private queues, run_task(), invoke_deferred_io()
\* and cancellation neither lose nor duplicate a completion, and
\* outstanding_work_ with the unflushed private counts is what is really
\* outstanding, so it never drops below zero.
THEOREM BooksBalance == Spec => []QueueLedger
<1>1. Init => TypeInv /\ LedgerInv
  BY TypeInit, TypeGroups, LedgerInit, Zenon
<1>2. TypeInv /\ LedgerInv /\ [Next]_vars => (TypeInv /\ LedgerInv)'
  BY TypeStep, LedgerStep, CountingHolds, Zenon
<1>3. TypeInv /\ LedgerInv => QueueLedger
  BY LedgerSuffices, Zenon
<1> QED
  BY <1>1, <1>2, <1>3, PTL DEF Spec
=============================================================================
