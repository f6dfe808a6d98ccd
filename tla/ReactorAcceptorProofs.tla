------------------------ MODULE ReactorAcceptorProofs ------------------------
(***************************************************************************)
(* The acceptor's ledger, for any number of connections, awaits and calls. *)
(*                                                                         *)
(* AcceptLedger is not inductive: that no accept stays parked over a       *)
(* backlog rests on where the edge of the last arrival is (EdgeOK), that a *)
(* cancelled operation leaves its slot on who is about to claim it         *)
(* (StopOK), and the fate of the connections on which phases of an accept  *)
(* may hold a descriptor or a peer (HeldOK).                               *)
(***************************************************************************)
EXTENDS ReactorAcceptor, FiniteSetTheorems, TLAPS

Coros == {"idle", "suspended", "resuming"} \cup Starting
Cbs == {"none", "armed", "stale"} \cup InCallback
OpRec == [coro : Coros, cb : Cbs, tok : Tokens, cancelled : BOOLEAN, errn : BOOLEAN,
          held : BOOLEAN, peer : BOOLEAN, inline : BOOLEAN]
Fates == {"left", "delivered", "closed", "orphaned"}
Calls == {"none", "cancel", "close", "release", "open", "destroy"}

AccTypes ==
  /\ aop \in [AOps -> OpRec]
  /\ aslot \subseteq AOps /\ aclaimed \subseteq AOps
  /\ aqueued \in [AOps -> Nat] /\ awork \in Nat
  /\ has_service \in BOOLEAN /\ ready \in BOOLEAN
  /\ backlog \in Nat /\ arrived \in Nat /\ fate \in [Fates -> Nat]
  /\ acall \in [name : Calls, at : {"none", "claim", "post", "gone"}]

\* Operation k is in one place if it is suspended, and in none otherwise.
PlaceOK(k) ==
  One(k \in aslot) + aqueued[k] + One(aop[k].cb = "post") + One(k \in aclaimed)
    = One(aop[k].coro = "suspended")

\* Which phases of an operation may hold an accepted descriptor, a peer socket
\* or an inline result.
HeldOK(k) ==
  /\ aop[k].coro # "suspended" => ~aop[k].held
  /\ aop[k].coro # "resuming" => ~aop[k].peer /\ ~aop[k].inline
  /\ k \in aslot => ~aop[k].held
  /\ k # "accept" => ~aop[k].held /\ ~aop[k].peer

\* A parked operation that was told to stop is about to be claimed.
StopOK(k) ==
  k \in aslot /\ aop[k].cancelled => aop[k].cb = "claim" \/ acall.at = "claim"

OpOK(k) == PlaceOK(k) /\ HeldOK(k) /\ StopOK(k)

\* The operations whose unit of work is counted.
Counted(o) == o.coro = "suspended" \/ (o.coro = "resuming" /\ ~o.inline)
Busy == {k \in AOps : Counted(aop[k])}
WorkOK == awork = Cardinality(Busy)

\* The edge of the last arrival is still to come for an accept that is parked,
\* or is about to park and will not try again.
EdgeOK ==
  /\ "accept" \in aslot /\ backlog > 0 => "r" \in epoll \cup aevents
  /\ aop["accept"].coro = "park" /\ backlog > 0 /\ ~ready => "r" \in epoll \cup aevents
  /\ backlog > 0 => afile = "listening"

\* A call claims operations only between its two critical sections, and no
\* await begins while it lasts.
CallOK ==
  /\ acall.at # "post" => aclaimed = {}
  /\ acall # NoCall => \A k \in AOps : aop[k].coro \notin Starting

AccInv ==
  /\ AccTypes
  /\ \A k \in AOps : OpOK(k)
  /\ WorkOK
  /\ ConnsFate
  /\ EdgeOK
  /\ CallOK

-----------------------------------------------------------------------------
(* Operations and their counting.                                          *)

\* The operation objects are finitely many.
LEMMA OpsFinite == IsFiniteSet(AOps) /\ "accept" \in AOps
<1>1. IsFiniteSet({"accept"})
  BY FS_Singleton, Zenon
<1>2. IsFiniteSet({"accept"} \cup {"wait_read"})
  BY <1>1, FS_AddElement, Zenon
<1>3. IsFiniteSet(({"accept"} \cup {"wait_read"}) \cup {"wait_write"})
  BY <1>2, FS_AddElement, Zenon
<1>4. IsFiniteSet((({"accept"} \cup {"wait_read"}) \cup {"wait_write"}) \cup {"wait_error"})
  BY <1>3, FS_AddElement, Zenon
<1>5. AOps = (({"accept"} \cup {"wait_read"}) \cup {"wait_write"}) \cup {"wait_error"}
  BY Zenon DEF AOps
<1> QED BY <1>4, <1>5, Zenon DEF AOps

\* A step that changes no operation but k, and no call.
Only(k) ==
  /\ acall' = acall
  /\ \A j \in AOps \ {k} :
       /\ aop'[j] = aop[j] /\ aqueued'[j] = aqueued[j]
       /\ j \in aslot' <=> j \in aslot
       /\ j \in aclaimed' <=> j \in aclaimed

\* The work count follows operation k.
WorkStep(k) == awork' = awork + One(Counted(aop'[k])) - One(Counted(aop[k]))

\* A step of one operation whose count follows it keeps the count right.
LEMMA WorkFollows ==
  ASSUME AccTypes, WorkOK, NEW k \in AOps, Only(k), WorkStep(k)
  PROVE  WorkOK' /\ awork' \in Nat
<1>1. Busy \subseteq AOps /\ IsFiniteSet(Busy) /\ Cardinality(Busy) \in Nat
  BY OpsFinite, FS_Subset, FS_CardinalityType, Zenon DEF Busy
<1>2. Busy' = {j \in AOps : Counted(aop'[j])}
  BY Zenon DEF Busy, Counted
<1>3. CASE Counted(aop[k]) /\ ~Counted(aop'[k])
  <2>1. k \in Busy /\ Busy' = Busy \ {k}
    BY <1>2, <1>3, Zenon DEF Busy, Only
  <2>2. Cardinality(Busy') = Cardinality(Busy) - 1 /\ Cardinality(Busy) # 0
    BY <1>1, <2>1, FS_RemoveElement, FS_EmptySet, Zenon
  <2> QED BY <1>1, <1>3, <2>2 DEF WorkOK, WorkStep, One
<1>4. CASE ~Counted(aop[k]) /\ Counted(aop'[k])
  <2>1. k \notin Busy /\ Busy' = Busy \cup {k}
    BY <1>2, <1>4, Zenon DEF Busy, Only
  <2>2. Cardinality(Busy') = Cardinality(Busy) + 1
    BY <1>1, <2>1, FS_AddElement, Zenon
  <2> QED BY <1>1, <1>4, <2>2 DEF WorkOK, WorkStep, One
<1>5. CASE Counted(aop[k]) <=> Counted(aop'[k])
  <2>1. Busy' = Busy
    BY <1>2, <1>5, Zenon DEF Busy, Only
  <2> QED BY <1>1, <1>5, <2>1 DEF WorkOK, WorkStep, One
<1> QED BY <1>3, <1>4, <1>5, Zenon

\* What a step leaves alone stays in order.
LEMMA OthersKept ==
  ASSUME NEW k \in AOps, Only(k), \A j \in AOps : OpOK(j), OpOK(k)'
  PROVE  \A j \in AOps : OpOK(j)'
<1> SUFFICES ASSUME NEW j \in AOps \ {k} PROVE OpOK(j)'
  BY Zenon
<1>1. OpOK(j)
  BY Zenon
<1>2. PlaceOK(j)'
  BY <1>1 DEF OpOK, Only, PlaceOK
<1>3. HeldOK(j)'
  BY <1>1, Zenon DEF OpOK, Only, HeldOK
<1>4. StopOK(j)'
  BY <1>1, Zenon DEF OpOK, Only, StopOK
<1> QED BY <1>2, <1>3, <1>4, Zenon DEF OpOK

\* Replacing one operation object.
LEMMA OpReplaced ==
  ASSUME AccTypes, NEW k \in AOps, NEW n \in OpRec, aop' = [aop EXCEPT ![k] = n]
  PROVE  /\ aop' \in [AOps -> OpRec] /\ aop'[k] = n
         /\ \A j \in AOps \ {k} : aop'[j] = aop[j]
BY Zenon DEF AccTypes

\* A step of one operation keeps the invariant if the operation, the fate of
\* the connections, the edge and the call stay in order.
LEMMA OneOpKeeps ==
  ASSUME AccInv, AccTypes', NEW k \in AOps, Only(k), OpOK(k)', WorkStep(k),
         ConnsFate', EdgeOK', CallOK'
  PROVE  AccInv'
BY WorkFollows, OthersKept, Zenon DEF AccInv

-----------------------------------------------------------------------------
(* accept() and wait().                                                    *)

\* Between reset() and start() the operation keeps only an old callback.
LEMMA AcceptResetKeeps ==
  ASSUME AccInv, NEW t \in Tokens, AcceptReset(t)
  PROVE  AccInv'
<1> DEFINE k == "accept"
           n == [FreshOp EXCEPT !.coro = "reset", !.tok = t, !.cb = aop[k].cb]
<1>0. AccTypes /\ OpOK(k) /\ k \in AOps
  BY OpsFinite, Zenon DEF AccInv
<1>1. n \in OpRec /\ n.coro = "reset" /\ n.cb = aop[k].cb
      /\ ~n.held /\ ~n.peer /\ ~n.inline
  BY <1>0, Zenon DEF AccTypes, OpRec, FreshOp, Coros, Starting
<1>2. aop' = [aop EXCEPT ![k] = n] /\ aop[k].coro = "idle" /\ acall = NoCall
  BY Zenon DEF AcceptReset, MayBegin, AtRest
<1> HIDE DEF n
<1>3. aop' \in [AOps -> OpRec] /\ aop'[k] = n /\ \A j \in AOps \ {k} : aop'[j] = aop[j]
  BY <1>0, <1>1, <1>2, OpReplaced, Zenon
<1>4. UNCHANGED <<has_service, aslot, aqueued, awork, ready, aevents, acall, aclaimed, afile,
                  backlog, epoll, arrived, fate>>
  BY Zenon DEF AcceptReset, accDesc, accCall, accKern
<1>5. AccTypes'
  BY <1>0, <1>3, <1>4, Zenon DEF AccTypes
<1>6. Only(k) /\ WorkStep(k)
  BY <1>0, <1>1, <1>2, <1>3, <1>4 DEF Only, WorkStep, Counted, One, AccTypes
<1>7. OpOK(k)'
  BY <1>0, <1>1, <1>2, <1>3, <1>4
     DEF OpOK, PlaceOK, HeldOK, StopOK, One, AccTypes
<1>8. ConnsFate'
  BY <1>0, <1>1, <1>2, <1>3, <1>4, Zenon
     DEF AccInv, ConnsFate, OpOK, HeldOK, One
<1>9. EdgeOK' /\ CallOK'
  BY <1>1, <1>2, <1>3, <1>4, Zenon DEF AccInv, EdgeOK, CallOK
<1> QED BY <1>0, <1>5, <1>6, <1>7, <1>8, <1>9, OneOpKeeps, Zenon

\* op.start() arms the callback, or finds the token stopped.
LEMMA AcceptStartKeeps ==
  ASSUME AccInv, AcceptStart
  PROVE  AccInv'
<1> DEFINE k == "accept"
<1> DEFINE c == aop[k].cancelled \/ aop[k].tok = "stopped"
<1>a. c \in BOOLEAN
  BY Zenon
<1>0. AccTypes /\ OpOK(k) /\ k \in AOps
  BY OpsFinite, Zenon DEF AccInv
<1>b. aop[k].coro = "reset" /\ aop[k].cb # "post"
  BY Zenon DEF AcceptStart, InCallback
<1> DEFINE n == [aop[k] EXCEPT !.coro = "try", !.tok = aop[k].tok, !.cancelled = c,
                               !.cb = IF aop[k].tok = "live" THEN "armed" ELSE "none"]
<1>2. aop' = [aop EXCEPT ![k] = n]
  BY <1>0, Zenon DEF AcceptStart, Armed, AccTypes, OpRec
<1> HIDE DEF c
<1>1. n \in OpRec /\ n.coro = "try" /\ n.cb \in {"armed", "none"}
      /\ n.held = aop[k].held /\ n.peer = aop[k].peer /\ n.inline = aop[k].inline
  BY <1>0, <1>a, <1>b, ZenonT(60)
     DEF AccTypes, OpRec, Coros, Cbs, Starting, InCallback, Tokens
<1> HIDE DEF n
<1>3. aop' \in [AOps -> OpRec] /\ aop'[k] = n /\ \A j \in AOps \ {k} : aop'[j] = aop[j]
  BY <1>0, <1>1, <1>2, OpReplaced, Zenon
<1>4. UNCHANGED <<has_service, aslot, aqueued, awork, ready, aevents, acall, aclaimed,
                  afile, backlog, epoll, arrived, fate>>
  BY Zenon DEF AcceptStart, accDesc, accCall, accKern, accOps
<1>5. AccTypes'
  BY <1>0, <1>b, <1>3, <1>4, Zenon DEF AccTypes
<1>6. Only(k) /\ WorkStep(k)
  BY <1>0, <1>b, <1>1, <1>3, <1>4
     DEF Only, WorkStep, Counted, One, AccTypes, OpOK, HeldOK
<1>7. OpOK(k)'
  BY <1>0, <1>b, <1>1, <1>3, <1>4
     DEF OpOK, PlaceOK, HeldOK, StopOK, One, AccTypes
<1>8. ConnsFate'
  BY <1>0, <1>b, <1>1, <1>3, <1>4, Zenon
     DEF AccInv, ConnsFate, OpOK, HeldOK, One, AccTypes
<1>9. EdgeOK' /\ CallOK'
  BY <1>0, <1>b, <1>1, <1>3, <1>4, Zenon
     DEF AccInv, EdgeOK, CallOK, AccTypes, OpOK, PlaceOK, One, Starting
<1> QED BY <1>0, <1>5, <1>6, <1>7, <1>8, <1>9, OneOpKeeps, Zenon

\* A speculative accept that is resumed inline has become a peer or was closed.
LEMMA AcceptInlineKeeps ==
  ASSUME AccInv, AcceptInline
  PROVE  AccInv'
<1> DEFINE k == "accept"
<1> DEFINE e == ~has_service
<1>a. e \in BOOLEAN
  BY Zenon
<1>0. AccTypes /\ OpOK(k) /\ k \in AOps
  BY OpsFinite, Zenon DEF AccInv
<1>b. /\ aop[k].coro = "try" /\ backlog > 0 /\ backlog' = backlog - 1 /\ ready' = FALSE
      /\ fate' = [fate EXCEPT !["closed"] = @ + (IF has_service THEN 0 ELSE 1)]
  BY Zenon DEF AcceptInline
<1> DEFINE n == [aop[k] EXCEPT !.coro = "resuming", !.inline = TRUE, !.peer = has_service, !.errn = e]
<1>2. aop' = [aop EXCEPT ![k] = n]
  BY <1>0, Zenon DEF AcceptInline, AccTypes, OpRec
<1> HIDE DEF e
<1>1. n \in OpRec /\ n.coro = "resuming" /\ n.cb = aop[k].cb /\ n.inline
      /\ n.held = aop[k].held /\ n.peer = has_service
  BY <1>0, <1>a, <1>b, ZenonT(60)
     DEF AccTypes, OpRec, Coros, Cbs, Starting, InCallback, Tokens
<1> HIDE DEF n
<1>3. aop' \in [AOps -> OpRec] /\ aop'[k] = n /\ \A j \in AOps \ {k} : aop'[j] = aop[j]
  BY <1>0, <1>1, <1>2, OpReplaced, Zenon
<1>4. UNCHANGED <<has_service, aslot, aqueued, awork, aevents, acall, aclaimed, afile,
                  epoll, arrived>>
  BY Zenon DEF AcceptInline, accDesc, accCall, accKern, accOps
<1>p. fate' \in [Fates -> Nat] /\ backlog' \in Nat
  BY <1>0, <1>b DEF AccTypes, Fates
<1>5. AccTypes'
  BY <1>0, <1>b, <1>3, <1>4, <1>p, Zenon DEF AccTypes
<1>6. Only(k) /\ WorkStep(k)
  BY <1>0, <1>b, <1>1, <1>3, <1>4
     DEF Only, WorkStep, Counted, One, AccTypes, OpOK, HeldOK
<1>7. OpOK(k)'
  BY <1>0, <1>b, <1>1, <1>3, <1>4
     DEF OpOK, PlaceOK, HeldOK, StopOK, One, AccTypes
<1>8. ConnsFate'
  BY <1>0, <1>b, <1>1, <1>3, <1>4
     DEF AccInv, ConnsFate, OpOK, HeldOK, One, AccTypes, Fates
<1>9. EdgeOK' /\ CallOK'
  BY <1>0, <1>b, <1>1, <1>3, <1>4, Zenon
     DEF AccInv, EdgeOK, CallOK, AccTypes, OpOK, PlaceOK, One, Starting
<1> QED BY <1>0, <1>5, <1>6, <1>7, <1>8, <1>9, OneOpKeeps, Zenon

\* EAGAIN: no connection is in the accept queue.
LEMMA AcceptBlocksKeeps ==
  ASSUME AccInv, AcceptBlocks
  PROVE  AccInv'
<1> DEFINE k == "accept"
<1>0. AccTypes /\ OpOK(k) /\ k \in AOps
  BY OpsFinite, Zenon DEF AccInv
<1>b. aop[k].coro = "try" /\ backlog = 0 /\ afile = "listening"
  BY Zenon DEF AcceptBlocks
<1> DEFINE n == [aop[k] EXCEPT !.coro = "park"]
<1>2. aop' = [aop EXCEPT ![k] = n]
  BY <1>0, Zenon DEF AcceptBlocks, AccTypes, OpRec
<1>1. n \in OpRec /\ n.coro = "park" /\ n.cb = aop[k].cb
      /\ n.held = aop[k].held /\ n.peer = aop[k].peer /\ n.inline = aop[k].inline
  BY <1>0, <1>b DEF AccTypes, OpRec, Coros, Cbs, Starting, InCallback, Tokens
<1> HIDE DEF n
<1>3. aop' \in [AOps -> OpRec] /\ aop'[k] = n /\ \A j \in AOps \ {k} : aop'[j] = aop[j]
  BY <1>0, <1>1, <1>2, OpReplaced, Zenon
<1>4. UNCHANGED <<has_service, aslot, aqueued, awork, ready, aevents, acall, aclaimed,
                  afile, backlog, epoll, arrived, fate>>
  BY Zenon DEF AcceptBlocks, accDesc, accCall, accKern, accOps
<1>5. AccTypes'
  BY <1>0, <1>b, <1>3, <1>4, Zenon DEF AccTypes
<1>6. Only(k) /\ WorkStep(k)
  BY <1>0, <1>b, <1>1, <1>3, <1>4
     DEF Only, WorkStep, Counted, One, AccTypes, OpOK, HeldOK
<1>7. OpOK(k)'
  BY <1>0, <1>b, <1>1, <1>3, <1>4
     DEF OpOK, PlaceOK, HeldOK, StopOK, One, AccTypes
<1>8. ConnsFate'
  BY <1>0, <1>b, <1>1, <1>3, <1>4, Zenon
     DEF AccInv, ConnsFate, OpOK, HeldOK, One, AccTypes
<1>9. EdgeOK' /\ CallOK'
  BY <1>0, <1>b, <1>1, <1>3, <1>4
     DEF AccInv, EdgeOK, CallOK, AccTypes, OpOK, PlaceOK, One, Starting
<1> QED BY <1>0, <1>5, <1>6, <1>7, <1>8, <1>9, OneOpKeeps, Zenon

\* A stop request runs the callback that is armed.
LEMMA TokenStopsKeeps ==
  ASSUME AccInv, NEW k \in AOps, TokenStops(k)
  PROVE  AccInv'
<1> DEFINE m == IF aop[k].cb = "armed" THEN "claim" ELSE aop[k].cb
           c == aop[k].cancelled \/ aop[k].cb = "armed"
<1>a. c \in BOOLEAN
  BY Zenon
<1>0. AccTypes /\ OpOK(k) /\ k \in AOps
  BY OpsFinite, Zenon DEF AccInv
<1>b. (c <=> aop[k].cancelled \/ aop[k].cb = "armed")
      /\ m = (IF aop[k].cb = "armed" THEN "claim" ELSE aop[k].cb)
  BY Zenon DEF c, m
<1> DEFINE n == [aop[k] EXCEPT !.tok = "stopped", !.cb = m, !.cancelled = c]
<1>2. aop' = [aop EXCEPT ![k] = n]
  BY <1>0, Zenon DEF TokenStops, AccTypes, OpRec
<1>m. m \in Cbs
  BY <1>0, Zenon DEF AccTypes, OpRec, Cbs, InCallback
<1> HIDE DEF c, m
<1>1. n \in OpRec /\ n.coro = aop[k].coro /\ n.cb = m /\ n.cancelled = c
      /\ n.held = aop[k].held /\ n.peer = aop[k].peer /\ n.inline = aop[k].inline
  BY <1>0, <1>a, <1>m, ZenonT(60)
     DEF AccTypes, OpRec, Coros, Cbs, Starting, InCallback, Tokens
<1> HIDE DEF n
<1>3. aop' \in [AOps -> OpRec] /\ aop'[k] = n /\ \A j \in AOps \ {k} : aop'[j] = aop[j]
  BY <1>0, <1>1, <1>2, OpReplaced, Zenon
<1>4. UNCHANGED <<has_service, aslot, aqueued, awork, ready, aevents, acall, aclaimed,
                  afile, backlog, epoll, arrived, fate>>
  BY Zenon DEF TokenStops, accDesc, accCall, accKern, accOps
<1>c. \A j \in AOps : aop'[j].coro = aop[j].coro /\ aop'[j].held = aop[j].held /\ aop'[j].peer = aop[j].peer
  BY <1>1, <1>3, Zenon
<1>5. AccTypes'
  BY <1>0, <1>b, <1>3, <1>4, Zenon DEF AccTypes
<1>6. Only(k) /\ WorkStep(k)
  BY <1>0, <1>b, <1>1, <1>3, <1>4
     DEF Only, WorkStep, Counted, One, AccTypes, OpOK, HeldOK
<1>7. OpOK(k)'
  BY <1>0, <1>b, <1>1, <1>3, <1>4
     DEF OpOK, PlaceOK, HeldOK, StopOK, One, AccTypes
<1>8. ConnsFate'
  BY <1>c, <1>4, OpsFinite, Zenon DEF AccInv, ConnsFate
<1>9. EdgeOK' /\ CallOK'
  BY <1>0, <1>b, <1>c, <1>4, OpsFinite, Zenon
     DEF AccInv, EdgeOK, CallOK, AccTypes
<1> QED BY <1>0, <1>5, <1>6, <1>7, <1>8, <1>9, OneOpKeeps, Zenon

\* A stop request of an earlier await reaches the operation as it is now.
LEMMA StaleStopKeeps ==
  ASSUME AccInv, StaleStop
  PROVE  AccInv'
<1> DEFINE k == "accept"
<1>0. AccTypes /\ OpOK(k) /\ k \in AOps
  BY OpsFinite, Zenon DEF AccInv
<1>b. aop[k].cb = "stale"
  BY Zenon DEF StaleStop
<1> DEFINE n == [aop[k] EXCEPT !.cancelled = TRUE,
                               !.cb = IF aop[k].coro = "reset" THEN "none" ELSE "claim"]
<1>2. aop' = [aop EXCEPT ![k] = n]
  BY <1>0, Zenon DEF StaleStop, AccTypes, OpRec
<1>1. n \in OpRec /\ n.coro = aop[k].coro /\ n.cb = (IF aop[k].coro = "reset" THEN "none" ELSE "claim")
      /\ n.held = aop[k].held /\ n.peer = aop[k].peer /\ n.inline = aop[k].inline
  BY <1>0, <1>b, ZenonT(60)
     DEF AccTypes, OpRec, Coros, Cbs, Starting, InCallback, Tokens
<1> HIDE DEF n
<1>3. aop' \in [AOps -> OpRec] /\ aop'[k] = n /\ \A j \in AOps \ {k} : aop'[j] = aop[j]
  BY <1>0, <1>1, <1>2, OpReplaced, Zenon
<1>4. UNCHANGED <<has_service, aslot, aqueued, awork, ready, aevents, acall, aclaimed,
                  afile, backlog, epoll, arrived, fate>>
  BY Zenon DEF StaleStop, accDesc, accCall, accKern, accOps
<1>5. AccTypes'
  BY <1>0, <1>b, <1>3, <1>4, Zenon DEF AccTypes
<1>6. Only(k) /\ WorkStep(k)
  BY <1>0, <1>b, <1>1, <1>3, <1>4
     DEF Only, WorkStep, Counted, One, AccTypes, OpOK, HeldOK
<1>7. OpOK(k)'
  BY <1>0, <1>b, <1>1, <1>3, <1>4
     DEF OpOK, PlaceOK, HeldOK, StopOK, One, AccTypes
<1>8. ConnsFate'
  BY <1>0, <1>b, <1>1, <1>3, <1>4, Zenon
     DEF AccInv, ConnsFate, OpOK, HeldOK, One, AccTypes
<1>9. EdgeOK' /\ CallOK'
  BY <1>0, <1>b, <1>1, <1>3, <1>4
     DEF AccInv, EdgeOK, CallOK, AccTypes, OpOK, PlaceOK, One, Starting
<1> QED BY <1>0, <1>5, <1>6, <1>7, <1>8, <1>9, OneOpKeeps, Zenon

\* cancel_single_op claims the operation if it is parked.
LEMMA CancelSingleOpKeeps ==
  ASSUME AccInv, NEW k \in AOps, CancelSingleOp(k)
  PROVE  AccInv'
<1>0. AccTypes /\ OpOK(k) /\ k \in AOps
  BY OpsFinite, Zenon DEF AccInv
<1>b. aop[k].cb = "claim" /\ aslot' = aslot \ {k}
  BY Zenon DEF CancelSingleOp, Unparked
<1> DEFINE n == [aop[k] EXCEPT !.cb = IF k \in aslot THEN "post" ELSE "none"]
<1>2. aop' = [aop EXCEPT ![k] = n]
  BY <1>0, Zenon DEF CancelSingleOp, AccTypes, OpRec
<1>1. n \in OpRec /\ n.coro = aop[k].coro /\ n.cb = (IF k \in aslot THEN "post" ELSE "none")
      /\ n.held = aop[k].held /\ n.peer = aop[k].peer /\ n.inline = aop[k].inline
  BY <1>0, <1>b DEF AccTypes, OpRec, Coros, Cbs, Starting, InCallback, Tokens
<1> HIDE DEF n
<1>3. aop' \in [AOps -> OpRec] /\ aop'[k] = n /\ \A j \in AOps \ {k} : aop'[j] = aop[j]
  BY <1>0, <1>1, <1>2, OpReplaced, Zenon
<1>4. UNCHANGED <<has_service, aqueued, awork, ready, aevents, acall, aclaimed, afile,
                  backlog, epoll, arrived, fate>>
  BY Zenon DEF CancelSingleOp, accDesc, accCall, accKern, accOps
<1>c. \A j \in AOps : aop'[j].coro = aop[j].coro /\ aop'[j].held = aop[j].held /\ aop'[j].peer = aop[j].peer
  BY <1>1, <1>3, Zenon
<1>5. AccTypes'
  BY <1>0, <1>b, <1>3, <1>4, Zenon DEF AccTypes
<1>6. Only(k) /\ WorkStep(k)
  BY <1>0, <1>b, <1>1, <1>3, <1>4
     DEF Only, WorkStep, Counted, One, AccTypes, OpOK, HeldOK
<1>7. OpOK(k)'
  BY <1>0, <1>b, <1>1, <1>3, <1>4
     DEF OpOK, PlaceOK, HeldOK, StopOK, One, AccTypes
<1>8. ConnsFate'
  BY <1>c, <1>4, OpsFinite, Zenon DEF AccInv, ConnsFate
<1>9. EdgeOK' /\ CallOK'
  BY <1>0, <1>b, <1>c, <1>4, OpsFinite, Zenon
     DEF AccInv, EdgeOK, CallOK, AccTypes
<1> QED BY <1>0, <1>5, <1>6, <1>7, <1>8, <1>9, OneOpKeeps, Zenon

\* It posts what it claimed.
LEMMA CancelPostsKeeps ==
  ASSUME AccInv, NEW k \in AOps, CancelPosts(k)
  PROVE  AccInv'
<1>0. AccTypes /\ OpOK(k) /\ k \in AOps
  BY OpsFinite, Zenon DEF AccInv
<1>b. aop[k].cb = "post" /\ aqueued' = [aqueued EXCEPT ![k] = @ + 1]
  BY Zenon DEF CancelPosts, Posted
<1> DEFINE n == [aop[k] EXCEPT !.cb = "none"]
<1>2. aop' = [aop EXCEPT ![k] = n]
  BY <1>0, Zenon DEF CancelPosts, AccTypes, OpRec
<1>1. n \in OpRec /\ n.coro = aop[k].coro /\ n.cb = "none"
      /\ n.held = aop[k].held /\ n.peer = aop[k].peer /\ n.inline = aop[k].inline /\ n.cancelled = aop[k].cancelled
  BY <1>0, <1>b DEF AccTypes, OpRec, Coros, Cbs, Starting, InCallback, Tokens
<1> HIDE DEF n
<1>3. aop' \in [AOps -> OpRec] /\ aop'[k] = n /\ \A j \in AOps \ {k} : aop'[j] = aop[j]
  BY <1>0, <1>1, <1>2, OpReplaced, Zenon
<1>4. UNCHANGED <<has_service, aslot, awork, ready, aevents, acall, aclaimed, afile,
                  backlog, epoll, arrived, fate>>
  BY Zenon DEF CancelPosts, accDesc, accCall, accKern, accOps
<1>p. aqueued' \in [AOps -> Nat]
  BY <1>0, <1>b DEF AccTypes
<1>c. \A j \in AOps : aop'[j].coro = aop[j].coro /\ aop'[j].held = aop[j].held /\ aop'[j].peer = aop[j].peer
  BY <1>1, <1>3, Zenon
<1>5. AccTypes'
  BY <1>0, <1>b, <1>3, <1>4, <1>p, Zenon DEF AccTypes
<1>6. Only(k) /\ WorkStep(k)
  BY <1>0, <1>b, <1>1, <1>3, <1>4
     DEF Only, WorkStep, Counted, One, AccTypes, OpOK, HeldOK
<1>7. OpOK(k)'
  BY <1>0, <1>b, <1>1, <1>3, <1>4
     DEF OpOK, PlaceOK, HeldOK, StopOK, One, AccTypes
<1>8. ConnsFate'
  BY <1>c, <1>4, OpsFinite, Zenon DEF AccInv, ConnsFate
<1>9. EdgeOK' /\ CallOK'
  BY <1>0, <1>b, <1>c, <1>4, OpsFinite, Zenon
     DEF AccInv, EdgeOK, CallOK, AccTypes
<1> QED BY <1>0, <1>5, <1>6, <1>7, <1>8, <1>9, OneOpKeeps, Zenon

\* The first accept took a connection or failed: the operation is posted.
LEMMA AcceptPostKeeps ==
  ASSUME AccInv, AcceptPost
  PROVE  AccInv'
<1> DEFINE k == "accept"
<1>q. PICK took \in BOOLEAN :
        /\ took => backlog > 0
        /\ backlog' = backlog - (IF took THEN 1 ELSE 0)
        /\ ready' = (ready /\ ~took)
        /\ aop' = [aop EXCEPT !["accept"].coro = "suspended",
                              !["accept"].held = took, !["accept"].errn = ~took]
  BY Zenon DEF AcceptPost
<1> DEFINE e == ~took
<1>a. e \in BOOLEAN
  BY Zenon
<1>0. AccTypes /\ OpOK(k) /\ k \in AOps
  BY OpsFinite, Zenon DEF AccInv
<1>b. /\ aop[k].coro = "try" /\ (took => backlog > 0)
      /\ backlog' = backlog - (IF took THEN 1 ELSE 0) /\ ready' = (ready /\ ~took)
      /\ aqueued' = [aqueued EXCEPT ![k] = @ + 1] /\ awork' = awork + 1
  BY <1>q, Zenon DEF AcceptPost, Posted
<1> DEFINE n == [aop[k] EXCEPT !.coro = "suspended", !.held = took, !.errn = e]
<1>2. aop' = [aop EXCEPT ![k] = n]
  BY <1>0, <1>q, Zenon DEF AccTypes, OpRec
<1> HIDE DEF e
<1>1. n \in OpRec /\ n.coro = "suspended" /\ n.cb = aop[k].cb /\ n.held = took
      /\ n.peer = aop[k].peer /\ n.inline = aop[k].inline
  BY <1>0, <1>a, <1>b, ZenonT(60)
     DEF AccTypes, OpRec, Coros, Cbs, Starting, InCallback, Tokens
<1> HIDE DEF n
<1>3. aop' \in [AOps -> OpRec] /\ aop'[k] = n /\ \A j \in AOps \ {k} : aop'[j] = aop[j]
  BY <1>0, <1>1, <1>2, OpReplaced, Zenon
<1>4. UNCHANGED <<has_service, aslot, aevents, acall, aclaimed, afile, epoll, arrived,
                  fate>>
  BY Zenon DEF AcceptPost, accDesc, accCall, accKern, accOps
<1>p. aqueued' \in [AOps -> Nat] /\ backlog' \in Nat /\ awork' \in Nat
  BY <1>0, <1>b DEF AccTypes
<1>r. ready' \in BOOLEAN
  BY <1>b, Zenon
<1>5. AccTypes'
  BY <1>0, <1>b, <1>3, <1>4, <1>p, <1>r, Zenon DEF AccTypes
<1>6. Only(k) /\ WorkStep(k)
  BY <1>0, <1>b, <1>1, <1>3, <1>4
     DEF Only, WorkStep, Counted, One, AccTypes, OpOK, HeldOK
<1>7. OpOK(k)'
  BY <1>0, <1>b, <1>1, <1>3, <1>4
     DEF OpOK, PlaceOK, HeldOK, StopOK, One, AccTypes
<1>8. ConnsFate'
  BY <1>0, <1>b, <1>1, <1>3, <1>4
     DEF AccInv, ConnsFate, OpOK, HeldOK, One, AccTypes
<1>9. EdgeOK' /\ CallOK'
  BY <1>0, <1>b, <1>1, <1>3, <1>4
     DEF AccInv, EdgeOK, CallOK, AccTypes, OpOK, PlaceOK, One, Starting
<1> QED BY <1>0, <1>5, <1>6, <1>7, <1>8, <1>9, OneOpKeeps, Zenon

\* Under the descriptor's mutex the accept is tried once more, posted or parked.
LEMMA AcceptParkKeeps ==
  ASSUME AccInv, AcceptPark
  PROVE  AccInv'
<1> DEFINE k == "accept"
<1>q. PICK fails \in IF CachedEdge THEN BOOLEAN ELSE {FALSE} :
        LET took == CachedEdge /\ ~fails /\ backlog > 0
        IN  /\ aop["accept"].coro = "park"
            /\ ready' = FALSE
            /\ backlog' = backlog - (IF took THEN 1 ELSE 0)
            /\ aop' = [aop EXCEPT !["accept"].coro = "suspended",
                                  !["accept"].held = took, !["accept"].errn = fails]
            /\ awork' = awork + 1
            /\ IF took \/ fails \/ aop["accept"].cancelled
               THEN Posted("accept") /\ UNCHANGED aslot
               ELSE aslot' = aslot \cup {"accept"} /\ UNCHANGED aqueued
            /\ UNCHANGED <<has_service, aevents, accCall, epoll, arrived, fate, awaits>>
  BY Zenon DEF AcceptPark
<1> DEFINE took == CachedEdge /\ ~fails /\ backlog > 0
           e == fails
<1>a. took \in BOOLEAN /\ e \in BOOLEAN
  BY <1>q, Zenon
<1>0. AccTypes /\ OpOK(k) /\ k \in AOps
  BY OpsFinite, Zenon DEF AccInv
<1>b. /\ aop[k].coro = "park" /\ (took => backlog > 0) /\ (ready /\ ~fails /\ backlog > 0 => took)
      /\ backlog' = backlog - (IF took THEN 1 ELSE 0) /\ ready' = FALSE /\ awork' = awork + 1
  BY <1>q, Zenon DEF CachedEdge
<1>d. IF took \/ fails \/ aop[k].cancelled
      THEN aqueued' = [aqueued EXCEPT ![k] = @ + 1] /\ aslot' = aslot
      ELSE aslot' = aslot \cup {k} /\ aqueued' = aqueued
  BY <1>q, Zenon DEF Posted
<1> DEFINE n == [aop[k] EXCEPT !.coro = "suspended", !.held = took, !.errn = e]
<1>2. aop' = [aop EXCEPT ![k] = n]
  BY <1>0, <1>q, Zenon DEF AccTypes, OpRec
<1> HIDE DEF took, e
<1>1. n \in OpRec /\ n.coro = "suspended" /\ n.cb = aop[k].cb /\ n.held = took /\ n.cancelled = aop[k].cancelled
      /\ n.peer = aop[k].peer /\ n.inline = aop[k].inline
  BY <1>0, <1>a, ZenonT(60)
     DEF AccTypes, OpRec, Coros, Cbs, Starting, InCallback, Tokens
<1> HIDE DEF n
<1>3. aop' \in [AOps -> OpRec] /\ aop'[k] = n /\ \A j \in AOps \ {k} : aop'[j] = aop[j]
  BY <1>0, <1>1, <1>2, OpReplaced, Zenon
<1>4. UNCHANGED <<has_service, aevents, acall, aclaimed, afile, epoll, arrived, fate>>
  BY <1>q, Zenon DEF accDesc, accCall, accKern, accOps
<1>p. aqueued' \in [AOps -> Nat] /\ aslot' \subseteq AOps /\ backlog' \in Nat /\ awork' \in Nat
  BY <1>0, <1>b, <1>d DEF AccTypes
<1>5. AccTypes'
  BY <1>0, <1>b, <1>3, <1>4, <1>p, Zenon DEF AccTypes
<1>6. Only(k) /\ WorkStep(k)
  BY <1>0, <1>a, <1>b, <1>d, <1>1, <1>3, <1>4
     DEF Only, WorkStep, Counted, One, AccTypes, OpOK, HeldOK
<1>7. OpOK(k)'
  BY <1>0, <1>a, <1>b, <1>d, <1>1, <1>3, <1>4
     DEF OpOK, PlaceOK, HeldOK, StopOK, One, AccTypes
<1>8. ConnsFate'
  BY <1>0, <1>a, <1>b, <1>d, <1>1, <1>3, <1>4
     DEF AccInv, ConnsFate, OpOK, HeldOK, One, AccTypes
<1>9. EdgeOK' /\ CallOK'
  BY <1>0, <1>a, <1>b, <1>d, <1>1, <1>3, <1>4
     DEF AccInv, EdgeOK, CallOK, AccTypes, OpOK, PlaceOK, One, Starting
<1> QED BY <1>0, <1>5, <1>6, <1>7, <1>8, <1>9, OneOpKeeps, Zenon

\* do_wait arms the callback of its own operation.
LEMMA WaitStartKeeps ==
  ASSUME AccInv, NEW k \in AOps, NEW t \in Tokens, WaitStart(k, t)
  PROVE  AccInv'
<1>0. AccTypes /\ OpOK(k) /\ k \in AOps
  BY OpsFinite, Zenon DEF AccInv
<1>b. k # "accept" /\ aop[k].coro = "idle" /\ acall = NoCall
  BY Zenon DEF WaitStart, MayBegin, AtRest
<1> DEFINE n == Armed(FreshOp, t)
<1>2. aop' = [aop EXCEPT ![k] = n]
  BY <1>0, Zenon DEF WaitStart, AccTypes, OpRec
<1>1. n \in OpRec /\ n.coro = "try" /\ n.cb \in {"armed", "none"}
      /\ ~n.held /\ ~n.peer /\ ~n.inline
  BY <1>0, <1>b, Zenon
     DEF AccTypes, OpRec, Coros, Cbs, Starting, InCallback, Tokens, Armed,
         FreshOp
<1> HIDE DEF n
<1>3. aop' \in [AOps -> OpRec] /\ aop'[k] = n /\ \A j \in AOps \ {k} : aop'[j] = aop[j]
  BY <1>0, <1>1, <1>2, OpReplaced, Zenon
<1>4. UNCHANGED <<has_service, aslot, aqueued, awork, ready, aevents, acall, aclaimed,
                  afile, backlog, epoll, arrived, fate>>
  BY Zenon DEF WaitStart, accDesc, accCall, accKern, accOps
<1>5. AccTypes'
  BY <1>0, <1>b, <1>3, <1>4, Zenon DEF AccTypes
<1>6. Only(k) /\ WorkStep(k)
  BY <1>0, <1>b, <1>1, <1>3, <1>4
     DEF Only, WorkStep, Counted, One, AccTypes, OpOK, HeldOK
<1>7. OpOK(k)'
  BY <1>0, <1>b, <1>1, <1>3, <1>4
     DEF OpOK, PlaceOK, HeldOK, StopOK, One, AccTypes
<1>c. aop'["accept"] = aop["accept"]
  BY <1>b, <1>3, OpsFinite, Zenon
<1>8. ConnsFate'
  BY <1>c, <1>4, Zenon DEF AccInv, ConnsFate
<1>9. EdgeOK' /\ CallOK'
  <2>1. EdgeOK'
    BY <1>b, <1>c, <1>4, Zenon DEF AccInv, EdgeOK
  <2>2. CallOK'
    BY <1>0, <1>b, <1>1, <1>3, <1>4, Zenon DEF AccInv, CallOK, Starting
  <2> QED BY <2>1, <2>2, Zenon
<1> QED BY <1>0, <1>5, <1>6, <1>7, <1>8, <1>9, OneOpKeeps, Zenon

\* A wait is posted at once or parked.
LEMMA WaitParkKeeps ==
  ASSUME AccInv, NEW k \in AOps, WaitPark(k)
  PROVE  AccInv'
<1>0. AccTypes /\ OpOK(k) /\ k \in AOps
  BY OpsFinite, Zenon DEF AccInv
<1>b. /\ k # "accept" /\ aop[k].coro = "try" /\ awork' = awork + 1
      /\ \/ aqueued' = [aqueued EXCEPT ![k] = @ + 1] /\ aslot' = aslot
         \/ ~aop[k].cancelled /\ aslot' = aslot \cup {k} /\ aqueued' = aqueued
  BY Zenon DEF WaitPark, Posted
<1> DEFINE n == [aop[k] EXCEPT !.coro = "suspended"]
<1>2. aop' = [aop EXCEPT ![k] = n]
  BY <1>0, Zenon DEF WaitPark, AccTypes, OpRec
<1>1. n \in OpRec /\ n.coro = "suspended" /\ n.cb = aop[k].cb /\ n.held = aop[k].held /\ n.cancelled = aop[k].cancelled
      /\ n.peer = aop[k].peer /\ n.inline = aop[k].inline
  BY <1>0, <1>b DEF AccTypes, OpRec, Coros, Cbs, Starting, InCallback, Tokens
<1> HIDE DEF n
<1>3. aop' \in [AOps -> OpRec] /\ aop'[k] = n /\ \A j \in AOps \ {k} : aop'[j] = aop[j]
  BY <1>0, <1>1, <1>2, OpReplaced, Zenon
<1>4. UNCHANGED <<has_service, ready, aevents, acall, aclaimed, afile, backlog, epoll,
                  arrived, fate>>
  BY Zenon DEF WaitPark, accDesc, accCall, accKern, accOps
<1>p. aqueued' \in [AOps -> Nat] /\ aslot' \subseteq AOps /\ awork' \in Nat
  BY <1>0, <1>b DEF AccTypes
<1>5. AccTypes'
  BY <1>0, <1>b, <1>3, <1>4, <1>p, Zenon DEF AccTypes
<1>6. Only(k) /\ WorkStep(k)
  BY <1>0, <1>b, <1>1, <1>3, <1>4
     DEF Only, WorkStep, Counted, One, AccTypes, OpOK, HeldOK
<1>7. OpOK(k)'
  BY <1>0, <1>b, <1>1, <1>3, <1>4
     DEF OpOK, PlaceOK, HeldOK, StopOK, One, AccTypes
<1>c. aop'["accept"] = aop["accept"]
  BY <1>b, <1>3, OpsFinite, Zenon
<1>8. ConnsFate'
  BY <1>c, <1>4, Zenon DEF AccInv, ConnsFate
<1>9. EdgeOK' /\ CallOK'
  <2>1. EdgeOK'
    BY <1>b, <1>c, <1>4, Zenon DEF AccInv, EdgeOK
  <2>2. CallOK'
    BY <1>0, <1>b, <1>1, <1>3, <1>4, Zenon DEF AccInv, CallOK, Starting
  <2> QED BY <2>1, <2>2, Zenon
<1> QED BY <1>0, <1>5, <1>6, <1>7, <1>8, <1>9, OneOpKeeps, Zenon

\* Completing an accept makes a peer of the accepted descriptor or closes it.
LEMMA AccCompleteKeeps ==
  ASSUME AccInv, NEW k \in AOps, AccComplete(k)
  PROVE  AccInv'
<1> DEFINE success == ~aop[k].errn /\ ~aop[k].cancelled
           q == aop[k].held /\ success /\ has_service
           e == aop[k].errn \/ (aop[k].held /\ ~has_service)
           x == IF ClosesAccepted(k, success) THEN 1 ELSE 0
           n == [aop[k] EXCEPT !.coro = "resuming", !.cb = "none", !.held = FALSE,
                               !.peer = q, !.errn = e]
<1>0. AccTypes /\ OpOK(k) /\ k \in AOps
  BY OpsFinite, Zenon DEF AccInv
<1>a. q \in BOOLEAN /\ e \in BOOLEAN
  BY Zenon
<1>b. /\ aqueued[k] > 0 /\ aop[k].coro = "suspended"
      /\ aqueued' = [aqueued EXCEPT ![k] = @ - 1]
      /\ fate' = [fate EXCEPT !["closed"] = @ + x]
  BY Zenon DEF AccComplete
<1>x. x = (IF aop[k].held /\ ~q THEN 1 ELSE 0) /\ (q => aop[k].held)
  BY Zenon DEF ClosesAccepted
<1>2. aop' = [aop EXCEPT ![k] = n]
  BY <1>0, Zenon DEF AccComplete, AccTypes, OpRec
<1> HIDE DEF q, e, x
<1>1. n \in OpRec /\ n.coro = "resuming" /\ n.cb = "none" /\ ~n.held /\ n.peer = q
      /\ n.inline = aop[k].inline
  <2>1. aop[k] \in OpRec
    BY <1>0, Zenon DEF AccTypes
  <2>2. n \in OpRec
    BY <1>a, <2>1, Zenon DEF OpRec, Coros, Cbs
  <2>3. n.coro = "resuming" /\ n.cb = "none" /\ n.held = FALSE /\ n.peer = q
    BY <2>1, Zenon DEF OpRec
  <2>4. n.inline = aop[k].inline
    BY <2>1, Zenon DEF OpRec
  <2> QED BY <2>2, <2>3, <2>4, Zenon
<1> HIDE DEF n
<1>3. aop' \in [AOps -> OpRec] /\ aop'[k] = n /\ \A j \in AOps \ {k} : aop'[j] = aop[j]
  BY <1>0, <1>1, <1>2, OpReplaced, Zenon
<1>4. UNCHANGED <<has_service, aslot, awork, ready, aevents, acall, aclaimed, afile,
                  backlog, epoll, arrived>>
  BY Zenon DEF AccComplete, accDesc, accCall
<1>p. aqueued' \in [AOps -> Nat] /\ fate' \in [Fates -> Nat]
  BY <1>0, <1>b, <1>x DEF AccTypes, Fates
<1>5. AccTypes'
  BY <1>0, <1>3, <1>4, <1>p, Zenon DEF AccTypes
<1>6. Only(k) /\ WorkStep(k)
  BY <1>0, <1>b, <1>1, <1>3, <1>4
     DEF Only, WorkStep, Counted, One, AccTypes, OpOK, HeldOK
<1>7. OpOK(k)'
  BY <1>0, <1>b, <1>x, <1>1, <1>3, <1>4
     DEF OpOK, PlaceOK, HeldOK, StopOK, One, AccTypes
<1>8. ConnsFate'
  <2>1. CASE k = "accept"
    BY <1>0, <1>b, <1>x, <1>1, <1>3, <1>4, <2>1
       DEF AccInv, ConnsFate, OpOK, HeldOK, One, AccTypes, Fates
  <2>2. CASE k # "accept"
    <3>1. aop'["accept"] = aop["accept"] /\ x = 0
      BY <1>0, <1>x, <1>3, <2>2, OpsFinite, Zenon DEF OpOK, HeldOK
    <3> QED BY <1>0, <1>b, <1>4, <3>1 DEF AccInv, ConnsFate, AccTypes, Fates
  <2> QED BY <2>1, <2>2, Zenon
<1>9. EdgeOK' /\ CallOK'
  <2>1. \A j \in AOps : aop'[j].coro \in Starting => aop'[j] = aop[j]
    BY <1>1, <1>3, Zenon DEF Starting
  <2>2. EdgeOK'
    BY <1>4, <2>1, OpsFinite, Zenon DEF AccInv, EdgeOK, Starting
  <2>3. CallOK'
    BY <1>4, <2>1, Zenon DEF AccInv, CallOK
  <2> QED BY <2>2, <2>3, Zenon
<1> QED BY <1>0, <1>5, <1>6, <1>7, <1>8, <1>9, OneOpKeeps, Zenon

\* The coroutine adopts the peer, or leaves it to the service.
LEMMA AccResumeKeeps ==
  ASSUME AccInv, NEW k \in AOps, AccResume(k)
  PROVE  AccInv'
<1> DEFINE m == IF aop[k].cb = "armed" THEN "stale" ELSE aop[k].cb
           x == IF Adopts(k) THEN 1 ELSE 0
           y == IF aop[k].peer /\ ~Adopts(k) THEN 1 ELSE 0
           n == [FreshOp EXCEPT !.cb = m]
<1>0. AccTypes /\ OpOK(k) /\ k \in AOps
  BY OpsFinite, Zenon DEF AccInv
<1>b. /\ aop[k].coro = "resuming"
      /\ fate' = [fate EXCEPT !["delivered"] = @ + x, !["orphaned"] = @ + y]
      /\ awork' = awork - (IF aop[k].inline THEN 0 ELSE 1)
  BY Zenon DEF AccResume
<1>x. x \in Nat /\ y \in Nat /\ x + y = One(aop[k].peer)
  BY DEF Adopts, One
<1>m. m \in Cbs /\ (m = "post" <=> aop[k].cb = "post")
  BY <1>0, Zenon DEF AccTypes, OpRec, Cbs, InCallback
<1>2. aop' = [aop EXCEPT ![k] = n]
  BY Zenon DEF AccResume
<1> HIDE DEF m, x, y
<1>1. n \in OpRec /\ n.coro = "idle" /\ n.cb = m /\ ~n.held /\ ~n.peer /\ ~n.inline
  BY <1>m, Zenon DEF OpRec, Coros, Tokens, FreshOp
<1> HIDE DEF n
<1>3. aop' \in [AOps -> OpRec] /\ aop'[k] = n /\ \A j \in AOps \ {k} : aop'[j] = aop[j]
  BY <1>0, <1>1, <1>2, OpReplaced, Zenon
<1>4. UNCHANGED <<has_service, aslot, aqueued, ready, aevents, acall, aclaimed, afile,
                  backlog, epoll, arrived>>
  BY Zenon DEF AccResume, accDesc, accCall
<1>6. Only(k) /\ WorkStep(k)
  BY <1>0, <1>b, <1>1, <1>3, <1>4 DEF Only, WorkStep, Counted, One, AccTypes
<1>p. awork' \in Nat
  BY <1>0, <1>6, WorkFollows, Zenon DEF AccInv
<1>f. fate' \in [Fates -> Nat]
  BY <1>0, <1>b, <1>x DEF AccTypes, Fates
<1>5. AccTypes'
  BY <1>0, <1>3, <1>4, <1>p, <1>f, Zenon DEF AccTypes
<1>7. OpOK(k)'
  BY <1>0, <1>b, <1>m, <1>1, <1>3, <1>4
     DEF OpOK, PlaceOK, HeldOK, StopOK, One, AccTypes
<1>8. ConnsFate'
  <2>0. /\ fate'["delivered"] = fate["delivered"] + x /\ fate'["orphaned"] = fate["orphaned"] + y
        /\ fate'["left"] = fate["left"] /\ fate'["closed"] = fate["closed"]
    BY <1>0, <1>b, Zenon DEF AccTypes, Fates
  <2>t. /\ fate["left"] \in Nat /\ fate["delivered"] \in Nat /\ fate["closed"] \in Nat
        /\ fate["orphaned"] \in Nat /\ backlog \in Nat
    BY <1>0, Zenon DEF AccTypes, Fates
  <2>1. CASE k = "accept"
    <3>1. ~aop[k].held
      BY <1>0, <1>b, Zenon DEF OpOK, HeldOK
    <3> QED
      BY <1>x, <1>1, <1>3, <1>4, <2>0, <2>t, <2>1, <3>1
         DEF AccInv, ConnsFate, One
  <2>2. CASE k # "accept"
    <3>1. aop'["accept"] = aop["accept"] /\ ~aop[k].peer
      BY <1>0, <1>3, <2>2, OpsFinite, Zenon DEF OpOK, HeldOK
    <3>2. x = 0 /\ y = 0
      BY <1>x, <3>1 DEF One
    <3> QED BY <1>4, <2>0, <2>t, <3>1, <3>2 DEF AccInv, ConnsFate
  <2> QED BY <2>1, <2>2, Zenon
<1>9. EdgeOK' /\ CallOK'
  <2>1. \A j \in AOps : aop'[j].coro \in Starting => aop'[j] = aop[j]
    BY <1>1, <1>3, Zenon DEF Starting
  <2>2. EdgeOK'
    BY <1>4, <2>1, OpsFinite, Zenon DEF AccInv, EdgeOK, Starting
  <2>3. CallOK'
    BY <1>4, <2>1, Zenon DEF AccInv, CallOK
  <2> QED BY <2>2, <2>3, Zenon
<1> QED BY <1>0, <1>5, <1>6, <1>7, <1>8, <1>9, OneOpKeeps, Zenon

\* A call posts what it claimed.
LEMMA AccRepostKeeps ==
  ASSUME AccInv, NEW k \in AOps, AccRepost(k)
  PROVE  AccInv'
<1>0. AccTypes /\ OpOK(k)
  BY Zenon DEF AccInv
<1>b. /\ k \in aclaimed /\ aclaimed' = aclaimed \ {k}
      /\ aqueued' = [aqueued EXCEPT ![k] = @ + 1]
  BY Zenon DEF AccRepost, Posted
<1>4. UNCHANGED <<has_service, aop, aslot, awork, ready, aevents, acall, afile,
                  backlog, epoll, arrived, fate>>
  BY Zenon DEF AccRepost, accDesc, accKern
<1>p. aqueued' \in [AOps -> Nat]
  BY <1>0, <1>b DEF AccTypes
<1>5. AccTypes'
  BY <1>0, <1>b, <1>4, <1>p, Zenon DEF AccTypes
<1>6. Only(k) /\ WorkStep(k)
  BY <1>0, <1>b, <1>4 DEF Only, WorkStep, Counted, One, AccTypes
<1>7. OpOK(k)'
  BY <1>0, <1>b, <1>4 DEF OpOK, PlaceOK, HeldOK, StopOK, One, AccTypes
<1>8. ConnsFate' /\ EdgeOK' /\ CallOK'
  BY <1>b, <1>4, Zenon DEF AccInv, ConnsFate, EdgeOK, CallOK
<1> QED BY <1>5, <1>6, <1>7, <1>8, OneOpKeeps, Zenon

-----------------------------------------------------------------------------
(* The reactor and the calls.                                              *)

\* A step that changes no operation keeps their places and their counting.
LEMMA OpsUntouched ==
  ASSUME AccInv, UNCHANGED <<aop, aqueued, aslot, aclaimed, awork>>,
         acall.at = "claim" => acall'.at = "claim"
  PROVE  (\A k \in AOps : OpOK(k)') /\ WorkOK'
<1>1. \A k \in AOps : OpOK(k)'
  <2> SUFFICES ASSUME NEW k \in AOps PROVE OpOK(k)'
    BY Zenon
  <2>1. OpOK(k)
    BY Zenon DEF AccInv
  <2> QED BY <2>1, Zenon DEF OpOK, PlaceOK, HeldOK, StopOK
<1>2. WorkOK'
  BY Zenon DEF AccInv, WorkOK, Busy
<1> QED BY <1>1, <1>2, Zenon

\* A connection arrives with its edge.
LEMMA ArriveKeeps == ASSUME AccInv, Arrive PROVE AccInv'
<1>1. UNCHANGED <<has_service, aop, aqueued, aslot, aclaimed, awork, acall, ready, aevents,
                  afile, fate>>
  BY Zenon DEF Arrive, accOps, accDesc, accCall
<1>2. arrived' = arrived + 1 /\ backlog' = backlog + 1 /\ epoll' = epoll \cup {"r"}
      /\ afile = "listening"
  BY Zenon DEF Arrive
<1>3. AccTypes'
  BY <1>1, <1>2 DEF AccInv, AccTypes
<1>4. ConnsFate'
  <2>1. AccTypes /\ ConnsFate
    BY Zenon DEF AccInv
  <2>2. /\ fate["left"] \in Nat /\ fate["delivered"] \in Nat /\ fate["closed"] \in Nat
        /\ fate["orphaned"] \in Nat /\ backlog \in Nat
    BY <2>1, Zenon DEF AccTypes, Fates
  <2> QED BY <1>1, <1>2, <2>1, <2>2 DEF ConnsFate, One
<1>5. EdgeOK' /\ CallOK'
  BY <1>1, <1>2, Zenon DEF AccInv, EdgeOK, CallOK
<1> QED BY <1>1, <1>3, <1>4, <1>5, OpsUntouched, Zenon DEF AccInv

\* Events move from the kernel to the descriptor without being lost.
LEMMA EventsKeep == ASSUME AccInv, ListenError \/ AccEvent PROVE AccInv'
<1>1. UNCHANGED <<has_service, aop, aqueued, aslot, aclaimed, awork, acall, ready,
                  afile, fate, arrived, backlog>>
  BY Zenon DEF ListenError, AccEvent, accOps, accDesc, accCall
<1>2. epoll \cup aevents \subseteq epoll' \cup aevents'
  BY Zenon DEF ListenError, AccEvent, accDesc
<1>3. AccTypes' /\ ConnsFate' /\ CallOK'
  BY <1>1, Zenon DEF AccInv, AccTypes, ConnsFate, CallOK
<1>4. EdgeOK'
  BY <1>1, <1>2, Zenon DEF AccInv, EdgeOK
<1> QED BY <1>1, <1>3, <1>4, OpsUntouched, Zenon DEF AccInv

\* A call that ends has posted everything it claimed.
LEMMA CallEndsKeep == ASSUME AccInv, AccCancelEnds \/ AccCloseEnds PROVE AccInv'
<1>1. UNCHANGED <<has_service, aop, aqueued, aslot, aclaimed, awork, ready, aevents, arrived>>
  BY Zenon DEF AccCancelEnds, AccCloseEnds, accOps, accDesc, accKern
<1>2. /\ acall.at = "post" /\ aclaimed = {}
      /\ acall' \in [name : Calls, at : {"none", "claim", "post", "gone"}]
  BY DEF AccCancelEnds, AccCloseEnds, NoCall, Calls
<1>3. \/ UNCHANGED <<backlog, fate, afile, epoll>>
      \/ backlog' = 0 /\ fate' = [fate EXCEPT !["left"] = @ + backlog]
  BY Zenon DEF AccCancelEnds, AccCloseEnds, accKern
<1>t. AccTypes /\ ConnsFate
  BY Zenon DEF AccInv
<1>4. backlog' \in Nat /\ fate' \in [Fates -> Nat]
  BY <1>3, <1>t DEF AccTypes, Fates
<1>5. AccTypes'
  BY <1>1, <1>2, <1>4, <1>t, Zenon DEF AccTypes
<1>6. ConnsFate'
  <2>1. CASE UNCHANGED <<backlog, fate>>
    BY <1>1, <1>t, <2>1, Zenon DEF ConnsFate
  <2>2. CASE backlog' = 0 /\ fate' = [fate EXCEPT !["left"] = @ + backlog]
    <3>1. /\ fate'["left"] = fate["left"] + backlog /\ fate'["delivered"] = fate["delivered"]
          /\ fate'["closed"] = fate["closed"] /\ fate'["orphaned"] = fate["orphaned"]
          /\ fate["left"] \in Nat /\ fate["delivered"] \in Nat /\ fate["closed"] \in Nat
          /\ fate["orphaned"] \in Nat /\ backlog \in Nat
      BY <1>t, <2>2, Zenon DEF AccTypes, Fates
    <3> QED BY <1>1, <1>t, <2>2, <3>1 DEF ConnsFate, One
  <2> QED BY <1>3, <2>1, <2>2, Zenon
<1>7. EdgeOK'
  BY <1>1, <1>3 DEF AccInv, EdgeOK
<1>8. CallOK'
  BY <1>1, <1>2 DEF AccInv, CallOK, NoCall
<1> QED BY <1>1, <1>2, <1>5, <1>6, <1>7, <1>8, OpsUntouched, Zenon DEF AccInv

\* listen() starts with no cached edge; nothing can be parked over a backlog.
LEMMA ListenKeeps == ASSUME AccInv, acc_listen PROVE AccInv'
<1>1. UNCHANGED <<has_service, aop, aqueued, aslot, aclaimed, awork, acall, arrived, backlog,
                  epoll, fate>>
  BY Zenon DEF acc_listen, accOps, accKern
<1>2. /\ afile = "open" /\ afile' = "listening" /\ ready' = FALSE /\ acall = NoCall
  BY Zenon DEF acc_listen, AtRest
<1>3. AccTypes' /\ ConnsFate' /\ CallOK'
  BY <1>1, <1>2, Zenon DEF AccInv, AccTypes, ConnsFate, CallOK
<1>4. EdgeOK'
  BY <1>1, <1>2, Zenon DEF AccInv, EdgeOK
<1> QED BY <1>1, <1>3, <1>4, OpsUntouched, Zenon DEF AccInv

\* A call of cancel, close, release, open or destroy sets the flags of the
\* operations in flight, and will claim those that are parked.
LEMMA CallBeginKeeps ==
  ASSUME AccInv, NEW c \in Calls, AccCallBegin(c)
  PROVE  AccInv'
<1> DEFINE b(k) == aop[k].cancelled \/ aop[k].coro # "idle"
<1>0. AccTypes /\ acall = NoCall /\ \A k \in AOps : aop[k].coro \notin Starting
  BY Zenon DEF AccInv, AccCallBegin, AtRest
<1>1. UNCHANGED <<has_service, aqueued, aslot, aclaimed, awork, ready, aevents, afile, arrived,
                  backlog, epoll, fate>>
  BY Zenon DEF AccCallBegin, accDesc, accKern
<1>2. aop' = [k \in AOps |-> [aop[k] EXCEPT !.cancelled = b(k)]]
  BY Zenon DEF AccCallBegin
<1>3. acall' = [name |-> c, at |-> "claim"]
  BY Zenon DEF AccCallBegin
<1>b. \A k \in AOps : b(k) \in BOOLEAN
  BY Zenon
<1> HIDE DEF b
<1>4. \A k \in AOps :
        /\ aop'[k] \in OpRec /\ aop'[k].coro = aop[k].coro /\ aop'[k].cb = aop[k].cb
        /\ aop'[k].held = aop[k].held /\ aop'[k].peer = aop[k].peer
        /\ aop'[k].inline = aop[k].inline
  <2> SUFFICES ASSUME NEW k \in AOps
               PROVE  /\ aop'[k] \in OpRec /\ aop'[k].coro = aop[k].coro
                      /\ aop'[k].cb = aop[k].cb /\ aop'[k].held = aop[k].held
                      /\ aop'[k].peer = aop[k].peer /\ aop'[k].inline = aop[k].inline
    BY Zenon
  <2>1. aop[k] \in OpRec /\ b(k) \in BOOLEAN
    BY <1>0, <1>b, Zenon DEF AccTypes
  <2>2. aop'[k] = [aop[k] EXCEPT !.cancelled = b(k)]
    BY <1>2, Zenon
  <2> QED BY <2>1, <2>2, Zenon DEF OpRec
<1>5. AccTypes'
  <2>1. aop' \in [AOps -> OpRec]
    BY <1>2, <1>4, Zenon
  <2>2. acall' \in [name : Calls, at : {"none", "claim", "post", "gone"}]
    BY <1>3, Zenon
  <2> QED BY <1>0, <1>1, <2>1, <2>2, Zenon DEF AccTypes
<1>6. \A k \in AOps : OpOK(k)'
  <2> SUFFICES ASSUME NEW k \in AOps PROVE OpOK(k)'
    BY Zenon
  <2>1. OpOK(k)
    BY Zenon DEF AccInv
  <2> QED BY <1>1, <1>3, <1>4, <2>1, Zenon DEF OpOK, PlaceOK, HeldOK, StopOK
<1>7. WorkOK'
  <2>1. Busy' = Busy
    BY <1>4, Zenon DEF Busy, Counted
  <2> QED BY <1>1, <2>1, Zenon DEF AccInv, WorkOK
<1>8. ConnsFate' /\ EdgeOK'
  BY <1>1, <1>4, OpsFinite, Zenon DEF AccInv, ConnsFate, EdgeOK
<1>9. CallOK'
  BY <1>0, <1>1, <1>3, <1>4, Zenon DEF AccInv, CallOK, NoCall
<1> QED BY <1>5, <1>6, <1>7, <1>8, <1>9, Zenon DEF AccInv

\* The call claims every parked operation in one critical section.
LEMMA CallClaimKeeps == ASSUME AccInv, AccCallClaim PROVE AccInv'
<1>0. AccTypes /\ acall.at = "claim" /\ aclaimed = {} /\ acall # NoCall
  BY DEF AccInv, AccCallClaim, CallOK, NoCall
<1>1. UNCHANGED <<has_service, aop, aqueued, awork, aevents, afile, arrived, backlog, epoll, fate>>
  BY Zenon DEF AccCallClaim, accKern
<1>2. aclaimed' = aslot /\ aslot' = {} /\ acall' = [acall EXCEPT !.at = "post"]
  BY Zenon DEF AccCallClaim
<1>3. ready' \in BOOLEAN
  BY Zenon DEF AccCallClaim
<1>4. acall'.at = "post" /\ acall' \in [name : Calls, at : {"none", "claim", "post", "gone"}]
  BY <1>0, <1>2, Zenon DEF AccTypes
<1>5. AccTypes'
  BY <1>0, <1>1, <1>2, <1>3, <1>4, Zenon DEF AccTypes
<1>6. \A k \in AOps : OpOK(k)'
  <2> SUFFICES ASSUME NEW k \in AOps PROVE OpOK(k)'
    BY Zenon
  <2>1. OpOK(k)
    BY Zenon DEF AccInv
  <2>2. PlaceOK(k)'
    BY <1>0, <1>1, <1>2, <2>1 DEF OpOK, PlaceOK, One, AccTypes
  <2>3. HeldOK(k)' /\ StopOK(k)'
    BY <1>1, <1>2, <2>1, Zenon DEF OpOK, HeldOK, StopOK
  <2> QED BY <2>2, <2>3, Zenon DEF OpOK
<1>7. WorkOK' /\ ConnsFate'
  BY <1>1, Zenon DEF AccInv, WorkOK, Busy, ConnsFate
<1>8. EdgeOK' /\ CallOK'
  BY <1>0, <1>1, <1>2, <1>4, OpsFinite, Zenon
     DEF AccInv, EdgeOK, CallOK, Starting
<1> QED BY <1>5, <1>6, <1>7, <1>8, Zenon DEF AccInv

\* The descriptor's handler takes at most one connection for the parked accept,
\* and caches the edge only when no accept is parked.
LEMMA HandleKeeps == ASSUME AccInv, AccHandle PROVE AccInv'
<1> DEFINE err   == "e" \in aevents
           took  == "accept" \in aslot /\ ~err /\ backlog > 0
           ended == IF err THEN aslot
                    ELSE aslot \cap ({"wait_read"} \cup (IF took THEN {"accept"} ELSE {}))
           h(k)  == k = "accept" /\ took
<1>0. AccTypes
  BY Zenon DEF AccInv
<1>1. UNCHANGED <<has_service, awork, acall, aclaimed, afile, epoll, arrived, fate>>
  BY Zenon DEF AccHandle, accCall
<1>k. (took => backlog' = backlog - 1) /\ (~took => backlog' = backlog)
  <2>1. backlog' = backlog - (IF took THEN 1 ELSE 0)
    BY Zenon DEF AccHandle
  <2>2. backlog \in Nat
    BY <1>0, Zenon DEF AccTypes
  <2> HIDE DEF took
  <2> QED BY <2>1, <2>2
<1>s. aslot' = aslot \ ended
  BY ZenonT(60) DEF AccHandle
<1>u. aqueued' = [k \in AOps |-> aqueued[k] + (IF k \in ended THEN 1 ELSE 0)]
  BY ZenonT(60) DEF AccHandle
<1>2. aop' = [k \in AOps |-> IF k \in ended THEN [aop[k] EXCEPT !.errn = err, !.held = h(k)]
                          ELSE aop[k]]
  BY ZenonT(60) DEF AccHandle
<1>r. ready' \in BOOLEAN /\ (~ready' => ~ready /\ ("r" \in aevents => "accept" \in aslot))
  BY <1>0, Zenon DEF AccHandle, AccTypes
<1>b. err \in BOOLEAN /\ \A k \in AOps : h(k) \in BOOLEAN
  OBVIOUS
<1>e. /\ ended \subseteq aslot
      /\ took => "accept" \in ended
      /\ took => "accept" \in aslot /\ backlog > 0
      /\ "accept" \in aslot /\ "accept" \notin ended => backlog = 0
  BY <1>0 DEF AccTypes
<1>h. \A k \in AOps : h(k) <=> k = "accept" /\ took
  BY Zenon
<1>t. took \in BOOLEAN
  BY SMTT(60)
<1> HIDE DEF err, took, ended, h
<1>3. \A k \in AOps :
        /\ aop'[k] \in OpRec /\ aop'[k].coro = aop[k].coro /\ aop'[k].cb = aop[k].cb
        /\ aop'[k].cancelled = aop[k].cancelled /\ aop'[k].peer = aop[k].peer
        /\ aop'[k].inline = aop[k].inline
        /\ aop'[k].held = (IF k \in ended THEN h(k) ELSE aop[k].held)
  <2> SUFFICES ASSUME NEW k \in AOps
               PROVE  /\ aop'[k] \in OpRec /\ aop'[k].coro = aop[k].coro
                      /\ aop'[k].cb = aop[k].cb /\ aop'[k].cancelled = aop[k].cancelled
                      /\ aop'[k].peer = aop[k].peer /\ aop'[k].inline = aop[k].inline
                      /\ aop'[k].held = (IF k \in ended THEN h(k) ELSE aop[k].held)
    BY Zenon
  <2>1. aop[k] \in OpRec /\ h(k) \in BOOLEAN
    BY <1>0, <1>b, Zenon DEF AccTypes
  <2>2. CASE k \in ended
    <3>1. aop'[k] = [aop[k] EXCEPT !.errn = err, !.held = h(k)]
      BY <1>2, <2>2, Zenon
    <3> QED BY <1>b, <2>1, <2>2, <3>1, ZenonT(60) DEF OpRec
  <2>3. CASE k \notin ended
    BY <1>2, <2>1, <2>3, Zenon
  <2> QED BY <2>2, <2>3, Zenon
<1>q. \A k \in AOps : aqueued'[k] = aqueued[k] + (IF k \in ended THEN 1 ELSE 0)
  BY <1>u, Zenon
<1>4. AccTypes'
  <2>1. aop' \in [AOps -> OpRec]
    BY <1>2, <1>3, Zenon
  <2>2. aqueued' \in [AOps -> Nat]
    BY <1>0, <1>u DEF AccTypes
  <2>3. backlog' \in Nat /\ aslot' \subseteq AOps
    BY <1>0, <1>k, <1>s, <1>e, <1>t DEF AccTypes
  <2> QED BY <1>0, <1>1, <1>r, <2>1, <2>2, <2>3, Zenon DEF AccTypes
<1>5. \A k \in AOps : OpOK(k)'
  <2> SUFFICES ASSUME NEW k \in AOps PROVE OpOK(k)'
    BY Zenon
  <2>0. OpOK(k) /\ aqueued[k] \in Nat
    BY <1>0, Zenon DEF AccInv, AccTypes
  <2>1. PlaceOK(k)'
    BY <1>1, <1>s, <1>3, <1>q, <1>e, <2>0 DEF OpOK, PlaceOK, One
  <2>2. k \in aslot => aop[k].coro = "suspended"
    BY <2>0 DEF OpOK, PlaceOK, One
  <2>3. HeldOK(k)'
    BY <1>s, <1>3, <1>e, <1>h, <2>0, <2>2, Zenon DEF OpOK, HeldOK
  <2>4. StopOK(k)'
    BY <1>1, <1>s, <1>3, <2>0, Zenon DEF OpOK, StopOK
  <2> QED BY <2>1, <2>3, <2>4, Zenon DEF OpOK
<1>6. WorkOK'
  <2>1. Busy' = Busy
    BY <1>3, Zenon DEF Busy, Counted
  <2> QED BY <1>1, <2>1, Zenon DEF AccInv, WorkOK
<1>7. ConnsFate'
  <2>1. /\ OpOK("accept") /\ ConnsFate /\ backlog \in Nat
        /\ aop'["accept"].peer = aop["accept"].peer
        /\ aop'["accept"].held = (IF "accept" \in ended THEN h("accept") ELSE aop["accept"].held)
        /\ (h("accept") <=> took)
    BY <1>0, <1>3, <1>h, OpsFinite, Zenon DEF AccInv, AccTypes
  <2>2. "accept" \in aslot => ~aop["accept"].held
    BY <2>1, Zenon DEF OpOK, HeldOK
  <2>3. /\ fate["left"] \in Nat /\ fate["delivered"] \in Nat /\ fate["closed"] \in Nat
        /\ fate["orphaned"] \in Nat
    BY <1>0, Zenon DEF AccTypes, Fates
  <2>4. CASE took
    BY <1>1, <1>k, <1>e, <2>1, <2>2, <2>3, <2>4 DEF ConnsFate, One
  <2>5. CASE ~took
    <3>1. backlog' = backlog /\ (aop'["accept"].held <=> aop["accept"].held)
      BY <1>k, <1>e, <2>1, <2>2, <2>5, Zenon
    <3> QED BY <1>1, <2>1, <3>1, Zenon DEF ConnsFate, One
  <2> QED BY <2>4, <2>5, <1>t, Zenon
<1>8. EdgeOK'
  <2>1. OpOK("accept") /\ EdgeOK /\ backlog \in Nat /\ aop'["accept"].coro = aop["accept"].coro
        /\ aqueued["accept"] \in Nat
    BY <1>0, <1>3, OpsFinite, Zenon DEF AccInv, AccTypes
  <2>2. "accept" \in aslot => aop["accept"].coro = "suspended"
    BY <2>1 DEF OpOK, PlaceOK, One
  <2>3. backlog' > 0 => backlog > 0
    BY <1>k, <2>1, <1>t
  <2>4. "accept" \in aslot' => ~(backlog' > 0)
    BY <1>s, <1>e, <2>1, <2>3
  <2>5. aop["accept"].coro = "park" /\ backlog' > 0 /\ ~ready' => "r" \in epoll
    BY <1>r, <2>1, <2>2, <2>3, Zenon DEF EdgeOK
  <2> QED BY <1>1, <2>1, <2>3, <2>4, <2>5, Zenon DEF EdgeOK
<1>9. CallOK'
  BY <1>1, <1>3, Zenon DEF AccInv, CallOK
<1> QED BY <1>4, <1>5, <1>6, <1>7, <1>8, <1>9, Zenon DEF AccInv

-----------------------------------------------------------------------------
(* The theorem.                                                            *)

\* A new acceptor satisfies the invariant.
LEMMA AccInvInit == ASSUME AccInit PROVE AccInv
<1>0. \A k \in AOps : aop[k] = FreshOp /\ aqueued[k] = 0
  BY Zenon DEF AccInit
<1>1. AccTypes
  <2>1. FreshOp \in OpRec
    BY Zenon DEF FreshOp, OpRec, Coros, Cbs, Tokens
  <2> QED BY <2>1, Zenon DEF AccInit, AccTypes, Fates, Calls, NoCall
<1>2. \A k \in AOps : OpOK(k)
  BY <1>0 DEF AccInit, OpOK, PlaceOK, HeldOK, StopOK, One, FreshOp
<1>3. WorkOK
  <2>1. Busy = {}
    BY <1>0 DEF Busy, Counted, FreshOp
  <2> QED BY <2>1, FS_EmptySet, Zenon DEF AccInit, WorkOK
<1>4. ConnsFate
  BY <1>0, OpsFinite DEF AccInit, ConnsFate, One, FreshOp
<1>5. EdgeOK /\ CallOK
  BY <1>0 DEF AccInit, EdgeOK, CallOK
<1> QED BY <1>1, <1>2, <1>3, <1>4, <1>5, Zenon DEF AccInv

\* Every step keeps the invariant.
LEMMA AccInvStep == ASSUME AccInv, [AccNext]_accVars PROVE AccInv'
<1>1. CASE \E t \in Tokens : AcceptReset(t) \/ \E k \in AOps : WaitStart(k, t)
  BY <1>1, AcceptResetKeeps, WaitStartKeeps, Zenon
<1>2. CASE (\E k \in AOps : TokenStops(k)) \/ StaleStop
  BY <1>2, TokenStopsKeeps, StaleStopKeeps, Zenon
<1>3. CASE acc_cancel \/ acc_close \/ acc_release \/ acc_open \/ acc_destroy
  <2>1. PICK c \in Calls : AccCallBegin(c)
    BY <1>3, Zenon
       DEF acc_cancel, acc_close, acc_release, acc_open, acc_destroy, Calls
  <2> QED BY <2>1, CallBeginKeeps, Zenon
<1>4. CASE acc_listen \/ Arrive \/ ListenError
  BY <1>4, ListenKeeps, ArriveKeeps, EventsKeep, Zenon
<1>5. CASE AccInternal
  <2>1. CASE \E k \in AOps : WaitPark(k) \/ CancelSingleOp(k) \/ CancelPosts(k)
                             \/ AccComplete(k) \/ AccResume(k) \/ AccRepost(k)
    BY <2>1, WaitParkKeeps, CancelSingleOpKeeps, CancelPostsKeeps,
       AccCompleteKeeps, AccResumeKeeps, AccRepostKeeps, Zenon
  <2>2. CASE AcceptStart \/ AcceptInline \/ AcceptPost \/ AcceptBlocks \/ AcceptPark
    BY <2>2, AcceptStartKeeps, AcceptInlineKeeps, AcceptPostKeeps,
       AcceptBlocksKeeps, AcceptParkKeeps, Zenon
  <2>3. CASE AccEvent \/ AccHandle \/ AccCallClaim \/ AccCancelEnds \/ AccCloseEnds
    BY <2>3, EventsKeep, HandleKeeps, CallClaimKeeps, CallEndsKeep, Zenon
  <2> QED BY <1>5, <2>1, <2>2, <2>3, Zenon DEF AccInternal
<1>6. CASE UNCHANGED accVars
  <2>1. UNCHANGED <<has_service, aop, aqueued, aslot, aclaimed, awork, acall, ready, aevents,
                    afile, arrived, backlog, epoll, fate>>
    BY <1>6, Zenon DEF accVars, accOps, accDesc, accCall, accKern
  <2>2. AccTypes' /\ ConnsFate' /\ EdgeOK' /\ CallOK'
    BY <2>1, ZenonT(60) DEF AccInv, AccTypes, ConnsFate, EdgeOK, CallOK
  <2> QED BY <2>1, <2>2, OpsUntouched, Zenon DEF AccInv
<1> QED BY <1>1, <1>2, <1>3, <1>4, <1>5, <1>6, Zenon DEF AccNext

\* The invariant gives the ledger the runs check.
LEMMA AccInvLedger == ASSUME AccInv PROVE AcceptLedger
<1>1. AcceptOnePlace
  <2>1. \A k \in AOps :
          One(k \in aslot) + aqueued[k] + One(aop[k].cb = "post") + One(k \in aclaimed)
              = One(aop[k].coro = "suspended")
    BY Zenon DEF AccInv, OpOK, PlaceOK
  <2>2. Busy = {k \in AOps : aop[k].coro = "suspended"
                             \/ (aop[k].coro = "resuming" /\ ~aop[k].inline)}
    BY Zenon DEF Busy, Counted
  <2> QED BY <2>1, <2>2, Zenon DEF AccInv, WorkOK, AcceptOnePlace
<1>2. AcceptServed
  <2> SUFFICES ASSUME AccQuiet
               PROVE  /\ ~("accept" \in aslot /\ backlog > 0)
                      /\ \A k \in aslot : ~aop[k].cancelled
    BY Zenon DEF AcceptServed
  <2>1. ~("accept" \in aslot /\ backlog > 0)
    BY Zenon DEF AccInv, EdgeOK, AccQuiet
  <2>2. \A k \in aslot : ~aop[k].cancelled
    BY Zenon DEF AccInv, AccTypes, OpOK, StopOK, AccQuiet, InCallback
  <2> QED BY <2>1, <2>2, Zenon
<1> QED BY <1>1, <1>2, Zenon DEF AccInv, AcceptLedger

\* AcceptLedger holds of accept(), wait(), their stop tokens and the calls that
\* cancel or close the acceptor, whatever the number of connections, awaits
\* and calls: a suspended operation is in one place, each connection has one
\* fate, and no accept sleeps over a backlog or after it was told to stop.
THEOREM AcceptLedgerHolds == AccSpec => []AcceptLedger
<1>1. AccInit => AccInv
  BY AccInvInit, Zenon
<1>2. AccInv /\ [AccNext]_accVars => AccInv'
  BY AccInvStep, Zenon
<1>3. AccInv => AcceptLedger
  BY AccInvLedger, Zenon
<1> QED BY <1>1, <1>2, <1>3, PTL DEF AccSpec

=============================================================================
