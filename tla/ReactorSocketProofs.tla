------------------------- MODULE ReactorSocketProofs -------------------------
(***************************************************************************)
(* The ledger of ReactorSocket, for every choice of operations, stop       *)
(* tokens, calls and peer.                                                 *)
(*                                                                         *)
(* SocketLedger is inductive once two facts about the user's call in       *)
(* progress are added (CallOwnsClaims): operations are in its hands only   *)
(* while it posts them, and from the claim until the descriptor is         *)
(* initialised anew no slot is filled, because calls on one socket do not  *)
(* overlap.  Without the second the reset of the slots in                  *)
(* init_and_register could drop a parked operation.                        *)
(***************************************************************************)
EXTENDS ReactorSocket, FiniteSetTheorems, TLAPS

-----------------------------------------------------------------------------
(* Counting operations.                                                    *)

\* The operations that hold a unit of work for themselves, and those whose
\* stop callback has posted and not yet called work_finished.
Pending == {k \in Kinds : coro[k] \in {"suspended", "completing"}}
Finishing == {k \in Kinds : stop_cb[k] = "finish"}

\* There are finitely many kinds of operation.
LEMMA KindsFinite == IsFiniteSet(Kinds)
<1>1. IsFiniteSet(OpKinds)
  <2>1. IsFiniteSet({"connect"}) BY FS_Singleton, Zenon
  <2>2. IsFiniteSet({"connect"} \cup {"read"}) BY <2>1, FS_AddElement, Zenon
  <2>3. IsFiniteSet({"connect"} \cup {"read"} \cup {"write"})
    BY <2>2, FS_AddElement, Zenon
  <2>4. IsFiniteSet({"connect"} \cup {"read"} \cup {"write"} \cup {"wait_read"})
    BY <2>3, FS_AddElement, Zenon
  <2>5. IsFiniteSet({"connect"} \cup {"read"} \cup {"write"} \cup {"wait_read"}
                      \cup {"wait_write"})
    BY <2>4, FS_AddElement, Zenon
  <2>6. IsFiniteSet({"connect"} \cup {"read"} \cup {"write"} \cup {"wait_read"}
                      \cup {"wait_write"} \cup {"wait_error"})
    BY <2>5, FS_AddElement, Zenon
  <2>7. OpKinds = {"connect"} \cup {"read"} \cup {"write"} \cup {"wait_read"}
                      \cup {"wait_write"} \cup {"wait_error"}
    BY Zenon DEF OpKinds
  <2> QED BY <2>6, <2>7, Zenon
<1> QED BY <1>1, FS_Subset, InstanceOK, Zenon

\* A set of operations is finite, and gains or loses one with one operation.
LEMMA CountKinds ==
  ASSUME NEW S, S \subseteq Kinds
  PROVE  /\ Cardinality(S) \in Nat
         /\ \A k \in Kinds \ S : Cardinality(S \cup {k}) = Cardinality(S) + 1
         /\ \A k \in S : /\ Cardinality(S \ {k}) = Cardinality(S) - 1
                         /\ Cardinality(S) > 0
<1>1. IsFiniteSet(S)
  BY KindsFinite, FS_Subset, Zenon
<1>2. Cardinality(S) \in Nat
  BY <1>1, FS_CardinalityType, Zenon
<1>3. \A k \in Kinds \ S : Cardinality(S \cup {k}) = Cardinality(S) + 1
  BY <1>1, FS_AddElement, Zenon
<1>4. \A k \in S : Cardinality(S \ {k}) = Cardinality(S) - 1
  BY <1>1, FS_RemoveElement, Zenon
<1>5. \A k \in S : Cardinality(S) # 0
  BY <1>1, FS_EmptySet, Zenon
<1> QED BY <1>2, <1>3, <1>4, <1>5

\* Two sets that differ in one operation at most.
LEMMA CountMoves ==
  ASSUME NEW S, NEW T, S \subseteq Kinds, T \subseteq Kinds, NEW k \in Kinds,
         S \ {k} = T \ {k}
  PROVE  Cardinality(T) = Cardinality(S) + Flag(k \in T) - Flag(k \in S)
<1>1. CASE k \in S /\ k \notin T
  <2>1. T = S \ {k} BY <1>1, Zenon
  <2> QED BY <1>1, CountKinds DEF Flag
<1>2. CASE k \notin S /\ k \in T
  <2>1. T = S \cup {k} BY <1>2, Zenon
  <2> QED BY <1>2, CountKinds DEF Flag
<1>3. CASE (k \in S) = (k \in T)
  <2>1. T = S BY <1>3
  <2> QED BY <2>1, CountKinds DEF Flag
<1> QED BY <1>1, <1>2, <1>3

\* The work ledger in terms of the two sets.
LEMMA WorkIsCount ==
  WorkHeld <=> opWork = Cardinality(Pending) + Cardinality(Finishing)
                          + Flag(user = "finish")
BY Zenon DEF WorkHeld, CountOf, Pending, Finishing

-----------------------------------------------------------------------------
(* The inductive invariant.                                                *)

\* What the user's call holds: claimed operations only between the claim and
\* the last post; and no slot is filled from the claim to the initialisation
\* of the next descriptor.
CallOwnsClaims ==
  /\ user \notin {"repost", "finish"} => claimed = {}
  /\ user \in {"repost", "finish", "erase", "init"} => \A k \in Kinds : ~slot[k]

SockInv == SocketLedger /\ CallOwnsClaims

\* The invariant with the work ledger as a sum of cardinalities.
LEMMA SockInvIs ==
  SockInv <=> /\ SockTypeOK /\ OnePlace /\ EnqueuedOnce /\ StopIsForThisOp
              /\ StoppedLeavesSlot /\ PendingKeepsSocket /\ CallOwnsClaims
              /\ opWork = Cardinality(Pending) + Cardinality(Finishing)
                            + Flag(user = "finish")
BY WorkIsCount, Zenon DEF SockInv, SocketLedger

\* The parts of the invariant, in the next state.
LEMMA SockInvNext ==
  SockInv' <=> /\ SockTypeOK' /\ OnePlace' /\ EnqueuedOnce' /\ StopIsForThisOp'
               /\ StoppedLeavesSlot' /\ PendingKeepsSocket' /\ CallOwnsClaims'
               /\ opWork' = Cardinality(Pending') + Cardinality(Finishing')
                              + Flag(user' = "finish")
BY Zenon DEF SockInv, SocketLedger, WorkHeld, CountOf, Pending, Finishing

\* A step that leaves the operations, the claims and the descriptor's queue
\* entry alone keeps the ledger, wherever the user's call goes from a state
\* in which it holds nothing.
LEMMA FrameKept ==
  ASSUME SockInv, SockTypeOK',
         UNCHANGED <<coro, stop_cb, cancelled, impl_ptr, slot, queued,
                     claimed, opWork, is_enqueued, desc_queue>>,
         \/ user' = user
         \/ /\ user \notin {"claim", "finish"} /\ claimed = {}
            /\ user' \notin {"claim", "repost", "finish"}
            /\ user' \in {"erase", "init"} => user = "repost"
  PROVE  SockInv'
<1> USE SockInvIs
<1>1. Pending' = Pending /\ Finishing' = Finishing
  BY Zenon DEF Pending, Finishing
<1>2. opWork' = Cardinality(Pending') + Cardinality(Finishing')
                  + Flag(user' = "finish")
  BY <1>1, Zenon
<1>3. OnePlace' /\ EnqueuedOnce' /\ StopIsForThisOp' /\ PendingKeepsSocket'
  BY DEF OnePlace, EnqueuedOnce, StopIsForThisOp, PendingKeepsSocket
<1>4. StoppedLeavesSlot'
  BY Zenon DEF StoppedLeavesSlot
<1>5. CallOwnsClaims'
  BY Zenon DEF CallOwnsClaims
<1> QED BY <1>2, <1>3, <1>4, <1>5, SockInvNext, Zenon

-----------------------------------------------------------------------------
(* One lemma for every group of actions.                                   *)

\* The kernel's socket, and the operations that end in the call itself.
LEMMA KernelKeeps ==
  ASSUME SockInv,
         Kernel \/ (\E k \in Kinds : DoInline(k)) \/ DoConnectInline
  PROVE  SockInv'
<1> USE DEF opVars, descVars, userVars, pollVars
<1>0. SockTypeOK
  BY SockInvIs, Zenon
<1>1. UNCHANGED <<opVars, descVars, userVars, pollVars, opWork>>
  BY Zenon DEF Kernel, KernelConnect, SockReady, KernelReset, DoInline,
     DoConnectInline
<1>2. /\ conn' \in {"fresh", "progress", "up", "down"}
      /\ {registered', edge', data', room', sockerr'} \subseteq BOOLEAN
  BY <1>0, Zenon DEF SockTypeOK, OpFlagTypes, QueueTypes, DescTypes, CallTypes,
     FileTypes, Kernel, KernelConnect, SockReady, KernelReset, DoInline,
     Transfer, DoConnectInline, ConnectAtOnce
<1>3. SockTypeOK'
  BY <1>0, <1>1, <1>2 DEF SockTypeOK, OpTypes, OpFlagTypes, SlotTypes,
     QueueTypes, DescTypes, CallTypes, FileTypes
<1> QED BY <1>1, <1>3, FrameKept, Zenon

\* The reactor's thread: what epoll reports reaches the descriptor's queue.
LEMMA ReactorKeeps ==
  ASSUME SockInv, Reactor
  PROVE  SockInv'
<1> USE DEF opVars, descVars, userVars, kernVars, pollVars
<1>0. SockTypeOK /\ EnqueuedOnce
  BY SockInvIs, Zenon
<1>1. CASE EpollWait \/ AddReadyEvents \/ DropEvent
  <2>1. UNCHANGED <<opVars, userVars, opWork, is_enqueued, desc_queue>>
    BY <1>1, Zenon DEF EpollWait, AddReadyEvents, DropEvent
  <2>2. Mask \subseteq Events
    BY Zenon DEF Mask
  <2>3. SockTypeOK'
    BY <1>0, <1>1, <2>2, ZenonT(60)
       DEF SockTypeOK, OpTypes, OpFlagTypes, SlotTypes, QueueTypes, DescTypes,
           CallTypes, FileTypes, EpollWait, AddReadyEvents, DropEvent
  <2> QED BY <2>1, <2>3, FrameKept, Zenon
<1>2. CASE EnqueueDescriptor
  <2>1. SockTypeOK'
    BY <1>0, <1>2 DEF SockTypeOK, OpTypes, OpFlagTypes, SlotTypes, QueueTypes,
       DescTypes, CallTypes, FileTypes, EnqueueDescriptor
  <2>2. EnqueuedOnce'
    BY <1>0, <1>2 DEF EnqueuedOnce, EnqueueDescriptor, Flag
  <2>3. UNCHANGED <<opVars, userVars, opWork>>
    BY <1>2, Zenon DEF EnqueueDescriptor
  <2>4. Pending' = Pending /\ Finishing' = Finishing
    BY <2>3, Zenon DEF Pending, Finishing
  <2>5. /\ OnePlace' /\ StopIsForThisOp' /\ StoppedLeavesSlot'
        /\ PendingKeepsSocket' /\ CallOwnsClaims'
    BY <2>3, SockInvIs DEF OnePlace, StopIsForThisOp, StoppedLeavesSlot,
       PendingKeepsSocket, CallOwnsClaims
  <2> QED BY <2>1, <2>2, <2>3, <2>4, <2>5, SockInvIs, SockInvNext, Zenon
<1> QED BY <1>1, <1>2, Zenon DEF Reactor

\* Steps of a call that holds no operation.
LEMMA CallFrameKeeps ==
  ASSUME SockInv,
         \/ CancelReturn \/ CloseFd \/ DestroyErase \/ OpenFails \/ EpollAdd
         \/ ClearReadyEvents \/ ResetFlags
  PROVE  SockInv'
<1> USE DEF opVars, descVars, userVars, kernVars, pollVars
<1>0. SockTypeOK /\ CallOwnsClaims
  BY SockInvIs, Zenon
<1>1. UNCHANGED <<opVars, claimed, opWork, is_enqueued, desc_queue>>
  BY Zenon DEF CancelReturn, CloseFd, DestroyErase, OpenFails, EpollAdd,
     ClearReadyEvents, ResetFlags
<1>2. /\ user \notin {"claim", "finish"} /\ claimed = {}
      /\ user' \notin {"claim", "repost", "finish"}
      /\ user' \in {"erase", "init"} => user = "repost"
  BY <1>0, Zenon DEF CallOwnsClaims, CancelReturn, CloseFd, DestroyErase,
     OpenFails, EpollAdd, ClearReadyEvents, ResetFlags
<1>3. SockTypeOK'
  <2>1. CASE CancelReturn \/ DestroyErase \/ OpenFails
    BY <1>0, <2>1, Zenon DEF SockTypeOK, OpTypes, OpFlagTypes, SlotTypes,
       QueueTypes, DescTypes, CallTypes, FileTypes, CancelReturn, DestroyErase,
       OpenFails
  <2>2. CASE CloseFd
    BY <1>0, <2>2, Zenon DEF SockTypeOK, OpTypes, OpFlagTypes, SlotTypes,
       QueueTypes, DescTypes, CallTypes, FileTypes, CloseFd
  <2>3. CASE EpollAdd \/ ClearReadyEvents \/ ResetFlags
    BY <1>0, <2>3, Zenon
       DEF SockTypeOK, OpTypes, OpFlagTypes, SlotTypes, QueueTypes, DescTypes,
           CallTypes, FileTypes, EpollAdd, ClearReadyEvents, ResetFlags
  <2> QED BY <2>1, <2>2, <2>3, Zenon
<1> QED BY <1>1, <1>2, <1>3, FrameKept, Zenon

-----------------------------------------------------------------------------
(* Steps of one operation.                                                 *)

\* What the ledger says of one operation.
OpOK(k) ==
  /\ Flag(slot[k]) + queued[k] + Flag(stop_cb[k] = "post") + Flag(k \in claimed)
       = Flag(coro[k] = "suspended")
  /\ stop_cb[k] # "none" => coro[k] # "idle"
  /\ (slot[k] /\ cancelled[k]) => stop_cb[k] = "claim" \/ user = "claim"
  /\ coro[k] # "idle" => impl_ptr[k]

\* The operation's part of outstanding_work_.
OpWork(k) == Flag(coro[k] \in {"suspended", "completing"})
               + Flag(stop_cb[k] = "finish")

\* The other operations stay as they are.
Others(k) ==
  \A j \in Kinds \ {k} :
    /\ coro'[j] = coro[j] /\ stop_cb'[j] = stop_cb[j] /\ slot'[j] = slot[j]
    /\ cancelled'[j] = cancelled[j] /\ impl_ptr'[j] = impl_ptr[j]
    /\ queued'[j] = queued[j] /\ (j \in claimed' <=> j \in claimed)

\* A step that changes one operation, and the work count by as much.
LEMMA OneOpKept ==
  ASSUME SockInv, SockTypeOK', NEW k \in Kinds, Others(k), OpOK(k)',
         opWork' - Flag(user' = "finish") - OpWork(k)'
            = opWork - Flag(user = "finish") - OpWork(k),
         UNCHANGED <<is_enqueued, desc_queue>>,
         user = "claim" => user' = "claim",
         CallOwnsClaims'
  PROVE  SockInv'
<1>1. /\ SockTypeOK /\ OnePlace /\ EnqueuedOnce /\ StopIsForThisOp
      /\ StoppedLeavesSlot /\ PendingKeepsSocket
      /\ opWork = Cardinality(Pending) + Cardinality(Finishing)
                    + Flag(user = "finish")
  BY SockInvIs, Zenon
<1>2. EnqueuedOnce'
  BY <1>1, Zenon DEF EnqueuedOnce
<1>3. OnePlace' /\ StopIsForThisOp' /\ StoppedLeavesSlot' /\ PendingKeepsSocket'
  <2> SUFFICES ASSUME NEW j \in Kinds PROVE OpOK(j)'
    BY Zenon DEF OpOK, OnePlace, StopIsForThisOp, StoppedLeavesSlot,
       PendingKeepsSocket
  <2>1. CASE j = k
    BY <2>1, Zenon
  <2>2. CASE j # k
    <3>1. /\ coro'[j] = coro[j] /\ stop_cb'[j] = stop_cb[j] /\ slot'[j] = slot[j]
          /\ cancelled'[j] = cancelled[j] /\ impl_ptr'[j] = impl_ptr[j]
          /\ queued'[j] = queued[j] /\ (j \in claimed' <=> j \in claimed)
      BY <2>2, Zenon DEF Others
    <3>2. OpOK(j)
      BY <1>1, Zenon DEF OpOK, OnePlace, StopIsForThisOp, StoppedLeavesSlot,
         PendingKeepsSocket
    <3> QED BY <3>1, <3>2, Zenon DEF OpOK, Flag
  <2> QED BY <2>2, Zenon
<1>4. Cardinality(Pending') = Cardinality(Pending) + Flag(k \in Pending')
                                - Flag(k \in Pending)
  <2>1. Pending \ {k} = Pending' \ {k}
    BY Zenon DEF Pending, Others
  <2> QED BY <2>1, CountMoves, Zenon DEF Pending
<1>5. Cardinality(Finishing') = Cardinality(Finishing) + Flag(k \in Finishing')
                                  - Flag(k \in Finishing)
  <2>1. Finishing \ {k} = Finishing' \ {k}
    BY Zenon DEF Finishing, Others
  <2> QED BY <2>1, CountMoves, Zenon DEF Finishing
<1>6. /\ OpWork(k) = Flag(k \in Pending) + Flag(k \in Finishing)
      /\ OpWork(k)' = Flag(k \in Pending') + Flag(k \in Finishing')
  BY Zenon DEF OpWork, Pending, Finishing, Flag
<1>7. Cardinality(Pending) \in Nat /\ Cardinality(Finishing) \in Nat
  BY CountKinds, Zenon DEF Pending, Finishing
<1>8. opWork' \in Nat
  BY Zenon DEF SockTypeOK, OpFlagTypes, SlotTypes, QueueTypes, DescTypes
<1>9. opWork' = Cardinality(Pending') + Cardinality(Finishing')
                  + Flag(user' = "finish")
  BY <1>1, <1>4, <1>5, <1>6, <1>7, <1>8 DEF Flag
<1> QED BY <1>2, <1>3, <1>9, SockInvNext, Zenon

\* Whoever gives a unit of work back finds one.
LEMMA WorkThere ==
  ASSUME SockInv,
         user = "finish" \/ \E k \in Kinds : OpWork(k) > 0
  PROVE  opWork > 0
<1>1. opWork = Cardinality(Pending) + Cardinality(Finishing)
                 + Flag(user = "finish")
  BY SockInvIs, Zenon
<1>2. /\ Cardinality(Pending) \in Nat /\ Cardinality(Finishing) \in Nat
      /\ \A k \in Pending : Cardinality(Pending) > 0
      /\ \A k \in Finishing : Cardinality(Finishing) > 0
  BY CountKinds, Zenon DEF Pending, Finishing
<1>3. ASSUME NEW k \in Kinds, OpWork(k) > 0
      PROVE  k \in Pending \/ k \in Finishing
  BY <1>3 DEF OpWork, Flag, Pending, Finishing
<1> QED BY <1>1, <1>2, <1>3 DEF Flag

\* The facts about an operation that every step below starts from.
LEMMA OpFacts ==
  ASSUME SockInv, NEW k \in Kinds
  PROVE  SockTypeOK /\ CallOwnsClaims /\ OpOK(k)
BY SockInvIs, Zenon DEF OpOK, OnePlace, StopIsForThisOp, StoppedLeavesSlot,
   PendingKeepsSocket

\* start() and post, when the first system call ended the operation.
LEMMA PostKeeps ==
  ASSUME SockInv, NEW k \in Kinds, NEW s \in BOOLEAN,
         DoPost(k, s) \/ (k = "connect" /\ DoConnectPost(s))
  PROVE  SockInv'
<1> USE DEF descVars, userVars, pollVars
<1>0. SockTypeOK /\ CallOwnsClaims /\ OpOK(k)
  BY OpFacts, Zenon
<1>1. /\ user = "idle" /\ coro[k] = "idle" /\ Start(k, s) /\ PostOp(k)
      /\ coro' = [coro EXCEPT ![k] = "suspended"]
      /\ UNCHANGED <<descVars, userVars, pollVars, slot, registered, sockerr>>
  BY Zenon DEF DoPost, DoConnectPost, CanCall, OpIdle
<1>2. /\ errn' \in [Kinds -> BOOLEAN]
      /\ conn' \in {"fresh", "progress", "up", "down"}
      /\ {data', room', edge'} \subseteq BOOLEAN
  BY <1>0, Zenon DEF DoPost, DoConnectPost, SockTypeOK, OpFlagTypes, FileTypes,
     Transfer, ConnectAtOnce, PerformFails
<1>3. SockTypeOK'
  <2>1. /\ coro' \in [Kinds -> {"idle", "initiating", "suspended", "completing"}]
        /\ stop_cb' \in [Kinds -> {"none", "armed", "fired"} \cup Claimers]
        /\ queued' \in [Kinds -> Nat] /\ opWork' \in Nat
    BY <1>0, <1>1 DEF SockTypeOK, OpTypes, OpFlagTypes, SlotTypes, QueueTypes,
       DescTypes, CallTypes, FileTypes, Start, PostOp
  <2>2. /\ cancelled' \in [Kinds -> BOOLEAN] /\ impl_ptr' \in [Kinds -> BOOLEAN]
        /\ cancel_pending' \in [Kinds -> BOOLEAN]
    BY <1>0, <1>1, Zenon
       DEF SockTypeOK, OpTypes, OpFlagTypes, SlotTypes, QueueTypes, DescTypes,
           CallTypes, FileTypes, Start
  <2> QED
    BY <1>0, <1>1, <1>2, <2>1, <2>2, Zenon
       DEF SockTypeOK, OpTypes, OpFlagTypes, SlotTypes, QueueTypes, DescTypes,
           CallTypes, FileTypes
<1>4. Others(k)
  BY <1>1 DEF Others, Start, PostOp, OpFlagTypes, QueueTypes, DescTypes,
     CallTypes, FileTypes
<1>5. /\ coro'[k] = "suspended" /\ queued'[k] = queued[k] + 1 /\ impl_ptr'[k]
      /\ stop_cb'[k] \in {"fired", "armed", "none"} /\ opWork' = opWork + 1
  BY <1>0, <1>1, Zenon
     DEF SockTypeOK, OpTypes, OpFlagTypes, SlotTypes, QueueTypes, Start, PostOp
<1>6. OpOK(k)'
  BY <1>0, <1>1, <1>5 DEF OpOK, Flag, SockTypeOK, OpTypes, OpFlagTypes,
     SlotTypes, QueueTypes
<1>7. OpWork(k)' = OpWork(k) + 1
  BY <1>0, <1>1, <1>5 DEF OpOK, OpWork, Flag
<1>8. CallOwnsClaims'
  BY <1>0, <1>1, Zenon DEF CallOwnsClaims
<1>9. opWork' - Flag(user' = "finish") - OpWork(k)'
        = opWork - Flag(user = "finish") - OpWork(k)
  BY <1>0, <1>1, <1>5, <1>7 DEF SockTypeOK, OpTypes, OpFlagTypes, QueueTypes,
     OpWork, Flag
<1> QED BY <1>1, <1>3, <1>4, <1>6, <1>8, <1>9, OneOpKept, Zenon

\* start(), before register_op.
LEMMA ParkKeeps ==
  ASSUME SockInv, NEW k \in Kinds, NEW s \in BOOLEAN,
         DoPark(k, s) \/ (k = "connect" /\ DoConnectPark(s))
  PROVE  SockInv'
<1> USE DEF descVars, kernVars, pollVars
<1>0. SockTypeOK /\ CallOwnsClaims /\ OpOK(k)
  BY OpFacts, Zenon
<1>1. /\ user = "idle" /\ coro[k] = "idle" /\ Start(k, s)
      /\ coro' = [coro EXCEPT ![k] = "initiating"] /\ user' = "register"
      /\ errn' = [errn EXCEPT ![k] = FALSE]
      /\ UNCHANGED <<descVars, pollVars, opWork, slot, queued, call, claimed,
                     in_map, is_open, registered, edge, data, room, sockerr>>
  BY Zenon DEF DoPark, DoConnectPark, CanCall, OpIdle
<1>2. conn' \in {"fresh", "progress", "up", "down"}
  BY <1>0, Zenon DEF DoPark, DoConnectPark, SockTypeOK, OpTypes, OpFlagTypes,
     SlotTypes, QueueTypes, DescTypes, CallTypes, FileTypes
<1>3. SockTypeOK'
  BY <1>0, <1>1, <1>2, Zenon DEF SockTypeOK, OpTypes, OpFlagTypes, SlotTypes,
     QueueTypes, DescTypes, CallTypes, FileTypes, Start
<1>4. Others(k)
  BY <1>1 DEF Others, Start, QueueTypes, DescTypes, CallTypes, FileTypes
<1>5. /\ coro'[k] = "initiating" /\ impl_ptr'[k]
      /\ stop_cb'[k] \in {"fired", "armed", "none"}
  BY <1>0, <1>1, Zenon DEF SockTypeOK, OpTypes, OpFlagTypes, Start
<1>6. OpOK(k)'
  BY <1>0, <1>1, <1>5 DEF OpOK, Flag, SockTypeOK, QueueTypes, DescTypes,
     CallTypes, FileTypes
<1>7. OpWork(k)' = OpWork(k)
  BY <1>0, <1>1, <1>5 DEF OpOK, OpWork
<1>8. CallOwnsClaims'
  BY <1>0, <1>1, Zenon DEF CallOwnsClaims
<1>9. Flag(user' = "finish") = Flag(user = "finish")
  BY <1>1, Zenon
<1> QED BY <1>1, <1>3, <1>4, <1>6, <1>7, <1>8, <1>9, OneOpKept, Zenon

\* register_op: the operation goes to its slot, or to the queue when the
\* cached edge ended it or it was told to stop.
LEMMA RegisterKeeps ==
  ASSUME SockInv, NEW k \in Kinds, RegisterOp(k)
  PROVE  SockInv'
<1> USE DEF pollVars
<1>0. SockTypeOK /\ CallOwnsClaims /\ OpOK(k)
  BY OpFacts, Zenon
<1> DEFINE done == ReadyFlag(k) /\ PerformDone(k)
           stop == StopSeen(k)
<1>1. /\ user = "register" /\ coro[k] = "initiating" /\ user' = "idle"
      /\ coro' = [coro EXCEPT ![k] = "suspended"] /\ opWork' = opWork + 1
      /\ cancelled' = [cancelled EXCEPT ![k] = @ \/ cancel_pending[k]]
      /\ cancel_pending' = [cancel_pending EXCEPT ![k] = FALSE]
      /\ errn' = [errn EXCEPT ![k] = done /\ PerformFails(k)]
      /\ IF done \/ stop
         THEN queued' = [queued EXCEPT ![k] = @ + 1] /\ UNCHANGED slot
         ELSE slot' = [slot EXCEPT ![k] = TRUE] /\ UNCHANGED queued
      /\ Transfer(IF done THEN {k} ELSE {})
      /\ read_ready' = (read_ready /\ k \notin {"read", "wait_read"})
      /\ write_ready' = (write_ready /\ k \notin {"write", "connect"})
      /\ sockerr' = (sockerr /\ ~(ReadyFlag(k) /\ k = "connect"))
      /\ UNCHANGED <<stop_cb, impl_ptr, sock_events, is_enqueued,
                     impl_ref, desc_queue, call, claimed, in_map, is_open,
                     pollVars, registered, edge, conn>>
  BY Zenon DEF RegisterOp, WorkStarted
<1>a. /\ OpTypes /\ OpFlagTypes /\ SlotTypes /\ QueueTypes /\ DescTypes /\ CallTypes
      /\ FileTypes /\ queued \in [Kinds -> Nat] /\ opWork \in Nat
      /\ DOMAIN coro = Kinds /\ DOMAIN slot = Kinds /\ DOMAIN cancelled = Kinds
  BY <1>0, Zenon DEF SockTypeOK, QueueTypes, OpTypes, OpFlagTypes, SlotTypes
<1>b. IF done \/ stop
      THEN queued' = [queued EXCEPT ![k] = @ + 1] /\ UNCHANGED slot
      ELSE slot' = [slot EXCEPT ![k] = TRUE] /\ UNCHANGED queued
  BY <1>1, Zenon
<1>u. UNCHANGED <<stop_cb, impl_ptr, claimed, call, is_enqueued, desc_queue>>
  BY <1>1, Zenon
<1>2. DescTypes' /\ FileTypes'
  <2>1. {data', room'} \subseteq BOOLEAN
    BY <1>1, <1>a, Zenon DEF Transfer, FileTypes
  <2>2. {read_ready', write_ready', sockerr'} \subseteq BOOLEAN
    BY <1>1, Zenon
  <2>3. FileTypes'
    BY <1>1, <1>a, <2>1, <2>2, Zenon DEF FileTypes
  <2> QED BY <1>1, <1>a, <2>2, <2>3, Zenon DEF DescTypes
<1>c. /\ queued' \in [Kinds -> Nat] /\ slot' \in [Kinds -> BOOLEAN] /\ opWork' \in Nat
      /\ queued'[k] = queued[k] + (IF done \/ stop THEN 1 ELSE 0)
  <2>1. slot \in [Kinds -> BOOLEAN] /\ opWork' = opWork + 1
    BY <1>1, <1>a, Zenon DEF SlotTypes
  <2>2. CASE done \/ stop
    <3>1. queued' = [queued EXCEPT ![k] = @ + 1] /\ slot' = slot
      BY <1>b, <2>2, Zenon
    <3>2. queued' \in [Kinds -> Nat] /\ queued'[k] = queued[k] + 1 /\ opWork' \in Nat
      BY <1>a, <2>1, <3>1
    <3> QED BY <2>1, <2>2, <3>1, <3>2, Zenon
  <2>3. CASE ~(done \/ stop)
    <3>1. slot' = [slot EXCEPT ![k] = TRUE] /\ queued' = queued
      BY <1>b, <2>3, Zenon
    <3>2. queued[k] = queued[k] + 0 /\ opWork' \in Nat
      BY <1>a, <2>1
    <3> QED BY <1>a, <2>1, <2>3, <3>1, <3>2, Zenon
  <2> QED BY <2>2, <2>3, Zenon
<1>3. SockTypeOK'
  <2>1. coro' \in [Kinds -> {"idle", "initiating", "suspended", "completing"}]
    BY <1>1, <1>a, Zenon DEF OpTypes
  <2>2. OpTypes' /\ OpFlagTypes'
    BY <1>1, <1>a, <2>1, Zenon DEF OpTypes, OpFlagTypes
  <2>3. SlotTypes' /\ QueueTypes' /\ CallTypes'
    BY <1>1, <1>a, <1>c, Zenon DEF SlotTypes, QueueTypes, CallTypes
  <2> QED BY <1>2, <2>2, <2>3, Zenon DEF SockTypeOK
<1>4. Others(k)
  <2>1. \A j \in Kinds \ {k} : coro'[j] = coro[j] /\ cancelled'[j] = cancelled[j]
    BY <1>1, <1>a, Zenon
  <2>2. \A j \in Kinds \ {k} : slot'[j] = slot[j] /\ queued'[j] = queued[j]
    BY <1>a, <1>b, Zenon
  <2> QED BY <1>u, <2>1, <2>2, Zenon DEF Others
<1>5. coro[k] = "initiating" /\ coro'[k] = "suspended" /\ user = "register" /\ user' = "idle"
  BY <1>1, <1>a, Zenon
<1>6. OpOK(k)'
  <2>1. stop_cb[k] # "post" /\ ~slot[k] /\ queued[k] = 0 /\ k \notin claimed /\ impl_ptr[k]
    BY <1>0, <1>5, <1>a DEF OpOK, Flag
  <2>2. CASE done \/ stop
    <3>1. slot' = slot /\ queued'[k] = 1
      BY <1>b, <1>c, <2>1, <2>2
    <3> QED BY <1>u, <1>5, <2>1, <3>1 DEF OpOK, Flag
  <2>3. CASE ~(done \/ stop)
    <3>1. slot'[k] = TRUE /\ queued'[k] = 0
      BY <1>a, <1>b, <2>1, <2>3, Zenon
    <3>2. cancelled'[k] = FALSE
      BY <1>1, <1>a, <2>3, Zenon DEF StopSeen, OpFlagTypes, SlotTypes
    <3> QED BY <1>u, <1>5, <2>1, <3>1, <3>2 DEF OpOK, Flag
  <2> QED BY <2>2, <2>3, Zenon
<1>7. OpWork(k)' = OpWork(k) + 1 /\ OpWork(k) \in Int
  BY <1>5, <1>u DEF OpWork, Flag
<1>8. CallOwnsClaims'
  BY <1>0, <1>5, <1>u, Zenon DEF CallOwnsClaims
<1>9. opWork' - Flag(user' = "finish") - OpWork(k)'
        = opWork - Flag(user = "finish") - OpWork(k)
  <2>1. opWork' = opWork + 1
    BY <1>1, Zenon
  <2> QED BY <1>5, <1>7, <1>a, <2>1 DEF Flag
<1> QED BY <1>3, <1>4, <1>5, <1>6, <1>8, <1>9, <1>u, OneOpKept, Zenon

\* The stop callback, step by step: it takes the operation from its slot,
\* posts it, and gives the registration's unit of work back.
LEMMA CallbackKeeps ==
  ASSUME SockInv, NEW k \in Kinds, StopRequested(k) \/ Callback(k)
  PROVE  SockInv'
<1>0. SockTypeOK /\ CallOwnsClaims /\ OpOK(k)
  BY OpFacts, Zenon
<1>1. /\ UNCHANGED <<user, call, claimed, is_enqueued, desc_queue, coro, errn>>
      /\ UNCHANGED <<descVars, userVars, kernVars, pollVars>>
  <2>1. UNCHANGED <<descVars, userVars, kernVars, pollVars, coro, errn>>
    BY Zenon DEF StopRequested, Callback, CancelClaim, CancelPost, FinishCancel
  <2> QED BY <2>1, Zenon DEF descVars, userVars
<1>2. CallOwnsClaims'
  <2>1. \A j \in Kinds : slot'[j] => slot[j]
    BY <1>0, Zenon
       DEF SockTypeOK, SlotTypes, StopRequested, Callback, CancelClaim,
           CancelPost, FinishCancel
  <2> QED BY <1>0, <1>1, <2>1, Zenon DEF CallOwnsClaims
<1>t. DescTypes' /\ CallTypes' /\ FileTypes' /\ desc_queue' \in Nat
  BY <1>0, <1>1, Zenon
     DEF SockTypeOK, QueueTypes, DescTypes, CallTypes, FileTypes, descVars,
         userVars, kernVars, pollVars
<1>a. /\ OpTypes /\ OpFlagTypes /\ SlotTypes /\ queued \in [Kinds -> Nat] /\ opWork \in Nat
      /\ DOMAIN stop_cb = Kinds /\ DOMAIN slot = Kinds /\ DOMAIN cancelled = Kinds
      /\ DOMAIN impl_ptr = Kinds
  BY <1>0, Zenon DEF SockTypeOK, OpTypes, OpFlagTypes, SlotTypes, QueueTypes
<1>3. SUFFICES /\ OpTypes' /\ OpFlagTypes' /\ SlotTypes' /\ queued' \in [Kinds -> Nat]
               /\ opWork' \in Nat /\ Others(k) /\ OpOK(k)'
               /\ opWork' - OpWork(k)' = opWork - OpWork(k)
  <2>1. SockTypeOK'
    BY <1>t, <1>3, Zenon DEF SockTypeOK, QueueTypes
  <2>2. OpWork(k) \in Int /\ OpWork(k)' \in Int
    BY DEF OpWork, Flag
  <2>3. opWork' - Flag(user' = "finish") - OpWork(k)'
          = opWork - Flag(user = "finish") - OpWork(k)
    BY <1>1, <1>3, <1>a, <2>2 DEF Flag
  <2> QED BY <1>1, <1>2, <1>3, <2>1, <2>3, OneOpKept, ZenonT(60)
<1>4. CASE StopRequested(k)
  <2>1. /\ stop_cb[k] = "armed" /\ stop_cb' = [stop_cb EXCEPT ![k] = "claim"]
        /\ cancelled' = [cancelled EXCEPT ![k] = TRUE]
        /\ UNCHANGED <<opWork, impl_ptr, slot, cancel_pending, queued>>
    BY <1>4, Zenon DEF StopRequested
  <2>2. stop_cb'[k] = "claim"
    BY <1>a, <2>1, Zenon
  <2>3. OpTypes' /\ OpFlagTypes' /\ SlotTypes'
    BY <1>1, <1>a, <2>1, Zenon DEF OpTypes, OpFlagTypes, SlotTypes, Claimers
  <2>4. Others(k)
    BY <1>1, <1>a, <2>1, Zenon DEF Others
  <2>5. OpOK(k)'
    BY <1>0, <1>1, <2>1, <2>2, Zenon DEF OpOK
  <2>6. OpWork(k)' = OpWork(k)
    BY <1>1, <2>1, <2>2, Zenon DEF OpWork
  <2> QED BY <1>a, <2>1, <2>3, <2>4, <2>5, <2>6, Zenon
<1>5. CASE CancelClaim(k) /\ slot[k]
  <2>1. /\ stop_cb[k] = "claim" /\ stop_cb' = [stop_cb EXCEPT ![k] = "post"]
        /\ slot' = [slot EXCEPT ![k] = FALSE]
        /\ UNCHANGED <<opWork, impl_ptr, cancelled, cancel_pending, queued>>
    BY <1>5, Zenon DEF CancelClaim
  <2>2. stop_cb'[k] = "post" /\ slot'[k] = FALSE
    BY <1>a, <2>1, Zenon
  <2>3. OpTypes' /\ OpFlagTypes' /\ SlotTypes'
    BY <1>1, <1>a, <2>1, Zenon DEF OpTypes, OpFlagTypes, SlotTypes, Claimers
  <2>4. Others(k)
    BY <1>1, <1>a, <2>1, Zenon DEF Others
  <2>5. OpOK(k)'
    BY <1>0, <1>1, <1>5, <1>a, <2>1, <2>2 DEF OpOK, Flag
  <2>6. OpWork(k)' = OpWork(k)
    BY <1>1, <2>1, <2>2, Zenon DEF OpWork
  <2> QED BY <1>a, <2>1, <2>3, <2>4, <2>5, <2>6, Zenon
<1>6. CASE CancelClaim(k) /\ ~slot[k]
  <2>1. /\ stop_cb[k] = "claim" /\ stop_cb' = [stop_cb EXCEPT ![k] = "fired"]
        /\ cancel_pending' = [cancel_pending EXCEPT ![k] = TRUE]
        /\ UNCHANGED <<opWork, impl_ptr, cancelled, slot, queued>>
    BY <1>6, Zenon DEF CancelClaim
  <2>2. stop_cb'[k] = "fired"
    BY <1>a, <2>1, Zenon
  <2>3. OpTypes' /\ OpFlagTypes' /\ SlotTypes'
    BY <1>1, <1>a, <2>1, Zenon DEF OpTypes, OpFlagTypes, SlotTypes, Claimers
  <2>4. Others(k)
    BY <1>1, <1>a, <2>1, Zenon DEF Others
  <2>5. OpOK(k)'
    BY <1>0, <1>1, <1>6, <2>1, <2>2, Zenon DEF OpOK
  <2>6. OpWork(k)' = OpWork(k)
    BY <1>1, <2>1, <2>2, Zenon DEF OpWork
  <2> QED BY <1>a, <2>1, <2>3, <2>4, <2>5, <2>6, Zenon
<1>7. CASE CancelPost(k)
  <2>1. /\ stop_cb[k] = "post" /\ stop_cb' = [stop_cb EXCEPT ![k] = "finish"]
        /\ impl_ptr' = [impl_ptr EXCEPT ![k] = TRUE] /\ opWork' = opWork + 1
        /\ queued' = [queued EXCEPT ![k] = @ + 1]
        /\ UNCHANGED <<cancelled, slot, cancel_pending>>
    BY <1>7, Zenon DEF CancelPost, PostOp
  <2>2. stop_cb'[k] = "finish" /\ impl_ptr'[k] = TRUE
    BY <1>a, <2>1, Zenon
  <2>3. queued' \in [Kinds -> Nat] /\ queued'[k] = queued[k] + 1 /\ opWork' \in Nat
    BY <1>a, <2>1
  <2>4. OpTypes' /\ OpFlagTypes' /\ SlotTypes'
    BY <1>1, <1>a, <2>1, Zenon DEF OpTypes, OpFlagTypes, SlotTypes, Claimers
  <2>5. Others(k)
    BY <1>1, <1>a, <2>1, Zenon DEF Others
  <2>6. OpOK(k)'
    BY <1>0, <1>1, <1>a, <2>1, <2>2, <2>3 DEF OpOK, Flag
  <2>7. OpWork(k)' = OpWork(k) + 1
    BY <1>1, <2>1, <2>2 DEF OpWork, Flag
  <2>8. OpWork(k) \in Int
    BY DEF OpWork, Flag
  <2>9. opWork' - OpWork(k)' = opWork - OpWork(k)
    BY <1>a, <2>1, <2>7, <2>8
  <2> QED BY <2>3, <2>4, <2>5, <2>6, <2>9, Zenon
<1>8. CASE FinishCancel(k)
  <2>1. /\ stop_cb[k] = "finish" /\ stop_cb' = [stop_cb EXCEPT ![k] = "fired"]
        /\ opWork' = opWork - 1
        /\ UNCHANGED <<cancelled, impl_ptr, slot, cancel_pending, queued>>
    BY <1>8, Zenon DEF FinishCancel
  <2>2. stop_cb'[k] = "fired"
    BY <1>a, <2>1, Zenon
  <2>3. OpWork(k) > 0 /\ OpWork(k) \in Int /\ OpWork(k)' = OpWork(k) - 1
    BY <1>1, <2>1, <2>2 DEF OpWork, Flag
  <2>4. opWork > 0
    BY <2>3, WorkThere, Zenon
  <2>5. opWork' \in Nat /\ opWork' - OpWork(k)' = opWork - OpWork(k)
    BY <1>a, <2>1, <2>3, <2>4
  <2>6. OpTypes' /\ OpFlagTypes' /\ SlotTypes'
    BY <1>1, <1>a, <2>1, Zenon DEF OpTypes, OpFlagTypes, SlotTypes
  <2>7. Others(k)
    BY <1>1, <1>a, <2>1, Zenon DEF Others
  <2>8. OpOK(k)'
    BY <1>0, <1>1, <2>1, <2>2, Zenon DEF OpOK
  <2> QED BY <1>a, <2>1, <2>5, <2>6, <2>7, <2>8, Zenon
<1> QED BY <1>4, <1>5, <1>6, <1>7, <1>8, Zenon DEF Callback

\* The scheduler runs a queued operation: exactly one of its entries was
\* there, and its unit of work goes when its coroutine has been resumed.
LEMMA CompletionKeeps ==
  ASSUME SockInv, NEW k \in Kinds, Dispatch(k) \/ CompleteOp(k)
  PROVE  SockInv'
<1>0. SockTypeOK /\ CallOwnsClaims /\ OpOK(k)
  BY OpFacts, Zenon
<1>1. /\ UNCHANGED <<user, call, claimed, slot, cancel_pending, is_enqueued, desc_queue>>
      /\ UNCHANGED <<descVars, userVars, kernVars, pollVars>>
  BY Zenon DEF Dispatch, CompleteOp, descVars, userVars
<1>2. CallOwnsClaims'
  BY <1>0, <1>1, Zenon DEF CallOwnsClaims
<1>t. DescTypes' /\ CallTypes' /\ FileTypes' /\ SlotTypes' /\ desc_queue' \in Nat
  BY <1>0, <1>1, Zenon
     DEF SockTypeOK, SlotTypes, QueueTypes, DescTypes, CallTypes, FileTypes,
         descVars, userVars, kernVars, pollVars
<1>3. CASE Dispatch(k)
  <2>0. /\ queued' = [queued EXCEPT ![k] = @ - 1] /\ coro' = [coro EXCEPT ![k] = "completing"]
        /\ UNCHANGED <<opWork, stop_cb, cancelled, errn, impl_ptr>>
        /\ queued[k] > 0 /\ coro[k] = "suspended"
    BY <1>3, Zenon DEF Dispatch
  <2>a. /\ queued \in [Kinds -> Nat] /\ opWork \in Nat /\ OpTypes /\ OpFlagTypes
        /\ DOMAIN coro = Kinds
    BY <1>0, Zenon DEF SockTypeOK, QueueTypes, OpTypes
  <2>b. queued' \in [Kinds -> Nat] /\ queued'[k] = queued[k] - 1
    BY <2>0, <2>a
  <2>c. coro'[k] = "completing"
    BY <2>0, <2>a, Zenon
  <2>1. SockTypeOK'
    <3>1. OpTypes' /\ OpFlagTypes'
      BY <2>0, <2>a, Zenon DEF OpTypes, OpFlagTypes
    <3> QED BY <1>t, <2>0, <2>a, <2>b, <3>1, Zenon DEF SockTypeOK, QueueTypes
  <2>2. Others(k)
    BY <1>1, <2>0, <2>a, Zenon DEF Others
  <2>3. OpOK(k)'
    BY <1>0, <1>1, <2>0, <2>a, <2>b, <2>c DEF OpOK, Flag
  <2>4. OpWork(k)' = OpWork(k) /\ opWork' = opWork
    BY <2>0, <2>c DEF OpWork, Flag
  <2> QED BY <1>1, <1>2, <2>1, <2>2, <2>3, <2>4, OneOpKept, ZenonT(60)
<1>4. CASE CompleteOp(k)
  <2>0. /\ stop_cb' = [stop_cb EXCEPT ![k] = "none"] /\ impl_ptr' = [impl_ptr EXCEPT ![k] = FALSE]
        /\ coro' = [coro EXCEPT ![k] = "idle"] /\ cancelled' = [cancelled EXCEPT ![k] = FALSE]
        /\ errn' = [errn EXCEPT ![k] = FALSE] /\ opWork' = opWork - 1 /\ queued' = queued
        /\ coro[k] = "completing" /\ stop_cb[k] \notin Claimers
    BY <1>4, Zenon DEF CompleteOp
  <2>1. opWork > 0
    <3>1. OpWork(k) > 0
      BY <2>0 DEF OpWork, Flag
    <3> QED BY <3>1, WorkThere, Zenon
  <2>a. /\ queued \in [Kinds -> Nat] /\ opWork \in Nat /\ OpTypes /\ OpFlagTypes
        /\ DOMAIN coro = Kinds /\ DOMAIN stop_cb = Kinds
        /\ DOMAIN cancelled = Kinds /\ DOMAIN impl_ptr = Kinds
    BY <1>0, Zenon DEF SockTypeOK, QueueTypes, OpTypes, OpFlagTypes
  <2>b. coro'[k] = "idle" /\ stop_cb'[k] = "none"
    BY <2>0, <2>a, Zenon
  <2>c. opWork' \in Nat
    BY <2>0, <2>1, <2>a
  <2>2. SockTypeOK'
    <3>1. OpTypes' /\ OpFlagTypes'
      BY <2>0, <2>a, Zenon DEF OpTypes, OpFlagTypes
    <3> QED BY <1>t, <2>0, <2>a, <2>c, <3>1, Zenon DEF SockTypeOK, QueueTypes
  <2>3. Others(k)
    BY <1>1, <2>0, <2>a, Zenon DEF Others
  <2>4. OpOK(k)'
    BY <1>0, <1>1, <2>0, <2>a, <2>b DEF OpOK, Flag, Claimers
  <2>5. OpWork(k)' = OpWork(k) - 1 /\ opWork' = opWork - 1
    BY <2>0, <2>b DEF OpWork, Flag, Claimers
  <2>6. opWork' - Flag(user' = "finish") - OpWork(k)'
          = opWork - Flag(user = "finish") - OpWork(k)
    BY <1>1, <2>a, <2>5 DEF OpWork, Flag
  <2> QED BY <1>1, <1>2, <2>2, <2>3, <2>4, <2>6, OneOpKept, Zenon
<1> QED BY <1>3, <1>4, Zenon

\* cancel() and close() post an operation they claimed.
LEMMA RepostKeeps ==
  ASSUME SockInv, NEW k \in Kinds, CallRepost(k)
  PROVE  SockInv'
<1>0. SockTypeOK /\ CallOwnsClaims /\ OpOK(k)
  BY OpFacts, Zenon
<1>1. /\ user = "repost" /\ user' = "finish" /\ k \in claimed
      /\ queued' = [queued EXCEPT ![k] = @ + 1] /\ impl_ptr' = [impl_ptr EXCEPT ![k] = TRUE]
      /\ UNCHANGED <<call, is_enqueued, desc_queue, coro, slot, stop_cb, cancelled>>
      /\ opWork' = opWork + 1 /\ claimed' = claimed \ {k}
  BY Zenon DEF CallRepost, PostOp, descVars
<1>a. /\ queued \in [Kinds -> Nat] /\ opWork \in Nat /\ impl_ptr \in [Kinds -> BOOLEAN]
      /\ desc_queue \in Nat /\ claimed \subseteq Kinds
  BY <1>0, Zenon DEF SockTypeOK, QueueTypes, OpFlagTypes, CallTypes
<1>b. /\ queued' \in [Kinds -> Nat] /\ queued'[k] = queued[k] + 1
      /\ impl_ptr' \in [Kinds -> BOOLEAN] /\ impl_ptr'[k] /\ opWork' \in Nat
  BY <1>1, <1>a
<1>2. SockTypeOK'
  <2>1. DescTypes' /\ FileTypes'
    BY <1>0, Zenon
       DEF SockTypeOK, DescTypes, FileTypes, CallRepost, descVars, kernVars,
           pollVars
  <2>2. OpTypes' /\ OpFlagTypes' /\ SlotTypes'
    BY <1>0, <1>1, <1>b, Zenon
       DEF SockTypeOK, OpTypes, OpFlagTypes, SlotTypes, CallRepost
  <2>3. CallTypes'
    BY <1>0, <1>1, <1>a, Zenon DEF SockTypeOK, CallTypes
  <2> QED
    BY <1>1, <1>a, <1>b, <2>1, <2>2, <2>3, Zenon DEF SockTypeOK, QueueTypes
<1>3. Others(k)
  BY <1>1, <1>a, Zenon DEF Others
<1>4. OpOK(k)'
  BY <1>0, <1>1, <1>a, <1>b DEF OpOK, Flag
<1>5. CallOwnsClaims'
  BY <1>0, <1>1, Zenon DEF CallOwnsClaims
<1>6. OpWork(k)' = OpWork(k) /\ OpWork(k) \in Int
  BY <1>1 DEF OpWork, Flag
<1>7. opWork' - Flag(user' = "finish") - OpWork(k)'
        = opWork - Flag(user = "finish") - OpWork(k)
  BY <1>1, <1>6, <1>a DEF Flag
<1> QED BY <1>1, <1>2, <1>3, <1>4, <1>5, <1>7, OneOpKept, Zenon

-----------------------------------------------------------------------------
(* Steps of several operations.                                            *)

\* A step that leaves every operation well placed and the work count where it
\* was.
LEMMA AllOpsKept ==
  ASSUME SockInv, SockTypeOK', \A k \in Kinds : OpOK(k)',
         Pending' = Pending, Finishing' = Finishing,
         opWork' - Flag(user' = "finish") = opWork - Flag(user = "finish"),
         EnqueuedOnce', CallOwnsClaims'
  PROVE  SockInv'
<1>1. OnePlace' /\ StopIsForThisOp' /\ StoppedLeavesSlot' /\ PendingKeepsSocket'
  BY Zenon
     DEF OpOK, OnePlace, StopIsForThisOp, StoppedLeavesSlot, PendingKeepsSocket
<1>2. /\ opWork = Cardinality(Pending) + Cardinality(Finishing)
                    + Flag(user = "finish")
      /\ opWork \in Nat /\ opWork' \in Nat
  BY SockInvIs, Zenon
     DEF SockTypeOK, SlotTypes, QueueTypes, DescTypes, CallTypes, FileTypes
<1>3. Cardinality(Pending) \in Nat /\ Cardinality(Finishing) \in Nat
  BY CountKinds, Zenon DEF Pending, Finishing
<1>4. opWork' = Cardinality(Pending') + Cardinality(Finishing')
                  + Flag(user' = "finish")
  BY <1>2, <1>3 DEF Flag
<1> QED BY <1>1, <1>4, SockInvNext, Zenon

\* request_cancel on every operation, when cancel() or close() begins.
LEMMA BeginKeeps ==
  ASSUME SockInv, NEW c \in Calls, CallBegin(c)
  PROVE  SockInv'
<1> USE DEF descVars, kernVars, pollVars
<1>0. SockTypeOK /\ CallOwnsClaims /\ EnqueuedOnce /\ \A k \in Kinds : OpOK(k)
  BY OpFacts, SockInvIs, Zenon
<1>1. /\ user = "idle" /\ user' = "claim"
      /\ UNCHANGED <<descVars, opWork, coro, stop_cb, impl_ptr, slot, queued,
                     claimed>>
  BY Zenon DEF CallBegin, CanCall
<1>2. c \in {"none", "cancel"} \cup Closers
  BY InstanceOK, Zenon
<1>3. SockTypeOK'
  BY <1>0, <1>2, Zenon
     DEF SockTypeOK, OpTypes, OpFlagTypes, SlotTypes, QueueTypes, DescTypes,
         CallTypes, FileTypes, CallBegin
<1>4. \A k \in Kinds : OpOK(k)'
  BY <1>0, <1>1, ZenonT(60) DEF OpOK
<1>5. Pending' = Pending /\ Finishing' = Finishing /\ EnqueuedOnce'
  BY <1>0, <1>1, Zenon DEF Pending, Finishing, EnqueuedOnce
<1>6. CallOwnsClaims' /\ Flag(user' = "finish") = Flag(user = "finish")
  BY <1>0, <1>1, Zenon DEF CallOwnsClaims
<1> QED BY <1>1, <1>3, <1>4, <1>5, <1>6, AllOpsKept, Zenon

\* Every parked operation goes into the hands of the call.
LEMMA ClaimKeeps ==
  ASSUME SockInv, CallClaim
  PROVE  SockInv'
<1> USE DEF kernVars, pollVars
<1>0. SockTypeOK /\ CallOwnsClaims /\ EnqueuedOnce /\ \A k \in Kinds : OpOK(k)
  BY OpFacts, SockInvIs, Zenon
<1>1. /\ user = "claim" /\ user' = "repost" /\ claimed = {}
      /\ claimed' = {k \in Kinds : slot[k]} /\ slot' = [k \in Kinds |-> FALSE]
      /\ UNCHANGED <<coro, stop_cb, cancelled, impl_ptr, queued, is_enqueued,
                     desc_queue, opWork>>
  BY <1>0, Zenon DEF CallClaim, ParkedOps, All, CallOwnsClaims
<1>2. SockTypeOK'
  <2>1. cancel_pending' \in [Kinds -> BOOLEAN] /\ slot' \in [Kinds -> BOOLEAN]
    BY <1>0, <1>1, Zenon DEF DescTypes, FileTypes, CallClaim
  <2>2. {read_ready', write_ready', impl_ref'} \subseteq BOOLEAN
    BY Zenon DEF CallTypes, CallClaim
  <2> QED BY <1>0, <1>1, Zenon DEF SockTypeOK, OpTypes, OpFlagTypes, SlotTypes,
             QueueTypes, DescTypes, CallTypes, FileTypes, CallClaim
<1>3. ASSUME NEW k \in Kinds PROVE OpOK(k)'
  <2>1. OpOK(k) /\ k \notin claimed /\ ~slot'[k] /\ (k \in claimed' <=> slot[k])
    BY <1>0, <1>1, Zenon
  <2> QED BY <1>0, <1>1 DEF OpOK, Flag, SockTypeOK, OpTypes, OpFlagTypes,
             QueueTypes, DescTypes, CallTypes, FileTypes
<1>4. Pending' = Pending /\ Finishing' = Finishing /\ EnqueuedOnce'
  BY <1>0, <1>1, Zenon DEF Pending, Finishing, EnqueuedOnce
<1>5. CallOwnsClaims' /\ Flag(user' = "finish") = Flag(user = "finish")
  BY <1>1, Zenon DEF CallOwnsClaims, Flag
<1> QED BY <1>1, <1>2, <1>3, <1>4, <1>5, AllOpsKept, Zenon

\* work_finished, after a post; init_and_register, which resets three slots
\* that are empty; and the construction of the next socket in place of one
\* that nothing refers to.
LEMMA CallStepKeeps ==
  ASSUME SockInv, CallFinish \/ InitFd \/ Construct
  PROVE  SockInv'
<1> USE DEF opVars, descVars, kernVars, pollVars
<1>0. SockTypeOK /\ CallOwnsClaims /\ EnqueuedOnce /\ \A k \in Kinds : OpOK(k)
  BY OpFacts, SockInvIs, Zenon
<1>1. CASE CallFinish
  <2>1. opWork > 0
    BY <1>1, WorkThere, Zenon DEF CallFinish
  <2>2. SockTypeOK'
    BY <1>0, <1>1, <2>1 DEF SockTypeOK, OpTypes, OpFlagTypes, SlotTypes,
       QueueTypes, DescTypes, CallTypes, FileTypes, CallFinish
  <2>3. \A k \in Kinds : OpOK(k)'
    BY <1>0, <1>1, ZenonT(60) DEF OpOK, CallFinish
  <2>4. Pending' = Pending /\ Finishing' = Finishing /\ EnqueuedOnce'
    BY <1>0, <1>1, ZenonT(60) DEF Pending, Finishing, EnqueuedOnce, CallFinish
  <2>5. /\ CallOwnsClaims'
        /\ opWork' - Flag(user' = "finish") = opWork - Flag(user = "finish")
    BY <1>0, <1>1 DEF CallOwnsClaims, CallFinish, Flag, OpTypes, OpFlagTypes,
       SlotTypes, DescTypes, FileTypes
  <2> QED BY <2>2, <2>3, <2>4, <2>5, AllOpsKept, Zenon
<1>2. CASE InitFd
  <2>1. \A k \in Kinds : ~slot[k] /\ ~slot'[k]
    BY <1>0, <1>2, Zenon DEF CallOwnsClaims, InitFd
  <2>2. SockTypeOK'
    <3>1. slot' \in [Kinds -> BOOLEAN]
      BY <1>2, Zenon DEF InitFd
    <3>2. /\ conn' \in {"fresh", "progress", "up", "down"}
          /\ {data', room'} \subseteq BOOLEAN
      BY <1>0, <1>2, Zenon DEF SockTypeOK, OpFlagTypes, SlotTypes, QueueTypes,
         DescTypes, CallTypes, FileTypes, InitFd
    <3> QED
      BY <1>0, <1>2, <3>2, ZenonT(60)
         DEF SockTypeOK, OpTypes, OpFlagTypes, SlotTypes, QueueTypes,
             DescTypes, CallTypes, FileTypes, InitFd
  <2>3. \A k \in Kinds : OpOK(k)'
    BY <1>0, <1>2, <2>1, ZenonT(60) DEF OpOK, InitFd, Flag
  <2>4. Pending' = Pending /\ Finishing' = Finishing /\ EnqueuedOnce'
    BY <1>0, <1>2, Zenon DEF Pending, Finishing, EnqueuedOnce, InitFd
  <2>5. /\ CallOwnsClaims' /\ opWork' = opWork
        /\ Flag(user' = "finish") = Flag(user = "finish")
    BY <1>0, <1>2, Zenon DEF CallOwnsClaims, InitFd, Flag
  <2> QED BY <2>2, <2>3, <2>4, <2>5, AllOpsKept, Zenon
<1>3. CASE Construct
  <2>1. SockTypeOK'
    BY <1>0, <1>3, Zenon DEF SockTypeOK, OpTypes, OpFlagTypes, SlotTypes,
       QueueTypes, DescTypes, CallTypes, FileTypes, Construct, All
  <2>2. \A k \in Kinds : OpOK(k)'
    BY <1>0, <1>3, ZenonT(60) DEF OpOK, Construct, All
  <2>3. Pending' = Pending /\ Finishing' = Finishing /\ EnqueuedOnce'
    BY <1>3, Zenon DEF Pending, Finishing, EnqueuedOnce, Construct, Flag
  <2>4. /\ CallOwnsClaims' /\ opWork' = opWork
        /\ Flag(user' = "finish") = Flag(user = "finish")
    BY <1>0, <1>3, Zenon DEF CallOwnsClaims, Construct
  <2> QED BY <2>1, <2>2, <2>3, <2>4, AllOpsKept, Zenon
<1> QED BY <1>1, <1>2, <1>3, Zenon

\* invoke_deferred_io: the descriptor leaves the queue; the parked operations
\* that ended leave their slots, one to run here and the others to the queue.
LEMMA HandlerKeeps ==
  ASSUME SockInv, Handler
  PROVE  SockInv'
<1> USE DEF opVars, userVars, kernVars
<1>0. SockTypeOK /\ CallOwnsClaims /\ EnqueuedOnce /\ \A k \in Kinds : OpOK(k)
  BY OpFacts, SockInvIs, Zenon
<1>1. CASE HandlerLock
  <2>1. SockTypeOK' /\ EnqueuedOnce'
    <3>1. desc_queue' \in Nat /\ EnqueuedOnce'
      BY <1>0, <1>1 DEF EnqueuedOnce, HandlerLock, Flag
    <3>2. {read_ready', write_ready', is_enqueued', impl_ref'} \subseteq BOOLEAN
      BY <1>0, <1>1, Zenon DEF SockTypeOK, OpFlagTypes, DescTypes, HandlerLock
    <3>3. SockTypeOK'
      BY <1>0, <1>1, <3>1, <3>2, ZenonT(60)
         DEF SockTypeOK, OpTypes, OpFlagTypes, SlotTypes, QueueTypes,
             DescTypes, CallTypes, FileTypes, HandlerLock
    <3> QED BY <3>1, <3>3, Zenon
  <2>2. \A k \in Kinds : OpOK(k)'
    BY <1>0, <1>1, ZenonT(60) DEF OpOK, HandlerLock
  <2>3. Pending' = Pending /\ Finishing' = Finishing
    BY <1>1, Zenon DEF Pending, Finishing, HandlerLock
  <2>4. CallOwnsClaims' /\ opWork' = opWork /\ user' = user
    BY <1>0, <1>1, Zenon DEF CallOwnsClaims, HandlerLock
  <2> QED BY <2>1, <2>2, <2>3, <2>4, AllOpsKept, Zenon
<1>2. CASE HandlerPerform
  <2> DEFINE ended == Ended(sock_events)
  <2>0. ended \subseteq Kinds /\ \A k \in ended : slot[k] /\ coro[k] = "suspended"
    BY <1>0 DEF Ended, OpOK, Flag, SockTypeOK, QueueTypes
  <2>1. PICK first \in ended \cup {"none"} :
          /\ (first = "none") = (ended = {})
          /\ coro' = [k \in Kinds |-> IF k = first THEN "completing" ELSE coro[k]]
          /\ queued' = [k \in Kinds |-> queued[k] +
                          IF k \in ended \ {first} THEN 1 ELSE 0]
    BY <1>2, Zenon DEF HandlerPerform
  <2>2. "none" \notin Kinds
    BY InstanceOK, Zenon DEF OpKinds
  <2>3. /\ slot' = [k \in Kinds |-> slot[k] /\ k \notin ended]
        /\ UNCHANGED <<userVars, opWork, stop_cb, cancelled, impl_ptr,
                       cancel_pending, is_enqueued, impl_ref, desc_queue,
                       reactor, fetched, registered, edge, conn>>
    BY <1>2, Zenon DEF HandlerPerform
  <2>4. SockTypeOK'
    <3>1. /\ coro' \in [Kinds -> {"idle", "initiating", "suspended", "completing"}]
          /\ queued' \in [Kinds -> Nat]
      BY <1>0, <2>1 DEF SockTypeOK, OpTypes, QueueTypes
    <3>2. slot' \in [Kinds -> BOOLEAN] /\ errn' \in [Kinds -> BOOLEAN]
      BY <1>0, <1>2, Zenon DEF SockTypeOK, OpFlagTypes, QueueTypes, DescTypes,
         CallTypes, FileTypes, HandlerPerform, PerformFails
    <3>3. /\ {read_ready', write_ready', sockerr', data', room'} \subseteq BOOLEAN
          /\ sock_events' = {} /\ handler' = "idle"
      BY <1>0, <1>2, ZenonT(60)
         DEF SockTypeOK, OpFlagTypes, QueueTypes, FileTypes, HandlerPerform,
             Transfer, ParkedOp
    <3> QED BY <1>0, <2>3, <3>1, <3>2, <3>3, Zenon DEF SockTypeOK, OpTypes,
               OpFlagTypes, SlotTypes, QueueTypes, DescTypes, CallTypes,
               FileTypes
  <2>5. ASSUME NEW k \in Kinds PROVE OpOK(k)'
    <3>1. OpOK(k) /\ queued[k] \in Nat
      BY <1>0, Zenon DEF SockTypeOK, QueueTypes, DescTypes, FileTypes
    <3>2. CASE k \notin ended
      <4>1. coro'[k] = coro[k] /\ queued'[k] = queued[k] /\ slot'[k] = slot[k]
        BY <1>0, <2>1, <2>2, <2>3, <3>2 DEF SockTypeOK, OpFlagTypes, SlotTypes,
           QueueTypes, FileTypes
      <4> QED BY <2>3, <3>1, <4>1, Zenon DEF OpOK
    <3>3. CASE k \in ended
      <4>1. slot[k] /\ coro[k] = "suspended" /\ ~slot'[k]
        BY <2>0, <2>3, <3>3, Zenon
      <4>2. /\ coro'[k] = IF k = first THEN "completing" ELSE "suspended"
            /\ queued'[k] = IF k = first THEN queued[k] ELSE queued[k] + 1
        BY <2>1, <3>1, <3>3, <4>1
      <4> QED BY <2>3, <3>1, <4>1, <4>2 DEF OpOK, Flag
    <3> QED BY <3>2, <3>3, Zenon
  <2>6. Pending' = Pending /\ Finishing' = Finishing
    BY <2>0, <2>1, <2>2, <2>3 DEF Pending, Finishing
  <2>7. CallOwnsClaims' /\ EnqueuedOnce'
    BY <1>0, <2>3, Zenon DEF CallOwnsClaims, EnqueuedOnce
  <2> QED BY <2>3, <2>4, <2>5, <2>6, <2>7, AllOpsKept, Zenon
<1> QED BY <1>1, <1>2, Zenon DEF Handler

-----------------------------------------------------------------------------

\* The invariant holds of a socket that has just been constructed.
LEMMA SockInvInit == SockInit => SockInv
<1> SUFFICES ASSUME SockInit PROVE SockInv
  BY Zenon
<1>1. SockTypeOK
  BY Zenon DEF SockInit, SockTypeOK, OpTypes, OpFlagTypes, SlotTypes,
     QueueTypes, DescTypes, CallTypes, FileTypes, All
<1>2. OnePlace
  BY DEF SockInit, OnePlace, All, Flag
<1>3. /\ EnqueuedOnce /\ StopIsForThisOp /\ StoppedLeavesSlot
      /\ PendingKeepsSocket /\ CallOwnsClaims
  BY Zenon DEF SockInit, EnqueuedOnce, StopIsForThisOp, StoppedLeavesSlot,
     PendingKeepsSocket, CallOwnsClaims, All, Flag
<1>4. Pending = {} /\ Finishing = {}
  BY Zenon DEF SockInit, Pending, Finishing, All
<1>5. opWork = Cardinality(Pending) + Cardinality(Finishing)
                 + Flag(user = "finish")
  BY <1>4, FS_EmptySet DEF SockInit, Flag
<1> QED BY <1>1, <1>2, <1>3, <1>5, SockInvIs, Zenon

\* Every step of the user, the callbacks, the reactor and the kernel keeps it.
LEMMA SockInvStep == SockInv /\ [SockNext]_sockVars => SockInv'
<1> SUFFICES ASSUME SockInv, [SockNext]_sockVars PROVE SockInv'
  BY Zenon
<1>1. CASE Initiate
  <2>1. ASSUME NEW s \in BOOLEAN, DoConnectPost(s) \/ DoConnectPark(s)
        PROVE  "connect" \in Kinds
    BY <2>1, Zenon DEF DoConnectPost, DoConnectPark
  <2> QED
    BY <1>1, <2>1, KernelKeeps, PostKeeps, ParkKeeps, BeginKeeps, Zenon
       DEF Initiate
<1>2. CASE Proceed
  BY <1>2, RegisterKeeps, ClaimKeeps, RepostKeeps, CallStepKeeps,
     CallFrameKeeps, Zenon DEF Proceed
<1>3. CASE Construct
  BY <1>3, CallStepKeeps, Zenon
<1>4. CASE \E k \in Kinds : StopRequested(k) \/ Callback(k)
  BY <1>4, CallbackKeeps, Zenon
<1>5. CASE \E k \in Kinds : Dispatch(k) \/ CompleteOp(k)
  BY <1>5, CompletionKeeps, Zenon
<1>6. CASE Reactor \/ Handler \/ Kernel
  BY <1>6, ReactorKeeps, HandlerKeeps, KernelKeeps, Zenon
<1>7. CASE UNCHANGED sockVars
  <2>1. SockTypeOK'
    BY <1>7, SockInvIs, ZenonT(60)
       DEF SockTypeOK, OpTypes, OpFlagTypes, SlotTypes, QueueTypes, DescTypes,
           CallTypes, FileTypes, sockVars, opVars, descVars, userVars,
           kernVars, pollVars
  <2> QED
    BY <1>7, <2>1, FrameKept, Zenon DEF sockVars, opVars, descVars, userVars
<1> QED BY <1>1, <1>2, <1>3, <1>4, <1>5, <1>6, <1>7, Zenon DEF SockNext

(***************************************************************************)
(* Whatever register_op, the descriptor's handler, the stop callback,      *)
(* cancel() and close() do to one another, in any number of operations: a  *)
(* suspended operation is in one place, holds its unit of work and its     *)
(* socket, has its descriptor queued once and a stop callback that is for  *)
(* it; one that was told to stop leaves its slot.                          *)
(***************************************************************************)
THEOREM SocketLedgerHolds == SockSpec => []SocketLedger
<1>1. SockInv => SocketLedger
  BY Zenon DEF SockInv
<1> QED BY <1>1, SockInvInit, SockInvStep, PTL DEF SockSpec

(***************************************************************************)
(* A coroutine that was suspended in an operation of this socket is        *)
(* resumed only through the scheduler: what a step does to a suspended     *)
(* operation is to leave it suspended or to start its completion, and an   *)
(* operation that completes was in one place before and is in none after.  *)
(***************************************************************************)
ResumedOnce ==
  \A k \in Kinds : coro[k] = "suspended" =>
      \/ coro'[k] = "suspended"
      \/ /\ coro'[k] = "completing"
         /\ slot[k] \/ queued[k] = 1
         /\ ~slot'[k] /\ queued'[k] = 0 /\ k \notin claimed'
         /\ stop_cb'[k] # "post"

\* Whoever ends an operation (the descriptor's handler, its stop callback,
\* cancel() or close()), its coroutine is resumed once, by the handler that
\* found it in its slot or from the scheduler's queue.
THEOREM ResumedThroughQueue == SockSpec => [][ResumedOnce]_sockVars
<1>1. ASSUME SockInv, SockInv', SockNext, NEW k \in Kinds,
             coro[k] = "suspended", coro'[k] # "suspended"
      PROVE  coro'[k] = "completing" /\ (slot[k] \/ queued[k] = 1)
  <2> USE DEF opVars
  <2>0. SockTypeOK /\ OpOK(k)
    BY <1>1, OpFacts, Zenon
  <2>1. ASSUME NEW j \in Kinds, Dispatch(j)
        PROVE  coro'[k] = "completing" /\ queued[k] = 1
    <3>1. j = k /\ coro'[k] = "completing" /\ queued[k] > 0
      BY <1>1, <2>1 DEF Dispatch, OpFlagTypes, DescTypes, CallTypes
    <3> QED BY <1>1, <2>0, <3>1 DEF OpOK, Flag, SockTypeOK, OpFlagTypes,
               SlotTypes, QueueTypes, DescTypes, FileTypes
  <2>2. CASE HandlerPerform
    <3>1. PICK first \in Ended(sock_events) \cup {"none"} :
            coro' = [j \in Kinds |-> IF j = first THEN "completing" ELSE coro[j]]
      BY <2>2, Zenon DEF HandlerPerform
    <3>2. k = first /\ k # "none"
      BY <1>1, <3>1, InstanceOK, Zenon DEF OpKinds
    <3>3. coro'[k] = "completing" /\ slot[k]
      BY <3>1, <3>2, Zenon DEF Ended
    <3> QED BY <3>3, Zenon
  <2>3. CASE Initiate
    BY <1>1, <2>0, <2>3, Zenon DEF Initiate, DoInline, DoPost, DoPark,
       DoConnectInline, DoConnectPost, DoConnectPark, CallBegin, OpIdle,
       SockTypeOK, OpTypes, SlotTypes, QueueTypes, DescTypes
  <2>4. CASE Proceed
    BY <1>1, <2>0, <2>4, Zenon DEF Proceed, RegisterOp, CallClaim, CallRepost,
       CallFinish, CancelReturn, CloseFd, DestroyErase, OpenFails, InitFd,
       EpollAdd, ClearReadyEvents, ResetFlags, SockTypeOK, OpTypes, QueueTypes,
       DescTypes, FileTypes
  <2>5. CASE Construct \/ \E j \in Kinds : StopRequested(j) \/ Callback(j)
    BY <1>1, <2>5, Zenon DEF Construct, StopRequested, Callback, CancelClaim,
       CancelPost, FinishCancel
  <2>6. ASSUME NEW j \in Kinds, CompleteOp(j) PROVE FALSE
    BY <1>1, <2>0, <2>6 DEF CompleteOp, QueueTypes, CallTypes, FileTypes
  <2>7. CASE Reactor \/ HandlerLock \/ Kernel
    BY <1>1, <2>7, Zenon DEF Reactor, EpollWait, AddReadyEvents,
       EnqueueDescriptor, DropEvent, HandlerLock, Kernel, KernelConnect,
       SockReady, KernelReset
  <2> QED BY <1>1, <2>1, <2>2, <2>3, <2>4, <2>5, <2>6, <2>7, Zenon DEF SockNext,
             Handler
<1>2. ASSUME SockInv', NEW k \in Kinds, coro'[k] = "completing"
      PROVE  /\ ~slot'[k] /\ queued'[k] = 0 /\ k \notin claimed'
             /\ stop_cb'[k] # "post"
  BY <1>2, SockInvNext DEF OnePlace, Flag, SockTypeOK, OpFlagTypes, QueueTypes
<1>3. SockInv /\ SockInv' /\ [SockNext]_sockVars => [ResumedOnce]_sockVars
  BY <1>1, <1>2, Zenon DEF ResumedOnce
<1> QED BY <1>3, SockInvInit, SockInvStep, PTL DEF SockSpec
=============================================================================
