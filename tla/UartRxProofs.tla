----------------------------- MODULE UartRxProofs -----------------------------
(***************************************************************************)
(* Theorems about the system lock and serial reception.                    *)
(***************************************************************************)
EXTENDS UartRx, SequenceTheorems, TLAPS

USE DEF Contexts

(***************************************************************************)
(* The lock.                                                               *)
(***************************************************************************)
LEMMA LockInitInv == LockInit => LockInv
<1> SUFFICES ASSUME LockInit PROVE LockInv
  OBVIOUS
<1>0. primask \in BOOLEAN /\ active \in BOOLEAN
  BY DEF LockInit
<1>1. LockTypeOK
  BY <1>0, DepthAssumption DEF LockInit, LockTypeOK, Places
<1>2. Exclusive
  BY DEF LockInit, Exclusive, Inside
<1>3. CounterInv
  BY DEF LockInit, CounterInv
<1> QED
  BY <1>1, <1>2, <1>3 DEF LockInv

(* What LockInv says of the two contexts: the one that runs accounts for the *)
(* counter, and the other one is outside.                                    *)
LEMMA LockDisableStep == ASSUME LockInv, NEW c \in Contexts, Disable(c) PROVE LockInv'
BY DepthAssumption
   DEF Disable, Goes, LockInv, LockTypeOK, Exclusive, CounterInv, Inside, Running, Places

LEMMA LockLoadStep == ASSUME LockInv, NEW c \in Contexts, LockLoad(c) PROVE LockInv'
BY DepthAssumption
   DEF LockLoad, Goes, LockInv, LockTypeOK, Exclusive, CounterInv, Inside, Running, Places

LEMMA LockStoreStep == ASSUME LockInv, NEW c \in Contexts, LockStore(c) PROVE LockInv'
BY DepthAssumption
   DEF LockStore, Goes, LockInv, LockTypeOK, Exclusive, CounterInv, Inside, Running, Places

LEMMA UnlockStep == ASSUME LockInv, NEW c \in Contexts, Unlock(c) PROVE LockInv'
BY DepthAssumption
   DEF Unlock, Goes, LockInv, LockTypeOK, Exclusive, CounterInv, Inside, Running, Places

LEMMA UnlockTestStep == ASSUME LockInv, NEW c \in Contexts, UnlockTest(c) PROVE LockInv'
BY DepthAssumption
   DEF UnlockTest, Goes, LockInv, LockTypeOK, Exclusive, CounterInv, Inside, Running, Places

LEMMA UnlockLoadStep == ASSUME LockInv, NEW c \in Contexts, UnlockLoad(c) PROVE LockInv'
BY DepthAssumption
   DEF UnlockLoad, Goes, LockInv, LockTypeOK, Exclusive, CounterInv, Inside, Running, Places

LEMMA UnlockStoreStep == ASSUME LockInv, NEW c \in Contexts, UnlockStore(c) PROVE LockInv'
BY DepthAssumption
   DEF UnlockStore, Goes, LockInv, LockTypeOK, Exclusive, CounterInv, Inside, Running, Places

LEMMA UnlockCheckStep == ASSUME LockInv, NEW c \in Contexts, UnlockCheck(c) PROVE LockInv'
<1> USE DEF UnlockCheck, Goes, LockInv
<1>1. LockTypeOK'
  BY DEF LockTypeOK, Places
<1>2. CounterInv'
  BY DEF LockTypeOK, CounterInv, Running
<1>3. \A d \in Contexts : Inside(d) => Running(d)
  BY DEF Exclusive
<1>4. lockCounter = depth[c]
  BY DEF CounterInv
<1>5. \A d \in Contexts : Inside(d)' <=> d = c /\ lockCounter # 0
  BY <1>3, <1>4 DEF LockTypeOK, Inside, Running, Places
<1>6. Exclusive'
  BY <1>3, <1>5 DEF LockTypeOK, Exclusive, Inside, Running
<1> QED
  BY <1>1, <1>2, <1>6

LEMMA HandlerEnterStep == ASSUME LockInv, HandlerEnter PROVE LockInv'
BY DepthAssumption
   DEF HandlerEnter, LockInv, LockTypeOK, Exclusive, CounterInv, Inside, Running, Places

LEMMA HandlerReturnStep == ASSUME LockInv, HandlerReturn PROVE LockInv'
<1> USE DEF HandlerReturn, LockInv
<1>1. LockTypeOK'
  BY DEF LockTypeOK
<1>2. \A d \in Contexts : ~Inside(d)
  BY DEF Exclusive, Inside, Running
<1>3. Exclusive'
  BY <1>2 DEF Exclusive, Inside
<1>4. lockCounter = 0 /\ depth["main"] = 0
  BY <1>2 DEF LockTypeOK, CounterInv, Running, Inside
<1>5. CounterInv'
  BY <1>2, <1>4 DEF CounterInv, Running, Inside
<1> QED
  BY <1>1, <1>3, <1>5

LEMMA LockStep == ASSUME LockInv, [LockNext]_lockVars PROVE LockInv'
<1>1. ASSUME NEW c \in Contexts, Completes(c) PROVE LockInv'
  BY <1>1, LockLoadStep, LockStoreStep, UnlockTestStep, UnlockLoadStep,
     UnlockStoreStep, UnlockCheckStep DEF Completes
<1>2. ASSUME NEW c \in Contexts, Locking(c) PROVE LockInv'
  BY <1>1, <1>2, LockDisableStep, UnlockStep DEF Locking
<1>3. CASE UNCHANGED lockVars
  BY <1>3 DEF lockVars, LockInv, LockTypeOK, Exclusive, CounterInv, Inside, Running
<1> QED
  BY <1>2, <1>3, HandlerEnterStep, HandlerReturnStep DEF LockNext

(***************************************************************************)
(* Theorem LockExclusive: system_mutex_lock and system_mutex_unlock keep   *)
(* every other context out of a locked section, for any depth of nesting,  *)
(* and leave interrupts enabled outside.                                   *)
(***************************************************************************)
THEOREM LockExclusive == LockSpec => []Exclusive
<1>1. LockInit => LockInv
  BY LockInitInv
<1>2. LockInv /\ [LockNext]_lockVars => LockInv'
  BY LockStep
<1>3. LockInv => Exclusive
  BY DEF LockInv
<1> QED
  BY <1>1, <1>2, <1>3, PTL DEF LockSpec

(***************************************************************************)
(* Serial reception.                                                       *)
(***************************************************************************)
LEMMA RxLockStep == [Next]_vars => [LockNext]_lockVars
<1> SUFFICES ASSUME [Next]_vars PROVE [LockNext]_lockVars
  OBVIOUS
<1>1. CASE Enter \/ OtherEnter
  BY <1>1 DEF Enter, OtherEnter, LockNext
<1>2. CASE Leave \/ OtherReturn
  BY <1>2 DEF Leave, OtherReturn, LockNext
<1>3. CASE \E c \in Contexts : Sections(c)
  BY <1>3 DEF Sections, LockNext
<1>4. CASE Check \/ Read \/ Indicated \/ \E b \in Bytes : DmaReceive(b)
  BY <1>4 DEF Check, Read, Indicated, DmaReceive
<1>5. CASE UNCHANGED vars
  BY <1>5 DEF vars
<1> QED
  BY <1>1, <1>2, <1>3, <1>4, <1>5 DEF Next

(* Theorem RxImplementsLock: serial reception uses the lock as SystemLock     *)
(* says; what holds of the lock holds beside the handler of USART1.           *)
THEOREM RxImplementsLock == Spec => LockSpec
<1>1. Init => LockInit
  BY DEF Init
<1> QED
  BY <1>1, RxLockStep, PTL DEF Spec, LockSpec

(* Theorem RxExclusive: in the composition, too, no handler comes into a     *)
(* locked section.                                                           *)
THEOREM RxExclusive == Spec => []Exclusive
BY RxImplementsLock, LockExclusive

-------------------------------------------------------------------------------
LEMMA AdvanceType == ASSUME NEW i \in Slots PROVE Advance(i) \in Slots
BY SizeAssumption DEF Advance, Slots

RxTypeOK ==
  /\ rxFifoBuf \in [Slots -> Bytes]
  /\ readIndex \in Slots /\ dmaIndex \in Slots
  /\ pending \in BOOLEAN
  /\ pc \in {"idle", "check", "read", "indicate", "leave"}
  /\ received \in Bytes

Placed ==
  /\ pc # "idle" => active
  /\ pc \in {"check", "read", "leave"} => ~Inside("handler")

LEMMA RxInvParts == RxInv <=> RxTypeOK /\ LockInv /\ Placed
BY DEF RxInv, TypeOK, LockInv, RxTypeOK, Placed

LEMMA RxTypeStep == ASSUME RxTypeOK, [Next]_vars PROVE RxTypeOK'
<1> USE DEF RxTypeOK
<1>1. ASSUME NEW b \in Bytes, DmaReceive(b) PROVE RxTypeOK'
  BY <1>1, AdvanceType DEF DmaReceive
<1>2. CASE Enter
  BY <1>2 DEF Enter, ring
<1>3. CASE Check
  BY <1>3 DEF Check, ring
<1>4. CASE Read
  BY <1>4, AdvanceType DEF Read
<1>5. CASE Indicated
  BY <1>5 DEF Indicated, ring
<1>6. CASE Leave
  BY <1>6 DEF Leave, ring
<1>7. CASE UNCHANGED rxVars
  BY <1>7 DEF rxVars, ring
<1> QED
  BY <1>1, <1>2, <1>3, <1>4, <1>5, <1>6, <1>7
     DEF Next, OtherEnter, OtherReturn, Sections, vars

LEMMA PlacedStep == ASSUME RxTypeOK, LockInv, Placed, [Next]_vars PROVE Placed'
<1> USE DEF Placed
<1>0. pc \in {"idle", "check", "read", "indicate", "leave"}
  BY DEF RxTypeOK
<1>1. ~active => ~Inside("handler")
  BY DEF LockInv, Exclusive, Running
<1>2. CASE Enter
  BY <1>1, <1>2 DEF Enter, HandlerEnter, Inside
<1>3. CASE Check \/ Read \/ Indicated
  BY <1>3 DEF Check, Read, Indicated, lockVars, Inside
<1>4. CASE Leave
  BY <1>4 DEF Leave
<1>5. CASE \E b \in Bytes : DmaReceive(b)
  BY <1>5 DEF DmaReceive, lockVars, Inside
<1>6. CASE OtherEnter
  BY <1>6 DEF OtherEnter, HandlerEnter, rxVars, Inside
<1>7. CASE OtherReturn
  BY <1>7 DEF OtherReturn, HandlerReturn, rxVars
<1>8. ASSUME NEW c \in Contexts, Sections(c) PROVE Placed'
  <2>1. active' = active /\ pc' = pc
    BY <1>8 DEF Sections, Locking, Completes, Disable, Unlock, LockLoad, LockStore,
       UnlockTest, UnlockLoad, UnlockStore, UnlockCheck, Goes, rxVars
  <2>2. CASE c = "handler"
    BY <1>8, <2>1, <2>2 DEF Sections
  <2>3. CASE c = "main"
    <3>1. ~active
      BY <1>8, <2>3 DEF Sections, Locking, Completes, Disable, Unlock, LockLoad, LockStore,
         UnlockTest, UnlockLoad, UnlockStore, UnlockCheck, Goes, Running
    <3> QED
      BY <2>1, <3>1
  <2> QED
    BY <2>2, <2>3
<1>9. CASE UNCHANGED vars
  BY <1>9 DEF vars, lockVars, rxVars, Inside
<1> QED
  BY <1>2, <1>3, <1>4, <1>5, <1>6, <1>7, <1>8, <1>9 DEF Next

(***************************************************************************)
(* Theorem RxInvariant: for every size of the ring and depth of nesting,   *)
(* indexes stay in the ring and the handler of USART1 runs only outside    *)
(* the sections of the main loop.                                          *)
(***************************************************************************)
THEOREM RxInvariant == Spec => []RxInv
<1>1. Init => RxInv
  <2> SUFFICES ASSUME Init PROVE RxTypeOK /\ LockInv /\ Placed
    BY RxInvParts
  <2>0. pending \in BOOLEAN
    BY DEF Init
  <2>1. RxTypeOK
    BY <2>0, SizeAssumption, ByteAssumption DEF Init, RxTypeOK, Slots
  <2>2. LockInv
    BY LockInitInv DEF Init
  <2>3. Placed
    BY DEF Init, Placed
  <2> QED
    BY <2>1, <2>2, <2>3
<1>2. RxInv /\ [Next]_vars => RxInv'
  <2>0. RxInv' <=> RxTypeOK' /\ LockInv' /\ Placed'
    BY DEF RxInv, TypeOK, LockInv, RxTypeOK, Placed
  <2> SUFFICES ASSUME RxTypeOK, LockInv, Placed, [Next]_vars
               PROVE  RxTypeOK' /\ LockInv' /\ Placed'
    BY <2>0, RxInvParts
  <2> QED
    BY RxTypeStep, PlacedStep, RxLockStep, LockStep
<1> QED
  BY <1>1, <1>2, PTL DEF Spec

(***************************************************************************)
(* Serial reception implements LossyStream.                                *)
(***************************************************************************)
LEMMA Wrap == ASSUME NEW x \in 0..(2 * FifoSize - 1)
              PROVE  x % FifoSize = IF x < FifoSize THEN x ELSE x - FifoSize
BY SizeAssumption

LEMMA InSlot == ASSUME NEW i \in Slots PROVE i % FifoSize = i
BY SizeAssumption DEF Slots

LEMMA Around == ASSUME NEW i \in Slots PROVE (i + FifoSize) % FifoSize = i
<1>1. /\ FifoSize \in Nat \ {0, 1} /\ i \in Int
      /\ i + FifoSize \in 0..(2 * FifoSize - 1)
      /\ ~(i + FifoSize < FifoSize) /\ (i + FifoSize) - FifoSize = i
  BY SizeAssumption DEF Slots
<1>2. (i + FifoSize) % FifoSize = (i + FifoSize) - FifoSize
  BY <1>1, Wrap
<1> QED
  BY <1>1, <1>2

LEMMA FromNext ==
  ASSUME NEW i \in Slots, NEW k \in 1..FifoSize
  PROVE  (i + (k + 1) - 1) % FifoSize = (Advance(i) + k - 1) % FifoSize
<1>1. FifoSize \in Nat \ {0, 1} /\ i \in 0..(FifoSize - 1)
  BY SizeAssumption DEF Slots
<1>2. Advance(i) = IF i = FifoSize - 1 THEN 0 ELSE i + 1
  BY <1>1 DEF Advance
<1>3. CASE i = FifoSize - 1
  <2>1. (i + (k + 1) - 1) % FifoSize = (FifoSize + (k - 1)) % FifoSize
    BY <1>1, <1>3
  <2>2. (FifoSize + (k - 1)) % FifoSize = k - 1
    <3>1. FifoSize + (k - 1) \in 0..(2 * FifoSize - 1)
      BY <1>1
    <3> QED
      BY <3>1, <1>1, Wrap
  <2>3. (k - 1) % FifoSize = k - 1
    BY <1>1
  <2> QED
    BY <1>1, <1>2, <1>3, <2>1, <2>2, <2>3
<1>4. CASE i # FifoSize - 1
  BY <1>1, <1>2, <1>4
<1> QED
  BY <1>3, <1>4

(* Unread without the modulo. *)
LEMMA UnreadIs ==
  ASSUME RxTypeOK
  PROVE  Unread = IF pc = "read"
                    THEN IF dmaIndex <= readIndex THEN dmaIndex + FifoSize - readIndex
                                                  ELSE dmaIndex - readIndex
                    ELSE IF dmaIndex < readIndex THEN dmaIndex + FifoSize - readIndex
                                                 ELSE dmaIndex - readIndex
<1>1. /\ FifoSize \in Nat \ {0, 1}
      /\ dmaIndex \in 0..(FifoSize - 1) /\ readIndex \in 0..(FifoSize - 1)
  BY SizeAssumption DEF RxTypeOK, Slots
<1>2. /\ dmaIndex + FifoSize - readIndex \in 0..(2 * FifoSize - 1)
      /\ dmaIndex + FifoSize - readIndex - 1 \in 0..(2 * FifoSize - 1)
  BY <1>1
<1>3. (dmaIndex + FifoSize - readIndex) % FifoSize
        = IF dmaIndex + FifoSize - readIndex < FifoSize
            THEN dmaIndex + FifoSize - readIndex
            ELSE dmaIndex + FifoSize - readIndex - FifoSize
  BY <1>1, <1>2, Wrap
<1>4. (dmaIndex + FifoSize - readIndex - 1) % FifoSize
        = IF dmaIndex + FifoSize - readIndex - 1 < FifoSize
            THEN dmaIndex + FifoSize - readIndex - 1
            ELSE dmaIndex + FifoSize - readIndex - 1 - FifoSize
  BY <1>1, <1>2, Wrap
<1>5. (dmaIndex + FifoSize - readIndex) % FifoSize
        = IF dmaIndex < readIndex THEN dmaIndex + FifoSize - readIndex
                                  ELSE dmaIndex - readIndex
  BY <1>1, <1>3
<1>6. ((dmaIndex + FifoSize - readIndex - 1) % FifoSize) + 1
        = IF dmaIndex <= readIndex THEN dmaIndex + FifoSize - readIndex
                                   ELSE dmaIndex - readIndex
  BY <1>1, <1>4
<1> QED
  BY <1>5, <1>6 DEF Unread

(* Where DMA writes is as far ahead of the read index as bytes are unread. *)
LEMMA UnreadRange ==
  ASSUME RxTypeOK
  PROVE  /\ Unread \in 0..FifoSize
         /\ pc = "read" => Unread > 0
         /\ pc # "read" => Unread < FifoSize
         /\ dmaIndex = (readIndex + Unread) % FifoSize
         /\ dmaIndex # readIndex => Unread # 0
<1> DEFINE n == Unread
<1>0. n = IF pc = "read"
            THEN IF dmaIndex <= readIndex THEN dmaIndex + FifoSize - readIndex
                                          ELSE dmaIndex - readIndex
            ELSE IF dmaIndex < readIndex THEN dmaIndex + FifoSize - readIndex
                                         ELSE dmaIndex - readIndex
  BY UnreadIs
<1> HIDE DEF n
<1>1. /\ FifoSize \in Nat \ {0, 1}
      /\ dmaIndex \in 0..(FifoSize - 1) /\ readIndex \in 0..(FifoSize - 1)
  BY SizeAssumption DEF RxTypeOK, Slots
<1>2. /\ n \in 0..FifoSize
      /\ pc = "read" => n > 0
      /\ pc # "read" => n < FifoSize
      /\ dmaIndex # readIndex => n # 0
      /\ readIndex + n = dmaIndex \/ readIndex + n = dmaIndex + FifoSize
  BY <1>0, <1>1
<1>3. /\ dmaIndex % FifoSize = dmaIndex
      /\ (dmaIndex + FifoSize) % FifoSize = dmaIndex
  BY <1>1, InSlot, Around DEF Slots
<1>4. dmaIndex = (readIndex + n) % FifoSize
  BY <1>2, <1>3
<1> QED
  BY <1>2, <1>4 DEF n

LEMMA StreamSeq ==
  ASSUME RxTypeOK
  PROVE  /\ Stream \in Seq(Bytes)
         /\ Len(Stream) = Unread
         /\ DOMAIN Stream = 1..Unread
<1>1. Unread \in Nat
  BY UnreadRange, SizeAssumption
<1>2. ASSUME NEW k \in 1..Unread PROVE rxFifoBuf[(readIndex + k - 1) % FifoSize] \in Bytes
  BY UnreadRange, Wrap, SizeAssumption DEF RxTypeOK, Slots
<1> QED
  BY <1>1, <1>2 DEF Stream

LEMMA AppendFunction ==
  ASSUME NEW S, NEW q \in Seq(S), NEW e \in S
  PROVE  Append(q, e) = [k \in 1..(Len(q) + 1) |-> IF k = Len(q) + 1 THEN e ELSE q[k]]
<1> DEFINE f == [k \in 1..(Len(q) + 1) |-> IF k = Len(q) + 1 THEN e ELSE q[k]]
<1>1. f \in Seq(S) /\ Len(f) = Len(q) + 1
  OBVIOUS
<1>2. Append(q, e) \in Seq(S) /\ Len(Append(q, e)) = Len(q) + 1
  OBVIOUS
<1>3. ASSUME NEW k \in 1..(Len(q) + 1) PROVE Append(q, e)[k] = f[k]
  OBVIOUS
<1> QED
  BY <1>1, <1>2, <1>3, SeqEqual

LEMMA TailFunction ==
  ASSUME NEW S, NEW q \in Seq(S), q # <<>>
  PROVE  Tail(q) = [k \in 1..(Len(q) - 1) |-> q[k + 1]]
<1> DEFINE f == [k \in 1..(Len(q) - 1) |-> q[k + 1]]
<1>1. f \in Seq(S) /\ Len(f) = Len(q) - 1
  OBVIOUS
<1>2. Tail(q) \in Seq(S) /\ Len(Tail(q)) = Len(q) - 1
  OBVIOUS
<1>3. ASSUME NEW k \in 1..(Len(q) - 1) PROVE Tail(q)[k] = f[k]
  OBVIOUS
<1> QED
  BY <1>1, <1>2, <1>3, SeqEqual

LEMMA StreamAt ==
  ASSUME NEW k \in 1..Unread
  PROVE  Stream[k] = rxFifoBuf[(readIndex + k - 1) % FifoSize]
BY Zenon DEF Stream

(* The waiting bytes lie at slots of the buffer, none of them the next free one. *)
LEMMA WaitingSlot ==
  ASSUME NEW i \in Slots, NEW n \in Nat, n < FifoSize, NEW k \in 1..n
  PROVE  /\ (i + k - 1) % FifoSize \in Slots
         /\ (i + k - 1) % FifoSize # (i + n) % FifoSize
<1>1. /\ FifoSize \in Nat \ {0, 1} /\ i \in 0..(FifoSize - 1)
      /\ i + k - 1 \in 0..(2 * FifoSize - 1) /\ i + n \in 0..(2 * FifoSize - 1)
  BY SizeAssumption DEF Slots
<1>2. (i + k - 1) % FifoSize = IF i + k - 1 < FifoSize THEN i + k - 1 ELSE i + k - 1 - FifoSize
  BY <1>1, Wrap
<1>3. (i + n) % FifoSize = IF i + n < FifoSize THEN i + n ELSE i + n - FifoSize
  BY <1>1, Wrap
<1> DEFINE p == (i + k - 1) % FifoSize
           q == (i + n) % FifoSize
<1> HIDE DEF p, q
<1>4. /\ p = IF i + k - 1 < FifoSize THEN i + k - 1 ELSE i + k - 1 - FifoSize
      /\ q = IF i + n < FifoSize THEN i + n ELSE i + n - FifoSize
  BY <1>2, <1>3 DEF p, q
<1>5. p \in Slots /\ p # q
  BY <1>1, <1>4 DEF Slots
<1> QED
  BY <1>5 DEF p, q

(* The distance between the indexes after the write index has advanced. *)
LEMMA Distance ==
  ASSUME NEW r \in Slots, NEW d \in Slots, NEW e \in Slots,
         e = IF d = FifoSize - 1 THEN 0 ELSE d + 1
  PROVE  /\ (e + FifoSize - r) % FifoSize = IF e < r THEN e + FifoSize - r ELSE e - r
         /\ (e + FifoSize - r - 1) % FifoSize = IF d < r THEN d + FifoSize - r ELSE d - r
<1>1. /\ FifoSize \in Nat \ {0, 1}
      /\ r \in 0..(FifoSize - 1) /\ d \in 0..(FifoSize - 1) /\ e \in 0..(FifoSize - 1)
  BY SizeAssumption DEF Slots
<1>2. /\ e + FifoSize - r \in 0..(2 * FifoSize - 1)
      /\ e + FifoSize - r - 1 \in 0..(2 * FifoSize - 1)
  BY <1>1
<1>3. (e + FifoSize - r) % FifoSize
        = IF e + FifoSize - r < FifoSize THEN e + FifoSize - r ELSE e + FifoSize - r - FifoSize
  BY <1>1, <1>2, Wrap
<1>4. (e + FifoSize - r - 1) % FifoSize
        = IF e + FifoSize - r - 1 < FifoSize THEN e + FifoSize - r - 1
                                             ELSE e + FifoSize - r - 1 - FifoSize
  BY <1>1, <1>2, Wrap
<1> QED
  BY <1>1, <1>3, <1>4

(* A byte that DMA stores: appended to what waits, or an overrun. *)
LEMMA ReceiveStep ==
  ASSUME RxTypeOK, NEW b \in Bytes, DmaReceive(b)
  PROVE  Rx!Receive(b) \/ Rx!Overrun(b)
<1> DEFINE n == Unread
<1>0. /\ n \in 0..FifoSize /\ FifoSize \in Nat \ {0, 1}
      /\ dmaIndex = (readIndex + n) % FifoSize
      /\ readIndex \in Slots /\ dmaIndex \in Slots
  BY UnreadRange, SizeAssumption DEF RxTypeOK
<1>1. /\ rxFifoBuf' = [rxFifoBuf EXCEPT ![dmaIndex] = b]
      /\ readIndex' = readIndex /\ pc' = pc /\ received' = received
      /\ dmaIndex' = IF dmaIndex = FifoSize - 1 THEN 0 ELSE dmaIndex + 1
  BY SizeAssumption DEF DmaReceive, Advance, RxTypeOK, Slots
<1>2. CASE n < FifoSize /\ Unread' = n + 1
  <2>1. Stream' = Append(Stream, b)
    <3>1. ASSUME NEW k \in 1..n
          PROVE  rxFifoBuf'[(readIndex + k - 1) % FifoSize] = rxFifoBuf[(readIndex + k - 1) % FifoSize]
      <4>0. n \in Nat /\ n < FifoSize
        BY <1>0, <1>2
      <4>1. (readIndex + k - 1) % FifoSize # dmaIndex
        BY <1>0, <4>0, WaitingSlot
      <4>2. (readIndex + k - 1) % FifoSize \in Slots
        BY <1>0, <4>0, WaitingSlot
      <4> QED
        BY <1>1, <4>1, <4>2 DEF RxTypeOK
    <3>2. rxFifoBuf'[(readIndex + (n + 1) - 1) % FifoSize] = b
      <4>1. (readIndex + (n + 1) - 1) % FifoSize = dmaIndex
        BY <1>0 DEF Slots
      <4> QED
        BY <1>0, <1>1, <4>1 DEF RxTypeOK
    <3>3. Stream' = [k \in 1..(n + 1) |-> rxFifoBuf'[(readIndex + k - 1) % FifoSize]]
      BY <1>1, <1>2 DEF Stream
    <3>4. Stream = [k \in 1..n |-> rxFifoBuf[(readIndex + k - 1) % FifoSize]]
      BY DEF Stream
    <3>5. Append(Stream, b) = [k \in 1..(n + 1) |-> IF k = n + 1 THEN b ELSE Stream[k]]
      BY StreamSeq, AppendFunction
    <3>6. ASSUME NEW k \in 1..(n + 1)
          PROVE  rxFifoBuf'[(readIndex + k - 1) % FifoSize] = IF k = n + 1 THEN b ELSE Stream[k]
      <4>1. CASE k = n + 1
        BY <3>2, <4>1
      <4>2. CASE k # n + 1
        <5>1. k \in 1..n
          BY <1>0, <4>2
        <5> QED
          BY <3>1, <3>4, <4>2, <5>1
      <4> QED
        BY <4>1, <4>2
    <3> QED
      BY <3>3, <3>5, <3>6
  <2> QED
    BY <1>1, <1>2, <2>1, StreamSeq DEF Rx!Receive
<1>3. Unread = IF pc = "read"
                 THEN IF dmaIndex <= readIndex THEN dmaIndex + FifoSize - readIndex
                                               ELSE dmaIndex - readIndex
                 ELSE IF dmaIndex < readIndex THEN dmaIndex + FifoSize - readIndex
                                              ELSE dmaIndex - readIndex
  BY UnreadIs
<1>4. dmaIndex' \in Slots
  BY <1>0, <1>1 DEF Slots
<1>5. /\ readIndex \in 0..(FifoSize - 1) /\ dmaIndex \in 0..(FifoSize - 1)
      /\ dmaIndex' = IF dmaIndex = FifoSize - 1 THEN 0 ELSE dmaIndex + 1
      /\ dmaIndex' \in 0..(FifoSize - 1) /\ FifoSize \in Nat \ {0, 1}
  BY <1>0, <1>1 DEF Slots
<1>6. Unread' = IF pc = "read"
                  THEN 1 + (IF dmaIndex < readIndex THEN dmaIndex + FifoSize - readIndex
                                                    ELSE dmaIndex - readIndex)
                  ELSE IF dmaIndex' < readIndex THEN dmaIndex' + FifoSize - readIndex
                                                ELSE dmaIndex' - readIndex
  <2>1. /\ (dmaIndex' + FifoSize - readIndex) % FifoSize
              = IF dmaIndex' < readIndex THEN dmaIndex' + FifoSize - readIndex
                                         ELSE dmaIndex' - readIndex
        /\ (dmaIndex' + FifoSize - readIndex - 1) % FifoSize
              = IF dmaIndex < readIndex THEN dmaIndex + FifoSize - readIndex
                                        ELSE dmaIndex - readIndex
    <3>1. /\ readIndex \in Slots /\ dmaIndex \in Slots
          /\ dmaIndex' = IF dmaIndex = FifoSize - 1 THEN 0 ELSE dmaIndex + 1
      BY <1>0, <1>1
    <3> QED
      BY <1>4, <3>1, Distance, Zenon
  <2>2. CASE pc = "read"
    <3>1. Unread' = ((dmaIndex' + FifoSize - readIndex - 1) % FifoSize) + 1
      BY <1>1, <2>2 DEF Unread
    <3> QED
      BY <1>0, <2>1, <2>2, <3>1 DEF Slots
  <2>3. CASE pc # "read"
    <3>1. Unread' = (dmaIndex' + FifoSize - readIndex) % FifoSize
      BY <1>1, <2>3 DEF Unread
    <3> QED
      BY <2>1, <2>3, <3>1
  <2> QED
    BY <2>2, <2>3
<1> DEFINE m == Unread'
<1> HIDE DEF n, m
<1>7. /\ n = IF pc = "read"
                THEN IF dmaIndex <= readIndex THEN dmaIndex + FifoSize - readIndex
                                              ELSE dmaIndex - readIndex
                ELSE IF dmaIndex < readIndex THEN dmaIndex + FifoSize - readIndex
                                             ELSE dmaIndex - readIndex
      /\ m = IF pc = "read"
                THEN 1 + (IF dmaIndex < readIndex THEN dmaIndex + FifoSize - readIndex
                                                  ELSE dmaIndex - readIndex)
                ELSE IF dmaIndex' < readIndex THEN dmaIndex' + FifoSize - readIndex
                                              ELSE dmaIndex' - readIndex
  BY <1>3, <1>6 DEF n, m
<1>8. CASE pc # "read" /\ n = FifoSize - 1
  <2>1. m = 0
    BY <1>8, <1>7, <1>5
  <2>2. Stream' = <<>>
    BY <2>1 DEF Stream, m
  <2> QED
    BY <1>1, <1>5, <1>8, <2>2, StreamSeq DEF Rx!Overrun, n
<1>9. CASE pc = "read" /\ n = FifoSize
  <2>1. dmaIndex = readIndex
    BY <1>9, <1>7, <1>5
  <2>2. m = 1
    BY <1>9, <1>7, <1>5, <2>1
  <2>3. rxFifoBuf'[(readIndex + 1 - 1) % FifoSize] = b
    <3>1. readIndex + 1 - 1 = readIndex /\ readIndex % FifoSize = dmaIndex
      BY <1>0, <2>1, InSlot DEF Slots
    <3> QED
      BY <1>0, <1>1, <3>1 DEF RxTypeOK
  <2>4. Stream' = <<b>>
    BY <1>1, <2>2, <2>3 DEF Stream, m
  <2> QED
    BY <1>1, <1>5, <1>9, <2>4, StreamSeq DEF Rx!Overrun, n
<1>10. CASE pc # "read" /\ n < FifoSize - 1
  <2>1. m = n + 1
    BY <1>10, <1>7, <1>5
  <2> QED
    BY <1>0, <1>2, <1>10, <2>1 DEF n, m
<1>11. CASE pc = "read" /\ n < FifoSize
  <2>1. m = n + 1
    BY <1>11, <1>7, <1>5
  <2> QED
    BY <1>2, <1>11, <2>1 DEF n, m
<1>12. n = FifoSize \/ n < FifoSize - 1 \/ n = FifoSize - 1
  <2>1. n \in 0..FifoSize
    BY UnreadRange DEF n
  <2>2. FifoSize \in Nat
    BY <1>5
  <2> QED
    BY <2>1, <2>2
<1>13. /\ pc # "read" => n # FifoSize
       /\ n = FifoSize - 1 => n < FifoSize
       /\ n < FifoSize - 1 => n < FifoSize
  <2>1. FifoSize \in Nat /\ ~(FifoSize < FifoSize)
    BY <1>5
  <2>2. pc # "read" => n # FifoSize
    BY <2>1, UnreadRange DEF n
  <2>3. n \in Int
    BY <2>1, UnreadRange DEF n
  <2> QED
    BY <2>1, <2>2, <2>3
<1> QED
  BY <1>8, <1>9, <1>10, <1>11, <1>12, <1>13

LEMMA ReadStep == ASSUME RxTypeOK, Read PROVE Rx!HandOn
<1> DEFINE n == Unread
<1>0. /\ n \in 1..FifoSize /\ FifoSize \in Nat \ {0, 1}
      /\ dmaIndex = (readIndex + n) % FifoSize
      /\ readIndex \in Slots /\ dmaIndex \in Slots
      /\ Len(Stream) = n
  BY UnreadRange, StreamSeq, SizeAssumption DEF RxTypeOK, Read
<1>1. /\ rxFifoBuf' = rxFifoBuf /\ dmaIndex' = dmaIndex
      /\ pc = "read" /\ pc' = "indicate"
      /\ readIndex' = IF readIndex = FifoSize - 1 THEN 0 ELSE readIndex + 1
      /\ received' = rxFifoBuf[readIndex]
  BY SizeAssumption DEF Read, Advance, RxTypeOK, Slots
<1>2. Unread' = n - 1
  <2>1. n = ((dmaIndex + FifoSize - readIndex - 1) % FifoSize) + 1
    BY <1>1 DEF Unread
  <2>2. Unread' = (dmaIndex + FifoSize - readIndex') % FifoSize
    BY <1>1 DEF Unread
  <2>3. CASE readIndex = FifoSize - 1
    <3>1. n = (dmaIndex % FifoSize) + 1
      BY <1>0, <2>1, <2>3
    <3>2. Unread' = (dmaIndex + FifoSize - 0) % FifoSize
      BY <1>0, <1>1, <2>2, <2>3
    <3>3. dmaIndex + FifoSize - 0 \in 0..(2 * FifoSize - 1)
      BY <1>0 DEF Slots
    <3>4. dmaIndex % FifoSize = dmaIndex
      BY <1>0, InSlot
    <3>5. dmaIndex + FifoSize - 0 = dmaIndex + FifoSize /\ dmaIndex \in 0..(FifoSize - 1)
      BY <1>0 DEF Slots
    <3>6. (dmaIndex + FifoSize) % FifoSize = dmaIndex
      BY <1>0, Around
    <3>7. n = dmaIndex + 1
      BY <3>1, <3>4
    <3> QED
      BY <3>2, <3>5, <3>6, <3>7
  <2>4. CASE readIndex # FifoSize - 1
    <3>1. dmaIndex + FifoSize - readIndex' = dmaIndex + FifoSize - readIndex - 1
      BY <1>0, <1>1, <2>4 DEF Slots
    <3>2. (dmaIndex + FifoSize - readIndex - 1) % FifoSize \in Int
      BY <1>0 DEF Slots
    <3> QED
      BY <2>1, <2>2, <3>1, <3>2
  <2> QED
    BY <2>3, <2>4
<1>3. received' = Head(Stream)
  <2>1. Stream[1] = rxFifoBuf[(readIndex + 1 - 1) % FifoSize]
    BY <1>0, StreamAt
  <2>2. (readIndex + 1 - 1) % FifoSize = readIndex
    <3>1. readIndex + 1 - 1 = readIndex
      BY <1>0 DEF Slots
    <3> QED
      BY <1>0, <3>1, InSlot
  <2> QED
    BY <1>0, <1>1, <2>1, <2>2, StreamSeq
<1>4. Stream' = Tail(Stream)
  <2>1. Stream' = [k \in 1..(n - 1) |-> rxFifoBuf[(readIndex' + k - 1) % FifoSize]]
    BY <1>1, <1>2 DEF Stream
  <2>2. Tail(Stream) = [k \in 1..(n - 1) |-> Stream[k + 1]]
    BY <1>0, StreamSeq, TailFunction
  <2>3. ASSUME NEW k \in 1..(n - 1)
        PROVE  Stream[k + 1] = rxFifoBuf[(readIndex' + k - 1) % FifoSize]
    <3>1. Stream[k + 1] = rxFifoBuf[(readIndex + (k + 1) - 1) % FifoSize]
      <4>1. k + 1 \in 1..n
        BY <1>0
      <4> QED
        BY <4>1, StreamAt
    <3>2. (readIndex + (k + 1) - 1) % FifoSize = (readIndex' + k - 1) % FifoSize
      <4>1. k \in 1..FifoSize /\ readIndex' = Advance(readIndex)
        BY <1>0 DEF Read
      <4> QED
        BY <1>0, <4>1, FromNext
    <3> QED
      BY <3>1, <3>2
  <2> QED
    BY <2>1, <2>2, <2>3
<1> QED
  BY <1>0, <1>3, <1>4, StreamSeq DEF Rx!HandOn

LEMMA StreamStep == ASSUME RxTypeOK, Placed, [Next]_vars PROVE [Rx!Next]_(Rx!vars)
<1>1. CASE Read
  BY <1>1, ReadStep DEF Rx!Next
<1>2. ASSUME NEW b \in Bytes, DmaReceive(b) PROVE Rx!Next
  BY <1>2, ReceiveStep DEF Rx!Next
<1>3. CASE Check
  <2>1. Unread' = Unread
    <3>1. /\ readIndex \in Slots /\ dmaIndex \in Slots /\ FifoSize \in Nat \ {0, 1}
          /\ readIndex' = readIndex /\ dmaIndex' = dmaIndex /\ pc = "check"
          /\ pc' = IF readIndex # dmaIndex THEN "read" ELSE "leave"
      BY <1>3, SizeAssumption DEF Check, RxTypeOK, ring
    <3>2. CASE readIndex = dmaIndex
      BY <3>1, <3>2 DEF Unread
    <3>3. CASE readIndex # dmaIndex
      BY <3>1, <3>3, Wrap DEF Unread, Slots
    <3> QED
      BY <3>2, <3>3
  <2>2. Stream' = Stream /\ received' = received
    BY <1>3, <2>1 DEF Check, ring, Stream
  <2> QED
    BY <2>2 DEF Rx!vars
<1>4. ASSUME ring' = ring, received' = received, pc # "read", pc' # "read"
      PROVE  UNCHANGED Rx!vars
  BY <1>4 DEF ring, Rx!vars, Stream, Unread
<1>5. ASSUME UNCHANGED rxVars PROVE UNCHANGED Rx!vars
  BY <1>5 DEF rxVars, ring, Rx!vars, Stream, Unread
<1>6. CASE Indicated \/ Leave
  BY <1>4, <1>6 DEF Indicated, Leave
<1>7. CASE Enter
  BY <1>4, <1>7 DEF Enter, HandlerEnter, Placed
<1> QED
  BY <1>1, <1>2, <1>3, <1>5, <1>6, <1>7
     DEF Next, OtherEnter, OtherReturn, Sections, vars

(***************************************************************************)
(* Theorem RxRefinesStream: for every size of the ring, what usart1_isr    *)
(* hands on is what DMA stored, in order and once, unless the ring was     *)
(* overrun.                                                                *)
(***************************************************************************)
THEOREM RxRefinesStream == Spec => RxStream
<1>1. Init => Rx!Init
  <2> SUFFICES ASSUME Init PROVE Rx!Init
    OBVIOUS
  <2>1. Unread = 0
    <3>1. (0 + FifoSize - 0) % FifoSize = 0
      BY SizeAssumption
    <3> QED
      BY <3>1 DEF Init, Unread
  <2>2. Stream = <<>>
    BY <2>1 DEF Stream
  <2> QED
    BY <2>2 DEF Init, Rx!Init
<1>2. RxInv /\ [Next]_vars => [Rx!Next]_(Rx!vars)
  BY RxInvParts, StreamStep
<1> QED
  BY <1>1, <1>2, RxInvariant, PTL DEF Spec, RxStream, Rx!Spec
===============================================================================
