----------------------------- MODULE UartTxProofs -----------------------------
(***************************************************************************)
(* Theorems about UartTx: the ring, the transaction and the DMA channel    *)
(* agree in every state, so no byte is left behind; and serial             *)
(* transmission implements ByteStream.  All hold for every size of the     *)
(* ring and every length of packets.                                       *)
(***************************************************************************)
EXTENDS UartTx, SequenceTheorems, TLAPS

LEMMA Wrap == ASSUME NEW x \in 0..(2 * FifoSize - 1)
              PROVE  x % FifoSize = IF x < FifoSize THEN x ELSE x - FifoSize
BY SizeAssumption

LEMMA LeastOf ==
  ASSUME NEW a \in Nat, NEW b \in Nat
  PROVE  /\ Least(a, b) \in Nat
         /\ Least(a, b) <= a /\ Least(a, b) <= b
         /\ a > 0 /\ b > 0 => Least(a, b) > 0
BY DEF Least

(* The fields of the records the channel is set to. *)
LEMMA DmaFields ==
  ASSUME TypeOK
  PROVE  /\ dma = [on |-> dma.on, pos |-> dma.pos, left |-> dma.left]
         /\ dma.on \in BOOLEAN /\ dma.pos \in 0..FifoSize /\ dma.left \in 0..FifoSize
BY DEF TypeOK

(* What trigger_transmision leaves behind, if the ring and an open            *)
(* transaction were in order when it was called.                              *)
LEMMA TriggerOpens ==
  ASSUME TypeOK, NEW s \in Slots, NEW c \in 0..FifoSize, NEW t \in 0..FifoSize,
         t = 0 => dma.left = 0,
         Trigger(s, c, t)
  PROVE  /\ transaction' \in 0..FifoSize
         /\ dma' \in [on : BOOLEAN, pos : 0..FifoSize, left : 0..FifoSize]
         /\ t # 0 => transaction' = t /\ dma' = dma
         /\ t = 0 /\ c = 0 => transaction' = 0 /\ dma' = dma
         /\ t = 0 /\ c > 0 => /\ transaction' > 0 /\ transaction' <= c
                              /\ s + transaction' <= FifoSize
                              /\ dma'.on = TRUE /\ dma'.pos = s
                              /\ dma'.left = transaction'
<1> DEFINE n == Least(FifoSize - s, c)
<1>1. /\ FifoSize \in Nat \ {0} /\ s \in 0..(FifoSize - 1) /\ FifoSize - s \in Nat \ {0}
      /\ c \in Nat
  BY SizeAssumption DEF Slots
<1>2. n \in Nat /\ n <= FifoSize - s /\ n <= c /\ (c > 0 => n > 0)
  BY <1>1 DEF Least
<1>3. IF n > 0 /\ t = 0
        THEN dma' = [on |-> TRUE, pos |-> s, left |-> n] /\ transaction' = n
        ELSE transaction' = t /\ dma' = dma
  BY DEF Trigger
<1> HIDE DEF n
<1>4. CASE n > 0 /\ t = 0
  <2>1. dma' = [on |-> TRUE, pos |-> s, left |-> n] /\ transaction' = n
    BY <1>3, <1>4
  <2>2. s \in 0..FifoSize /\ n \in 0..FifoSize /\ s + n <= FifoSize
    BY <1>1, <1>2
  <2>3. dma' \in [on : BOOLEAN, pos : 0..FifoSize, left : 0..FifoSize]
    BY <2>1, <2>2
  <2>4. dma'.on = TRUE /\ dma'.pos = s /\ dma'.left = transaction'
    BY <2>1
  <2> QED
    BY <1>1, <1>2, <1>4, <2>1, <2>2, <2>3, <2>4
<1>5. CASE ~(n > 0 /\ t = 0)
  <2>1. transaction' = t /\ dma' = dma
    BY <1>3, <1>5
  <2>2. t # 0 \/ c = 0
    BY <1>1, <1>2, <1>5
  <2> QED
    BY <1>1, <2>1, <2>2 DEF TypeOK
<1> QED
  BY <1>4, <1>5

-------------------------------------------------------------------------------
(* The inductive invariant, action by action.                                 *)

LEMMA InitStep == ASSUME Init PROVE TxInv
<1>1. FifoSize \in Nat \ {0} /\ MaxPacket \in Nat /\ 0 \in Slots
  BY SizeAssumption DEF Slots
<1>2. dma = [on |-> FALSE, pos |-> 0, left |-> 0] /\ dma.left = 0
  BY DEF Init
<1>3. dma \in [on : BOOLEAN, pos : 0..FifoSize, left : 0..FifoSize]
  BY <1>1, <1>2
<1>4. TypeOK
  <2>1. fifo \in [Slots -> Bytes]
    BY ByteAssumption DEF Init
  <2>2. /\ start \in Slots /\ end \in Slots /\ count \in 0..FifoSize
        /\ transaction \in 0..FifoSize /\ left \in 0..MaxPacket
    BY <1>1 DEF Init
  <2>3. done \in BOOLEAN /\ line \in Bytes /\ pc \in {"idle", "store", "trigger"}
    BY DEF Init
  <2> QED
    BY <1>3, <2>1, <2>2, <2>3 DEF TypeOK
<1>5. end = (start + count) % FifoSize
  BY <1>1 DEF Init
<1>6. TransactionInRing /\ NeverStalls
  BY <1>2 DEF Init, TransactionInRing, NeverStalls
<1> QED
  BY <1>4, <1>5, <1>6 DEF TxInv

LEMMA SendStep == ASSUME TxInv, NEW m \in 0..MaxPacket, Send(m) PROVE TxInv'
BY SizeAssumption
   DEF Send, TxInv, TypeOK, TransactionInRing, NeverStalls, Slots, ring

LEMMA SendReturnStep == ASSUME TxInv, SendReturn PROVE TxInv'
BY SizeAssumption
   DEF SendReturn, TxInv, TypeOK, TransactionInRing, NeverStalls, Slots, ring

LEMMA StorableRange ==
  ASSUME TypeOK
  PROVE  /\ Storable(left) \in Nat
         /\ Storable(left) <= left
         /\ end + Storable(left) <= FifoSize /\ count + Storable(left) <= FifoSize
<1>1. /\ left \in Nat /\ FifoSize - end \in Nat /\ FifoSize - count \in Nat
      /\ end \in Nat /\ count \in Nat /\ FifoSize \in Nat
  BY SizeAssumption DEF TypeOK, Slots
<1> DEFINE inner == Least(FifoSize - end, FifoSize - count)
<1>2. inner \in Nat /\ inner <= FifoSize - end /\ inner <= FifoSize - count
  BY <1>1, LeastOf
<1>3. Storable(left) = Least(left, inner)
  BY DEF Storable
<1> HIDE DEF inner
<1>4. Storable(left) \in Nat /\ Storable(left) <= left /\ Storable(left) <= inner
  BY <1>1, <1>2, <1>3, LeastOf
<1> QED
  BY <1>1, <1>2, <1>4

LEMMA StoreStep == ASSUME TxInv, Store PROVE TxInv'
<1> DEFINE n == Storable(left)
<1>1. /\ n \in Nat /\ n <= left /\ end + n <= FifoSize /\ count + n <= FifoSize
      /\ FifoSize \in Nat \ {0} /\ MaxPacket \in Nat
      /\ start \in 0..(FifoSize - 1) /\ end \in 0..(FifoSize - 1)
      /\ count \in 0..FifoSize /\ left \in 0..MaxPacket
  BY StorableRange, SizeAssumption DEF TxInv, TypeOK, Slots
<1>2. /\ end' = (end + n) % FifoSize /\ count' = count + n /\ left' = left - n
      /\ pc' = "trigger" /\ start' = start /\ transaction' = transaction
      /\ dma' = dma /\ done' = done /\ line' = line
  BY DEF Store
<1>3. fifo' \in [Slots -> Bytes]
  <2>1. PICK bytes \in [1..n -> Bytes] :
          fifo' = [s \in Slots |-> IF s \in end..(end + n - 1)
                                     THEN bytes[s - end + 1] ELSE fifo[s]]
    BY DEF Store
  <2>2. ASSUME NEW s \in Slots, s \in end..(end + n - 1) PROVE bytes[s - end + 1] \in Bytes
    <3>1. s - end + 1 \in 1..n
      BY <1>1, <2>2
    <3> QED
      BY <3>1
  <2> QED
    BY <2>1, <2>2 DEF TxInv, TypeOK
<1> HIDE DEF n
<1>4. end' \in Slots /\ end' = (start' + count') % FifoSize
  <2>1. end = IF start + count < FifoSize THEN start + count ELSE start + count - FifoSize
    BY <1>1, Wrap DEF TxInv
  <2>2. end' = IF end + n < FifoSize THEN end + n ELSE 0
    BY <1>1, <1>2, Wrap
  <2>3. (start + count + n) % FifoSize
          = IF start + count + n < FifoSize THEN start + count + n
                                            ELSE start + count + n - FifoSize
    BY <1>1, Wrap
  <2> QED
    BY <1>1, <1>2, <2>1, <2>2, <2>3 DEF Slots
<1>5. TypeOK'
  BY <1>1, <1>2, <1>3, <1>4 DEF TxInv, TypeOK
<1>6. TransactionInRing' /\ NeverStalls'
  BY <1>1, <1>2 DEF TxInv, TypeOK, TransactionInRing, NeverStalls
<1> QED
  BY <1>4, <1>5, <1>6 DEF TxInv

LEMMA StartDmaStep == ASSUME TxInv, StartDma PROVE TxInv'
<1>1. /\ TypeOK /\ start \in Slots /\ count \in 0..FifoSize /\ transaction \in 0..FifoSize
      /\ transaction = 0 => dma.left = 0 /\ ~done
      /\ Trigger(start, count, transaction)
  BY DEF TxInv, TypeOK, TransactionInRing, StartDma
<1>2. /\ UNCHANGED <<ring, done, line, left>> /\ pc' = "store"
  BY DEF StartDma
<1>3. /\ transaction' \in 0..FifoSize
      /\ dma' \in [on : BOOLEAN, pos : 0..FifoSize, left : 0..FifoSize]
      /\ transaction # 0 => transaction' = transaction /\ dma' = dma
      /\ transaction = 0 /\ count = 0 => transaction' = 0 /\ dma' = dma
      /\ transaction = 0 /\ count > 0 =>
           /\ transaction' > 0 /\ transaction' <= count
           /\ start + transaction' <= FifoSize
           /\ dma'.on = TRUE /\ dma'.pos = start /\ dma'.left = transaction'
  BY <1>1, TriggerOpens
<1>4. TypeOK' /\ end' = (start' + count') % FifoSize
  BY <1>2, <1>3 DEF TxInv, TypeOK, ring
<1>5. TransactionInRing' /\ NeverStalls'
  <2>1. CASE transaction # 0
    BY <1>2, <1>3, <2>1 DEF TxInv, TypeOK, TransactionInRing, NeverStalls, ring
  <2>2. CASE transaction = 0 /\ count = 0
    BY <1>1, <1>2, <1>3, <2>2 DEF TransactionInRing, NeverStalls, ring
  <2>3. CASE transaction = 0 /\ count > 0
    <3>1. /\ transaction' > 0 /\ transaction' <= count' /\ dma'.on
          /\ dma'.pos = start' /\ dma'.left = transaction'
          /\ start' + transaction' <= FifoSize
          /\ transaction' \in Nat /\ done' = FALSE
      BY <1>1, <1>2, <1>3, <2>3 DEF ring
    <3> QED
      BY <3>1 DEF TransactionInRing, NeverStalls
  <2> QED
    BY <1>1, <2>1, <2>2, <2>3
<1> QED
  BY <1>4, <1>5 DEF TxInv

(* The handler releases what was sent: the start moves by the transaction,    *)
(* which does not reach beyond the wrap.                                      *)
LEMMA ReleaseMoves ==
  ASSUME TxInv, TransferComplete
  PROVE  /\ transaction > 0 /\ transaction <= count /\ start + transaction <= FifoSize
         /\ dma.left = 0
         /\ start' = IF start + transaction = FifoSize THEN 0 ELSE start + transaction
         /\ start' \in Slots /\ count' \in 0..FifoSize
         /\ (start' + count') % FifoSize = (start + count) % FifoSize
<1>1. /\ FifoSize \in Nat \ {0} /\ start \in 0..(FifoSize - 1) /\ count \in 0..FifoSize
      /\ transaction \in 0..FifoSize /\ dma.left \in 0..FifoSize /\ dma.pos \in 0..FifoSize
  BY SizeAssumption, DmaFields DEF TxInv, TypeOK, Slots
<1>2. /\ transaction > 0 /\ transaction <= count /\ start + transaction <= FifoSize
      /\ dma.left = 0
  BY <1>1 DEF TxInv, TransactionInRing, TransferComplete
<1>3. start' = (start + transaction) % FifoSize /\ count' = count - transaction
  BY DEF TransferComplete
<1>4. start' = IF start + transaction = FifoSize THEN 0 ELSE start + transaction
  <2>1. start + transaction \in 0..(2 * FifoSize - 1)
    BY <1>1, <1>2
  <2> QED
    BY <1>1, <1>2, <1>3, <2>1, Wrap
<1>5. start' \in 0..(FifoSize - 1) /\ count' \in 0..FifoSize
  BY <1>1, <1>2, <1>3, <1>4
<1>6. (start' + count') % FifoSize = (start + count) % FifoSize
  <2>1. CASE start + transaction # FifoSize
    BY <1>1, <1>3, <1>4, <2>1
  <2>2. CASE start + transaction = FifoSize
    <3>1. start' + count' = start + count - FifoSize
      BY <1>1, <1>3, <1>4, <2>2
    <3>2. start + count \in 0..(2 * FifoSize - 1) /\ ~(start + count < FifoSize)
      BY <1>1, <1>2, <2>2
    <3>3. (start + count) % FifoSize = start + count - FifoSize
      <4>1. PICK x \in 0..(2 * FifoSize - 1) : x = start + count /\ ~(x < FifoSize)
        BY <3>2
      <4>2. x % FifoSize = x - FifoSize
        BY <4>1, Wrap
      <4> QED
        BY <1>1, <4>1, <4>2
    <3>4. start' + count' \in 0..(2 * FifoSize - 1) /\ start' + count' < FifoSize
      BY <1>1, <3>1, <3>2
    <3>5. (start' + count') % FifoSize = start' + count'
      BY <3>4, Wrap
    <3> QED
      BY <3>1, <3>3, <3>5
  <2> QED
    BY <2>1, <2>2
<1> QED
  BY <1>2, <1>4, <1>5, <1>6 DEF Slots

LEMMA TransferCompleteStep == ASSUME TxInv, TransferComplete PROVE TxInv'
<1>1. /\ start' \in Slots /\ count' \in 0..FifoSize /\ dma.left = 0
      /\ (start' + count') % FifoSize = (start + count) % FifoSize
  BY ReleaseMoves
<1>2. /\ TypeOK /\ 0 \in 0..FifoSize /\ Trigger(start', count', 0)
      /\ done' = FALSE /\ UNCHANGED <<fifo, end, line, pc, left>>
  BY SizeAssumption DEF TxInv, TransferComplete
<1>3. /\ transaction' \in 0..FifoSize
      /\ dma' \in [on : BOOLEAN, pos : 0..FifoSize, left : 0..FifoSize]
      /\ count' = 0 => transaction' = 0 /\ dma' = dma
      /\ count' > 0 =>
           /\ transaction' > 0 /\ transaction' <= count'
           /\ start' + transaction' <= FifoSize
           /\ dma'.on = TRUE /\ dma'.pos = start' /\ dma'.left = transaction'
  BY <1>1, <1>2, TriggerOpens
<1>4. TypeOK' /\ end' = (start' + count') % FifoSize
  BY <1>1, <1>2, <1>3 DEF TxInv, TypeOK
<1>5. TransactionInRing' /\ NeverStalls'
  <2>1. CASE count' = 0
    BY <1>1, <1>2, <1>3, <2>1 DEF TransactionInRing, NeverStalls
  <2>2. CASE count' > 0
    <3>1. /\ transaction' > 0 /\ transaction' <= count' /\ dma'.on
          /\ dma'.pos = start' /\ dma'.left = transaction'
          /\ start' + transaction' <= FifoSize
          /\ transaction' \in Nat /\ done' = FALSE
      BY <1>1, <1>2, <1>3, <2>2
    <3> QED
      BY <3>1 DEF TransactionInRing, NeverStalls
  <2> QED
    BY <1>1, <2>1, <2>2
<1> QED
  BY <1>4, <1>5 DEF TxInv

LEMMA DmaByteStep == ASSUME TxInv, DmaByte PROVE TxInv'
<1>1. /\ FifoSize \in Nat \ {0} /\ transaction \in 0..FifoSize /\ count \in 0..FifoSize
      /\ start \in 0..(FifoSize - 1)
      /\ dma.left \in 1..FifoSize /\ dma.pos \in 0..FifoSize /\ dma.on
      /\ transaction > 0 /\ dma.pos + dma.left = start + transaction
      /\ dma.pos + dma.left <= FifoSize /\ transaction <= count
      /\ dma.left <= transaction
  BY SizeAssumption, DmaFields DEF TxInv, TypeOK, TransactionInRing, DmaByte, Slots
<1>2. /\ dma' = [on |-> TRUE, pos |-> dma.pos + 1, left |-> dma.left - 1]
      /\ done' = (dma.left = 1) /\ line' = fifo[dma.pos]
      /\ UNCHANGED <<ring, transaction, pc, left>>
  BY <1>1, DmaFields DEF DmaByte, TxInv
<1>3. TypeOK'
  <2>1. dma.pos \in Slots
    BY <1>1 DEF Slots
  <2>2. line' \in Bytes
    BY <1>2, <2>1 DEF TxInv, TypeOK
  <2>3. dma' \in [on : BOOLEAN, pos : 0..FifoSize, left : 0..FifoSize]
    BY <1>1, <1>2
  <2> QED
    BY <1>2, <2>2, <2>3 DEF TxInv, TypeOK, ring
<1>4. TransactionInRing'
  <2>1. /\ dma'.on = TRUE /\ dma'.pos = dma.pos + 1 /\ dma'.left = dma.left - 1
        /\ transaction' = transaction /\ start' = start /\ count' = count
        /\ done' <=> dma.left = 1
    BY <1>2 DEF ring
  <2>2. /\ dma'.pos + dma'.left = start' + transaction'
        /\ dma'.pos + dma'.left <= FifoSize
        /\ dma'.left <= transaction'
        /\ done' <=> dma'.left = 0
    BY <1>1, <2>1
  <2> QED
    BY <1>1, <2>1, <2>2 DEF TransactionInRing
<1>5. NeverStalls' /\ end' = (start' + count') % FifoSize
  BY <1>2 DEF TxInv, NeverStalls, ring
<1> QED
  BY <1>3, <1>4, <1>5 DEF TxInv

LEMMA InvStep == ASSUME TxInv, [Next]_vars PROVE TxInv'
<1>1. CASE UNCHANGED vars
  BY <1>1 DEF vars, ring, TxInv, TypeOK, TransactionInRing, NeverStalls
<1>2. ASSUME NEW m \in 0..MaxPacket, Send(m) PROVE TxInv'
  BY <1>2, SendStep
<1> QED
  BY <1>1, <1>2, StoreStep, StartDmaStep, SendReturnStep, TransferCompleteStep, DmaByteStep
     DEF Next, Main

(* Theorem TxInvariant: ring, open transaction and DMA channel of             *)
(* communication.c agree in every state, for every size of the ring.          *)
THEOREM TxInvariant == Spec => []TxInv
<1>1. Init => TxInv
  BY InitStep
<1>2. TxInv /\ [Next]_vars => TxInv'
  BY InvStep
<1> QED
  BY <1>1, <1>2, PTL DEF Spec

(* Theorem TxNeverStalls: while the ring holds bytes, DMA has a transaction   *)
(* or phySendFunction0 is about to call trigger_transmision.                  *)
THEOREM TxNeverStalls == Spec => []NeverStalls
<1>1. TxInv => NeverStalls
  BY DEF TxInv
<1> QED
  BY <1>1, TxInvariant, PTL

(***************************************************************************)
(* Serial transmission implements ByteStream.                              *)
(***************************************************************************)
Waiting == count - Sent

LEMMA Ranges ==
  ASSUME TxInv
  PROVE  /\ FifoSize \in Nat \ {0} /\ start \in 0..(FifoSize - 1) /\ count \in 0..FifoSize
         /\ transaction \in 0..FifoSize /\ dma.left \in 0..FifoSize
         /\ Sent \in 0..FifoSize /\ Waiting \in 0..FifoSize /\ Sent + Waiting = count
         /\ start + Sent + Waiting <= start + FifoSize
<1>1. /\ FifoSize \in Nat \ {0} /\ start \in 0..(FifoSize - 1) /\ count \in 0..FifoSize
      /\ transaction \in 0..FifoSize /\ dma.left \in 0..FifoSize
  BY SizeAssumption, DmaFields DEF TxInv, TypeOK, Slots
<1>2. dma.left <= transaction /\ transaction <= count
  BY <1>1 DEF TxInv, TransactionInRing
<1> QED
  BY <1>1, <1>2 DEF Sent, Waiting

(* The slot of the k-th byte that waits. *)
Slot(k) == (start + Sent + k - 1) % FifoSize

LEMMA SlotIs ==
  ASSUME TxInv, NEW k \in 1..FifoSize, Sent + k <= FifoSize
  PROVE  Slot(k) = IF start + Sent + k - 1 < FifoSize
                     THEN start + Sent + k - 1 ELSE start + Sent + k - 1 - FifoSize
<1>1. PICK x \in 0..(2 * FifoSize - 1) : x = start + Sent + k - 1
  BY Ranges
<1>2. x % FifoSize = IF x < FifoSize THEN x ELSE x - FifoSize
  BY <1>1, Wrap
<1>3. Slot(k) = x % FifoSize
  BY <1>1 DEF Slot
<1> QED
  BY <1>1, <1>2, <1>3, Ranges

LEMMA EndIs ==
  ASSUME TxInv
  PROVE  end = IF start + count < FifoSize THEN start + count ELSE start + count - FifoSize
<1>1. PICK x \in 0..(2 * FifoSize - 1) : x = start + count
  BY Ranges
<1>2. x % FifoSize = IF x < FifoSize THEN x ELSE x - FifoSize
  BY <1>1, Wrap
<1> QED
  BY <1>1, <1>2, Ranges DEF TxInv

LEMMA SlotRange ==
  ASSUME TxInv, NEW k \in 1..Waiting
  PROVE  Slot(k) \in Slots
<1>1. PICK x \in 0..(2 * FifoSize - 1) : x = start + Sent + k - 1
  BY Ranges
<1>2. x % FifoSize \in Slots
  BY <1>1, Ranges DEF Slots
<1> QED
  BY <1>1, <1>2 DEF Slot

LEMMA StreamAt == Stream = [k \in 1..Waiting |-> fifo[Slot(k)]]
BY DEF Stream, Waiting, Slot

LEMMA StreamSeq ==
  ASSUME TxInv
  PROVE  /\ Stream \in Seq(Bytes) /\ Len(Stream) = Waiting /\ DOMAIN Stream = 1..Waiting
<1>1. Waiting \in Nat
  BY Ranges
<1>2. ASSUME NEW k \in 1..Waiting PROVE fifo[Slot(k)] \in Bytes
  BY SlotRange DEF TxInv, TypeOK
<1> HIDE DEF Waiting
<1> QED
  BY <1>1, <1>2, StreamAt

LEMMA TailFunction ==
  ASSUME NEW S, NEW q \in Seq(S), q # <<>>
  PROVE  Tail(q) = [k \in 1..(Len(q) - 1) |-> q[k + 1]]
<1> DEFINE f == [k \in 1..(Len(q) - 1) |-> q[k + 1]]
<1>1. f \in Seq(S) /\ Len(f) = Len(q) - 1
  OBVIOUS
<1>2. Tail(q) \in Seq(S) /\ Len(Tail(q)) = Len(q) - 1
  OBVIOUS
<1>3. ASSUME NEW k \in 1..(Len(q) - 1) PROVE Tail(q)[k] = f[k]
  OBVIOUS
<1> QED
  BY <1>1, <1>2, <1>3, SeqEqual

LEMMA ConcatFunction ==
  ASSUME NEW S, NEW q \in Seq(S), NEW n \in Nat, NEW b \in [1..n -> S]
  PROVE  /\ b \in Seq(S) /\ Len(b) = n
         /\ q \o b = [k \in 1..(Len(q) + n) |->
                        IF k <= Len(q) THEN q[k] ELSE b[k - Len(q)]]
<1> DEFINE f == [k \in 1..(Len(q) + n) |-> IF k <= Len(q) THEN q[k] ELSE b[k - Len(q)]]
<1>1. b \in Seq(S) /\ Len(b) = n
  OBVIOUS
<1>2. q \o b \in Seq(S) /\ Len(q \o b) = Len(q) + n
  BY <1>1
<1>3. f \in Seq(S) /\ Len(f) = Len(q) + n
  <2>1. ASSUME NEW k \in 1..(Len(q) + n)
        PROVE  (IF k <= Len(q) THEN q[k] ELSE b[k - Len(q)]) \in S
    OBVIOUS
  <2> QED
    BY <2>1
<1>4. ASSUME NEW k \in 1..(Len(q) + n) PROVE (q \o b)[k] = f[k]
  BY <1>1
<1> HIDE DEF f
<1>5. q \o b = f
  BY <1>2, <1>3, <1>4, SeqEqual
<1> QED
  BY <1>1, <1>5 DEF f

(* The DMA channel takes the first byte that waits. *)
LEMMA TakeStep == ASSUME TxInv, DmaByte PROVE Tx!Take
<1>1. /\ dma.left > 0 /\ transaction > 0 /\ transaction \in Nat /\ dma.left \in Nat
      /\ start \in Nat /\ dma.pos \in Nat
      /\ dma.pos + dma.left = start + transaction /\ dma.pos + dma.left <= FifoSize
      /\ dma' = [on |-> TRUE, pos |-> dma.pos + 1, left |-> dma.left - 1]
      /\ line' = fifo[dma.pos] /\ UNCHANGED <<ring, transaction>>
  <2>1. dma.on /\ dma.left > 0 /\ line' = fifo[dma.pos] /\ UNCHANGED <<ring, transaction>>
    BY DEF DmaByte
  <2>2. /\ transaction \in Nat /\ dma.left \in Nat /\ start \in Nat /\ dma.pos \in Nat
    BY Ranges, DmaFields DEF TxInv
  <2>3. transaction > 0 /\ dma.pos + dma.left = start + transaction /\ dma.pos + dma.left <= FifoSize
    BY <2>1, <2>2 DEF TxInv, TransactionInRing
  <2>4. dma' = [on |-> TRUE, pos |-> dma.pos + 1, left |-> dma.left - 1]
    BY <2>1, DmaFields DEF DmaByte, TxInv
  <2> QED
    BY <2>1, <2>2, <2>3, <2>4
<1>2. dma.pos = start + Sent /\ dma.pos < FifoSize
  BY <1>1, Ranges DEF Sent
<1>3. Sent' = Sent + 1 /\ Waiting' = Waiting - 1
  BY <1>1, Ranges DEF Sent, Waiting, ring
<1>4. Waiting > 0
  BY <1>1, Ranges DEF Sent, Waiting, TxInv, TransactionInRing
<1>5. line' = Head(Stream)
  <2>1. Slot(1) = dma.pos
    <3>1. start + Sent + 1 - 1 = dma.pos
      BY <1>1, <1>2, Ranges
    <3>2. dma.pos % FifoSize = dma.pos
      <4>1. dma.pos \in 0..(2 * FifoSize - 1)
        BY <1>1, <1>2, Ranges
      <4> QED
        BY <1>2, <4>1, Wrap
    <3> QED
      BY <3>1, <3>2 DEF Slot
  <2>2. Stream[1] = fifo[Slot(1)]
    BY <1>4, Ranges, StreamAt
  <2> QED
    BY <1>1, <1>4, <2>1, <2>2, StreamSeq
<1>6. Stream' = Tail(Stream)
  <2>1. Stream' = [k \in 1..(Waiting - 1) |-> fifo[Slot(k + 1)]]
    <3>1. Stream' = [k \in 1..Waiting' |-> fifo'[Slot(k)']]
      BY DEF Stream, Waiting, Slot
    <3>2. fifo' = fifo /\ start' = start
      BY <1>1 DEF ring
    <3>3. ASSUME NEW k \in 1..(Waiting - 1) PROVE Slot(k)' = Slot(k + 1)
      <4>1. start + (Sent + 1) + k - 1 = start + Sent + (k + 1) - 1
        BY Ranges
      <4>2. Slot(k)' = (start + (Sent + 1) + k - 1) % FifoSize
        BY <1>3, <3>2 DEF Slot
      <4> QED
        BY <4>1, <4>2 DEF Slot
    <3> QED
      BY <1>3, <3>1, <3>2, <3>3
  <2>2. Tail(Stream) = [k \in 1..(Waiting - 1) |-> Stream[k + 1]]
    BY <1>4, Ranges, StreamSeq, TailFunction
  <2>3. ASSUME NEW k \in 1..(Waiting - 1) PROVE Stream[k + 1] = fifo[Slot(k + 1)]
    <3>1. k + 1 \in 1..Waiting
      BY Ranges
    <3> QED
      BY <3>1, StreamAt
  <2> QED
    BY <2>1, <2>2, <2>3
<1>7. Stream # <<>>
  BY <1>4, StreamSeq, Ranges
<1> QED
  BY <1>5, <1>6, <1>7 DEF Tx!Take

(* In a ring of N slots whose c bytes begin at s and end at e, no slot of the *)
(* bytes before e is among the n free ones from e on, and those are next.     *)
LEMMA Behind ==
  ASSUME NEW N \in Nat \ {0}, NEW s \in 0..(N - 1), NEW c \in 0..N, NEW a \in 0..c,
         NEW e \in 0..(N - 1), e = IF s + c < N THEN s + c ELSE s + c - N,
         NEW n \in Nat, c + n <= N, e + n <= N
  PROVE  /\ \A k \in 1..(c - a) :
              LET x == s + a + k - 1 IN
              ~((IF x < N THEN x ELSE x - N) \in e..(e + n - 1))
         /\ \A j \in 1..n :
              LET x == s + a + (c - a + j) - 1 IN
              /\ (IF x < N THEN x ELSE x - N) = e + j - 1
              /\ e + j - 1 \in e..(e + n - 1) /\ e + j - 1 \in 0..(N - 1)
              /\ (e + j - 1) - e + 1 = j
OBVIOUS

(* The main loop stores a piece of the packet behind the bytes that wait.     *)
LEMMA PutStep == ASSUME TxInv, Store PROVE [Tx!Next]_(Tx!vars)
<1> DEFINE n == Storable(left)
<1>1. PICK bytes \in [1..n -> Bytes] :
        fifo' = [s \in Slots |-> IF s \in end..(end + n - 1)
                                   THEN bytes[s - end + 1] ELSE fifo[s]]
  BY DEF Store
<1>2. /\ n \in Nat /\ end + n <= FifoSize /\ count + n <= FifoSize
      /\ end \in 0..(FifoSize - 1)
  BY StorableRange DEF TxInv, TypeOK, Slots
<1>3. count' = count + n /\ UNCHANGED <<start, transaction, dma, line>>
  BY DEF Store
<1> HIDE DEF n
<1>4. Sent' = Sent /\ Waiting' = Waiting + n
  <2>1. Sent' = Sent
    BY <1>3 DEF Sent
  <2>2. Waiting' = count' - Sent' /\ Waiting = count - Sent
    BY DEF Waiting
  <2>3. count \in Int /\ Sent \in Int
    BY Ranges
  <2> QED
    BY <1>2, <1>3, <2>1, <2>2, <2>3
<1>5. Stream' = [k \in 1..(Waiting + n) |-> fifo'[Slot(k)]]
  <2>1. Stream' = [k \in 1..Waiting' |-> fifo'[Slot(k)']]
    BY DEF Stream, Waiting, Slot
  <2>2. ASSUME NEW k PROVE Slot(k)' = Slot(k)
    BY <1>3, <1>4 DEF Slot
  <2> QED
    BY <1>4, <2>1, <2>2
<1>a. /\ FifoSize \in Nat \ {0} /\ start \in 0..(FifoSize - 1) /\ count \in 0..FifoSize
      /\ Sent \in 0..count /\ Waiting = count - Sent /\ Waiting \in Nat /\ Sent \in Nat
  BY Ranges
<1>b. end = IF start + count < FifoSize THEN start + count ELSE start + count - FifoSize
  BY EndIs
<1>6. ASSUME NEW k \in 1..Waiting PROVE fifo'[Slot(k)] = Stream[k]
  <2>1. k \in 1..(count - Sent) /\ k \in 1..FifoSize /\ Sent + k <= FifoSize
    BY <1>a
  <2>2. Slot(k) = IF start + Sent + k - 1 < FifoSize
                    THEN start + Sent + k - 1 ELSE start + Sent + k - 1 - FifoSize
    BY <2>1, SlotIs
  <2>3. ~(Slot(k) \in end..(end + n - 1))
    BY <1>2, <1>a, <1>b, <2>1, <2>2, Behind
  <2> QED
    BY <1>1, <2>3, SlotRange, StreamAt
<1>7. ASSUME NEW j \in 1..n PROVE fifo'[Slot(Waiting + j)] = bytes[j]
  <2>1. /\ Waiting + j = count - Sent + j
        /\ Waiting + j \in 1..FifoSize /\ Sent + (Waiting + j) <= FifoSize
    BY <1>2, <1>a
  <2>2. Slot(Waiting + j)
          = IF start + Sent + (Waiting + j) - 1 < FifoSize
              THEN start + Sent + (Waiting + j) - 1
              ELSE start + Sent + (Waiting + j) - 1 - FifoSize
    BY <2>1, SlotIs
  <2>3. /\ Slot(Waiting + j) = end + j - 1
        /\ end + j - 1 \in end..(end + n - 1) /\ end + j - 1 \in 0..(FifoSize - 1)
        /\ (end + j - 1) - end + 1 = j
    BY <1>2, <1>a, <1>b, <2>1, <2>2, Behind
  <2> QED
    BY <1>1, <2>3 DEF Slots
<1>8. /\ bytes \in Seq(Bytes) /\ Len(bytes) = n
      /\ Stream \o bytes = [k \in 1..(Waiting + n) |->
                              IF k <= Waiting THEN Stream[k] ELSE bytes[k - Waiting]]
  <2>1. Stream \in Seq(Bytes) /\ n \in Nat /\ bytes \in [1..n -> Bytes]
    BY <1>1, <1>2, StreamSeq
  <2>2. /\ bytes \in Seq(Bytes) /\ Len(bytes) = n
        /\ Stream \o bytes = [k \in 1..(Len(Stream) + n) |->
                                IF k <= Len(Stream) THEN Stream[k] ELSE bytes[k - Len(Stream)]]
    BY <2>1, ConcatFunction
  <2> QED
    BY <2>2, StreamSeq
<1>9. Stream' = Stream \o bytes
  <2>1. ASSUME NEW k \in 1..(Waiting + n)
        PROVE  fifo'[Slot(k)] = IF k <= Waiting THEN Stream[k] ELSE bytes[k - Waiting]
    <3>1. CASE k <= Waiting
      <4>1. k \in 1..Waiting
        BY <3>1, Ranges, <1>2
      <4> QED
        BY <1>6, <3>1, <4>1
    <3>2. CASE ~(k <= Waiting)
      <4>1. k - Waiting \in 1..n /\ Waiting + (k - Waiting) = k
        BY <1>2, <1>a, <3>2
      <4>2. fifo'[Slot(Waiting + (k - Waiting))] = bytes[k - Waiting]
        BY <1>7, <4>1
      <4> QED
        BY <3>2, <4>1, <4>2
    <3> QED
      BY <3>1, <3>2
  <2> QED
    BY <1>5, <1>8, <2>1
<1>10. CASE n = 0
  <2>1. Stream \o bytes = Stream
    BY <1>2, <1>8, <1>10, StreamSeq
  <2> QED
    BY <1>3, <1>9, <2>1 DEF Tx!vars
<1>11. CASE n # 0
  <2>1. n \in 1..FifoSize
    BY <1>2, <1>11, Ranges
  <2>2. bytes \in Tx!Chunks
    BY <1>1, <2>1 DEF Tx!Chunks
  <2>3. Len(Stream) + Len(bytes) <= FifoSize
    <3>1. Len(Stream) = Waiting /\ Len(bytes) = n
      BY <1>8, StreamSeq
    <3>2. Waiting + n <= FifoSize
      BY <1>2, <1>a
    <3> QED
      BY <3>1, <3>2
  <2> QED
    BY <1>3, <1>9, <2>2, <2>3 DEF Tx!Put, Tx!Next
<1> QED
  BY <1>10, <1>11

(* The handler releases bytes that are on the line already.                   *)
LEMMA ReleaseStep == ASSUME TxInv, TransferComplete PROVE UNCHANGED Tx!vars
<1>1. /\ start' = IF start + transaction = FifoSize THEN 0 ELSE start + transaction
      /\ start + transaction <= FifoSize /\ dma.left = 0
      /\ start' \in Slots /\ count' \in 0..FifoSize
  BY ReleaseMoves
<1>2. count' = count - transaction /\ fifo' = fifo /\ line' = line
      /\ Trigger(start', count', 0) /\ TypeOK /\ 0 \in 0..FifoSize
  BY SizeAssumption DEF TransferComplete, TxInv
<1>3. Sent = transaction
  BY <1>1, Ranges DEF Sent
<1>4. Sent' = 0
  <2>1. /\ transaction' \in 0..FifoSize
        /\ count' = 0 => transaction' = 0 /\ dma' = dma
        /\ count' > 0 => dma'.left = transaction'
    BY <1>1, <1>2, TriggerOpens
  <2>2. transaction' = dma'.left /\ transaction' \in Int
    <3>1. CASE count' = 0
      BY <1>1, <2>1, <3>1
    <3>2. CASE count' > 0
      BY <2>1, <3>2
    <3> QED
      BY <1>1, <3>1, <3>2
  <2> QED
    BY <2>2 DEF Sent
<1>5. Waiting' = Waiting
  BY <1>1, <1>2, <1>3, <1>4, Ranges DEF Waiting
<1>6. ASSUME NEW k \in 1..Waiting PROVE Slot(k)' = Slot(k)
  <2>1. PICK x \in 0..(2 * FifoSize - 1) : x = start + transaction + k - 1
    BY <1>3, Ranges
  <2>2. Slot(k) = IF x < FifoSize THEN x ELSE x - FifoSize
    BY <1>3, <2>1, Wrap DEF Slot
  <2>3. PICK y \in 0..(2 * FifoSize - 1) : y = start' + 0 + k - 1
    BY <1>1, Ranges DEF Slots
  <2>4. Slot(k)' = IF y < FifoSize THEN y ELSE y - FifoSize
    BY <1>4, <2>3, Wrap DEF Slot
  <2>5. k <= count - transaction /\ count <= FifoSize
    BY <1>3, Ranges DEF Waiting
  <2> QED
    BY <1>1, <2>1, <2>2, <2>3, <2>4, <2>5, Ranges
<1>7. Stream' = Stream
  <2>1. Stream' = [k \in 1..Waiting' |-> fifo'[Slot(k)']]
    BY DEF Stream, Waiting, Slot
  <2> QED
    BY <1>2, <1>5, <1>6, <2>1, StreamAt
<1> QED
  BY <1>2, <1>7 DEF Tx!vars

LEMMA StartDmaStutters == ASSUME TxInv, StartDma PROVE UNCHANGED Tx!vars
<1>1. /\ TypeOK /\ start \in Slots /\ count \in 0..FifoSize /\ transaction \in 0..FifoSize
      /\ transaction = 0 => dma.left = 0
      /\ Trigger(start, count, transaction) /\ UNCHANGED <<ring, line>>
  BY DEF TxInv, TypeOK, TransactionInRing, StartDma
<1>2. /\ transaction' \in 0..FifoSize
      /\ transaction # 0 => transaction' = transaction /\ dma' = dma
      /\ transaction = 0 /\ count = 0 => transaction' = 0 /\ dma' = dma
      /\ transaction = 0 /\ count > 0 => dma'.left = transaction'
  BY <1>1, TriggerOpens
<1>3. Sent' = Sent
  <2>1. FifoSize \in Nat /\ Sent' = transaction' - dma'.left /\ Sent = transaction - dma.left
    BY SizeAssumption DEF Sent
  <2>2. CASE transaction # 0 \/ count = 0
    BY <1>2, <2>1, <2>2
  <2>3. CASE transaction = 0 /\ count > 0
    BY <1>1, <1>2, <2>1, <2>3
  <2> QED
    BY <1>1, <2>1, <2>2, <2>3
<1> QED
  BY <1>1, <1>3 DEF Tx!vars, Stream, ring

(* Theorem TxRefinesStream: for every size of the ring and every packet, the  *)
(* bytes given to phySendFunction0 leave in order, once and unaltered.        *)
THEOREM TxRefinesStream == Spec => TxStream
<1>1. Init => Tx!Init
  <2> SUFFICES ASSUME Init PROVE Tx!Init
    OBVIOUS
  <2>1. count - Sent = 0
    BY DEF Init, Sent
  <2>2. Stream = <<>>
    BY <2>1 DEF Stream
  <2> QED
    BY <2>2 DEF Init, Tx!Init
<1>2. TxInv /\ [Next]_vars => [Tx!Next]_(Tx!vars)
  <2> SUFFICES ASSUME TxInv, [Next]_vars PROVE [Tx!Next]_(Tx!vars)
    OBVIOUS
  <2>1. CASE Store
    BY <2>1, PutStep
  <2>2. CASE DmaByte
    BY <2>2, TakeStep DEF Tx!Next
  <2>3. CASE TransferComplete \/ StartDma
    BY <2>3, ReleaseStep, StartDmaStutters
  <2>4. ASSUME UNCHANGED <<ring, transaction, dma, line>> PROVE UNCHANGED Tx!vars
    BY <2>4 DEF Tx!vars, Stream, Sent, ring
  <2>5. Store \/ DmaByte \/ TransferComplete \/ StartDma
          \/ UNCHANGED <<ring, transaction, dma, line>>
    BY DEF Next, Main, Send, SendReturn, vars
  <2> QED
    BY <2>1, <2>2, <2>3, <2>4, <2>5
<1> QED
  BY <1>1, <1>2, TxInvariant, PTL DEF Spec, TxStream, Tx!Spec
===============================================================================
