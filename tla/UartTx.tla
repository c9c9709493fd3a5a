-------------------------------- MODULE UartTx --------------------------------
(***************************************************************************)
(* The sending half of communication.c: the main loop copies packets into  *)
(* a ring, DMA channel 2 sends contiguous pieces of it byte by byte, and   *)
(* the handler of its transfer-complete interrupt releases a piece and     *)
(* starts the next.  Copying and starting run with interrupts disabled;    *)
(* the DMA channel runs at any time.                                       *)
(***************************************************************************)
EXTENDS Integers, Sequences

CONSTANTS Bytes,
          Zero,        \* the byte memset leaves
          FifoSize,    \* TX_FIFO_SIZE
          MaxPacket    \* longest i_packetLen the model sends

ASSUME SizeAssumption == FifoSize \in Nat \ {0} /\ MaxPacket \in Nat
ASSUME ByteAssumption == Zero \in Bytes

VARIABLES
  fifo, start, end, count,   \* g_txFifo
  transaction,               \* g_currentTXTransactionSize
  dma,                       \* DMA channel 2: enabled, read position, bytes left
  done,                      \* its transfer-complete flag: the interrupt is pending
  line,                      \* the byte put on the line last
  pc, left                   \* phySendFunction0: place, bytes not yet stored

ring == <<fifo, start, end, count>>
vars == <<ring, transaction, dma, done, line, pc, left>>

Slots == 0..(FifoSize - 1)

TypeOK ==
  /\ fifo \in [Slots -> Bytes]
  /\ start \in Slots /\ end \in Slots /\ count \in 0..FifoSize
  /\ transaction \in 0..FifoSize
  /\ dma \in [on : BOOLEAN, pos : 0..FifoSize, left : 0..FifoSize]
  /\ done \in BOOLEAN
  /\ line \in Bytes
  /\ pc \in {"idle", "store", "trigger"}
  /\ left \in 0..MaxPacket

(* comm2pwrBrd_init *)
Init ==
  /\ fifo = [s \in Slots |-> Zero]
  /\ start = 0 /\ end = 0 /\ count = 0
  /\ transaction = 0
  /\ dma = [on |-> FALSE, pos |-> 0, left |-> 0]
  /\ done = FALSE
  /\ line \in Bytes
  /\ pc = "idle" /\ left = 0

Least(a, b) == IF a <= b THEN a ELSE b

-------------------------------------------------------------------------------
(* Mistakes a change of communication.c could make; see the definition named *)
(* beside each.                                                              *)

Mistake_Storable(n) == Least(n, FifoSize - end)       \* for Storable

Mistake_Trigger(s, c, t) ==                           \* for Trigger
  LET n == Least(FifoSize - s, c) IN
    IF n > 0
      THEN /\ dma' = [on |-> TRUE, pos |-> s, left |-> n]
           /\ transaction' = n
      ELSE /\ transaction' = t
           /\ UNCHANGED dma

Mistake_TransferComplete ==                           \* for TransferComplete
  /\ done
  /\ done' = FALSE
  /\ start' = (start + transaction) % FifoSize
  /\ count' = count - transaction
  /\ transaction' = 0
  /\ dma' = [dma EXCEPT !.on = FALSE]
  /\ UNCHANGED <<fifo, end, line, pc, left>>

-------------------------------------------------------------------------------
(* trigger_transmision, with start s, count c and transaction size t: DMA    *)
(* gets the bytes up to the wrap, unless it still sends.                     *)
Trigger(s, c, t) ==
  LET n == Least(FifoSize - s, c) IN
    IF n > 0 /\ t = 0
      THEN /\ dma' = [on |-> TRUE, pos |-> s, left |-> n]
           /\ transaction' = n
      ELSE /\ transaction' = t
           /\ UNCHANGED dma

(* phySendFunction0 is called with a packet of n bytes. *)
Send(n) ==
  /\ pc = "idle"
  /\ pc' = "store"
  /\ left' = n
  /\ UNCHANGED <<ring, transaction, dma, done, line>>

(* How many of n bytes the locked section can store before the ring is full  *)
(* or wraps.  None while the ring is full: the loop spins.                   *)
Storable(n) == Least(n, Least(FifoSize - end, FifoSize - count))

Store ==
  /\ pc = "store"
  /\ left > 0
  /\ \E bytes \in [1..Storable(left) -> Bytes] :
       fifo' = [s \in Slots |-> IF s \in end..(end + Storable(left) - 1)
                                  THEN bytes[s - end + 1] ELSE fifo[s]]
  /\ end' = (end + Storable(left)) % FifoSize
  /\ count' = count + Storable(left)
  /\ left' = left - Storable(left)
  /\ pc' = "trigger"
  /\ UNCHANGED <<start, transaction, dma, done, line>>

StartDma ==
  /\ pc = "trigger"
  /\ Trigger(start, count, transaction)
  /\ pc' = "store"
  /\ UNCHANGED <<ring, done, line, left>>

SendReturn ==
  /\ pc = "store"
  /\ left = 0
  /\ pc' = "idle"
  /\ UNCHANGED <<ring, transaction, dma, done, line, left>>

(* dma1_ch2_3_isr: it is not preempted by the main loop. *)
TransferComplete ==
  /\ done
  /\ done' = FALSE
  /\ start' = (start + transaction) % FifoSize
  /\ count' = count - transaction
  /\ Trigger(start', count', 0)
  /\ UNCHANGED <<fifo, end, line, pc, left>>

(* DMA channel 2 reads the ring when the transmitter takes the next byte. *)
DmaByte ==
  /\ dma.on /\ dma.left > 0
  /\ line' = fifo[dma.pos]
  /\ dma' = [dma EXCEPT !.pos = @ + 1, !.left = @ - 1]
  /\ done' = (dma.left = 1)
  /\ UNCHANGED <<ring, transaction, pc, left>>

Main == (\E n \in 0..MaxPacket : Send(n)) \/ Store \/ StartDma \/ SendReturn

Next == Main \/ TransferComplete \/ DmaByte

Spec == Init /\ [][Next]_vars

(* A started call makes its next step, DMA keeps the line busy and a pending *)
(* interrupt is served: nothing here runs with interrupts disabled for ever. *)
FairSpec == /\ Spec
            /\ WF_vars(Store \/ StartDma \/ SendReturn)
            /\ WF_vars(TransferComplete)
            /\ WF_vars(DmaByte)

-------------------------------------------------------------------------------
(* Bytes of the current transaction already on the line. *)
Sent == transaction - dma.left

(* Bytes stored and not yet on the line. *)
Stream == [k \in 1..(count - Sent) |-> fifo[(start + Sent + k - 1) % FifoSize]]

(* Property TxStream: the bytes of the packets leave on the line once each,  *)
(* in order and unaltered, although the main loop fills the ring while DMA   *)
(* reads it and the interrupt moves its start.                               *)
Tx == INSTANCE ByteStream WITH
        Capacity <- FifoSize,
        stream   <- Stream,
        last     <- line

TxStream == Tx!Spec

(* Property NeverStalls: when the ring holds bytes, DMA sends, its interrupt *)
(* is pending, or the main loop is about to start it.  An interrupt between  *)
(* storing and starting cannot leave bytes behind.                           *)
NeverStalls == count > 0 => transaction > 0 \/ pc = "trigger"

(* What DMA was given lies in one piece inside the ring, it belongs to the    *)
(* bytes still counted, and the channel is enabled or has signalled its end   *)
(* exactly while a transaction is open.                                       *)
TransactionInRing ==
  /\ transaction <= count
  /\ transaction > 0 => /\ dma.on
                        /\ dma.pos + dma.left = start + transaction
                        /\ dma.left <= transaction
                        /\ dma.pos + dma.left <= FifoSize
                        /\ done <=> dma.left = 0
  /\ transaction = 0 => dma.left = 0 /\ ~done

(* Property TxInv: the inductive invariant behind these, which also keeps     *)
(* the three fields of the ring together: no interleaving of storing,         *)
(* starting and releasing puts its end elsewhere than count bytes after its   *)
(* start, or lets DMA read what was not stored.                               *)
TxInv ==
  /\ TypeOK
  /\ end = (start + count) % FifoSize
  /\ TransactionInRing
  /\ NeverStalls

(* Property SendReturns: a call of phySendFunction0 returns, also one with   *)
(* more bytes than the ring holds, which spins until DMA made room.          *)
SendReturns == pc # "idle" ~> pc = "idle"

(* Property Drains: bytes in a ring nobody adds to all get on the line.      *)
Drains == <>[](pc = "idle") => <>[](count = 0)
===============================================================================
