-------------------------------- MODULE UartRx --------------------------------
(***************************************************************************)
(* Serial reception (communication.c) under the system lock: DMA writes    *)
(* the bytes of the line into a circular ring, whether or not interrupts   *)
(* are enabled, and usart1_isr hands them to the protocol.  Meanwhile the  *)
(* main loop and the other handlers lock and unlock.                       *)
(***************************************************************************)
EXTENDS SystemLock, Sequences

CONSTANTS Bytes,
          Zero,      \* the byte memset leaves
          FifoSize   \* RX_FIFO_SIZE

ASSUME SizeAssumption == FifoSize \in Nat \ {0, 1}
ASSUME ByteAssumption == Zero \in Bytes

VARIABLES
  rxFifoBuf,   \* g_rxFifoBuf
  readIndex,   \* g_rxFifoReadIndex
  dmaIndex,    \* RX_FIFO_SIZE - CNDTR: where DMA writes next
  pending,     \* the interrupt of USART1 is pending
  pc,          \* where usart1_isr is; "idle" in another handler, too
  received     \* the byte it took last

ring   == <<rxFifoBuf, readIndex, dmaIndex>>
rxVars == <<ring, pending, pc, received>>
vars   == <<lockVars, rxVars>>

Slots == 0..(FifoSize - 1)

TypeOK ==
  /\ LockTypeOK
  /\ rxFifoBuf \in [Slots -> Bytes]
  /\ readIndex \in Slots /\ dmaIndex \in Slots
  /\ pending \in BOOLEAN
  /\ pc \in {"idle", "check", "read", "indicate", "leave"}
  /\ received \in Bytes

(* comm2pwrBrd_init *)
Init ==
  /\ LockInit
  /\ rxFifoBuf = [s \in Slots |-> Zero]
  /\ readIndex = 0 /\ dmaIndex = 0
  /\ pending = FALSE
  /\ pc = "idle"
  /\ received \in Bytes

-------------------------------------------------------------------------------
(* Mistakes a change of usart1_isr could make; see the definitions of the     *)
(* same name: to advance the index first, and to clear what is pending at     *)
(* the end, as the handler of the motor switch does.                          *)

Mistake_Read ==                       \* for Read
  /\ pc = "read"
  /\ readIndex' = (readIndex + 1) % FifoSize
  /\ received' = rxFifoBuf[readIndex']
  /\ pc' = "indicate"
  /\ UNCHANGED <<lockVars, rxFifoBuf, dmaIndex, pending>>

Mistake_Leave ==                      \* for Leave
  /\ pc = "leave"
  /\ HandlerReturn
  /\ pc' = "idle"
  /\ pending' = FALSE
  /\ UNCHANGED <<ring, received>>

Mistake_Advance(i) == i + 1           \* for Advance

-------------------------------------------------------------------------------
Advance(i) == (i + 1) % FifoSize

(* The receiver raises the interrupt, and DMA channel 3 stores the byte       *)
(* before the handler looks.                                                  *)
DmaReceive(b) ==
  /\ rxFifoBuf' = [rxFifoBuf EXCEPT ![dmaIndex] = b]
  /\ dmaIndex' = Advance(dmaIndex)
  /\ pending' = TRUE
  /\ UNCHANGED <<lockVars, readIndex, pc, received>>

(* usart1_isr *)
Enter ==
  /\ pending
  /\ HandlerEnter
  /\ pending' = FALSE
  /\ pc' = "check"
  /\ UNCHANGED <<ring, received>>

Check ==
  /\ pc = "check"
  /\ pc' = IF readIndex # dmaIndex THEN "read" ELSE "leave"
  /\ UNCHANGED <<lockVars, ring, pending, received>>

Read ==
  /\ pc = "read"
  /\ received' = rxFifoBuf[readIndex]
  /\ readIndex' = Advance(readIndex)
  /\ pc' = "indicate"
  /\ UNCHANGED <<lockVars, rxFifoBuf, dmaIndex, pending>>

(* flawLess_ReceiveIndication returns, having locked and unlocked as often    *)
(* as it needed.                                                              *)
Indicated ==
  /\ pc = "indicate"
  /\ ~Inside("handler")
  /\ pc' = "check"
  /\ UNCHANGED <<lockVars, ring, pending, received>>

Leave ==
  /\ pc = "leave"
  /\ HandlerReturn
  /\ pc' = "idle"
  /\ UNCHANGED <<ring, pending, received>>

(* The other handlers and the main loop, as far as the lock shows them. *)
OtherEnter  == HandlerEnter /\ UNCHANGED rxVars
OtherReturn == pc = "idle" /\ HandlerReturn /\ UNCHANGED rxVars

Sections(c) ==
  /\ c = "handler" => pc \in {"idle", "indicate"}
  /\ Locking(c)
  /\ UNCHANGED rxVars

Next == \/ Enter \/ Check \/ Read \/ Indicated \/ Leave
        \/ OtherEnter \/ OtherReturn
        \/ \E c \in Contexts : Sections(c)
        \/ \E b \in Bytes : DmaReceive(b)

Spec == Init /\ [][Next]_vars

(* Functions and handlers go on; a locked section ends at every level of      *)
(* nesting, whatever it nests; and a handler that waits gets its turn.        *)
Ends(c, d) == depth[c] = d /\ Unlock(c) /\ UNCHANGED rxVars

FairSpec ==
  /\ Spec
  /\ WF_vars(Check \/ Read \/ Leave)
  /\ SF_vars(Indicated)
  /\ SF_vars(OtherReturn)
  /\ SF_vars(Enter)
  /\ \A c \in Contexts : WF_vars(Completes(c) /\ UNCHANGED rxVars)
  /\ \A c \in Contexts, d \in 1..MaxDepth : SF_vars(Ends(c, d))

-------------------------------------------------------------------------------
(* Bytes not handed on.  The one the handler decided to read counts even if   *)
(* DMA has come round to its slot: then it takes the newer byte there.        *)
Unread ==
  IF pc = "read"
    THEN ((dmaIndex + FifoSize - readIndex - 1) % FifoSize) + 1
    ELSE (dmaIndex + FifoSize - readIndex) % FifoSize

Stream == [k \in 1..Unread |-> rxFifoBuf[(readIndex + k - 1) % FifoSize]]

(* Property RxStream: the ring and its handler implement LossyStream: bytes   *)
(* are handed on in order and once, and lost only all together, when          *)
(* interrupts stay disabled for FifoSize - 1 further bytes.                   *)
Rx == INSTANCE LossyStream WITH
        Capacity <- FifoSize,
        stream   <- Stream,
        last     <- received

RxStream == Rx!Spec

(* Property RxServed: a byte that waits is read, or lost in an overrun; none  *)
(* stays in the ring because it came just when the handler had looked for the *)
(* last time, or while interrupts were disabled.                              *)
RxServed == readIndex # dmaIndex ~> (pc = "read" \/ readIndex = dmaIndex)

(* Property RxInv: the inductive invariant behind these: what the lock keeps  *)
(* (LockInv), and that usart1_isr is in the ring only as the handler that     *)
(* runs, outside every section but those of flawLess_ReceiveIndication.       *)
RxInv ==
  /\ TypeOK
  /\ LockInv
  /\ pc # "idle" => active
  /\ pc \in {"check", "read", "leave"} => ~Inside("handler")
===============================================================================
