-------------------------------- MODULE MsgPump --------------------------------
(***************************************************************************)
(* The message pump of the flawless framework (msg_msgPump.c).             *)
(*                                                                         *)
(* The main loop runs msgPump_pumpMessage for ever; it can be preempted    *)
(* between any two steps by interrupt handlers, which like the callbacks   *)
(* call the other functions of the interface.  Those functions run with    *)
(* interrupts disabled, so each is one atomic step here; the loop itself   *)
(* holds the lock only while it unlocks a message and while it advances    *)
(* the front of the queue, so it is a program counter over seven places.   *)
(***************************************************************************)
EXTENDS Integers, Sequences

CONSTANTS MsgIds,       \* the message ids that have a buffer pool
          msgAmount,    \* [MsgIds -> Nat]: elements of each pool
          Callbacks,    \* callback functions
          Values,       \* message contents
          Zero,         \* the content memset leaves
          QSize,        \* MSG_PUMP_MSG_QUEUE_MAX_SIZE
          Receivers,    \* MAX_AMOUNT_OF_MSG_RECERIVER_PER_MESSAGE
          MaxRef,       \* largest reference count (255 in the code)
          Null,
          NullPosters,  \* ids some client posts with a NULL pointer
          Unregistrars, \* callbacks some client unregisters, while in a callback
          Shared        \* buffers some client locks again before it posts them

(***************************************************************************)
(* The i-th element of the pool of message id m is <<m, i>>.               *)
(***************************************************************************)
Bufs == UNION {{m} \X (1..msgAmount[m]) : m \in MsgIds}

ASSUME SizeAssumption == /\ QSize \in Nat \ {0}
                         /\ Receivers \in Nat \ {0}
                         /\ MaxRef \in Nat \ {0}
                         /\ msgAmount \in [MsgIds -> Nat]
ASSUME ValueAssumption == Zero \in Values
ASSUME NullAssumption == Null \notin Bufs /\ Null \notin Callbacks /\ Null \notin Values
ASSUME ClientAssumption == /\ NullPosters \subseteq MsgIds
                           /\ Unregistrars \subseteq Callbacks
                           /\ Shared \subseteq Bufs

VARIABLES
  vec,      \* callbackVector of each message id
  flags,    \* header flags of each buffer
  refCnt,   \* header reference count of each buffer
  data,     \* content of each buffer
  queue,    \* g_msgQueue
  front,    \* g_msgQueueFront
  tail,     \* g_msgQueueTail
  size,     \* g_msgQueueSize
  pc,       \* where the main loop is in msgPump_pumpMessage
  recv,     \* the loop's index i into the callback vector
  handler,  \* the callback the loop is calling, or Null
  refs,     \* references the clients hold on each buffer
  owned,    \* buffers clients got from msgPump_getFreeBuffer and may fill
  lost      \* history: buffers recovered while somebody still held them

headers == <<flags, refCnt>>
ring    == <<queue, front, tail, size>>
loop    == <<pc, recv, handler>>
clients == <<refs, owned, lost>>
vars    == <<vec, headers, data, ring, loop, clients>>

Slots   == 0..(QSize - 1)
Indexes == 0..(Receivers - 1)
Entry   == [id : MsgIds, buf : Bufs \cup {Null}]
Flags   == {"Nothing", "PostedNotDispatched", "InUse"}
Places  == {"idle", "scan", "callback", "clear", "unlock", "advance", "fault"}

TypeOK ==
  /\ vec \in [MsgIds -> [Indexes -> Callbacks \cup {Null}]]
  /\ flags \in [Bufs -> Flags]
  /\ refCnt \in [Bufs -> 0..MaxRef]
  /\ data \in [Bufs -> Values]
  /\ queue \in [Slots -> Entry \cup {Null}]
  /\ front \in Slots /\ tail \in Slots /\ size \in 0..QSize
  /\ pc \in Places /\ recv \in 0..Receivers
  /\ handler \in Callbacks \cup {Null}
  /\ refs \in [Bufs -> 0..MaxRef]
  /\ owned \subseteq Bufs /\ lost \subseteq Bufs

(***************************************************************************)
(* msgPump_init: every pool and the queue are zeroed, nobody is registered. *)
(***************************************************************************)
Init ==
  /\ vec = [m \in MsgIds |-> [i \in Indexes |-> Null]]
  /\ flags = [b \in Bufs |-> "Nothing"]
  /\ refCnt = [b \in Bufs |-> 0]
  /\ data = [b \in Bufs |-> Zero]
  /\ queue = [s \in Slots |-> Null]
  /\ front = 0 /\ tail = 0 /\ size = 0
  /\ pc = "idle" /\ recv = 0 /\ handler = Null
  /\ refs = [b \in Bufs |-> 0]
  /\ owned = {} /\ lost = {}

-------------------------------------------------------------------------------
(* One more reference.  The history counts no more than MaxRef of them; it    *)
(* comes to that only for a lost buffer, where the header counts fewer.       *)
OneMore(n) == IF n < MaxRef THEN n + 1 ELSE n

-------------------------------------------------------------------------------
(* Mistakes a change of msg_msgPump.c could make.  No action uses these: each *)
(* stands in for the definition named beside it, to show that the properties  *)
(* below would notice.                                                        *)

Mistake_Full == size > QSize                          \* for Full

Mistake_FreeBuf(b) == flags[b] = "Nothing"            \* for FreeBuf

Mistake_Register(m, c) ==                             \* for Register
  /\ \E i \in Indexes :
       /\ vec[m][i] = Null
       /\ \A j \in Indexes : j < i => vec[m][j] # Null
       /\ vec' = [vec EXCEPT ![m] = [@ EXCEPT ![i] = c]]
  /\ UNCHANGED <<headers, data, ring, loop, clients>>

Mistake_PumpScanned ==                                \* for PumpScanned
  /\ pc = "scan"
  /\ recv > Receivers
  /\ pc' = "clear"
  /\ UNCHANGED <<vec, headers, data, ring, recv, handler, clients>>

Mistake_PumpReturn ==                                 \* for PumpReturn
  /\ pc = "callback"
  /\ handler' = Null
  /\ recv' = recv + 1
  /\ pc' = "clear"
  /\ UNCHANGED <<vec, headers, data, ring, clients>>

Mistake_PumpClear ==                                  \* for PumpClear
  /\ pc = "clear"
  /\ pc' = "unlock"
  /\ UNCHANGED <<vec, headers, data, ring, recv, handler, clients>>

Mistake_LockMessage(b) ==                             \* for LockMessage
  /\ b \in owned => b \in Shared
  /\ refs[b] > 0 \/ (pc = "callback" /\ queue[front].buf = b)
  /\ refCnt' = [refCnt EXCEPT ![b] = (@ + 1) % (MaxRef + 1)]
  /\ refs' = [refs EXCEPT ![b] = OneMore(@)]
  /\ UNCHANGED <<vec, flags, data, ring, loop, owned, lost>>

-------------------------------------------------------------------------------
(* The queue. *)

Full == front = tail /\ size # 0

Next1(s) == (s + 1) % QSize

Enqueue(m, b) ==
  /\ queue' = [queue EXCEPT ![tail] = [id |-> m, buf |-> b]]
  /\ tail' = Next1(tail)
  /\ size' = size + 1
  /\ UNCHANGED front

(* The free element with the lowest index: where both scans of a pool stop. *)
FreeBuf(b) == refCnt[b] = 0 /\ flags[b] = "Nothing"

FirstFree(m, b) ==
  /\ b[1] = m
  /\ FreeBuf(b)
  /\ \A a \in Bufs : a[1] = m /\ FreeBuf(a) => b[2] <= a[2]

-------------------------------------------------------------------------------
(* msgPump_registerOnMessage: the first slot that is empty or holds c. *)
Register(m, c) ==
  /\ \E i \in Indexes :
       /\ vec[m][i] \in {Null, c}
       /\ \A j \in Indexes : j < i => vec[m][j] \notin {Null, c}
       /\ vec' = [vec EXCEPT ![m] = [@ EXCEPT ![i] = c]]
  /\ UNCHANGED <<headers, data, ring, loop, clients>>

(* msgPump_unregisterFromMessage: the first slot that holds c.  The loop     *)
(* reads the vector without the lock, so only callbacks may call this.       *)
Unregister(m, c) ==
  /\ pc = "callback"
  /\ c \in Unregistrars
  /\ \E i \in Indexes :
       /\ vec[m][i] = c
       /\ \A j \in Indexes : j < i => vec[m][j] # c
       /\ vec' = [vec EXCEPT ![m] = [@ EXCEPT ![i] = Null]]
  /\ UNCHANGED <<headers, data, ring, loop, clients>>

(* msgPump_getFreeBuffer: without a free element nothing changes. *)
GetFreeBuffer(m) ==
  /\ \E b \in Bufs :
       /\ FirstFree(m, b)
       /\ refCnt' = [refCnt EXCEPT ![b] = @ + 1]
       /\ flags' = [flags EXCEPT ![b] = "InUse"]
       /\ refs' = [refs EXCEPT ![b] = OneMore(@)]
       /\ owned' = owned \cup {b}
  /\ UNCHANGED <<vec, data, ring, loop, lost>>

(* The owner of a buffer (code or a DMA channel) writes into it. *)
Fill(b, v) ==
  /\ b \in owned
  /\ data' = [data EXCEPT ![b] = v]
  /\ UNCHANGED <<vec, headers, ring, loop, clients>>

(* msgPump_postMessage with a buffer of the message's own pool.  A buffer    *)
(* with more than one reference is not posted but "recovered": the pool may  *)
(* hand it out again.  The poster's reference is gone; who else has one will *)
(* still use it and unlock it.                                               *)
Postable(b) == refCnt[b] = 1 /\ flags[b] = "InUse"

PostOwn(b) ==
  /\ b \in owned
  /\ ~Full
  /\ IF Postable(b)
       THEN /\ flags' = [flags EXCEPT ![b] = "PostedNotDispatched"]
            /\ refCnt' = [refCnt EXCEPT ![b] = 1]
            /\ Enqueue(b[1], b)
            /\ UNCHANGED lost
       ELSE /\ flags' = [flags EXCEPT ![b] = "Nothing"]
            /\ refCnt' = [refCnt EXCEPT ![b] = 0]
            /\ lost' = lost \cup {b}
            /\ UNCHANGED ring
  /\ refs' = [refs EXCEPT ![b] = @ - 1]
  /\ owned' = owned \ {b}
  /\ UNCHANGED <<vec, data, loop>>

(* msgPump_postMessage with memory of the caller: its content is copied.     *)
PostCopy(m, v) ==
  /\ ~Full
  /\ \E b \in Bufs :
       /\ FirstFree(m, b)
       /\ refCnt' = [refCnt EXCEPT ![b] = @ + 1]
       /\ flags' = [flags EXCEPT ![b] = "PostedNotDispatched"]
       /\ data' = [data EXCEPT ![b] = v]
       /\ Enqueue(m, b)
  /\ UNCHANGED <<vec, loop, clients>>

(* msgPump_postMessage with a NULL pointer. *)
PostNull(m) ==
  /\ m \in NullPosters
  /\ ~Full
  /\ Enqueue(m, Null)
  /\ UNCHANGED <<vec, headers, data, loop, clients>>

(* msgPump_lockMessage, by a client that already holds a reference or by the *)
(* callback the message is being shown to.                                   *)
LockMessage(b) ==
  /\ b \in owned => b \in Shared
  /\ refs[b] > 0 \/ (pc = "callback" /\ queue[front].buf = b)
  /\ refCnt[b] < MaxRef
  /\ refCnt' = [refCnt EXCEPT ![b] = @ + 1]
  /\ refs' = [refs EXCEPT ![b] = OneMore(@)]
  /\ UNCHANGED <<vec, flags, data, ring, loop, owned, lost>>

(* msgPump_unlockMessage by a client; the flags stay what they are.  A count *)
(* of 0 stays 0.                                                             *)
UnlockMessage(b) ==
  /\ refs[b] > 0
  /\ refCnt' = [refCnt EXCEPT ![b] = IF @ > 0 THEN @ - 1 ELSE 0]
  /\ refs' = [refs EXCEPT ![b] = @ - 1]
  /\ owned' = IF refs[b] = 1 THEN owned \ {b} ELSE owned
  /\ UNCHANGED <<vec, flags, data, ring, loop, lost>>

-------------------------------------------------------------------------------
(* msgPump_pumpMessage, step by step. *)

Current == queue[front]

SetFlag(b, f) == IF b = Null THEN flags ELSE [flags EXCEPT ![b] = f]

(* The queue is not empty: mark the front buffer.  The header of a NULL      *)
(* message is at a wild address: the store faults or hits nothing.           *)
PumpBegin ==
  /\ pc = "idle"
  /\ size # 0
  /\ flags' = SetFlag(Current.buf, "InUse")
  /\ recv' = 0
  /\ pc' \in (IF Current.buf = Null THEN {"scan", "fault"} ELSE {"scan"})
  /\ UNCHANGED <<vec, refCnt, data, ring, handler, clients>>

PumpSkip ==
  /\ pc = "scan"
  /\ recv < Receivers
  /\ vec[Current.id][recv] = Null
  /\ recv' = recv + 1
  /\ UNCHANGED <<vec, headers, data, ring, pc, handler, clients>>

PumpCall ==
  /\ pc = "scan"
  /\ recv < Receivers
  /\ vec[Current.id][recv] # Null
  /\ handler' = vec[Current.id][recv]
  /\ pc' = "callback"
  /\ UNCHANGED <<vec, headers, data, ring, recv, clients>>

PumpReturn ==
  /\ pc = "callback"
  /\ handler' = Null
  /\ recv' = recv + 1
  /\ pc' = "scan"
  /\ UNCHANGED <<vec, headers, data, ring, clients>>

PumpScanned ==
  /\ pc = "scan"
  /\ recv = Receivers
  /\ pc' = "clear"
  /\ UNCHANGED <<vec, headers, data, ring, recv, handler, clients>>

PumpClear ==
  /\ pc = "clear"
  /\ flags' = SetFlag(Current.buf, "Nothing")
  /\ pc' = "unlock"
  /\ UNCHANGED <<vec, refCnt, data, ring, recv, handler, clients>>

PumpUnlock ==
  /\ pc = "unlock"
  /\ refCnt' = IF Current.buf # Null /\ refCnt[Current.buf] > 0
                 THEN [refCnt EXCEPT ![Current.buf] = @ - 1]
                 ELSE refCnt
  /\ pc' = "advance"
  /\ UNCHANGED <<vec, flags, data, ring, recv, handler, clients>>

PumpAdvance ==
  /\ pc = "advance"
  /\ front' = Next1(front)
  /\ size' = size - 1
  /\ pc' = "idle"
  /\ UNCHANGED <<vec, headers, data, queue, tail, recv, handler, clients>>

Pump == \/ PumpBegin \/ PumpSkip \/ PumpCall \/ PumpReturn
        \/ PumpScanned \/ PumpClear \/ PumpUnlock \/ PumpAdvance

-------------------------------------------------------------------------------
(* A fault ends in hard_fault, which never returns. *)
Client ==
  /\ pc # "fault"
  /\ \/ \E m \in MsgIds, c \in Callbacks : Register(m, c) \/ Unregister(m, c)
     \/ \E m \in MsgIds : GetFreeBuffer(m) \/ PostNull(m)
     \/ \E m \in MsgIds, v \in Values : PostCopy(m, v)
     \/ \E b \in Bufs, v \in Values : Fill(b, v)
     \/ \E b \in Bufs : PostOwn(b) \/ LockMessage(b) \/ UnlockMessage(b)

Next == Pump \/ Client

Spec == Init /\ [][Next]_vars

(* The main loop is never suspended for ever: interrupt handlers return, and *)
(* so do callbacks.  Nothing is assumed of the clients.                      *)
FairSpec == Spec /\ WF_vars(Pump)

-------------------------------------------------------------------------------
(* Where entries and buffers stand.                                          *)

(* How far slot s is behind the front of the ring. *)
Offset(s) == IF s >= front THEN s - front ELSE s - front + QSize

Live(s) == Offset(s) < size

(* The front entry is done once its message is unlocked: its slot is still   *)
(* counted, but the buffer may already be in use for another message.        *)
Waiting(s) == Live(s) /\ ~(s = front /\ pc = "advance")

Queued(b) == \E s \in Slots : Waiting(s) /\ queue[s].buf = b

(* Property QueuedBufferReserved: while a message waits or is being shown to *)
(* callbacks, its buffer holds no other waiting message, no client may fill  *)
(* it, and neither scan of the pool would hand it out - even if an interrupt *)
(* comes between clearing the flag and dropping the reference.  The one that *)
(* may break is a buffer recovered under somebody's hands: it alone, and not *)
(* the messages in the other buffers.                                        *)
QueuedBufferReserved ==
  \A s \in Slots : Waiting(s) /\ queue[s].buf \notin lost \cup {Null} =>
    /\ \A t \in Slots : Waiting(t) /\ t # s => queue[t].buf # queue[s].buf
    /\ queue[s].buf \notin owned
    /\ ~FreeBuf(queue[s].buf)

(* Property RefCntExact: the reference count of a buffer is the number of    *)
(* references its clients hold plus the one of the queue, whatever the order *)
(* of posts, locks, unlocks and dispatches (no leak, no early release); but  *)
(* not of a buffer that was recovered while somebody held it.                *)
RefCntExact ==
  \A b \in Bufs \ lost : refCnt[b] = refs[b] + (IF Queued(b) THEN 1 ELSE 0)

(* Property NoDuplicateReceiver: as long as no other callback is ever        *)
(* unregistered, a callback occurs once in a vector, so that a message is    *)
(* shown to it once and unregistering it silences it.  (With two that are    *)
(* unregistered, the hole of one may take a second entry of the other.)      *)
NoDuplicateReceiver ==
  \A m \in MsgIds, c \in Callbacks, i, j \in Indexes :
    Unregistrars \subseteq {c} /\ vec[m][i] = c /\ vec[m][j] = c => i = j

(* Property EveryMessageDispatched: a message in the queue is eventually     *)
(* shown to its receivers, whatever interrupts post meanwhile, unless a NULL *)
(* message stops the board before.                                           *)
EveryMessageDispatched ==
  \A s \in Slots :
    Live(s) /\ ~(s = front /\ pc # "idle") ~>
      (pc = "scan" /\ s = front) \/ pc = "fault"

(* Property BufferComesBack: the buffer of a posted message returns to its   *)
(* pool unless a callback keeps a reference to it, or the board stopped, or  *)
(* it was recovered before while somebody held it.                           *)
BufferComesBack ==
  \A b \in Bufs :
    flags[b] = "PostedNotDispatched" /\ b \notin lost ~>
      FreeBuf(b) \/ refs[b] > 0 \/ pc = "fault"

-------------------------------------------------------------------------------
(* The inductive invariant behind these properties. *)

RingInv == /\ tail = (IF front + size < QSize THEN front + size
                                              ELSE front + size - QSize)
           /\ pc # "idle" => size # 0
           /\ pc \in {"scan", "callback"} => recv <= Receivers
           /\ pc = "callback" => recv < Receivers
           /\ \A s \in Slots : Live(s) => queue[s] \in Entry

DistinctInv ==
  \A s, t \in Slots :
    Waiting(s) /\ Waiting(t) /\ queue[s].buf = queue[t].buf
      => s = t \/ queue[s].buf \in lost \cup {Null}

FlagInv ==
  \A s \in Slots : Waiting(s) /\ queue[s].buf \notin lost \cup {Null} =>
    flags[queue[s].buf] = IF s # front \/ pc = "idle" THEN "PostedNotDispatched"
                          ELSE IF pc = "unlock" THEN "Nothing"
                          ELSE "InUse"

OwnedInv ==
  \A b \in owned : /\ refs[b] > 0
                   /\ b \notin lost => flags[b] = "InUse" /\ ~Queued(b)

(* Property IInv: the ring, the headers and the clients' references agree in  *)
(* every state, also between the loop's steps.                                *)
IInv == TypeOK /\ RingInv /\ DistinctInv /\ FlagInv /\ OwnedInv /\ RefCntExact

-------------------------------------------------------------------------------
(* Property BusSpec: the pump implements MsgBus.  The messages of the bus    *)
(* are the waiting entries, with the present content of their buffers; the   *)
(* content of one that was recovered under somebody's hands is not promised. *)

Content(e) ==
  [id |-> e.id, val |-> IF e.buf \in lost \cup {Null} THEN Null ELSE data[e.buf]]

Retired == IF pc = "advance" THEN 1 ELSE 0

Pending == [k \in 1..(size - Retired) |->
              Content(queue[(front + Retired + k - 1) % QSize])]

(* The entries of the vector that the loop has yet to come to.               *)
Ahead(i) == i > recv \/ (i = recv /\ pc = "scan")

Due == IF pc \notin {"scan", "callback"} THEN {}
       ELSE {i \in Indexes : Ahead(i) /\ vec[Current.id][i] # Null}

Bus == INSTANCE MsgBus WITH
         Capacity <- QSize,
         Seats    <- Indexes,
         pending  <- Pending,
         seats    <- vec,
         shown    <- pc \in {"scan", "callback", "clear", "unlock"},
         due      <- Due

BusSpec == Bus!Spec
===============================================================================
