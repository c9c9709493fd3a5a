------------------------------- MODULE PumpProofs -------------------------------
(***************************************************************************)
(* Theorems about MsgPump and about Measuring, which runs on it, for every *)
(* value of their constants.  Measuring takes only steps of the pump's     *)
(* clients; the theorems about the pump, which come first, cite nothing    *)
(* that is Measuring's, none of its assumptions either.                    *)
(***************************************************************************)
EXTENDS Measuring, SequenceTheorems, TLAPS

(* The ring index arithmetic of msg_msgPump.c without the modulus. *)
LEMMA NextSlot == ASSUME NEW s \in Slots
                  PROVE  Next1(s) = IF s = QSize - 1 THEN 0 ELSE s + 1
  BY SizeAssumption DEF Next1, Slots

(* A buffer of a pool knows its message id. *)
LEMMA BufId == ASSUME NEW b \in Bufs PROVE b[1] \in MsgIds
  BY DEF Bufs

(* The scans of a pool never stop at a buffer that somebody uses, except one  *)
(* that was recovered under somebody's hands.                                 *)
LEMMA FreeIsUnused ==
  ASSUME IInv, NEW b \in Bufs \ lost, FreeBuf(b)
  PROVE  ~Queued(b) /\ refs[b] = 0 /\ b \notin owned
<1>1. refs[b] \in Nat /\ 0 = refs[b] + (IF Queued(b) THEN 1 ELSE 0)
  BY DEF IInv, TypeOK, RefCntExact, FreeBuf
<1>2. ~Queued(b) /\ refs[b] = 0
  BY <1>1
<1>3. b \notin owned
  BY <1>2 DEF IInv, OwnedInv
<1> QED BY <1>2, <1>3

(* A step that leaves the ring and the loop's place alone leaves the same    *)
(* messages waiting.                                                         *)
LEMMA SameQueue ==
  ASSUME queue' = queue, front' = front, size' = size, pc' = pc
  PROVE  /\ \A s \in Slots : Live(s)' = Live(s)
         /\ \A s \in Slots : Waiting(s)' = Waiting(s)
         /\ \A b \in Bufs : Queued(b)' = Queued(b)
  BY DEF Live, Waiting, Queued, Offset

(* What a successful post does to the ring. *)
LEMMA EnqueueRing ==
  ASSUME IInv, ~Full, NEW m \in MsgIds, NEW b \in Bufs \cup {Null},
         Enqueue(m, b), pc' = pc, recv' = recv
  PROVE  /\ queue' \in [Slots -> Entry \cup {Null}]
         /\ front' \in Slots /\ tail' \in Slots /\ size' \in 0..QSize
         /\ RingInv'
         /\ tail \in Slots /\ ~Waiting(tail)
         /\ queue'[tail] = [id |-> m, buf |-> b]
         /\ \A s \in Slots : s # tail => queue'[s] = queue[s]
         /\ \A s \in Slots : Waiting(s)' <=> (Waiting(s) \/ s = tail)
<1>1. /\ front \in Slots /\ tail \in Slots /\ size \in 0..QSize
      /\ queue \in [Slots -> Entry \cup {Null}]
      /\ tail = (IF front + size < QSize THEN front + size ELSE front + size - QSize)
      /\ pc # "idle" => size # 0
      /\ \A s \in Slots : Live(s) => queue[s] \in Entry
  BY DEF IInv, TypeOK, RingInv
<1>2. size < QSize
  BY <1>1, SizeAssumption DEF Full, Slots
<1>3. /\ tail' = (IF tail = QSize - 1 THEN 0 ELSE tail + 1)
      /\ size' = size + 1 /\ front' = front
      /\ queue' = [queue EXCEPT ![tail] = [id |-> m, buf |-> b]]
  BY <1>1, NextSlot DEF Enqueue
<1>4. [id |-> m, buf |-> b] \in Entry
  BY DEF Entry
<1>5. /\ queue' \in [Slots -> Entry \cup {Null}]
      /\ queue'[tail] = [id |-> m, buf |-> b]
      /\ \A s \in Slots : s # tail => queue'[s] = queue[s]
  BY <1>1, <1>3, <1>4
<1>6. ~Live(tail)
  BY <1>1, <1>2, SizeAssumption DEF Live, Offset, Slots
<1>7. ASSUME NEW s \in Slots
      PROVE  Live(s)' <=> (Live(s) \/ s = tail)
  <2>1. /\ s \in Int /\ 0 <= s /\ s < QSize /\ QSize \in Int
        /\ front \in Int /\ 0 <= front /\ front < QSize
        /\ size \in Int /\ 0 <= size /\ size < QSize
    BY <1>1, <1>2, SizeAssumption DEF Slots
  <2>2. Live(s) <=> (IF s >= front THEN s - front ELSE s - front + QSize) < size
    BY DEF Live, Offset
  <2>3. Live(s)' <=> (IF s >= front THEN s - front ELSE s - front + QSize) < size + 1
    BY <1>3 DEF Live, Offset
  <2> QED BY <1>1, <2>1, <2>2, <2>3
<1>8. ASSUME NEW s \in Slots
      PROVE  Waiting(s)' <=> (Waiting(s) \/ s = tail)
  <2>1. tail = front => size = 0
    BY <1>1, <1>2, SizeAssumption DEF Slots
  <2>2. pc = "advance" => tail # front
    BY <2>1, <1>1
  <2>3. Waiting(s)' <=> Live(s)' /\ ~(s = front /\ pc = "advance")
    BY <1>3 DEF Waiting
  <2>4. Waiting(s) <=> Live(s) /\ ~(s = front /\ pc = "advance")
    BY DEF Waiting
  <2>5. CASE s = tail
    BY <1>7, <2>2, <2>3, <2>5
  <2>6. CASE s # tail
    BY <1>7, <2>3, <2>4, <2>6
  <2> QED BY <2>5, <2>6
<1>9. front' \in Slots /\ tail' \in Slots /\ size' \in 0..QSize
  <2>1. front' \in Slots
    BY <1>1, <1>3
  <2>2. tail' \in Slots
    <3>1. QSize \in Nat \ {0} /\ tail \in 0..(QSize - 1)
      BY <1>1, SizeAssumption DEF Slots
    <3> QED BY <1>3, <3>1 DEF Slots
  <2>3. size' \in 0..QSize
    BY <1>1, <1>2, <1>3, SizeAssumption
  <2> QED BY <2>1, <2>2, <2>3
<1>10. RingInv'
  <2>1. tail' = (IF front' + size' < QSize THEN front' + size'
                                           ELSE front' + size' - QSize)
    <3>1. /\ QSize \in Int /\ front \in Int /\ 0 <= front /\ front < QSize
          /\ size \in Int /\ 0 <= size /\ size < QSize
      BY <1>1, <1>2, SizeAssumption DEF Slots
    <3>2. tail = (IF front + size < QSize THEN front + size ELSE front + size - QSize)
      BY <1>1
    <3> QED BY <1>3, <3>1, <3>2
  <2>2. pc' # "idle" => size' # 0
    BY <1>1, <1>3
  <2>3. \A s \in Slots : Live(s)' => queue'[s] \in Entry
    BY <1>1, <1>4, <1>5, <1>7
  <2>4. /\ pc' \in {"scan", "callback"} => recv' <= Receivers
        /\ pc' = "callback" => recv' < Receivers
    BY DEF IInv, RingInv
  <2> QED BY <2>1, <2>2, <2>3, <2>4 DEF RingInv
<1>11. ~Waiting(tail)
  BY <1>6 DEF Waiting
<1> QED BY <1>1, <1>5, <1>8, <1>9, <1>10, <1>11

(* A step that leaves the ring and the loop alone, and no flags but those of  *)
(* an idle or a lost buffer, keeps the parts of the invariant about waiting   *)
(* messages.                                                                  *)
LEMMA UnqueuedHeader ==
  ASSUME IInv, UNCHANGED <<ring, loop>>, NEW b \in Bufs,
         lost \subseteq lost', ~Queued(b) \/ b \in lost',
         \A a \in Bufs : a # b => flags'[a] = flags[a]
  PROVE  RingInv' /\ DistinctInv' /\ FlagInv'
<1>1. /\ queue' = queue /\ front' = front /\ tail' = tail /\ size' = size
      /\ pc' = pc /\ recv' = recv
  BY DEF ring, loop
<1>2. /\ \A s \in Slots : Live(s)' = Live(s)
      /\ \A s \in Slots : Waiting(s)' = Waiting(s)
  BY <1>1, SameQueue
<1>3. RingInv'
  BY <1>1, <1>2 DEF IInv, RingInv
<1>4. DistinctInv'
  BY <1>1, <1>2 DEF IInv, DistinctInv
<1>5. FlagInv'
  <2> SUFFICES ASSUME NEW s \in Slots, Waiting(s), queue[s].buf \notin lost' \cup {Null}
               PROVE  flags'[queue[s].buf] = flags[queue[s].buf]
    BY <1>1, <1>2 DEF IInv, FlagInv
  <2>1. queue[s].buf \in Bufs
    BY DEF IInv, RingInv, Waiting, Entry
  <2>2. queue[s].buf # b
    BY DEF Queued
  <2> QED BY <2>1, <2>2
<1> QED BY <1>3, <1>4, <1>5

(* The same when no flag changes at all. *)
LEMMA SameHeader ==
  ASSUME IInv, UNCHANGED <<ring, loop, flags, lost>>
  PROVE  RingInv' /\ DistinctInv' /\ FlagInv'
<1>1. /\ queue' = queue /\ front' = front /\ tail' = tail /\ size' = size
      /\ pc' = pc /\ recv' = recv /\ flags' = flags
  BY DEF ring, loop
<1>2. /\ \A s \in Slots : Live(s)' = Live(s)
      /\ \A s \in Slots : Waiting(s)' = Waiting(s)
  BY <1>1, SameQueue
<1> QED BY <1>1, <1>2 DEF IInv, RingInv, DistinctInv, FlagInv

-------------------------------------------------------------------------------
(* Each operation of the clients preserves the invariant. *)

LEMMA RegisterInv ==
  ASSUME IInv, NEW m \in MsgIds, NEW c \in Callbacks,
         Register(m, c) \/ Unregister(m, c)
  PROVE  IInv'
<1>1. UNCHANGED <<flags, refCnt, data, ring, loop, refs, owned, lost>>
  BY DEF Register, Unregister, headers, clients
<1>2. vec' \in [MsgIds -> [Indexes -> Callbacks \cup {Null}]]
  <2>1. PICK i \in Indexes, x \in Callbacks \cup {Null} :
          vec' = [vec EXCEPT ![m] = [@ EXCEPT ![i] = x]]
    BY DEF Register, Unregister
  <2>2. vec \in [MsgIds -> [Indexes -> Callbacks \cup {Null}]]
    BY DEF IInv, TypeOK
  <2>3. [vec[m] EXCEPT ![i] = x] \in [Indexes -> Callbacks \cup {Null}]
    BY <2>2
  <2> QED BY <2>1, <2>2, <2>3
<1>3. TypeOK'
  BY <1>1, <1>2 DEF IInv, TypeOK, ring, loop
<1>4. \A b \in Bufs : Queued(b)' = Queued(b)
  BY <1>1, SameQueue DEF ring, loop
<1>5. RingInv' /\ DistinctInv' /\ FlagInv'
  BY <1>1, SameHeader
<1>6. OwnedInv' /\ RefCntExact'
  BY <1>1, <1>4 DEF IInv, TypeOK, OwnedInv, RefCntExact
<1> QED BY <1>3, <1>5, <1>6 DEF IInv

LEMMA MoreRefs ==
  ASSUME IInv, NEW b \in Bufs
  PROVE  /\ refs[b] \in 0..MaxRef
         /\ OneMore(refs[b]) \in 1..MaxRef
         /\ refs[b] < MaxRef => OneMore(refs[b]) = refs[b] + 1
         /\ refs[b] = 0 => OneMore(refs[b]) = 1
<1>1. refs[b] \in 0..MaxRef /\ MaxRef \in Nat \ {0}
  BY SizeAssumption DEF IInv, TypeOK
<1> QED BY <1>1 DEF OneMore

LEMMA GetFreeBufferInv ==
  ASSUME IInv, NEW m \in MsgIds, GetFreeBuffer(m)
  PROVE  IInv'
<1>1. PICK b \in Bufs :
        /\ FreeBuf(b)
        /\ refCnt' = [refCnt EXCEPT ![b] = @ + 1]
        /\ flags' = [flags EXCEPT ![b] = "InUse"]
        /\ refs' = [refs EXCEPT ![b] = OneMore(@)]
        /\ owned' = owned \cup {b}
  BY DEF GetFreeBuffer, FirstFree
<1>2. UNCHANGED <<vec, data, ring, loop, lost>>
  BY DEF GetFreeBuffer
<1>3. b \notin lost => ~Queued(b) /\ refs[b] = 0
  BY <1>1, FreeIsUnused
<1>4. refCnt' = [refCnt EXCEPT ![b] = 1]
  BY <1>1 DEF IInv, TypeOK, FreeBuf
<1>10. /\ OneMore(refs[b]) \in 1..MaxRef
       /\ b \notin lost => OneMore(refs[b]) = 1
  BY <1>3, MoreRefs
<1>5. TypeOK'
  BY <1>1, <1>2, <1>4, <1>10, SizeAssumption DEF IInv, TypeOK, Flags, ring, loop
<1>6. \A a \in Bufs : Queued(a)' = Queued(a)
  BY <1>2, SameQueue DEF ring, loop
<1>7. RingInv' /\ DistinctInv' /\ FlagInv'
  BY <1>1, <1>2, <1>3, UnqueuedHeader DEF IInv, TypeOK
<1>8. OwnedInv'
  BY <1>1, <1>2, <1>3, <1>6, <1>10 DEF IInv, TypeOK, OwnedInv
<1>9. RefCntExact'
  BY <1>1, <1>2, <1>3, <1>4, <1>6, <1>10 DEF IInv, TypeOK, RefCntExact
<1> QED BY <1>5, <1>7, <1>8, <1>9 DEF IInv

LEMMA FillInv ==
  ASSUME IInv, NEW b \in Bufs, NEW v \in Values, Fill(b, v)
  PROVE  IInv'
<1>1. UNCHANGED <<vec, flags, refCnt, ring, loop, refs, owned, lost>>
  BY DEF Fill, headers, clients
<1>2. TypeOK'
  BY <1>1 DEF IInv, TypeOK, Fill, ring, loop
<1>3. \A a \in Bufs : Queued(a)' = Queued(a)
  BY <1>1, SameQueue DEF ring, loop
<1>4. RingInv' /\ DistinctInv' /\ FlagInv'
  BY <1>1, SameHeader
<1>5. OwnedInv' /\ RefCntExact'
  BY <1>1, <1>3 DEF IInv, TypeOK, OwnedInv, RefCntExact
<1> QED BY <1>2, <1>4, <1>5 DEF IInv

LEMMA LockInv ==
  ASSUME IInv, NEW b \in Bufs, LockMessage(b)
  PROVE  IInv'
<1>1. UNCHANGED <<vec, flags, data, ring, loop, owned, lost>>
  BY DEF LockMessage
<1>2. /\ refCnt' = [refCnt EXCEPT ![b] = @ + 1]
      /\ refs' = [refs EXCEPT ![b] = OneMore(@)]
      /\ refCnt[b] < MaxRef
  BY DEF LockMessage
<1>3. /\ refCnt[b] \in 0..MaxRef
      /\ b \notin lost => refs[b] <= refCnt[b]
  BY SizeAssumption DEF IInv, TypeOK, RefCntExact
<1>4. /\ refCnt[b] + 1 \in 0..MaxRef /\ OneMore(refs[b]) \in 1..MaxRef
      /\ b \notin lost => OneMore(refs[b]) = refs[b] + 1
  BY <1>2, <1>3, MoreRefs, SizeAssumption
<1>5. TypeOK'
  BY <1>1, <1>2, <1>4 DEF IInv, TypeOK, ring, loop
<1>6. \A a \in Bufs : Queued(a)' = Queued(a)
  BY <1>1, SameQueue DEF ring, loop
<1>7. RingInv' /\ DistinctInv' /\ FlagInv'
  BY <1>1, SameHeader
<1>8. OwnedInv'
  BY <1>1, <1>2, <1>4, <1>6 DEF IInv, TypeOK, OwnedInv
<1>9. RefCntExact'
  BY <1>1, <1>2, <1>4, <1>6 DEF IInv, TypeOK, RefCntExact
<1> QED BY <1>5, <1>7, <1>8, <1>9 DEF IInv

LEMMA UnlockInv ==
  ASSUME IInv, NEW b \in Bufs, UnlockMessage(b)
  PROVE  IInv'
<1>1. UNCHANGED <<vec, flags, data, ring, loop, lost>>
  BY DEF UnlockMessage
<1>2. /\ refCnt' = [refCnt EXCEPT ![b] = IF @ > 0 THEN @ - 1 ELSE 0]
      /\ refs' = [refs EXCEPT ![b] = @ - 1]
      /\ refs[b] > 0
      /\ owned' = IF refs[b] = 1 THEN owned \ {b} ELSE owned
  BY DEF UnlockMessage
<1>3. /\ refCnt[b] \in 0..MaxRef /\ refs[b] \in 0..MaxRef
      /\ b \notin lost => refs[b] <= refCnt[b]
  BY SizeAssumption DEF IInv, TypeOK, RefCntExact
<1>4. /\ (IF refCnt[b] > 0 THEN refCnt[b] - 1 ELSE 0) \in 0..MaxRef
      /\ refs[b] - 1 \in 0..MaxRef
  BY <1>2, <1>3, SizeAssumption
<1>5. TypeOK'
  BY <1>1, <1>2, <1>4 DEF IInv, TypeOK, ring, loop
<1>6. \A a \in Bufs : Queued(a)' = Queued(a)
  BY <1>1, SameQueue DEF ring, loop
<1>7. RingInv' /\ DistinctInv' /\ FlagInv'
  BY <1>1, SameHeader
<1>8. OwnedInv'
  BY <1>1, <1>2, <1>3, <1>6 DEF IInv, TypeOK, OwnedInv
<1>9. RefCntExact'
  BY <1>1, <1>2, <1>3, <1>6 DEF IInv, TypeOK, RefCntExact
<1> QED BY <1>5, <1>7, <1>8, <1>9 DEF IInv

-------------------------------------------------------------------------------
(* Posting. *)

(* A post puts a buffer nobody queued, or a lost one or none, at the tail. *)
LEMMA EnqueueInv ==
  ASSUME IInv, ~Full, NEW m \in MsgIds, NEW b \in Bufs \cup {Null},
         Enqueue(m, b), UNCHANGED <<loop, lost>>,
         b # Null => (~Queued(b) \/ b \in lost) /\ flags'[b] = "PostedNotDispatched",
         \A a \in Bufs : a # b => flags'[a] = flags[a]
  PROVE  /\ queue' \in [Slots -> Entry \cup {Null}]
         /\ front' \in Slots /\ tail' \in Slots /\ size' \in 0..QSize
         /\ RingInv' /\ DistinctInv' /\ FlagInv'
         /\ \A a \in Bufs : Queued(a)' <=> (Queued(a) \/ a = b)
<1>1. pc' = pc /\ recv' = recv /\ front' = front
  BY DEF loop, Enqueue
<1>2. /\ queue' \in [Slots -> Entry \cup {Null}]
      /\ front' \in Slots /\ tail' \in Slots /\ size' \in 0..QSize
      /\ RingInv'
      /\ tail \in Slots /\ ~Waiting(tail)
      /\ queue'[tail].buf = b
      /\ \A s \in Slots : s # tail => queue'[s] = queue[s]
      /\ \A s \in Slots : Waiting(s)' <=> (Waiting(s) \/ s = tail)
  <2>1. queue'[tail] = [id |-> m, buf |-> b]
    BY <1>1, EnqueueRing
  <2>2. queue'[tail].buf = b
    BY <2>1
  <2> QED BY <1>1, <2>2, EnqueueRing
<1>3. \A s \in Slots : Waiting(s) =>
        /\ s # tail /\ queue[s].buf \in Bufs \cup {Null}
        /\ queue[s].buf \notin lost \cup {Null} => queue[s].buf # b
  BY <1>2, NullAssumption DEF IInv, RingInv, Waiting, Entry, Queued
<1>4. DistinctInv'
  <2> SUFFICES ASSUME NEW s \in Slots, NEW t \in Slots, Waiting(s)', Waiting(t)',
                      queue'[s].buf = queue'[t].buf, queue'[s].buf \notin lost \cup {Null}
               PROVE  s = t
    BY DEF DistinctInv
  <2>1. CASE s = tail \/ t = tail
    BY <1>2, <1>3, <2>1
  <2>2. CASE s # tail /\ t # tail
    BY <1>2, <2>2 DEF IInv, DistinctInv
  <2> QED BY <2>1, <2>2
<1>5. FlagInv'
  <2> SUFFICES ASSUME NEW s \in Slots, Waiting(s)', queue'[s].buf \notin lost \cup {Null}
               PROVE  flags'[queue'[s].buf] =
                        IF s # front \/ pc = "idle" THEN "PostedNotDispatched"
                        ELSE IF pc = "unlock" THEN "Nothing" ELSE "InUse"
    BY <1>1 DEF FlagInv
  <2>1. CASE s = tail
    <3>1. s # front \/ pc = "idle"
      <4>1. front = tail => size = 0
        BY DEF Full
      <4> QED BY <2>1, <4>1 DEF IInv, RingInv
    <3> QED BY <1>2, <2>1, <3>1
  <2>2. CASE s # tail
    BY <1>2, <1>3, <2>2 DEF IInv, FlagInv
  <2> QED BY <2>1, <2>2
<1>6. ASSUME NEW a \in Bufs
      PROVE  Queued(a)' <=> (Queued(a) \/ a = b)
  <2>1. Queued(a)' <=> \E s \in Slots : Waiting(s)' /\ queue'[s].buf = a
    BY DEF Queued
  <2>2. Queued(a) <=> \E s \in Slots : Waiting(s) /\ queue[s].buf = a
    BY DEF Queued
  <2> QED BY <1>2, <1>3, <2>1, <2>2
<1> QED BY <1>2, <1>4, <1>5, <1>6

LEMMA PostOwnInv ==
  ASSUME IInv, NEW b \in Bufs, PostOwn(b)
  PROVE  IInv'
<1>1. /\ b \in owned /\ ~Full
      /\ UNCHANGED <<vec, data, loop>>
      /\ refs' = [refs EXCEPT ![b] = @ - 1]
      /\ owned' = owned \ {b}
  BY DEF PostOwn
<1>2. b \notin lost => ~Queued(b)
  BY <1>1 DEF IInv, OwnedInv
<1>5. refs[b] - 1 \in 0..MaxRef /\ refs[b] \in 0..MaxRef
  <2>1. refs[b] \in 0..MaxRef /\ refs[b] > 0
    BY <1>1 DEF IInv, TypeOK, OwnedInv
  <2> QED BY <2>1, SizeAssumption
<1>3. CASE Postable(b)
  <2>1. /\ flags' = [flags EXCEPT ![b] = "PostedNotDispatched"]
        /\ refCnt' = [refCnt EXCEPT ![b] = 1]
        /\ Enqueue(b[1], b) /\ lost' = lost
    BY <1>3 DEF PostOwn
  <2>2. /\ queue' \in [Slots -> Entry \cup {Null}]
        /\ front' \in Slots /\ tail' \in Slots /\ size' \in 0..QSize
        /\ RingInv' /\ DistinctInv' /\ FlagInv'
        /\ \A a \in Bufs : Queued(a)' <=> (Queued(a) \/ a = b)
    <3>1. b[1] \in MsgIds
      BY BufId
    <3>2. /\ flags'[b] = "PostedNotDispatched"
          /\ \A a \in Bufs : a # b => flags'[a] = flags[a]
      BY <2>1 DEF IInv, TypeOK
    <3> QED BY <1>1, <1>2, <2>1, <3>1, <3>2, EnqueueInv
  <2>3. TypeOK'
    BY <1>1, <1>5, <2>1, <2>2, SizeAssumption DEF IInv, TypeOK, Flags, loop
  <2>4. OwnedInv'
    BY <1>1, <2>1, <2>2 DEF IInv, TypeOK, OwnedInv
  <2>5. RefCntExact'
    <3>1. b \notin lost => refs[b] = 1
      BY <1>2, <1>3, <1>5 DEF Postable, IInv, RefCntExact
    <3> QED BY <1>1, <1>2, <2>1, <2>2, <3>1 DEF IInv, TypeOK, RefCntExact
  <2> QED BY <2>2, <2>3, <2>4, <2>5 DEF IInv
<1>4. CASE ~Postable(b)
  <2>1. /\ flags' = [flags EXCEPT ![b] = "Nothing"]
        /\ refCnt' = [refCnt EXCEPT ![b] = 0]
        /\ UNCHANGED ring /\ lost' = lost \cup {b}
    BY <1>4 DEF PostOwn
  <2>2. TypeOK'
    BY <1>1, <1>5, <2>1, SizeAssumption DEF IInv, TypeOK, Flags, ring, loop
  <2>3. \A a \in Bufs : Queued(a)' = Queued(a)
    BY <1>1, <2>1, SameQueue DEF ring, loop
  <2>4. RingInv' /\ DistinctInv' /\ FlagInv'
    BY <1>1, <1>2, <2>1, UnqueuedHeader DEF IInv, TypeOK
  <2>5. OwnedInv'
    BY <1>1, <2>1, <2>3 DEF IInv, TypeOK, OwnedInv
  <2>6. RefCntExact'
    BY <1>1, <2>1, <2>3 DEF IInv, TypeOK, RefCntExact
  <2> QED BY <2>2, <2>4, <2>5, <2>6 DEF IInv
<1> QED BY <1>3, <1>4

LEMMA PostCopyInv ==
  ASSUME IInv, NEW m \in MsgIds, NEW v \in Values, PostCopy(m, v)
  PROVE  IInv'
<1>1. PICK b \in Bufs :
        /\ FreeBuf(b)
        /\ refCnt' = [refCnt EXCEPT ![b] = @ + 1]
        /\ flags' = [flags EXCEPT ![b] = "PostedNotDispatched"]
        /\ data' = [data EXCEPT ![b] = v]
        /\ Enqueue(m, b)
  BY DEF PostCopy, FirstFree
<1>2. ~Full /\ UNCHANGED <<vec, loop, refs, owned, lost>>
  BY DEF PostCopy, clients
<1>3. b \notin lost => ~Queued(b) /\ refs[b] = 0 /\ b \notin owned
  BY <1>1, FreeIsUnused
<1>4. refCnt' = [refCnt EXCEPT ![b] = 1]
  BY <1>1 DEF IInv, TypeOK, FreeBuf
<1>5. /\ queue' \in [Slots -> Entry \cup {Null}]
      /\ front' \in Slots /\ tail' \in Slots /\ size' \in 0..QSize
      /\ RingInv' /\ DistinctInv' /\ FlagInv'
      /\ \A a \in Bufs : Queued(a)' <=> (Queued(a) \/ a = b)
  <2>1. /\ flags'[b] = "PostedNotDispatched"
        /\ \A a \in Bufs : a # b => flags'[a] = flags[a]
    BY <1>1 DEF IInv, TypeOK
  <2> QED BY <1>1, <1>2, <1>3, <2>1, EnqueueInv
<1>6. TypeOK'
  BY <1>1, <1>2, <1>4, <1>5, SizeAssumption DEF IInv, TypeOK, Flags, loop
<1>7. OwnedInv'
  BY <1>1, <1>2, <1>3, <1>5 DEF IInv, TypeOK, OwnedInv
<1>8. RefCntExact'
  BY <1>2, <1>3, <1>4, <1>5 DEF IInv, TypeOK, RefCntExact
<1> QED BY <1>5, <1>6, <1>7, <1>8 DEF IInv

LEMMA PostNullInv ==
  ASSUME IInv, NEW m \in MsgIds, PostNull(m)
  PROVE  IInv'
<1>1. /\ ~Full /\ Enqueue(m, Null)
      /\ UNCHANGED <<vec, flags, refCnt, data, loop, refs, owned, lost>>
  BY DEF PostNull, headers, clients
<1>2. /\ queue' \in [Slots -> Entry \cup {Null}]
      /\ front' \in Slots /\ tail' \in Slots /\ size' \in 0..QSize
      /\ RingInv' /\ DistinctInv' /\ FlagInv'
      /\ \A a \in Bufs : Queued(a)' <=> (Queued(a) \/ a = Null)
  BY <1>1, EnqueueInv
<1>3. \A a \in Bufs : Queued(a)' <=> Queued(a)
  BY <1>2, NullAssumption
<1>4. TypeOK'
  BY <1>1, <1>2 DEF IInv, TypeOK, loop
<1>5. OwnedInv' /\ RefCntExact'
  BY <1>1, <1>3 DEF IInv, TypeOK, OwnedInv, RefCntExact
<1> QED BY <1>2, <1>4, <1>5 DEF IInv

-------------------------------------------------------------------------------
(* The steps of the loop. *)

(* At a step of a dispatch the front entry is waiting, so its buffer is not   *)
(* a client's.                                                                *)
LEMMA DispatchFacts ==
  ASSUME IInv, size # 0, pc # "advance"
  PROVE  /\ front \in Slots /\ Waiting(front) /\ Current \in Entry
         /\ Current.buf # Null => Current.buf \in Bufs /\ Queued(Current.buf)
<1>1. front \in Slots /\ Waiting(front)
  BY SizeAssumption DEF IInv, TypeOK, Slots, Waiting, Live, Offset
<1>2. Current \in Entry
  BY <1>1 DEF IInv, RingInv, Waiting, Current
<1> QED BY <1>1, <1>2 DEF Entry, Queued, Current

(* A step inside the dispatch of the front entry that touches at most the     *)
(* flags of its buffer, and sets these right unless the buffer is lost.       *)
LEMMA DispatchStepInv ==
  ASSUME IInv, size # 0, pc # "advance", pc' # "advance",
         UNCHANGED <<vec, refCnt, data, ring, clients>>,
         pc' \in Places, recv' \in 0..Receivers, handler' \in Callbacks \cup {Null},
         pc' = "callback" => recv' < Receivers,
         flags' \in [Bufs -> Flags],
         \A b \in Bufs : b # Current.buf => flags'[b] = flags[b],
         Current.buf \notin lost \cup {Null} =>
           flags'[Current.buf] = IF pc' = "unlock" THEN "Nothing" ELSE "InUse",
         pc' # "idle"
  PROVE  IInv'
<1>1. /\ queue' = queue /\ front' = front /\ tail' = tail /\ size' = size
      /\ refs' = refs /\ owned' = owned /\ lost' = lost
      /\ refCnt' = refCnt /\ data' = data /\ vec' = vec
  BY DEF ring, clients
<1>2. /\ front \in Slots /\ Waiting(front) /\ Current \in Entry
      /\ Current.buf # Null => Current.buf \in Bufs /\ Queued(Current.buf)
  BY DispatchFacts
<1>3. ASSUME NEW s \in Slots
      PROVE  Live(s)' = Live(s) /\ Waiting(s)' = Waiting(s)
  BY <1>1 DEF Live, Offset, Waiting
<1>4. ASSUME NEW b \in Bufs
      PROVE  Queued(b)' = Queued(b)
  BY <1>1, <1>3 DEF Queued
<1>7. TypeOK'
  BY <1>1 DEF IInv, TypeOK
<1>8. RingInv'
  <2>1. recv' <= Receivers
    BY SizeAssumption
  <2> QED BY <1>1, <1>3, <2>1 DEF IInv, RingInv
<1>9. DistinctInv'
  BY <1>1, <1>3 DEF IInv, DistinctInv
<1>10. FlagInv'
  <2> SUFFICES ASSUME NEW s \in Slots, Waiting(s), queue[s].buf \notin lost \cup {Null}
               PROVE  flags'[queue[s].buf] =
                        IF s # front THEN "PostedNotDispatched"
                        ELSE IF pc' = "unlock" THEN "Nothing" ELSE "InUse"
    BY <1>1, <1>3 DEF FlagInv
  <2>1. queue[s].buf \in Bufs
    BY DEF IInv, RingInv, Waiting, Entry
  <2>2. CASE s = front
    BY <2>2 DEF Current
  <2>3. CASE s # front
    <3>1. queue[s].buf # Current.buf
      BY <1>2, <2>3 DEF IInv, DistinctInv, Current
    <3>2. flags[queue[s].buf] = "PostedNotDispatched"
      BY <2>3 DEF IInv, FlagInv
    <3> QED BY <2>1, <2>3, <3>1, <3>2
  <2> QED BY <2>2, <2>3
<1>11. OwnedInv'
  <2> SUFFICES ASSUME NEW b \in owned
               PROVE  refs[b] > 0 /\ (b \notin lost => flags'[b] = "InUse" /\ ~Queued(b)')
    BY <1>1 DEF OwnedInv
  <2>1. /\ b \in Bufs /\ refs[b] > 0
        /\ b \notin lost => flags[b] = "InUse" /\ ~Queued(b)
    BY DEF IInv, TypeOK, OwnedInv
  <2>2. b \notin lost => b # Current.buf
    BY <1>2, <2>1, NullAssumption
  <2> QED BY <1>4, <2>1, <2>2
<1>12. RefCntExact'
  BY <1>1, <1>4 DEF IInv, RefCntExact
<1> QED BY <1>7, <1>8, <1>9, <1>10, <1>11, <1>12 DEF IInv

LEMMA PumpDispatchInv ==
  ASSUME IInv, PumpBegin \/ PumpSkip \/ PumpCall \/ PumpReturn \/ PumpScanned \/ PumpClear
  PROVE  IInv'
<1>4. ASSUME size # 0, pc # "advance", NEW f \in Flags, flags' = SetFlag(Current.buf, f)
      PROVE  /\ flags' \in [Bufs -> Flags]
             /\ \A b \in Bufs : b # Current.buf => flags'[b] = flags[b]
             /\ Current.buf # Null => flags'[Current.buf] = f
  <2>1. flags \in [Bufs -> Flags] /\ (Current.buf # Null => Current.buf \in Bufs)
    BY <1>4, DispatchFacts DEF IInv, TypeOK
  <2> QED BY <1>4, <2>1 DEF SetFlag
<1>1. CASE PumpBegin
  <2>1. /\ size # 0 /\ pc = "idle" /\ pc' \in {"scan", "fault"} /\ recv' = 0
        /\ flags' = SetFlag(Current.buf, "InUse") /\ "InUse" \in Flags
        /\ UNCHANGED <<vec, refCnt, data, ring, handler, clients>>
    BY <1>1 DEF PumpBegin, Flags
  <2>2. pc' \in Places /\ recv' \in 0..Receivers /\ handler' \in Callbacks \cup {Null}
    BY <2>1, SizeAssumption DEF Places, IInv, TypeOK
  <2> QED BY <1>4, <2>1, <2>2, DispatchStepInv
<1>2. CASE PumpClear
  <2>1. /\ size # 0 /\ pc = "clear" /\ pc' = "unlock" /\ recv' = recv
        /\ flags' = SetFlag(Current.buf, "Nothing") /\ "Nothing" \in Flags
        /\ UNCHANGED <<vec, refCnt, data, ring, handler, clients>>
    BY <1>2 DEF PumpClear, Flags, IInv, RingInv
  <2>2. pc' \in Places /\ recv' \in 0..Receivers /\ handler' \in Callbacks \cup {Null}
    BY <2>1 DEF Places, IInv, TypeOK
  <2> QED BY <1>4, <2>1, <2>2, DispatchStepInv
<1>3. ASSUME PumpSkip \/ PumpCall \/ PumpReturn \/ PumpScanned
      PROVE  IInv'
  <2>1. /\ size # 0 /\ pc \in {"scan", "callback"}
        /\ UNCHANGED <<vec, flags, refCnt, data, ring, clients>>
    BY <1>3 DEF PumpSkip, PumpCall, PumpReturn, PumpScanned, headers, IInv, RingInv
  <2>2. /\ front \in Slots /\ Waiting(front) /\ Current \in Entry
        /\ Current.buf # Null => Current.buf \in Bufs
    BY <2>1, DispatchFacts
  <2>3. /\ recv \in 0..Receivers /\ Receivers \in Nat
        /\ handler \in Callbacks \cup {Null}
        /\ pc = "callback" => recv < Receivers
    BY SizeAssumption DEF IInv, TypeOK, RingInv
  <2>4. /\ pc' \in {"scan", "callback", "clear"} /\ recv' \in 0..Receivers
        /\ handler' \in Callbacks \cup {Null}
        /\ pc' = "callback" => recv' < Receivers
    <3>1. CASE PumpSkip
      BY <2>3, <3>1 DEF PumpSkip
    <3>2. CASE PumpCall
      <4>1. vec[Current.id][recv] \in Callbacks \cup {Null}
        BY <2>2, <2>3, <3>2 DEF PumpCall, Entry, Indexes, IInv, TypeOK
      <4> QED BY <2>3, <3>2, <4>1 DEF PumpCall
    <3>3. CASE PumpReturn
      BY <2>3, <3>3 DEF PumpReturn
    <3>4. CASE PumpScanned
      BY <2>3, <3>4 DEF PumpScanned
    <3> QED BY <1>3, <3>1, <3>2, <3>3, <3>4
  <2>5. Current.buf \notin lost \cup {Null} => flags'[Current.buf] = "InUse"
    BY <2>1, <2>2 DEF IInv, FlagInv, Current
  <2>6. pc' \in Places /\ pc # "advance" /\ pc' # "unlock" /\ pc' # "idle"
    BY <2>1, <2>4 DEF Places
  <2>7. flags' \in [Bufs -> Flags] /\ flags' = flags
    BY <2>1 DEF IInv, TypeOK
  <2> QED BY <2>1, <2>4, <2>5, <2>6, <2>7, DispatchStepInv
<1> QED BY <1>1, <1>2, <1>3

(* Dropping the queue's reference retires the front message. *)
LEMMA PumpUnlockInv ==
  ASSUME IInv, PumpUnlock
  PROVE  IInv'
<1>1. /\ pc = "unlock" /\ pc' = "advance" /\ size # 0
      /\ vec' = vec /\ flags' = flags /\ data' = data
      /\ refs' = refs /\ owned' = owned /\ lost' = lost
      /\ queue' = queue /\ front' = front /\ tail' = tail /\ size' = size
      /\ recv' = recv /\ handler' = handler
  BY DEF PumpUnlock, ring, clients, IInv, RingInv
<1>2. /\ front \in Slots /\ Waiting(front) /\ Current \in Entry
      /\ Current.buf # Null => Current.buf \in Bufs /\ Queued(Current.buf)
  BY <1>1, DispatchFacts
<1>3. ASSUME NEW s \in Slots
      PROVE  /\ Live(s)' = Live(s)
             /\ Waiting(s)' <=> (Waiting(s) /\ s # front)
  BY <1>1 DEF Live, Offset, Waiting
<1>4. ASSUME NEW b \in Bufs \ lost
      PROVE  Queued(b)' <=> (Queued(b) /\ b # Current.buf)
  <2>1. Queued(b)' <=> \E s \in Slots : Waiting(s) /\ s # front /\ queue[s].buf = b
    BY <1>1, <1>3 DEF Queued
  <2>2. b # Null
    BY NullAssumption
  <2> QED BY <1>2, <2>1, <2>2 DEF Queued, Current, IInv, DistinctInv
<1>5. refCnt \in [Bufs -> 0..MaxRef] /\ refs \in [Bufs -> 0..MaxRef] /\ MaxRef \in Nat
  BY SizeAssumption DEF IInv, TypeOK
<1>6. ASSUME NEW b \in Bufs \ lost
      PROVE  /\ refCnt'[b] = IF b = Current.buf THEN refCnt[b] - 1 ELSE refCnt[b]
             /\ b = Current.buf => refCnt[b] > 0
  <2>1. b = Current.buf => refCnt[b] > 0
    BY <1>2, <1>5, NullAssumption DEF IInv, RefCntExact
  <2> QED BY <1>2, <1>5, <2>1, NullAssumption DEF PumpUnlock
<1>7. refCnt' \in [Bufs -> 0..MaxRef]
  <2>1. CASE Current.buf # Null /\ refCnt[Current.buf] > 0
    <3>1. refCnt[Current.buf] - 1 \in 0..MaxRef
      BY <1>2, <1>5, <2>1
    <3> QED BY <1>2, <1>5, <2>1, <3>1 DEF PumpUnlock
  <2>2. CASE ~(Current.buf # Null /\ refCnt[Current.buf] > 0)
    BY <1>5, <2>2 DEF PumpUnlock
  <2> QED BY <2>1, <2>2
<1>8. TypeOK'
  BY <1>1, <1>7 DEF IInv, TypeOK, Places
<1>9. RingInv'
  BY <1>1, <1>3 DEF IInv, RingInv
<1>10. DistinctInv' /\ FlagInv'
  BY <1>1, <1>3 DEF IInv, DistinctInv, FlagInv
<1>11. OwnedInv'
  BY <1>1, <1>4 DEF IInv, TypeOK, OwnedInv
<1>12. RefCntExact'
  <2> SUFFICES ASSUME NEW b \in Bufs \ lost
               PROVE  refCnt'[b] = refs[b] + (IF Queued(b)' THEN 1 ELSE 0)
    BY <1>1 DEF RefCntExact
  <2>1. refCnt[b] = refs[b] + (IF Queued(b) THEN 1 ELSE 0) /\ refs[b] \in Nat
    BY <1>5 DEF IInv, RefCntExact
  <2>2. CASE b = Current.buf
    BY <1>2, <1>4, <1>6, <2>1, <2>2, NullAssumption
  <2>3. CASE b # Current.buf
    BY <1>4, <1>6, <2>1, <2>3
  <2> QED BY <2>2, <2>3
<1> QED BY <1>8, <1>9, <1>10, <1>11, <1>12 DEF IInv

(* Advancing the front leaves the same messages waiting. *)
LEMMA PumpAdvanceInv ==
  ASSUME IInv, PumpAdvance
  PROVE  IInv'
<1>1. /\ pc = "advance" /\ pc' = "idle" /\ size # 0
      /\ vec' = vec /\ flags' = flags /\ refCnt' = refCnt /\ data' = data
      /\ refs' = refs /\ owned' = owned /\ lost' = lost /\ queue' = queue /\ tail' = tail
      /\ recv' = recv /\ handler' = handler /\ size' = size - 1
  BY DEF PumpAdvance, headers, clients, IInv, RingInv
<1>2. /\ front \in Slots /\ tail \in Slots /\ size \in 0..QSize
      /\ QSize \in Nat \ {0}
      /\ tail = (IF front + size < QSize THEN front + size ELSE front + size - QSize)
  BY SizeAssumption DEF IInv, TypeOK, RingInv
<1>3. front' = IF front = QSize - 1 THEN 0 ELSE front + 1
  BY <1>2, NextSlot DEF PumpAdvance
<1>4. ASSUME NEW s \in Slots
      PROVE  Waiting(s)' = Waiting(s) /\ Live(s)' = (Live(s) /\ s # front)
  <2>1. /\ s \in Int /\ 0 <= s /\ s < QSize /\ QSize \in Int
        /\ front \in Int /\ 0 <= front /\ front < QSize
        /\ size \in Int /\ 0 < size /\ size <= QSize
    BY <1>1, <1>2 DEF Slots
  <2>2. Live(s) <=> (IF s >= front THEN s - front ELSE s - front + QSize) < size
    BY DEF Live, Offset
  <2>3. Live(s)' <=> (IF s >= front' THEN s - front' ELSE s - front' + QSize) < size - 1
    BY <1>1 DEF Live, Offset
  <2>4. Live(s)' <=> (Live(s) /\ s # front)
    BY <1>3, <2>1, <2>2, <2>3
  <2> QED BY <1>1, <2>4 DEF Waiting, Live
<1>5. ASSUME NEW b \in Bufs
      PROVE  Queued(b)' = Queued(b)
  BY <1>1, <1>4 DEF Queued
<1>6. TypeOK'
  <2>1. front' \in Slots /\ size' \in 0..QSize
    BY <1>1, <1>2, <1>3 DEF Slots
  <2> QED BY <1>1, <2>1 DEF IInv, TypeOK, Places
<1>7. RingInv'
  <2>1. tail' = (IF front' + size' < QSize THEN front' + size'
                                           ELSE front' + size' - QSize)
    BY <1>1, <1>2, <1>3 DEF Slots
  <2> QED BY <1>1, <1>4, <2>1 DEF IInv, RingInv
<1>8. DistinctInv'
  BY <1>1, <1>4 DEF IInv, DistinctInv
<1>9. FlagInv'
  <2>1. \A s \in Slots : Waiting(s) => s # front
    BY <1>1 DEF Waiting
  <2> QED BY <1>1, <1>4, <2>1 DEF IInv, FlagInv
<1>10. OwnedInv' /\ RefCntExact'
  BY <1>1, <1>5 DEF IInv, TypeOK, OwnedInv, RefCntExact
<1> QED BY <1>6, <1>7, <1>8, <1>9, <1>10 DEF IInv

-------------------------------------------------------------------------------
LEMMA InitIInv == Init => IInv
<1> SUFFICES ASSUME Init PROVE IInv
  OBVIOUS
<1>1. TypeOK
  BY SizeAssumption, ValueAssumption
     DEF Init, TypeOK, Flags, Places, Slots, Indexes
<1>2. \A s \in Slots : ~Live(s)
  BY SizeAssumption DEF Init, Live, Offset, Slots
<1>3. RingInv
  BY <1>2, SizeAssumption DEF Init, RingInv
<1>4. DistinctInv /\ FlagInv /\ \A b \in Bufs : ~Queued(b)
  BY <1>2 DEF DistinctInv, FlagInv, Queued, Waiting
<1>5. OwnedInv /\ RefCntExact
  BY <1>4 DEF Init, OwnedInv, RefCntExact
<1> QED BY <1>1, <1>3, <1>4, <1>5 DEF IInv

LEMMA NextIInv == IInv /\ [Next]_vars => IInv'
<1> SUFFICES ASSUME IInv, [Next]_vars PROVE IInv'
  OBVIOUS
<1>1. CASE Pump
  BY <1>1, PumpDispatchInv, PumpUnlockInv, PumpAdvanceInv DEF Pump
<1>2. CASE Client
  BY <1>2, RegisterInv, GetFreeBufferInv, PostNullInv, PostCopyInv, FillInv,
     PostOwnInv, LockInv, UnlockInv DEF Client
<1>3. CASE UNCHANGED vars
  <2>1. UNCHANGED <<vec, flags, refCnt, data, ring, loop, refs, owned, lost>>
    BY <1>3 DEF vars, headers, clients
  <2>2. \A b \in Bufs : Queued(b)' = Queued(b)
    BY <2>1, SameQueue DEF ring, loop
  <2>3. RingInv' /\ DistinctInv' /\ FlagInv'
    BY <2>1, SameHeader
  <2> QED BY <2>1, <2>2, <2>3 DEF IInv, TypeOK, OwnedInv, RefCntExact, ring, loop
<1> QED BY <1>1, <1>2, <1>3 DEF Next

(* The ring, the headers and the clients' references agree in every state    *)
(* that any interleaving of the main loop and its clients can reach.         *)
THEOREM PumpInvariant == Spec => []IInv
  BY InitIInv, NextIInv, PTL DEF Spec

(* Every variable of msg_msgPump.c stays in its range: the indexes inside    *)
(* the ring, the size at most its capacity, the reference count in its byte. *)
THEOREM PumpTypeOK == Spec => []TypeOK
<1>1. IInv => TypeOK
  BY DEF IInv
<1> QED BY <1>1, PumpInvariant, PTL

(* The reference count of a buffer is exact in every reachable state, unless *)
(* the buffer was recovered while somebody held it: what a client does that  *)
(* locks a buffer and posts it too does no harm beyond that buffer.          *)
THEOREM PumpRefCntExact == Spec => []RefCntExact
<1>1. IInv => RefCntExact
  BY DEF IInv
<1> QED BY <1>1, PumpInvariant, PTL

(* A buffer that waits in the queue or is being dispatched is in no second   *)
(* waiting entry, owned by no client and never handed out by a pool scan,    *)
(* also if others were recovered under somebody's hands.                     *)
THEOREM PumpQueuedBufferReserved == Spec => []QueuedBufferReserved
<1>1. IInv => QueuedBufferReserved
  <2> SUFFICES ASSUME IInv, NEW s \in Slots, Waiting(s), queue[s].buf \notin lost \cup {Null}
               PROVE  /\ \A t \in Slots :
                           Waiting(t) /\ t # s => queue[t].buf # queue[s].buf
                      /\ queue[s].buf \notin owned
                      /\ ~FreeBuf(queue[s].buf)
    BY DEF QueuedBufferReserved
  <2>1. queue[s].buf \in Bufs /\ Queued(queue[s].buf)
    BY DEF IInv, RingInv, Waiting, Entry, Queued
  <2>2. ~FreeBuf(queue[s].buf)
    BY <2>1, FreeIsUnused
  <2> QED BY <2>1, <2>2 DEF IInv, DistinctInv, OwnedInv
<1> QED BY <1>1, PumpInvariant, PTL

-------------------------------------------------------------------------------
(* Vectors: where a callback is, no slot before is empty or its own.  Only    *)
(* the unregistration of another callback could empty one.                    *)

FirstFit ==
  \A m \in MsgIds, c \in Callbacks, i, j \in Indexes :
    Unregistrars \subseteq {c} /\ vec[m][i] = c /\ j < i => vec[m][j] \notin {Null, c}

LEMMA AtMostOne == FirstFit => NoDuplicateReceiver
<1> SUFFICES ASSUME FirstFit, NEW m \in MsgIds, NEW c \in Callbacks,
                    NEW i \in Indexes, NEW j \in Indexes,
                    Unregistrars \subseteq {c}, vec[m][i] = c, vec[m][j] = c
             PROVE  i = j
  BY DEF NoDuplicateReceiver
<1>1. ~(j < i) /\ ~(i < j)
  BY DEF FirstFit
<1>2. i \in Int /\ j \in Int
  BY SizeAssumption DEF Indexes
<1> QED
  BY <1>1, <1>2

LEMMA RegisterFirstFit ==
  ASSUME TypeOK, FirstFit, NEW m \in MsgIds, NEW d \in Callbacks, Register(m, d)
  PROVE  FirstFit'
<1>1. PICK i \in Indexes :
        /\ vec[m][i] \in {Null, d}
        /\ \A j \in Indexes : j < i => vec[m][j] \notin {Null, d}
        /\ vec' = [vec EXCEPT ![m] = [@ EXCEPT ![i] = d]]
  BY DEF Register
<1>2. \A n \in MsgIds, j \in Indexes :
        vec'[n][j] = IF n = m /\ j = i THEN d ELSE vec[n][j]
  <2>1. vec \in [MsgIds -> [Indexes -> Callbacks \cup {Null}]]
    BY DEF TypeOK
  <2> QED
    BY <1>1, <2>1
<1> SUFFICES ASSUME NEW n \in MsgIds, NEW c \in Callbacks,
                    NEW k \in Indexes, NEW j \in Indexes,
                    Unregistrars \subseteq {c}, vec'[n][k] = c, j < k
             PROVE  vec'[n][j] \notin {Null, c}
  BY DEF FirstFit
<1>3. c # Null /\ d # Null
  BY NullAssumption
<1>4. CASE n = m /\ k = i
  <2>1. c = d /\ ~(n = m /\ j = i)
    BY <1>2, <1>4, SizeAssumption DEF Indexes
  <2> QED
    BY <1>1, <1>2, <1>4, <2>1
<1>5. CASE ~(n = m /\ k = i)
  <2>1. vec[n][k] = c
    BY <1>2, <1>5
  <2>2. vec[n][j] \notin {Null, c}
    BY <2>1 DEF FirstFit
  <2>3. CASE n = m /\ j = i
    <3>1. vec[m][i] = d /\ d # c
      BY <1>1, <2>2, <2>3
    <3> QED
      BY <1>2, <1>3, <2>3, <3>1
  <2> QED
    BY <1>2, <2>2, <2>3
<1> QED
  BY <1>4, <1>5

LEMMA UnregisterFirstFit ==
  ASSUME TypeOK, FirstFit, NEW m \in MsgIds, NEW d \in Callbacks, Unregister(m, d)
  PROVE  FirstFit'
<1>1. PICK i \in Indexes :
        /\ vec[m][i] = d
        /\ vec' = [vec EXCEPT ![m] = [@ EXCEPT ![i] = Null]]
  BY DEF Unregister
<1>2. \A n \in MsgIds, j \in Indexes :
        vec'[n][j] = IF n = m /\ j = i THEN Null ELSE vec[n][j]
  <2>1. vec \in [MsgIds -> [Indexes -> Callbacks \cup {Null}]]
    BY DEF TypeOK
  <2> QED
    BY <1>1, <2>1
<1> SUFFICES ASSUME NEW n \in MsgIds, NEW c \in Callbacks,
                    NEW k \in Indexes, NEW j \in Indexes,
                    Unregistrars \subseteq {c}, vec'[n][k] = c, j < k
             PROVE  vec'[n][j] \notin {Null, c}
  BY DEF FirstFit
<1>3. c = d /\ c # Null
  BY NullAssumption DEF Unregister
<1>4. vec[n][k] = c
  BY <1>2, <1>3
<1>5. vec[n][j] \notin {Null, c}
  BY <1>4 DEF FirstFit
<1> QED
  BY <1>1, <1>2, <1>3, <1>5

(* Theorem PumpNoDuplicateReceiver: while at most one callback is ever        *)
(* unregistered (this firmware unregisters none), no message is shown twice   *)
(* to it, however often and in whatever order callbacks are registered.       *)
THEOREM PumpNoDuplicateReceiver == Spec => []NoDuplicateReceiver
<1>1. Init => FirstFit
  BY SizeAssumption, NullAssumption DEF Init, FirstFit
<1>2. TypeOK /\ FirstFit /\ [Next]_vars => FirstFit'
  <2> SUFFICES ASSUME TypeOK, FirstFit, [Next]_vars PROVE FirstFit'
    OBVIOUS
  <2>1. ASSUME NEW m \in MsgIds, NEW c \in Callbacks, Register(m, c)
        PROVE  FirstFit'
    BY <2>1, RegisterFirstFit
  <2>2. ASSUME NEW m \in MsgIds, NEW c \in Callbacks, Unregister(m, c)
        PROVE  FirstFit'
    BY <2>2, UnregisterFirstFit
  <2>3. CASE vec' = vec
    BY <2>3 DEF FirstFit
  <2>4. \/ vec' = vec
        \/ \E m \in MsgIds, c \in Callbacks : Register(m, c) \/ Unregister(m, c)
    BY DEF Next, Pump, PumpBegin, PumpSkip, PumpCall, PumpReturn, PumpScanned,
           PumpClear, PumpUnlock, PumpAdvance, Client, GetFreeBuffer,
           PostNull, PostCopy, Fill, PostOwn, LockMessage, UnlockMessage, vars
  <2> QED BY <2>1, <2>2, <2>3, <2>4
<1> QED BY <1>1, <1>2, AtMostOne, PumpTypeOK, PTL DEF Spec

-------------------------------------------------------------------------------
(***************************************************************************)
(* The message pump implements MsgBus.                                     *)
(***************************************************************************)

(* A callback is being called exactly at the loop's place for it.             *)
HandlerInv == handler # Null <=> pc = "callback"

LEMMA HandlerStep == IInv /\ HandlerInv /\ [Next]_vars => HandlerInv'
<1> SUFFICES ASSUME IInv, HandlerInv, [Next]_vars PROVE HandlerInv'
  OBVIOUS
<1>1. CASE Client \/ UNCHANGED vars
  <2>1. UNCHANGED loop
    BY <1>1 DEF Client, Register, Unregister, GetFreeBuffer, Fill, PostOwn, PostCopy,
                PostNull, LockMessage, UnlockMessage, vars
  <2> QED
    BY <2>1 DEF HandlerInv, loop
<1>2. CASE Pump
  BY <1>2 DEF Pump, PumpBegin, PumpSkip, PumpCall, PumpReturn, PumpScanned, PumpClear,
              PumpUnlock, PumpAdvance, HandlerInv
<1> QED
  BY <1>1, <1>2 DEF Next

-------------------------------------------------------------------------------
(* The waiting messages and their slots.                                      *)

Amount == size - Retired

SlotOf(k) == (front + Retired + k - 1) % QSize

LEMMA PendingAt == Pending = [k \in 1..Amount |-> Content(queue[SlotOf(k)])]
BY DEF Pending, Amount, SlotOf

LEMMA Ranges ==
  ASSUME IInv
  PROVE  /\ QSize \in Nat \ {0} /\ front \in 0..(QSize - 1) /\ size \in 0..QSize
         /\ Retired \in {0, 1} /\ Retired <= size
         /\ Amount \in 0..QSize /\ Amount + Retired = size
BY SizeAssumption DEF IInv, TypeOK, RingInv, Slots, Retired, Amount

LEMMA Around == ASSUME NEW x \in 0..(2 * QSize - 1)
                PROVE  x % QSize = IF x < QSize THEN x ELSE x - QSize
BY SizeAssumption

LEMMA SlotIs ==
  ASSUME IInv, NEW k \in 1..QSize, Retired + k <= QSize
  PROVE  /\ SlotOf(k) = IF front + Retired + k - 1 < QSize
                          THEN front + Retired + k - 1
                          ELSE front + Retired + k - 1 - QSize
         /\ SlotOf(k) \in Slots
<1>1. PICK x \in 0..(2 * QSize - 1) : x = front + Retired + k - 1
  BY Ranges
<1>2. x % QSize = IF x < QSize THEN x ELSE x - QSize
  BY <1>1, Around
<1>3. SlotOf(k) = x % QSize
  BY <1>1 DEF SlotOf
<1> QED
  BY <1>1, <1>2, <1>3, Ranges DEF Slots

(* A pending message is that of a waiting entry, no two of the same.          *)
LEMMA SlotWaits ==
  ASSUME IInv, NEW k \in 1..Amount
  PROVE  /\ SlotOf(k) \in Slots /\ Waiting(SlotOf(k))
         /\ queue[SlotOf(k)] \in Entry
<1>1. k \in 1..QSize /\ Retired + k <= QSize /\ Retired + k <= size
  BY Ranges
<1>2. /\ SlotOf(k) = IF front + Retired + k - 1 < QSize
                       THEN front + Retired + k - 1
                       ELSE front + Retired + k - 1 - QSize
      /\ SlotOf(k) \in Slots
  BY <1>1, SlotIs
<1>3. Offset(SlotOf(k)) = Retired + k - 1
  BY <1>1, <1>2, Ranges DEF Offset
<1>4. Live(SlotOf(k))
  BY <1>1, <1>3, Ranges DEF Live
<1>5. SlotOf(k) = front => Retired = 0
  BY <1>1, <1>2, Ranges
<1> QED
  BY <1>2, <1>4, <1>5 DEF Waiting, Retired, IInv, RingInv

LEMMA ContentType ==
  ASSUME TypeOK, NEW e \in Entry
  PROVE  Content(e) \in Bus!Message
BY DEF TypeOK, Entry, Content, Bus!Message

LEMMA PendingSeq ==
  ASSUME IInv
  PROVE  Pending \in Seq(Bus!Message) /\ Len(Pending) = Amount /\ DOMAIN Pending = 1..Amount
<1>1. Amount \in Nat
  BY Ranges
<1>2. ASSUME NEW k \in 1..Amount PROVE Content(queue[SlotOf(k)]) \in Bus!Message
  BY SlotWaits, ContentType DEF IInv
<1> HIDE DEF Amount
<1> QED
  BY <1>1, <1>2, PendingAt

-------------------------------------------------------------------------------
(* What the steps do to the waiting messages.                                 *)

(* Contents of the buffers of waiting messages stay what they are.            *)
Kept ==
  \A b \in Bufs : Queued(b) => /\ (b \in lost') = (b \in lost)
                               /\ b \notin lost => data'[b] = data[b]

LEMMA SameContent ==
  ASSUME IInv, Kept, NEW s \in Slots, Waiting(s), NEW e \in Entry, e = queue[s]
  PROVE  Content(e)' = Content(e)
<1>1. e.buf \in Bufs \cup {Null} /\ (e.buf # Null => Queued(e.buf))
  BY DEF Entry, Queued
<1>2. e.buf # Null => /\ (e.buf \in lost') = (e.buf \in lost)
                      /\ e.buf \notin lost => data'[e.buf] = data[e.buf]
  BY <1>1 DEF Kept
<1> QED
  BY <1>2 DEF Content

(* The loop shows the message that waits longest.                             *)
LEMMA HeadIs ==
  ASSUME IInv, size # 0, pc # "advance"
  PROVE  Pending # <<>> /\ Head(Pending) = Content(Current)
<1>1. Retired = 0 /\ 1 \in 1..Amount /\ 1 \in 1..QSize /\ front \in 0..(QSize - 1)
  BY Ranges DEF Retired
<1>2. SlotOf(1) = front
  BY <1>1, Ranges, SlotIs
<1>3. Pending # <<>> /\ Head(Pending) = Pending[1]
  BY <1>1, PendingSeq
<1> QED
  BY <1>1, <1>2, <1>3, PendingAt DEF Current

(* Who has yet to be called depends on the loop, the vector and the front.    *)
LEMMA SameDue ==
  ASSUME UNCHANGED <<loop, vec>>, pc \in {"scan", "callback"} => Current' = Current
  PROVE  Due' = Due
<1>1. pc' = pc /\ recv' = recv /\ vec' = vec
  BY DEF loop
<1>2. CASE pc \in {"scan", "callback"}
  <2>1. \A i \in Indexes : (Ahead(i) /\ vec[Current.id][i] # Null)' <=>
                              (Ahead(i) /\ vec[Current.id][i] # Null)
    BY <1>1, <1>2 DEF Ahead
  <2> QED
    BY <1>1, <1>2, <2>1 DEF Due
<1>3. CASE pc \notin {"scan", "callback"}
  BY <1>1, <1>3 DEF Due
<1> QED
  BY <1>2, <1>3

(* A step that leaves the ring and the retired message alone.                 *)
LEMMA SamePending ==
  ASSUME IInv, Kept, UNCHANGED <<queue, front, size>>, Retired' = Retired
  PROVE  Pending' = Pending
<1>1. Pending' = [k \in 1..Amount |-> Content(queue[SlotOf(k)])']
  BY DEF Pending, Amount, SlotOf
<1>2. ASSUME NEW k \in 1..Amount
      PROVE  Content(queue[SlotOf(k)])' = Content(queue[SlotOf(k)])
  <2>1. queue[SlotOf(k)]' = queue[SlotOf(k)]
    BY DEF SlotOf
  <2>2. PICK e \in Entry : e = queue[SlotOf(k)]
    BY SlotWaits
  <2>3. Content(e)' = Content(e)
    BY <2>2, SlotWaits, SameContent
  <2> QED
    BY <2>1, <2>2, <2>3 DEF Content
<1> QED
  BY <1>1, <1>2, PendingAt

LEMMA AppendFunction ==
  ASSUME NEW S, NEW q \in Seq(S), NEW e \in S
  PROVE  Append(q, e) = [k \in 1..(Len(q) + 1) |-> IF k <= Len(q) THEN q[k] ELSE e]
<1> DEFINE f == [k \in 1..(Len(q) + 1) |-> IF k <= Len(q) THEN q[k] ELSE e]
<1>1. f \in Seq(S) /\ Len(f) = Len(q) + 1
  <2>1. ASSUME NEW k \in 1..(Len(q) + 1) PROVE (IF k <= Len(q) THEN q[k] ELSE e) \in S
    OBVIOUS
  <2> QED
    BY <2>1
<1>2. Append(q, e) \in Seq(S) /\ Len(Append(q, e)) = Len(q) + 1
  OBVIOUS
<1>3. ASSUME NEW k \in 1..(Len(q) + 1) PROVE Append(q, e)[k] = f[k]
  OBVIOUS
<1> HIDE DEF f
<1>4. Append(q, e) = f
  BY <1>1, <1>2, <1>3, SeqEqual
<1> QED
  BY <1>4 DEF f

LEMMA TailFunction ==
  ASSUME NEW S, NEW q \in Seq(S), q # <<>>
  PROVE  Tail(q) = [k \in 1..(Len(q) - 1) |-> q[k + 1]]
<1> DEFINE f == [k \in 1..(Len(q) - 1) |-> q[k + 1]]
<1>1. f \in Seq(S) /\ Len(f) = Len(q) - 1
  OBVIOUS
<1>2. Tail(q) \in Seq(S) /\ Len(Tail(q)) = Len(q) - 1
  OBVIOUS
<1>3. ASSUME NEW k \in 1..(Len(q) - 1) PROVE Tail(q)[k] = f[k]
  OBVIOUS
<1> QED
  BY <1>1, <1>2, <1>3, SeqEqual

(* A successful post: the message joins the others as the last.               *)
LEMMA AcceptStep ==
  ASSUME IInv, Kept, ~Full, NEW m \in MsgIds, NEW b \in Bufs \cup {Null},
         Enqueue(m, b), UNCHANGED <<loop, vec>>,
         data' \in [Bufs -> Values]
  PROVE  [Bus!Next]_(Bus!vars)
<1> DEFINE msg == [id |-> m, val |-> IF b \in lost' \cup {Null} THEN Null ELSE data'[b]]
<1>1. /\ pc' = pc /\ recv' = recv /\ handler' = handler /\ front' = front
      /\ size' = size + 1 /\ Retired' = Retired
  BY DEF loop, Enqueue, Retired
<1>2. /\ size < QSize
      /\ tail = IF front + size < QSize THEN front + size ELSE front + size - QSize
  BY Ranges DEF IInv, RingInv, Full
<1>3. /\ queue'[tail] = [id |-> m, buf |-> b] /\ ~Waiting(tail)
      /\ \A s \in Slots : s # tail => queue'[s] = queue[s]
  BY <1>1, EnqueueRing
<1>4. Amount' = Amount + 1
  BY <1>1, Ranges DEF Amount
<1>5. Pending' = [k \in 1..(Amount + 1) |-> Content(queue[SlotOf(k)])']
  BY <1>4 DEF Pending, Amount, SlotOf
<1>6. ASSUME NEW k \in 1..Amount PROVE Content(queue[SlotOf(k)])' = Pending[k]
  <2>1. queue[SlotOf(k)]' = queue[SlotOf(k)]
    <3>1. SlotOf(k)' = SlotOf(k)
      BY <1>1 DEF SlotOf
    <3> QED
      BY <1>3, <3>1, SlotWaits
  <2>2. PICK e \in Entry : e = queue[SlotOf(k)]
    BY SlotWaits
  <2>3. Content(e)' = Content(e)
    BY <2>2, SlotWaits, SameContent
  <2> QED
    BY <2>1, <2>2, <2>3, PendingAt DEF Content
<1>7. PICK n \in 1..QSize : n = Amount + 1 /\ Retired + n <= QSize
  BY <1>2, Ranges
<1>8. Content(queue[SlotOf(n)])' = msg
  <2>1. SlotOf(n) = tail
    <3>1. SlotOf(n) = IF front + Retired + n - 1 < QSize
                        THEN front + Retired + n - 1
                        ELSE front + Retired + n - 1 - QSize
      BY <1>7, SlotIs
    <3> QED
      BY <1>2, <1>7, <3>1, Ranges
  <2>2. SlotOf(n)' = SlotOf(n)
    BY <1>1 DEF SlotOf
  <2> QED
    BY <1>3, <2>1, <2>2 DEF Content
<1>9. msg \in Bus!Message
  BY NullAssumption DEF Bus!Message
<1>10. Pending' = Append(Pending, msg)
  <2>1. ASSUME NEW k \in 1..(Amount + 1)
        PROVE  Content(queue[SlotOf(k)])' = IF k <= Amount THEN Pending[k] ELSE msg
    <3>1. CASE k <= Amount
      <4>1. k \in 1..Amount
        BY <3>1, Ranges
      <4> QED
        BY <1>6, <3>1, <4>1
    <3>2. CASE ~(k <= Amount)
      <4>1. k = n
        BY <1>7, <3>2, Ranges
      <4> QED
        BY <1>8, <3>2, <4>1
    <3> QED
      BY <3>1, <3>2
  <2>2. Append(Pending, msg) = [k \in 1..(Amount + 1) |-> IF k <= Amount THEN Pending[k] ELSE msg]
    BY <1>9, PendingSeq, AppendFunction
  <2> QED
    BY <1>5, <2>1, <2>2
<1>11. Len(Pending) < QSize
  BY <1>2, PendingSeq, Ranges
<1>12. Due' = Due
  <2>1. pc \in {"scan", "callback"} => Current' = Current
    <3> SUFFICES ASSUME pc \in {"scan", "callback"} PROVE queue'[front] = queue[front]
      BY <1>1 DEF Current
    <3>1. front \in Slots /\ Waiting(front)
      BY DispatchFacts DEF IInv, RingInv
    <3> QED
      BY <1>3, <3>1
  <2> QED
    BY <2>1, SameDue
<1> QED
  BY <1>1, <1>9, <1>10, <1>11, <1>12 DEF Bus!Next, Bus!Accept

(* The loop unlocks the message at the front: it is retired.                  *)
LEMMA RetireStep ==
  ASSUME IInv, HandlerInv, PumpUnlock
  PROVE  Bus!Retire
<1>1. /\ pc = "unlock" /\ pc' = "advance" /\ size # 0 /\ Retired = 0 /\ Retired' = 1
      /\ queue' = queue /\ front' = front /\ size' = size /\ data' = data
      /\ handler' = handler /\ handler = Null /\ lost' = lost /\ vec' = vec
      /\ Due = {} /\ Due' = {}
  BY DEF PumpUnlock, ring, IInv, RingInv, Retired, HandlerInv, Due, clients
<1>2. Amount' = Amount - 1 /\ Amount > 0
  BY <1>1, Ranges DEF Amount
<1>3. Pending' = [k \in 1..(Amount - 1) |-> Content(queue[SlotOf(k)])']
  BY <1>2 DEF Pending, Amount, SlotOf
<1>4. ASSUME NEW k \in 1..(Amount - 1) PROVE Content(queue[SlotOf(k)])' = Pending[k + 1]
  <2>1. SlotOf(k)' = SlotOf(k + 1)
    <3>1. front + 1 + k - 1 = front + 0 + (k + 1) - 1
      BY Ranges
    <3> QED
      BY <1>1, <3>1 DEF SlotOf
  <2>2. k + 1 \in 1..Amount
    BY Ranges
  <2> QED
    BY <1>1, <2>1, <2>2, PendingAt DEF Content
<1>5. Pending # <<>> /\ Tail(Pending) = [k \in 1..(Amount - 1) |-> Pending[k + 1]]
  BY <1>2, Ranges, PendingSeq, TailFunction
<1> QED
  BY <1>1, <1>3, <1>4, <1>5 DEF Bus!Retire

(* It advances the front: nothing that waits moves.                           *)
LEMMA AdvanceStutters ==
  ASSUME IInv, PumpAdvance
  PROVE  UNCHANGED Bus!vars
<1>1. /\ pc = "advance" /\ size # 0 /\ Retired = 1 /\ Retired' = 0
      /\ queue' = queue /\ size' = size - 1 /\ data' = data /\ handler' = handler
      /\ front' = IF front = QSize - 1 THEN 0 ELSE front + 1
      /\ pc' = "idle" /\ lost' = lost /\ vec' = vec /\ Due' = Due
  BY NextSlot DEF PumpAdvance, headers, IInv, TypeOK, RingInv, Retired, Due, clients
<1>2. Amount' = Amount
  BY <1>1, Ranges DEF Amount
<1>3. Pending' = [k \in 1..Amount |-> Content(queue[SlotOf(k)])']
  BY <1>2 DEF Pending, Amount, SlotOf
<1>4. ASSUME NEW k \in 1..Amount PROVE Content(queue[SlotOf(k)])' = Content(queue[SlotOf(k)])
  <2>1. PICK x \in 0..(2 * QSize - 1) : x = front' + 0 + k - 1
    BY <1>1, Ranges
  <2>2. SlotOf(k)' = IF x < QSize THEN x ELSE x - QSize
    BY <1>1, <2>1, Around DEF SlotOf
  <2>3. k \in 1..QSize /\ Retired + k <= QSize
    BY Ranges
  <2>4. SlotOf(k) = IF front + Retired + k - 1 < QSize
                      THEN front + Retired + k - 1
                      ELSE front + Retired + k - 1 - QSize
    BY <2>3, SlotIs
  <2>5. SlotOf(k)' = SlotOf(k)
    BY <1>1, <2>1, <2>2, <2>3, <2>4, Ranges
  <2> QED
    BY <1>1, <2>5 DEF Content
<1> QED
  BY <1>1, <1>3, <1>4, PendingAt DEF Bus!vars

(* The other steps of the loop begin the showing, call receivers or none.     *)
LEMMA DispatchStep ==
  ASSUME IInv, HandlerInv,
         PumpBegin \/ PumpSkip \/ PumpCall \/ PumpReturn \/ PumpScanned \/ PumpClear
  PROVE  [Bus!Next]_(Bus!vars)
<1>1. /\ UNCHANGED <<queue, front, size, data, vec, lost>> /\ size # 0
      /\ Retired' = Retired /\ Retired = 0 /\ pc # "advance"
  BY DEF PumpBegin, PumpSkip, PumpCall, PumpReturn, PumpScanned, PumpClear,
         ring, headers, clients, Retired, IInv, RingInv
<1>2. Pending' = Pending
  BY <1>1, SamePending DEF Kept
<1>3. /\ Current \in Entry /\ Current.id \in MsgIds /\ Current' = Current
      /\ Pending # <<>> /\ Head(Pending).id = Current.id
  BY <1>1, DispatchFacts, HeadIs DEF Entry, Content, Current
<1>4. recv \in 0..Receivers /\ Receivers \in Nat /\ Indexes = 0..(Receivers - 1)
  BY SizeAssumption DEF IInv, TypeOK, Indexes
<1> DEFINE Seat(i) == vec[Current.id][i] # Null
<1>5. Due = IF pc \notin {"scan", "callback"} THEN {}
            ELSE {i \in Indexes : (i > recv \/ (i = recv /\ pc = "scan")) /\ Seat(i)}
  BY DEF Due, Ahead
<1>6. Due' = IF pc' \notin {"scan", "callback"} THEN {}
             ELSE {i \in Indexes : (i > recv' \/ (i = recv' /\ pc' = "scan")) /\ Seat(i)}
  BY <1>1, <1>3 DEF Due, Ahead
<1> HIDE DEF Seat
<1>7. CASE PumpBegin
  <2>1. pc = "idle" /\ recv' = 0 /\ handler' = handler /\ pc' \in {"scan", "fault"}
    BY <1>7 DEF PumpBegin
  <2>2. CASE pc' = "scan"
    <3>1. Due' = {i \in Indexes : Seat(i)}
      BY <1>4, <1>6, <2>1, <2>2
    <3>2. Due' = Bus!Taken(Head(Pending).id)
      BY <1>3, <3>1 DEF Bus!Taken, Seat
    <3> QED
      BY <1>1, <1>2, <1>3, <2>1, <2>2, <3>2 DEF Bus!Next, Bus!Show
  <2>3. CASE pc' = "fault"
    BY <1>1, <1>2, <1>5, <1>6, <2>1, <2>3 DEF Bus!vars
  <2> QED
    BY <2>1, <2>2, <2>3
<1>8. CASE PumpSkip
  <2>1. /\ pc = "scan" /\ pc' = "scan" /\ recv' = recv + 1 /\ handler' = handler
        /\ ~Seat(recv)
    BY <1>8 DEF PumpSkip, Seat
  <2>2. Due' = Due
    BY <1>4, <1>5, <1>6, <2>1
  <2> QED
    BY <1>1, <1>2, <2>1, <2>2 DEF Bus!vars
<1>9. CASE PumpCall
  <2>1. /\ pc = "scan" /\ pc' = "callback" /\ recv' = recv /\ recv \in Indexes
        /\ handler = Null /\ handler' = vec[Current.id][recv] /\ Seat(recv)
    BY <1>4, <1>9 DEF PumpCall, HandlerInv, Seat
  <2>2. recv \in Due /\ Due' = Due \ {recv} /\ \A j \in Due : recv <= j
    BY <1>4, <1>5, <1>6, <2>1
  <2> QED
    BY <1>1, <1>2, <1>3, <2>1, <2>2 DEF Bus!Next, Bus!Call
<1>10. CASE PumpReturn
  <2>1. /\ pc = "callback" /\ pc' = "scan" /\ recv' = recv + 1
        /\ handler # Null /\ handler' = Null
    BY <1>10 DEF PumpReturn, HandlerInv
  <2>2. Due' = Due
    BY <1>4, <1>5, <1>6, <2>1
  <2> QED
    BY <1>1, <1>2, <2>1, <2>2 DEF Bus!Next, Bus!Return
<1>11. CASE PumpScanned \/ PumpClear
  <2>1. /\ pc \in {"scan", "clear"} /\ pc' \in {"clear", "unlock"} /\ handler' = handler
        /\ pc = "scan" => recv = Receivers
    BY <1>11 DEF PumpScanned, PumpClear
  <2>2. Due = {} /\ Due' = {}
    BY <1>4, <1>5, <1>6, <2>1
  <2> QED
    BY <1>1, <1>2, <2>1, <2>2 DEF Bus!vars
<1> QED
  BY <1>7, <1>8, <1>9, <1>10, <1>11

(* A callback takes an empty place for a message, or leaves its own.          *)
LEMMA SeatStep ==
  ASSUME IInv, NEW m \in MsgIds, NEW c \in Callbacks,
         Register(m, c) \/ Unregister(m, c)
  PROVE  [Bus!Next]_(Bus!vars)
<1>1. /\ UNCHANGED <<queue, front, size, pc, recv, handler, data, lost>>
      /\ Retired' = Retired /\ Current' = Current
  BY DEF Register, Unregister, ring, loop, clients, Retired, Current
<1>2. Pending' = Pending
  BY <1>1, SamePending DEF Kept
<1>3. vec \in [MsgIds -> [Indexes -> Callbacks \cup {Null}]]
  BY DEF IInv, TypeOK
<1>4. pc \in {"scan", "callback", "clear", "unlock"} => Head(Pending).id = Current.id
  BY HeadIs DEF IInv, RingInv, Content
<1>5. ASSUME NEW i \in Indexes, NEW x \in Callbacks \cup {Null},
             vec' = [vec EXCEPT ![m] = [@ EXCEPT ![i] = x]]
      PROVE  /\ \A j \in Indexes : vec'[Current.id][j] # Null <=>
                   IF j = i /\ Current.id = m THEN x # Null ELSE vec[Current.id][j] # Null
             /\ Due' = IF pc \notin {"scan", "callback"} THEN {}
                       ELSE {j \in Indexes : Ahead(j) /\ vec'[Current.id][j] # Null}
  <2>1. ASSUME NEW j \in Indexes
        PROVE  vec'[Current.id][j] # Null <=>
                 IF j = i /\ Current.id = m THEN x # Null ELSE vec[Current.id][j] # Null
    BY <1>3, <1>5
  <2>2. \A j \in Indexes : Ahead(j)' <=> Ahead(j)
    BY <1>1 DEF Ahead
  <2>3. Due' = IF pc \notin {"scan", "callback"} THEN {}
               ELSE {j \in Indexes : Ahead(j)' /\ vec'[Current.id][j] # Null}
    BY <1>1 DEF Due
  <2> QED
    BY <2>1, <2>2, <2>3
<1>6. CASE Register(m, c)
  <2>1. PICK i \in Indexes : /\ vec[m][i] \in {Null, c}
                             /\ vec' = [vec EXCEPT ![m] = [@ EXCEPT ![i] = c]]
    BY <1>6 DEF Register
  <2>2. CASE vec[m][i] = c
    <3>1. vec' = vec
      BY <1>3, <2>1, <2>2
    <3>2. Due' = Due
      BY <1>1, <3>1, SameDue DEF loop
    <3> QED
      BY <1>1, <1>2, <3>1, <3>2 DEF Bus!vars
  <2>3. CASE vec[m][i] = Null
    <3>1. \/ Due' = Due
          \/ /\ pc \in {"scan", "callback"} /\ Current.id = m
             /\ Due' = Due \cup {i}
      <4>1. c # Null
        BY NullAssumption
      <4>2. CASE pc \in {"scan", "callback"} /\ Current.id = m
        <5>1. Due = {j \in Indexes : Ahead(j) /\ vec[Current.id][j] # Null}
          BY <4>2 DEF Due
        <5>2. Due' = {j \in Indexes : Ahead(j) /\ (j = i \/ vec[Current.id][j] # Null)}
          BY <1>5, <2>1, <4>1, <4>2
        <5> QED
          BY <4>2, <5>1, <5>2
      <4>3. CASE ~(pc \in {"scan", "callback"} /\ Current.id = m)
        <5>1. CASE pc \notin {"scan", "callback"}
          BY <1>5, <2>1, <5>1 DEF Due
        <5>2. CASE Current.id # m
          BY <1>5, <2>1, <5>2 DEF Due
        <5> QED
          BY <4>3, <5>1, <5>2
      <4> QED
        BY <4>2, <4>3
    <3>2. Bus!Register(m, i, c)
      BY <1>1, <1>2, <1>4, <2>1, <2>3, <3>1 DEF Bus!Register
    <3> QED
      BY <3>2 DEF Bus!Next
  <2> QED
    BY <2>1, <2>2, <2>3
<1>7. CASE Unregister(m, c)
  <2>1. PICK i \in Indexes : vec' = [vec EXCEPT ![m] = [@ EXCEPT ![i] = Null]]
    BY <1>7 DEF Unregister
  <2>2. pc = "callback"
    BY <1>7 DEF Unregister
  <2>3. Due' = IF Current.id = m THEN Due \ {i} ELSE Due
    BY <1>5, <2>1, <2>2 DEF Due
  <2>4. Bus!Unregister(m, i)
    BY <1>1, <1>2, <1>4, <2>1, <2>2, <2>3 DEF Bus!Unregister
  <2> QED
    BY <2>4 DEF Bus!Next
<1> QED
  BY <1>6, <1>7

(* Clients accept messages, take or leave places, or change nothing else.     *)
LEMMA ClientStep == ASSUME IInv, Client PROVE [Bus!Next]_(Bus!vars)
<1>1. TypeOK'
  BY NextIInv DEF Next, IInv
<1>2. ASSUME UNCHANGED <<ring, loop, vec>>, Kept PROVE UNCHANGED Bus!vars
  <2>1. Pending' = Pending
    BY <1>2, SamePending DEF ring, loop, Retired
  <2>2. Due' = Due
    BY <1>2, SameDue DEF ring, Current
  <2> QED
    BY <1>2, <2>1, <2>2 DEF loop, Bus!vars
<1>3. CASE \E m \in MsgIds, c \in Callbacks : Register(m, c) \/ Unregister(m, c)
  BY <1>3, SeatStep
<1>4. CASE \E m \in MsgIds : GetFreeBuffer(m)
  BY <1>2, <1>4 DEF GetFreeBuffer, Kept
<1>5. CASE \E m \in MsgIds : PostNull(m)
  BY <1>1, <1>5, AcceptStep DEF PostNull, Kept, TypeOK, clients
<1>6. ASSUME NEW m \in MsgIds, NEW v \in Values, PostCopy(m, v)
      PROVE  [Bus!Next]_(Bus!vars)
  <2>1. PICK b \in Bufs : FreeBuf(b) /\ data' = [data EXCEPT ![b] = v] /\ Enqueue(m, b)
    BY <1>6 DEF PostCopy, FirstFree
  <2>2. Kept
    <3>1. lost' = lost
      BY <1>6 DEF PostCopy, clients
    <3> QED
      BY <2>1, <3>1, FreeIsUnused DEF Kept, IInv, TypeOK
  <2> QED
    BY <1>1, <1>6, <2>1, <2>2, AcceptStep DEF PostCopy, TypeOK
<1>7. ASSUME NEW b \in Bufs, NEW v \in Values, Fill(b, v)
      PROVE  [Bus!Next]_(Bus!vars)
  <2>1. Kept
    BY <1>7 DEF Fill, Kept, IInv, TypeOK, OwnedInv, clients
  <2> QED
    BY <1>2, <1>7, <2>1 DEF Fill
<1>8. ASSUME NEW b \in Bufs, PostOwn(b) PROVE [Bus!Next]_(Bus!vars)
  <2>1. UNCHANGED <<data, loop, vec>> /\ b \in owned /\ ~Full
    BY <1>8 DEF PostOwn
  <2>2. CASE Postable(b)
    <3>1. Enqueue(b[1], b) /\ lost' = lost /\ b[1] \in MsgIds
      BY <1>8, <2>2, BufId DEF PostOwn
    <3> QED
      BY <1>1, <2>1, <3>1, AcceptStep DEF Kept, TypeOK
  <2>3. CASE ~Postable(b)
    <3>1. UNCHANGED ring /\ lost' = lost \cup {b}
      BY <1>8, <2>3 DEF PostOwn
    <3>2. Queued(b) => b \in lost
      BY <2>1 DEF IInv, OwnedInv
    <3> QED
      BY <1>2, <2>1, <3>1, <3>2 DEF Kept
  <2> QED
    BY <2>2, <2>3
<1>9. CASE \E b \in Bufs : LockMessage(b) \/ UnlockMessage(b)
  BY <1>2, <1>9 DEF LockMessage, UnlockMessage, Kept
<1> QED
  BY <1>3, <1>4, <1>5, <1>6, <1>7, <1>8, <1>9 DEF Client

(* Theorem PumpImplementsBus: the message pump is a bounded FIFO of accepted  *)
(* messages.  Each is shown with the content it was posted with (unless its   *)
(* buffer was recovered under somebody's hands), to one callback at a time    *)
(* and in the order of the vector, and retired once: not before every         *)
(* callback was called that was registered when the showing began and still   *)
(* is.                                                                        *)
THEOREM PumpImplementsBus == Spec => BusSpec
<1>1. Init => HandlerInv /\ Bus!Init
  <2> SUFFICES ASSUME Init PROVE HandlerInv /\ Bus!Init
    OBVIOUS
  <2>1. /\ size - Retired = 0 /\ handler = Null /\ pc = "idle"
        /\ vec = [m \in MsgIds |-> [i \in Indexes |-> Null]]
    BY DEF Init, Retired
  <2>2. Pending = <<>> /\ Due = {}
    BY <2>1 DEF Pending, Due
  <2> QED
    BY <2>1, <2>2 DEF HandlerInv, Bus!Init
<1>2. IInv /\ HandlerInv /\ [Next]_vars => [Bus!Next]_(Bus!vars)
  <2> SUFFICES ASSUME IInv, HandlerInv, [Next]_vars PROVE [Bus!Next]_(Bus!vars)
    OBVIOUS
  <2>1. CASE PumpUnlock
    BY <2>1, RetireStep DEF Bus!Next
  <2>2. CASE PumpAdvance
    BY <2>2, AdvanceStutters
  <2>3. CASE PumpBegin \/ PumpSkip \/ PumpCall \/ PumpReturn \/ PumpScanned \/ PumpClear
    BY <2>3, DispatchStep
  <2>4. CASE Client
    BY <2>4, ClientStep
  <2>5. CASE UNCHANGED vars
    <3>1. UNCHANGED <<ring, loop, vec, data, lost>> /\ Retired' = Retired
      BY <2>5 DEF vars, ring, loop, clients, Retired
    <3>2. Pending' = Pending /\ Due' = Due
      BY <3>1, SamePending, SameDue DEF ring, Kept, Current
    <3> QED
      BY <3>1, <3>2 DEF loop, Bus!vars
  <2> QED
    BY <2>1, <2>2, <2>3, <2>4, <2>5 DEF Next, Pump
<1> QED
  BY <1>1, <1>2, PumpInvariant, HandlerStep, PTL DEF Spec, BusSpec, Bus!Spec

-------------------------------------------------------------------------------
(* Measuring, on the pump. *)

LEMMA Ids == /\ {Raw, Calib, State} \subseteq MsgIds /\ Others \subseteq MsgIds
             /\ onRaw \in Callbacks /\ onCalib \in Callbacks
             /\ Raw # Calib /\ Raw # State /\ Calib # State /\ onRaw # onCalib
             /\ Raw \notin Others /\ Calib \notin Others
             /\ Null \notin Bufs /\ Null \notin Callbacks
  BY IdAssumption, NullAssumption

-------------------------------------------------------------------------------
(* Every step is one of the pump or of its clients.                           *)

LEMMA GotStep ==
  ASSUME IInv, lost = {}, pc # "fault", NEW m \in MsgIds, Got(m)
  PROVE  /\ [Next]_vars /\ UNCHANGED <<vec, data, ring, loop, lost>>
         /\ \/ /\ Result = Null /\ UNCHANGED vars
               /\ \A b \in Bufs : ~FirstFree(m, b)
            \/ \E b \in Bufs :
                 /\ Result = b /\ b[1] = m /\ b \notin owned /\ owned' = owned \cup {b}
                 /\ refs' = [refs EXCEPT ![b] = 1]
                 /\ \A a \in Bufs : a # b => FreeBuf(a)' = FreeBuf(a)
<1>1. CASE GetFreeBuffer(m)
  <2>1. PICK b \in Bufs : /\ FirstFree(m, b)
                          /\ refCnt' = [refCnt EXCEPT ![b] = @ + 1]
                          /\ flags' = [flags EXCEPT ![b] = "InUse"]
                          /\ refs' = [refs EXCEPT ![b] = OneMore(@)]
                          /\ owned' = owned \cup {b}
    BY <1>1 DEF GetFreeBuffer
  <2>2. b \notin owned /\ b[1] = m /\ refs[b] = 0
    BY <2>1, FreeIsUnused DEF FirstFree
  <2>8. refs' = [refs EXCEPT ![b] = 1]
    BY <2>1, <2>2, MoreRefs
  <2>3. owned' # owned /\ owned' \ owned = {b}
    BY <2>1, <2>2
  <2>4. Result = b
    <3>1. \A a \in Bufs : a \in owned' \ owned <=> a = b
      BY <2>3
    <3> QED
      BY <2>3, <3>1 DEF Result
  <2>5. \A a \in Bufs : a # b => FreeBuf(a)' = FreeBuf(a)
    BY <2>1 DEF FreeBuf, IInv, TypeOK
  <2>6. UNCHANGED <<vec, data, ring, loop, lost>>
    BY <1>1 DEF GetFreeBuffer
  <2>7. Client
    BY <1>1 DEF Client
  <2> QED
    BY <2>1, <2>2, <2>4, <2>5, <2>6, <2>7, <2>8 DEF Next
<1>2. CASE UNCHANGED vars /\ \A b \in Bufs : ~FirstFree(m, b)
  BY <1>2 DEF Result, vars, clients
<1> QED
  BY <1>1, <1>2 DEF Got

LEMMA PostStep ==
  ASSUME IInv, pc # "fault", NEW b \in Bufs, PostOrNot(b)
  PROVE  /\ [Next]_vars /\ UNCHANGED <<vec, data, loop>>
         /\ \/ PostOwn(b) /\ refused' = refused
            \/ refused' = TRUE /\ UNCHANGED vars
  BY DEF PostOrNot, PostOwn, Client, Next, vars

LEMMA PumpOnly == MInv /\ [MNext]_all => [Next]_vars
<1> SUFFICES ASSUME MInv, [MNext]_all PROVE [Next]_vars
  OBVIOUS
<1>1. IInv /\ lost = {} /\ pc # "fault" /\ TypeOK /\ curBuffer \in Bufs \cup {Null} /\ state \in Bufs \cup {Null}
  BY DEF MInv, NoNullInv, MTypeOK, CalledInv
<1>2. CASE Boot
  BY <1>1, <1>2, Ids DEF Boot, RegisterRaw, RegisterCalib, Next, Client
<1>3. CASE Timer
  BY <1>1, <1>3, Ids, GotStep DEF Timer, TriggerCalibration, TriggerMeasurement, Start, vars
<1>4. CASE MeasurementIsr
  BY <1>1, <1>4, PostStep DEF MeasurementIsr, MInv, HeldInv
<1>5. CASE Loop
  <2>1. CASE OnRawGet
    BY <1>1, <2>1, Ids, GotStep DEF OnRawGet
  <2>2. CASE OnRawPost
    BY <1>1, <2>2, PostStep DEF OnRawPost, MInv, HeldInv
  <2> QED
    BY <1>5, <2>1, <2>2 DEF Loop, CallbackBegins, CallbackReturns, Next, Pump
<1>6. CASE Other
  BY <1>1, <1>6, Ids DEF Other, Next, Client
<1>7. CASE \E v \in Values : Convert(v)
  BY <1>1, <1>7 DEF Convert, Next, Client, MInv, HeldInv
<1>8. CASE UNCHANGED all
  BY <1>8 DEF all
<1> QED
  BY <1>2, <1>3, <1>4, <1>5, <1>6, <1>7, <1>8 DEF MNext

-------------------------------------------------------------------------------
(* What the steps of the pump leave alone.                                    *)

LEMMA AdvanceWaiting ==
  ASSUME IInv, PumpAdvance, NEW s \in Slots
  PROVE  /\ Waiting(s)' <=> Waiting(s)
         /\ Waiting(s) => s # front /\ Offset(s)' = Offset(s) - 1
<1>1. /\ pc = "advance" /\ pc' = "idle" /\ size' = size - 1
      /\ front \in Slots /\ size \in 0..QSize
      /\ front' = IF front = QSize - 1 THEN 0 ELSE front + 1
  BY NextSlot DEF PumpAdvance, IInv, TypeOK
<1>2. /\ s \in Int /\ 0 <= s /\ s < QSize /\ QSize \in Int
      /\ front \in Int /\ 0 <= front /\ front < QSize
      /\ size \in Int /\ 0 <= size /\ size <= QSize
  BY <1>1, SizeAssumption DEF Slots
<1>3. Offset(s)' = IF s >= front' THEN s - front' ELSE s - front' + QSize
  BY DEF Offset
<1>4. /\ Waiting(s) <=> Live(s) /\ s # front
      /\ Waiting(s)' <=> Live(s)'
  BY <1>1 DEF Waiting
<1>5. CASE s = front
  <2>1. Offset(s)' = QSize - 1
    <3>1. CASE front = QSize - 1
      BY <1>1, <1>2, <1>3, <1>5, <3>1
    <3>2. CASE front # QSize - 1
      BY <1>1, <1>2, <1>3, <1>5, <3>2
    <3> QED
      BY <3>1, <3>2
  <2>2. ~Live(s)'
    BY <1>1, <1>2, <2>1 DEF Live
  <2> QED
    BY <1>4, <1>5, <2>2
<1>6. CASE s # front
  <2>1. Offset(s)' = Offset(s) - 1
    <3>1. CASE front = QSize - 1
      BY <1>1, <1>2, <1>3, <1>6, <3>1 DEF Offset
    <3>2. CASE front # QSize - 1
      BY <1>1, <1>2, <1>3, <1>6, <3>2 DEF Offset
    <3> QED
      BY <3>1, <3>2
  <2>2. Offset(s) \in Int
    BY <1>2 DEF Offset
  <2>3. Live(s)' <=> Live(s)
    BY <1>1, <1>2, <2>1, <2>2 DEF Live
  <2> QED
    BY <1>4, <1>6, <2>1, <2>3
<1> QED
  BY <1>5, <1>6

LEMMA PumpFrame ==
  ASSUME IInv, lost = {}, Pump
  PROVE  /\ UNCHANGED <<owned, refs, lost, vec, queue, tail, data>>
         /\ \A b \in Bufs : FreeBuf(b) => FreeBuf(b)'
         /\ \A s \in Slots : Waiting(s)' => Waiting(s)
         /\ ~PumpAdvance => front' = front /\ size' = size
<1>1. /\ UNCHANGED <<owned, refs, lost, vec, queue, tail, data>>
      /\ ~PumpAdvance => front' = front /\ size' = size
  BY DEF Pump, PumpBegin, PumpSkip, PumpCall, PumpReturn, PumpScanned, PumpClear, PumpUnlock,
         PumpAdvance, ring, headers, clients
<1>2. ASSUME NEW s \in Slots, Waiting(s)' PROVE Waiting(s)
  <2>1. CASE PumpAdvance
    BY <1>2, <2>1, AdvanceWaiting
  <2>2. CASE ~PumpAdvance
    <3>1. Live(s)
      BY <1>1, <1>2, <2>2 DEF Waiting, Live, Offset
    <3>2. pc = "advance" => PumpAdvance
      BY DEF Pump, PumpBegin, PumpSkip, PumpCall, PumpReturn, PumpScanned, PumpClear, PumpUnlock
    <3> QED
      BY <2>2, <3>1, <3>2 DEF Waiting
  <2> QED
    BY <2>1, <2>2
<1>3. ASSUME NEW b \in Bufs, FreeBuf(b) PROVE FreeBuf(b)'
  <2>1. CASE PumpBegin \/ PumpClear \/ PumpUnlock
    <3>1. size # 0 /\ pc # "advance"
      BY <2>1 DEF PumpBegin, PumpClear, PumpUnlock, IInv, RingInv
    <3>2. Current.buf # b /\ (Current.buf # Null => Current.buf \in Bufs)
      BY <1>3, <3>1, DispatchFacts, FreeIsUnused, NullAssumption
    <3>3. flags' = flags \/ (\E f : flags' = SetFlag(Current.buf, f))
      BY <2>1 DEF PumpBegin, PumpClear, PumpUnlock
    <3>4. flags'[b] = flags[b]
      BY <3>2, <3>3 DEF SetFlag, IInv, TypeOK
    <3>5. refCnt'[b] = refCnt[b]
      BY <2>1, <3>2 DEF PumpBegin, PumpClear, PumpUnlock, IInv, TypeOK
    <3> QED
      BY <1>3, <3>4, <3>5 DEF FreeBuf
  <2>2. CASE ~(PumpBegin \/ PumpClear \/ PumpUnlock)
    <3>1. UNCHANGED <<flags, refCnt>>
      BY <2>2 DEF Pump, PumpSkip, PumpCall, PumpReturn, PumpScanned, PumpAdvance, headers
    <3> QED
      BY <1>3, <3>1 DEF FreeBuf
  <2> QED
    BY <2>1, <2>2
<1> QED
  BY <1>1, <1>2, <1>3

-------------------------------------------------------------------------------
(* How the ring changes: not at all, by a post, or by the loop.               *)

Still == UNCHANGED <<queue, front, size, pc, recv>>

Posted(m) == \E b \in Bufs : ~Full /\ Enqueue(m, b) /\ pc' = pc /\ recv' = recv

LEMMA PostedSlots ==
  ASSUME IInv, NEW m \in MsgIds, Posted(m)
  PROVE  /\ tail \in Slots /\ queue'[tail].id = m /\ queue'[tail].buf # Null
         /\ front' = front /\ pc' = pc /\ recv' = recv
         /\ \A s \in Slots : Waiting(s)' <=> Waiting(s) \/ s = tail
         /\ \A s \in Slots : Waiting(s) => queue'[s] = queue[s]
         /\ \A s \in Slots : Offset(s)' = Offset(s)
         /\ \A s \in Slots : Waiting(s) => Offset(s) < Offset(tail)
         /\ tail = front => pc = "idle"
<1>1. PICK b \in Bufs : ~Full /\ Enqueue(m, b) /\ pc' = pc /\ recv' = recv
  BY DEF Posted
<1>2. /\ tail \in Slots /\ ~Waiting(tail) /\ queue'[tail] = [id |-> m, buf |-> b]
      /\ \A s \in Slots : s # tail => queue'[s] = queue[s]
      /\ \A s \in Slots : Waiting(s)' <=> (Waiting(s) \/ s = tail)
  BY <1>1, EnqueueRing
<1>3. front' = front
  BY <1>1 DEF Enqueue
<1>4. /\ front \in Int /\ 0 <= front /\ front < QSize /\ size \in Int /\ 0 <= size /\ size <= QSize
      /\ tail = (IF front + size < QSize THEN front + size ELSE front + size - QSize)
      /\ QSize \in Int
      /\ pc # "idle" => size # 0
  BY SizeAssumption DEF IInv, TypeOK, RingInv, Slots
<1>5. tail = front => size = 0
  BY <1>1 DEF Full
<1>6. size < QSize /\ Offset(tail) = size
  <2>1. size < QSize
    BY <1>4, <1>5
  <2> QED
    BY <1>4, <2>1 DEF Offset
<1> QED
  BY <1>1, <1>2, <1>3, <1>4, <1>5, <1>6, NullAssumption DEF Offset, Waiting, Live

(* The message that is being dispatched stays at the front.                   *)
LEMMA PostedCurrent ==
  ASSUME MInv, NEW m \in MsgIds, Posted(m), pc = "callback"
  PROVE  Current'.id = Current.id
<1>1. front \in Slots /\ Waiting(front)
  BY DispatchFacts DEF MInv, IInv, RingInv
<1> QED
  BY <1>1, PostedSlots DEF Current, MInv

LEMMA PostOwnQueues ==
  ASSUME MInv, NEW b \in Bufs, PostOwn(b)
  PROVE  Posted(b[1]) /\ b[1] \in MsgIds /\ lost' = lost
<1>1. b \in owned /\ refs[b] = 1 /\ flags[b] = "InUse" /\ ~Queued(b)
  BY DEF PostOwn, MInv, CalledInv, IInv, OwnedInv
<1>2. Postable(b)
  BY <1>1 DEF MInv, CalledInv, IInv, TypeOK, RefCntExact, Postable
<1> QED
  BY <1>2, BufId DEF PostOwn, Posted, loop

-------------------------------------------------------------------------------
(* The order in the queue: steps that leave it, posts, and the loop.          *)

LEMMA OrderStill ==
  ASSUME MInv, Still, refused => refused',
         \/ calibrationDone' = calibrationDone /\ offsets' = offsets
         \/ calibrationDone' = TRUE /\ refused',
         \A i \in Indexes : vec[Calib][i] = onCalib => vec'[Calib][i] = onCalib
  PROVE  OrderInv' /\ NoNullInv'
<1>1. /\ queue' = queue /\ front' = front /\ size' = size /\ pc' = pc /\ recv' = recv
      /\ \A s \in Slots : Waiting(s)' = Waiting(s)
      /\ \A s \in Slots : Offset(s)' = Offset(s)
  BY SameQueue DEF Still, Offset
<1>2. \A s \in Slots : CalibWaits(s) => CalibWaits(s)'
  BY <1>1 DEF CalibWaits
<1> QED
  BY <1>1, <1>2 DEF MInv, OrderInv, NoNullInv

LEMMA OrderPosted ==
  ASSUME MInv, NEW m \in MsgIds, Posted(m), vec' = vec, offsets' = offsets, refused' = refused,
         \/ m # Raw /\ calibrationDone' = calibrationDone
         \/ m = Raw /\ calibrationDone = TRUE /\ calibrationDone' = TRUE
         \/ m = Calib /\ calibrationDone = FALSE /\ calibrationDone' = TRUE
  PROVE  OrderInv' /\ NoNullInv'
<1>1. /\ tail \in Slots /\ queue'[tail].id = m /\ queue'[tail].buf # Null
      /\ front' = front /\ pc' = pc /\ recv' = recv
      /\ \A s \in Slots : Waiting(s)' <=> Waiting(s) \/ s = tail
      /\ \A s \in Slots : Waiting(s) => queue'[s] = queue[s]
      /\ \A s \in Slots : Offset(s)' = Offset(s)
      /\ \A s \in Slots : Waiting(s) => Offset(s) < Offset(tail)
      /\ tail = front => pc = "idle"
  BY PostedSlots DEF MInv
<1>2. NoNullInv'
  BY <1>1 DEF MInv, NoNullInv
<1>3. ~calibrationDone' => \A t \in Slots : Waiting(t)' => queue'[t].id # Raw
  BY <1>1 DEF MInv, OrderInv
<1>4. ASSUME NEW s \in Slots, CalibWaits(s) PROVE CalibWaits(s)'
  <2>1. Waiting(s)' /\ queue'[s].id = Calib
    BY <1>1, <1>4 DEF CalibWaits
  <2>2. \A t \in Slots : Waiting(t)' /\ queue'[t].id = Raw => Offset(s)' < Offset(t)'
    BY <1>1, <1>4 DEF CalibWaits
  <2> QED
    BY <1>1, <1>4, <2>1, <2>2 DEF CalibWaits
<1>5. CASE calibrationDone' = calibrationDone
  BY <1>2, <1>3, <1>4, <1>5 DEF MInv, OrderInv
<1>6. CASE m = Calib /\ calibrationDone = FALSE /\ calibrationDone' = TRUE
  <2>1. \A t \in Slots : Waiting(t)' => queue'[t].id # Raw
    BY <1>1, <1>6, Ids DEF MInv, OrderInv
  <2>2. PICK n \in Slots : n = tail
    BY <1>1
  <2>3. CalibWaits(n)'
    <3>1. Waiting(n)' /\ queue'[n].id = Calib
      BY <1>1, <1>6, <2>2
    <3>2. n = front' => pc' = "idle"
      BY <1>1, <2>2
    <3> QED
      BY <2>1, <3>1, <3>2 DEF CalibWaits
  <2> QED
    BY <1>2, <1>3, <2>3 DEF OrderInv
<1> QED
  BY <1>5, <1>6

(* A dispatch that did not end yet: the calibration that is being dispatched  *)
(* gets to its callback.                                                      *)
LEMMA OrderCalled ==
  ASSUME MInv, Pump, ~PumpAdvance, NEW s \in Slots, s = front, CalibWaits(s),
         stage = "measure", ~(PumpCall /\ handler' = onCalib)
  PROVE  CalibWaits(s)'
<1>1. /\ queue' = queue /\ front' = front /\ size' = size /\ vec' = vec
      /\ \A t \in Slots : Waiting(t)' => Waiting(t)
  BY PumpFrame DEF MInv, CalledInv
<1>2. \A t \in Slots : Offset(t)' = Offset(t)
  BY <1>1 DEF Offset
<1>3. Receivers \in Nat /\ \A i \in Indexes : i \in Nat /\ i < Receivers
  BY SizeAssumption DEF Indexes
<1>4. Current.id = Calib /\ recv \in Nat
  BY DEF CalibWaits, Current, MInv, IInv, TypeOK
<1>5. PICK i \in Indexes :
        /\ vec[Calib][i] = onCalib
        /\ pc = "idle" \/ (pc = "scan" /\ recv <= i) \/ (pc = "callback" /\ recv < i)
  BY DEF CalibWaits, MInv, CalledInv
<1>6. (pc' = "scan" /\ recv' <= i) \/ (pc' = "callback" /\ recv' < i)
  <2>1. CASE PumpBegin
    BY <1>3, <2>1 DEF PumpBegin, MInv, NoNullInv, CalibWaits, Current
  <2>2. CASE PumpSkip
    <3>1. recv # i
      BY <1>4, <1>5, <2>2, Ids DEF PumpSkip
    <3> QED
      BY <1>3, <1>4, <1>5, <2>2, <3>1 DEF PumpSkip
  <2>3. CASE PumpCall
    <3>1. recv # i
      BY <1>4, <1>5, <2>3 DEF PumpCall
    <3> QED
      BY <1>3, <1>4, <1>5, <2>3, <3>1 DEF PumpCall
  <2>4. CASE PumpReturn
    BY <1>3, <1>4, <1>5, <2>4 DEF PumpReturn
  <2>5. CASE PumpScanned
    BY <1>3, <1>4, <1>5, <2>5 DEF PumpScanned
  <2>6. ~PumpClear /\ ~PumpUnlock
    BY <1>5 DEF PumpClear, PumpUnlock
  <2> QED
    BY <2>1, <2>2, <2>3, <2>4, <2>5, <2>6 DEF Pump
<1>7. Waiting(s)'
  BY <1>1, <1>2, <1>6 DEF CalibWaits, Waiting, Live
<1>8. vec'[Calib][i] = onCalib
  BY <1>1, <1>5
<1> QED
  BY <1>1, <1>2, <1>6, <1>7, <1>8 DEF CalibWaits

LEMMA OrderPump ==
  ASSUME MInv, Pump, calibrationDone' = calibrationDone, refused' = refused,
         offsets' = IF PumpCall /\ handler' = onCalib THEN "computed" ELSE offsets
  PROVE  OrderInv' /\ NoNullInv'
<1>1. /\ queue' = queue /\ vec' = vec
      /\ \A t \in Slots : Waiting(t)' => Waiting(t)
      /\ ~PumpAdvance => front' = front /\ size' = size
  BY PumpFrame DEF MInv, CalledInv
<1>2. NoNullInv'
  <2>1. pc' # "fault"
    <3>1. CASE PumpBegin
      <4>1. front \in Slots /\ Waiting(front)
        BY <3>1, DispatchFacts DEF PumpBegin, MInv
      <4> QED
        BY <3>1, <4>1 DEF PumpBegin, Current, MInv, NoNullInv
    <3> QED
      BY <3>1 DEF Pump, PumpSkip, PumpCall, PumpReturn, PumpScanned, PumpClear, PumpUnlock,
                  PumpAdvance, MInv, NoNullInv
  <2> QED
    BY <1>1, <2>1 DEF MInv, NoNullInv
<1>3. ~calibrationDone' => \A t \in Slots : Waiting(t)' => queue'[t].id # Raw
  BY <1>1 DEF MInv, OrderInv
<1>4. ASSUME calibrationDone, offsets' = "zero", NEW s \in Slots, CalibWaits(s)
      PROVE  CalibWaits(s)'
  <2>1. stage = "measure"
    BY <1>4 DEF MInv, FirstInv
  <2>2. ~(PumpCall /\ handler' = onCalib)
    BY <1>4
  <2>3. CASE PumpAdvance
    <3>1. front \in Slots /\ s # front
      BY <1>4, <2>3 DEF CalibWaits, Waiting, PumpAdvance, MInv, IInv, TypeOK
    <3>2. pc' = "idle"
      BY <2>3 DEF PumpAdvance
    <3>3. Waiting(s)'
      BY <1>4, <2>3, AdvanceWaiting DEF CalibWaits, MInv
    <3>4. \A t \in Slots : Waiting(t)' => Waiting(t) /\ Offset(t)' = Offset(t) - 1
      BY <2>3, AdvanceWaiting DEF MInv
    <3>5. \A t \in Slots : Offset(t) \in Int
      BY SizeAssumption DEF Offset, Slots, MInv, IInv, TypeOK
    <3> QED
      BY <1>1, <1>4, <3>2, <3>3, <3>4, <3>5 DEF CalibWaits
  <2>4. CASE ~PumpAdvance /\ s = front
    BY <1>4, <2>1, <2>2, <2>4, OrderCalled
  <2>5. CASE ~PumpAdvance /\ s # front
    <3>1. Waiting(s)' /\ (\A t \in Slots : Offset(t)' = Offset(t)) /\ front' = front
      BY <1>1, <1>4, <2>5 DEF CalibWaits, Waiting, Live, Offset
    <3> QED
      BY <1>1, <1>4, <2>5, <3>1 DEF CalibWaits
  <2> QED
    BY <2>3, <2>4, <2>5
<1>5. offsets' = "zero" => offsets = "zero"
  OBVIOUS
<1> QED
  BY <1>2, <1>3, <1>4, <1>5 DEF MInv, OrderInv

-------------------------------------------------------------------------------
(* The invariant, action by action.  What a step of a client makes of IInv is *)
(* known from the pump (PumpOnly, NextIInv).                                  *)

LEMMA PumpInv == MInv /\ [MNext]_all => IInv' /\ TypeOK'
  BY PumpOnly, NextIInv DEF MInv, IInv

LEMMA SameCalled ==
  ASSUME MInv, vec' = vec, lost' = lost, \A b \in owned' : refs'[b] = 1,
         stage' = stage \/ stage \in {"calibrate", "measure"},
         UNCHANGED <<pc, handler>>,
         pc = "callback" => Current'.id = Current.id
  PROVE  CalledInv'
  BY DEF MInv, CalledInv

LEMMA RegisterStep ==
  ASSUME MInv, NEW m \in MsgIds, NEW c \in Callbacks, Register(m, c),
         c = onRaw => m = Raw,
         stage' \in {"calibrate", "measure"} => m = Calib /\ c = onCalib
  PROVE  /\ CalledInv' /\ Still /\ UNCHANGED <<headers, clients>>
         /\ \A j \in Indexes : vec[Calib][j] = onCalib => vec'[Calib][j] = onCalib
<1>1. PICK i \in Indexes : vec[m][i] \in {Null, c} /\ vec' = [vec EXCEPT ![m] = [@ EXCEPT ![i] = c]]
  BY DEF Register
<1>2. UNCHANGED <<queue, front, size, pc, recv, handler, flags, refCnt, refs, owned, lost>>
  BY DEF Register, headers, ring, loop, clients
<1>3. vec \in [MsgIds -> [Indexes -> Callbacks \cup {Null}]]
  BY DEF MInv, MTypeOK, TypeOK
<1>4. vec'[m][i] = c
  BY <1>1, <1>3
<1>5. \A n \in MsgIds, j \in Indexes : vec'[n][j] = vec[n][j] \/ (n = m /\ j = i)
  BY <1>1, <1>3
<1>6. CalledInv'
  <2>1. \A n \in MsgIds, j \in Indexes : vec'[n][j] = onRaw => n = Raw
    BY <1>4, <1>5 DEF MInv, CalledInv
  <2> QED
    BY <1>2, <1>4, <2>1 DEF MInv, CalledInv, Current
<1> QED
  BY <1>1, <1>2, <1>4, <1>5, <1>6, Ids DEF Still, headers, clients

LEMMA BootInv == ASSUME MInv, Boot PROVE MInv'
<1>1. IInv' /\ TypeOK'
  BY PumpInv DEF MNext
<1>2. /\ CalledInv' /\ Still /\ UNCHANGED <<headers, clients>>
      /\ \A j \in Indexes : vec[Calib][j] = onCalib => vec'[Calib][j] = onCalib
  BY RegisterStep, Ids DEF Boot, RegisterRaw, RegisterCalib
<1>3. /\ UNCHANGED <<curBuffer, calibrationDone, converting, offsets, call, state, refused>>
      /\ stage # "measure" /\ stage' \in {"registered", "calibrate"}
      /\ UNCHANGED <<flags, refCnt, owned, pc>>
  BY <1>2 DEF Boot, RegisterRaw, RegisterCalib, headers, clients, Still
<1>4. OrderInv' /\ NoNullInv'
  BY <1>2, <1>3, OrderStill
<1>5. MTypeOK' /\ HeldInv' /\ FirstInv' /\ NothingLost'
  BY <1>1, <1>3 DEF MInv, MTypeOK, HeldInv, FirstInv, NothingLost, FreeBuf
<1> QED
  BY <1>1, <1>2, <1>4, <1>5 DEF MInv

(* The calibration's pool is free at first, so a buffer is found.             *)
LEMMA CalibrationFree ==
  ASSUME MInv, stage # "measure"
  PROVE  \E b \in Bufs : FirstFree(Calib, b)
<1>1. msgAmount[Calib] \in Nat \ {0} /\ Calib \in MsgIds
  <2>1. Calib \in MsgIds
    BY Ids
  <2> QED
    BY <2>1, SizeAssumption, PoolAssumption
<1>2. PICK b \in Bufs : b = <<Calib, 1>>
  <2>1. <<Calib, 1>> \in {Calib} \X (1..msgAmount[Calib])
    BY <1>1
  <2> QED
    BY <1>1, <2>1 DEF Bufs
<1>3. \A a \in Bufs : a[1] = Calib => a[2] >= 1
  BY <1>1, SizeAssumption DEF Bufs
<1> QED
  BY <1>2, <1>3 DEF FirstFree, MInv, FirstInv

LEMMA TimerInv == ASSUME MInv, Timer PROVE MInv'
<1>1. IInv' /\ TypeOK'
  BY PumpInv DEF MNext
<1>2. PICK m \in {Raw, Calib} :
        /\ Start(m)
        /\ stage' = "measure"
        /\ m = Calib => stage = "calibrate"
        /\ m = Raw => stage = "measure"
        /\ UNCHANGED <<calibrationDone, offsets, call, state, refused>>
  BY Ids DEF Timer, TriggerCalibration, TriggerMeasurement
<1>3. CASE curBuffer # Null
  <2>1. /\ UNCHANGED <<vec, flags, refCnt, queue, front, size, pc, recv, handler, refs, owned, lost>>
        /\ UNCHANGED <<curBuffer, converting>>
    BY <1>2, <1>3 DEF Start, vars, headers, ring, loop, clients
  <2>2. OrderInv' /\ NoNullInv'
    BY <1>2, <2>1, OrderStill DEF Still
  <2>3. CalledInv'
    BY <1>2, <2>1, SameCalled DEF Current, MInv, CalledInv
  <2>4. MTypeOK' /\ HeldInv' /\ FirstInv' /\ NothingLost'
    BY <1>1, <1>2, <1>3, <2>1 DEF MInv, MTypeOK, HeldInv, FirstInv, NothingLost
  <2> QED
    BY <1>1, <2>2, <2>3, <2>4 DEF MInv
<1>4. CASE curBuffer = Null
  <2>1. Got(m) /\ curBuffer' = Result /\ converting' = (Result # Null)
    BY <1>2, <1>4 DEF Start
  <2>2. /\ UNCHANGED <<vec, data, ring, loop, lost>>
        /\ \/ /\ Result = Null /\ UNCHANGED vars
              /\ \A b \in Bufs : ~FirstFree(m, b)
           \/ \E b \in Bufs :
                /\ Result = b /\ b[1] = m /\ b \notin owned /\ owned' = owned \cup {b}
                /\ refs' = [refs EXCEPT ![b] = 1]
                /\ \A a \in Bufs : a # b => FreeBuf(a)' = FreeBuf(a)
    BY <2>1, GotStep, Ids DEF MInv, NoNullInv, CalledInv
  <2>3. UNCHANGED <<vec, queue, front, size, pc, recv, handler, lost>>
    BY <2>2 DEF ring, loop
  <2>4. OrderInv' /\ NoNullInv'
    BY <1>2, <2>3, OrderStill DEF Still
  <2>5. CASE Result = Null /\ UNCHANGED vars /\ \A b \in Bufs : ~FirstFree(m, b)
    <3>1. m = Raw
      BY <1>2, <2>5, CalibrationFree, Ids
    <3>2. UNCHANGED <<refs, owned, lost>>
      BY <2>5 DEF vars, clients
    <3>3. CalledInv'
      BY <1>2, <2>3, <3>2, SameCalled DEF Current, MInv, CalledInv
    <3>4. MTypeOK' /\ HeldInv' /\ FirstInv' /\ NothingLost'
      BY <1>1, <1>2, <1>4, <2>1, <2>3, <2>5, <3>1, <3>2, Ids
         DEF MInv, MTypeOK, HeldInv, FirstInv, NothingLost
    <3> QED
      BY <1>1, <2>4, <3>3, <3>4 DEF MInv
  <2>6. ASSUME NEW b \in Bufs, Result = b, b[1] = m, b \notin owned, owned' = owned \cup {b},
               refs' = [refs EXCEPT ![b] = 1]
        PROVE  MInv'
    <3>1. \A a \in owned' : refs'[a] = 1
      BY <2>6 DEF MInv, CalledInv, IInv, TypeOK
    <3>2. CalledInv'
      BY <1>2, <2>3, <3>1, SameCalled DEF Current, MInv, CalledInv
    <3>3. m = (IF calibrationDone THEN Raw ELSE Calib)
      BY <1>2, <1>4 DEF MInv, FirstInv
    <3>4. MTypeOK'
      BY <1>1, <1>2, <2>1, <2>6 DEF MInv, MTypeOK
    <3>5. HeldInv'
      BY <1>2, <1>4, <2>1, <2>3, <2>6, <3>3, Ids DEF MInv, HeldInv
    <3>6. FirstInv'
      BY <1>2, <2>1, <2>6, Ids DEF FirstInv
    <3>7. NothingLost'
      BY <1>2, <1>4, <2>1, <2>6, Ids DEF MInv, NothingLost
    <3> QED
      BY <1>1, <2>4, <3>2, <3>4, <3>5, <3>6, <3>7 DEF MInv
  <2> QED
    BY <2>2, <2>5, <2>6
<1> QED
  BY <1>3, <1>4

(* The handler of the conversion's end.                                       *)
LEMMA MeasurementIsrInv == ASSUME MInv, MeasurementIsr PROVE MInv'
<1>1. IInv' /\ TypeOK'
  BY PumpInv DEF MNext
<1>2. /\ curBuffer \in Bufs /\ curBuffer \in owned /\ curBuffer # Null
      /\ curBuffer[1] = (IF calibrationDone THEN Raw ELSE Calib)
      /\ stage = "measure" /\ state # curBuffer
  BY DEF MInv, MTypeOK, HeldInv, FirstInv, MeasurementIsr
<1>3. /\ PostOrNot(curBuffer) /\ converting' = FALSE /\ calibrationDone' = TRUE
      /\ curBuffer' = Null /\ UNCHANGED <<stage, offsets, call, state>>
  BY DEF MeasurementIsr
<1>4. UNCHANGED <<vec, loop>> /\ UNCHANGED <<vec, pc, recv, handler>>
  BY <1>2, <1>3, PostStep DEF MInv, NoNullInv, loop
<1>5. FirstInv'
  BY <1>2, <1>3 DEF FirstInv
<1>6. CASE PostOwn(curBuffer) /\ refused' = refused
  <2>1. owned' = owned \ {curBuffer} /\ refs' = [refs EXCEPT ![curBuffer] = @ - 1]
    BY <1>6 DEF PostOwn
  <2>2. Posted(curBuffer[1]) /\ curBuffer[1] \in MsgIds /\ lost' = lost
    BY <1>2, <1>6, PostOwnQueues
  <2>3. OrderInv' /\ NoNullInv'
    <3>1. calibrationDone \in BOOLEAN
      BY DEF MInv, MTypeOK
    <3> QED
      BY <1>2, <1>3, <1>4, <1>6, <2>2, <3>1, OrderPosted
  <2>4. CalledInv'
    <3>1. \A b \in owned' : refs'[b] = 1
      BY <1>2, <2>1 DEF MInv, CalledInv, IInv, TypeOK
    <3> QED
      BY <1>3, <1>4, <2>2, <3>1, PostedCurrent, SameCalled
  <2>5. MTypeOK' /\ HeldInv' /\ NothingLost'
    BY <1>1, <1>2, <1>3, <1>4, <1>6, <2>1 DEF MInv, MTypeOK, HeldInv, NothingLost
  <2> QED
    BY <1>1, <1>5, <2>3, <2>4, <2>5 DEF MInv
<1>7. CASE refused' = TRUE /\ UNCHANGED vars
  <2>1. UNCHANGED <<queue, front, size, pc, recv, refs, owned, lost>>
    BY <1>7 DEF vars, ring, loop, clients
  <2>2. OrderInv' /\ NoNullInv'
    BY <1>3, <1>4, <1>7, <2>1, OrderStill DEF Still
  <2>3. CalledInv'
    BY <1>3, <1>4, <2>1, SameCalled DEF Current, MInv, CalledInv
  <2>4. MTypeOK' /\ HeldInv' /\ NothingLost'
    BY <1>1, <1>2, <1>3, <1>7, <2>1 DEF MInv, MTypeOK, HeldInv, NothingLost
  <2> QED
    BY <1>1, <1>5, <2>2, <2>3, <2>4 DEF MInv
<1> QED
  BY <1>2, <1>3, <1>6, <1>7, PostStep DEF MInv, NoNullInv

LEMMA ConvertInv == ASSUME MInv, NEW v \in Values, Convert(v) PROVE MInv'
<1>1. IInv' /\ TypeOK'
  BY PumpInv DEF MNext
<1>2. UNCHANGED <<vec, flags, refCnt, queue, front, size, pc, recv, handler, refs, owned, lost>>
  BY DEF Convert, Fill, headers, ring, loop, clients
<1>3. UNCHANGED <<curBuffer, calibrationDone, converting, stage, offsets, call, state, refused>>
  BY DEF Convert, mvars
<1>4. OrderInv' /\ NoNullInv'
  BY <1>2, <1>3, OrderStill DEF Still
<1>5. CalledInv'
  BY <1>2, <1>3, SameCalled DEF Current, MInv, CalledInv
<1> QED
  BY <1>1, <1>2, <1>3, <1>4, <1>5 DEF MInv, MTypeOK, HeldInv, FirstInv, NothingLost, FreeBuf

LEMMA OtherInv == ASSUME MInv, Other PROVE MInv'
<1>1. IInv' /\ TypeOK'
  BY PumpInv DEF MNext
<1>2. PICK m \in Others, v \in Values : PostCopy(m, v)
  BY DEF Other
<1>3. PICK b \in Bufs : /\ FirstFree(m, b) /\ Enqueue(m, b) /\ ~Full
                        /\ refCnt' = [refCnt EXCEPT ![b] = @ + 1]
                        /\ flags' = [flags EXCEPT ![b] = "PostedNotDispatched"]
  BY <1>2 DEF PostCopy
<1>4. UNCHANGED <<vec, pc, recv, handler, refs, owned, lost>>
  BY <1>2 DEF PostCopy, loop, clients
<1>5. UNCHANGED <<curBuffer, calibrationDone, converting, stage, offsets, call, state, refused>>
  BY DEF Other, mvars
<1>6. m \in MsgIds /\ m # Raw /\ m # Calib /\ Posted(m)
  BY <1>3, <1>4, Ids DEF Posted
<1>7. OrderInv' /\ NoNullInv'
  BY <1>4, <1>5, <1>6, OrderPosted
<1>8. CalledInv'
  BY <1>4, <1>5, <1>6, PostedCurrent, SameCalled DEF MInv, CalledInv
<1>9. FirstInv'
  <2>1. \A a \in Bufs : a[1] = Calib => FreeBuf(a)' = FreeBuf(a)
    BY <1>3, <1>6 DEF FirstFree, FreeBuf, MInv, IInv, TypeOK
  <2> QED
    BY <1>5, <2>1 DEF MInv, FirstInv
<1> QED
  BY <1>1, <1>4, <1>5, <1>7, <1>8, <1>9 DEF MInv, MTypeOK, HeldInv, NothingLost

-------------------------------------------------------------------------------
(* The main loop.                                                             *)

LEMMA PumpStep ==
  ASSUME MInv, IInv', Pump, UNCHANGED <<curBuffer, calibrationDone, converting, stage, refused>>,
         state' = state, call' \in {"enter", "post", "return"},
         call' # "return" => pc' = "callback",
         (call' = "post") <=> (call = "post"),
         offsets' = IF PumpCall /\ handler' = onCalib THEN "computed" ELSE offsets
  PROVE  MInv'
<1>1. /\ UNCHANGED <<owned, refs, lost, vec, queue, tail, data>>
      /\ \A b \in Bufs : FreeBuf(b) => FreeBuf(b)'
      /\ ~PumpAdvance => front' = front /\ size' = size
  BY PumpFrame DEF MInv, CalledInv
<1>2. OrderInv' /\ NoNullInv'
  BY OrderPump
<1>3. CalledInv'
  <2>1. ASSUME pc' = "callback", handler' = onRaw PROVE Current'.id = Raw
    <3>1. PumpCall
      BY <2>1 DEF Pump, PumpBegin, PumpSkip, PumpCall, PumpReturn, PumpScanned, PumpClear,
                  PumpUnlock, PumpAdvance
    <3>2. vec[Current.id][recv] = onRaw /\ recv \in Indexes /\ queue' = queue /\ front' = front
      BY <2>1, <3>1, SizeAssumption DEF PumpCall, ring, Indexes, MInv, IInv, TypeOK
    <3>3. Current.id \in MsgIds
      BY <3>1, DispatchFacts DEF PumpCall, MInv, IInv, RingInv, Entry
    <3> QED
      BY <3>2, <3>3 DEF MInv, CalledInv, Current
  <2> QED
    BY <1>1, <2>1 DEF MInv, CalledInv
<1>4. HeldInv' /\ FirstInv' /\ NothingLost'
  BY <1>1 DEF MInv, HeldInv, FirstInv, NothingLost
<1>5. MTypeOK'
  BY DEF IInv, MInv, MTypeOK
<1> QED
  BY <1>2, <1>3, <1>4, <1>5 DEF MInv

LEMMA OnRawGetInv == ASSUME MInv, OnRawGet PROVE MInv'
<1>1. IInv' /\ TypeOK'
  BY PumpInv DEF MNext, Loop
<1>2. /\ Got(State) /\ state' = Result /\ pc = "callback" /\ call = "enter"
      /\ call' = IF Result = Null THEN "return" ELSE "post"
      /\ UNCHANGED <<curBuffer, calibrationDone, converting, stage, offsets, refused>>
  BY DEF OnRawGet
<1>3. /\ UNCHANGED <<vec, data, ring, loop, lost>>
      /\ \/ Result = Null /\ UNCHANGED vars
         \/ \E b \in Bufs :
              /\ Result = b /\ b[1] = State /\ b \notin owned /\ owned' = owned \cup {b}
              /\ refs' = [refs EXCEPT ![b] = 1]
              /\ \A a \in Bufs : a # b => FreeBuf(a)' = FreeBuf(a)
  BY <1>2, GotStep, Ids DEF MInv, NoNullInv, CalledInv
<1>4. UNCHANGED <<vec, queue, front, size, pc, recv, handler, lost>>
  BY <1>3 DEF ring, loop
<1>5. OrderInv' /\ NoNullInv'
  BY <1>2, <1>4, OrderStill DEF Still
<1>6. state = Null
  BY <1>2 DEF MInv, HeldInv
<1>7. CASE Result = Null /\ UNCHANGED vars
  <2>1. UNCHANGED <<refs, owned, lost, flags, refCnt>>
    BY <1>7 DEF vars, headers, clients
  <2>2. CalledInv'
    BY <1>2, <1>4, <2>1, SameCalled DEF Current, MInv, CalledInv
  <2>3. MTypeOK' /\ HeldInv' /\ FirstInv' /\ NothingLost'
    BY <1>1, <1>2, <1>4, <1>6, <1>7, <2>1
       DEF MInv, MTypeOK, HeldInv, FirstInv, NothingLost, FreeBuf
  <2> QED
    BY <1>1, <1>5, <2>2, <2>3 DEF MInv
<1>8. ASSUME NEW b \in Bufs, Result = b, b[1] = State, b \notin owned, owned' = owned \cup {b},
             refs' = [refs EXCEPT ![b] = 1],
             \A a \in Bufs : a # b => FreeBuf(a)' = FreeBuf(a)
      PROVE  MInv'
  <2>1. \A a \in owned' : refs'[a] = 1
    BY <1>8 DEF MInv, CalledInv, IInv, TypeOK
  <2>2. CalledInv'
    BY <1>2, <1>4, <2>1, SameCalled DEF Current, MInv, CalledInv
  <2>3. MTypeOK'
    BY <1>1, <1>2, <1>8 DEF MInv, MTypeOK
  <2>4. HeldInv'
    BY <1>2, <1>4, <1>8, Ids DEF MInv, HeldInv
  <2>5. FirstInv'
    BY <1>2, <1>8, Ids DEF MInv, FirstInv
  <2>6. NothingLost'
    BY <1>2, <1>6, <1>8, Ids DEF MInv, NothingLost
  <2> QED
    BY <1>1, <1>5, <2>2, <2>3, <2>4, <2>5, <2>6 DEF MInv
<1> QED
  BY <1>3, <1>7, <1>8

LEMMA OnRawPostInv == ASSUME MInv, OnRawPost PROVE MInv'
<1>1. IInv' /\ TypeOK'
  BY PumpInv DEF MNext, Loop
<1>2. /\ PostOrNot(state) /\ state' = Null /\ call' = "return" /\ pc = "callback"
      /\ UNCHANGED <<curBuffer, calibrationDone, converting, stage, offsets>>
  BY DEF OnRawPost
<1>3. state \in Bufs /\ state \in owned /\ state # curBuffer /\ state # Null
  BY DEF OnRawPost, MInv, HeldInv, MTypeOK
<1>4. UNCHANGED <<vec, pc, recv, handler>>
  BY <1>2, <1>3, PostStep DEF MInv, NoNullInv, loop
<1>5. CASE PostOwn(state) /\ refused' = refused
  <2>1. /\ owned' = owned \ {state} /\ refs' = [refs EXCEPT ![state] = @ - 1]
        /\ \A a \in Bufs : a # state => FreeBuf(a)' = FreeBuf(a)
    BY <1>5 DEF PostOwn, FreeBuf, MInv, IInv, TypeOK
  <2>2. Posted(state[1]) /\ state[1] \in MsgIds /\ lost' = lost
    BY <1>3, <1>5, PostOwnQueues
  <2>3. OrderInv' /\ NoNullInv'
    <3>1. state[1] # Raw
      BY <1>3, Ids DEF MInv, HeldInv
    <3> QED
      BY <1>2, <1>4, <1>5, <2>2, <3>1, OrderPosted
  <2>4. CalledInv'
    <3>1. \A b \in owned' : refs'[b] = 1
      BY <1>3, <2>1 DEF MInv, CalledInv, IInv, TypeOK
    <3> QED
      BY <1>2, <1>4, <2>2, <3>1, PostedCurrent, SameCalled
  <2>5. MTypeOK' /\ HeldInv' /\ NothingLost'
    BY <1>1, <1>2, <1>3, <1>4, <1>5, <2>1 DEF MInv, MTypeOK, HeldInv, NothingLost
  <2>6. FirstInv'
    <3>1. stage # "measure" => ~(state[1] = Calib)
      BY <1>3, Ids DEF MInv, HeldInv
    <3> QED
      BY <1>2, <2>1, <3>1 DEF MInv, FirstInv
  <2> QED
    BY <1>1, <2>3, <2>4, <2>5, <2>6 DEF MInv
<1>6. CASE refused' = TRUE /\ UNCHANGED vars
  <2>1. UNCHANGED <<queue, front, size, pc, recv, flags, refCnt, refs, owned, lost>>
    BY <1>6 DEF vars, headers, ring, loop, clients
  <2>2. OrderInv' /\ NoNullInv'
    BY <1>2, <1>4, <1>6, <2>1, OrderStill DEF Still
  <2>3. CalledInv'
    BY <1>2, <1>4, <2>1, SameCalled DEF Current, MInv, CalledInv
  <2>4. MTypeOK' /\ HeldInv' /\ FirstInv' /\ NothingLost'
    BY <1>1, <1>2, <1>3, <1>6, <2>1 DEF MInv, MTypeOK, HeldInv, FirstInv, NothingLost, FreeBuf
  <2> QED
    BY <1>1, <2>2, <2>3, <2>4 DEF MInv
<1> QED
  BY <1>2, <1>3, <1>5, <1>6, PostStep DEF MInv, NoNullInv

LEMMA LoopInv == ASSUME MInv, Loop PROVE MInv'
<1>1. IInv' /\ TypeOK'
  BY PumpInv DEF MNext
<1>2. call \in {"enter", "post", "return"} /\ (call # "return" => pc = "callback")
  BY DEF MInv, MTypeOK, HeldInv
<1>3. CASE CallbackBegins
  <2>1. /\ PumpCall /\ pc = "scan" /\ pc' = "callback"
        /\ call' = IF handler' = onRaw THEN "enter" ELSE "return"
        /\ offsets' = IF handler' = onCalib THEN "computed" ELSE offsets
        /\ UNCHANGED <<curBuffer, calibrationDone, converting, stage, state, refused>>
    BY <1>3 DEF CallbackBegins, PumpCall
  <2>2. call = "return" /\ Pump
    BY <1>2, <2>1 DEF Pump
  <2> QED
    BY <1>1, <2>1, <2>2, PumpStep
<1>4. ASSUME UNCHANGED mvars, ~PumpCall, Pump, PumpReturn => call = "return" PROVE MInv'
  <2>1. UNCHANGED <<curBuffer, calibrationDone, converting, stage, offsets, call, state, refused>>
    BY <1>4 DEF mvars
  <2>2. pc = "callback" => PumpReturn
    BY <1>4 DEF Pump, PumpBegin, PumpSkip, PumpCall, PumpScanned, PumpClear, PumpUnlock, PumpAdvance
  <2> QED
    BY <1>1, <1>2, <1>4, <2>1, <2>2, PumpStep
<1>5. CASE CallbackReturns
  BY <1>4, <1>5 DEF CallbackReturns, Pump, PumpReturn, PumpCall
<1>6. CASE /\ PumpBegin \/ PumpSkip \/ PumpScanned \/ PumpClear \/ PumpUnlock \/ PumpAdvance
           /\ UNCHANGED mvars
  <2>1. Pump /\ ~PumpCall /\ ~PumpReturn
    BY <1>6 DEF Pump, PumpBegin, PumpSkip, PumpCall, PumpReturn, PumpScanned, PumpClear,
                PumpUnlock, PumpAdvance
  <2> QED
    BY <1>4, <1>6, <2>1
<1> QED
  BY <1>3, <1>5, <1>6, OnRawGetInv, OnRawPostInv DEF Loop

LEMMA StepInv == MInv /\ [MNext]_all => MInv'
<1> SUFFICES ASSUME MInv, [MNext]_all PROVE MInv'
  OBVIOUS
<1>1. CASE UNCHANGED all
  <2>1. /\ UNCHANGED <<vec, flags, refCnt, queue, front, size, pc, recv, handler, refs, owned, lost>>
        /\ UNCHANGED <<curBuffer, calibrationDone, converting, stage, offsets, call, state, refused>>
    BY <1>1 DEF all, vars, mvars, headers, ring, loop, clients
  <2>2. OrderInv' /\ NoNullInv'
    BY <2>1, OrderStill DEF Still
  <2>3. CalledInv'
    BY <2>1, SameCalled DEF Current, MInv, CalledInv
  <2>4. IInv' /\ TypeOK'
    BY PumpInv
  <2> QED
    BY <2>1, <2>2, <2>3, <2>4 DEF MInv, MTypeOK, HeldInv, FirstInv, NothingLost, FreeBuf
<1> QED
  BY <1>1, BootInv, TimerInv, MeasurementIsrInv, LoopInv, OtherInv, ConvertInv DEF MNext

LEMMA InitInv == MInit => MInv
<1> SUFFICES ASSUME MInit PROVE MInv
  OBVIOUS
<1>1. IInv /\ TypeOK
  BY InitIInv DEF MInit, IInv
<1>2. \A s \in Slots : ~Waiting(s)
  BY SizeAssumption DEF MInit, Init, Waiting, Live, Offset, Slots
<1>3. CalledInv
  BY Ids DEF MInit, Init, CalledInv
<1> QED
  BY <1>1, <1>2, <1>3 DEF MInit, Init, MInv, MTypeOK, HeldInv, FirstInv, NoNullInv, NothingLost,
                          OrderInv, FreeBuf

-------------------------------------------------------------------------------
(* Theorem MeasuringInvariant: converter, callback and pump agree on whose    *)
(* each buffer is, however conversions, timers and other posts interleave.    *)
THEOREM MeasuringInvariant == MSpec => []MInv
  BY InitInv, StepInv, PTL DEF MSpec

(* Theorem MeasuringUsesPump: with the measuring on it, the pump takes only   *)
(* the steps MsgPump describes, so every theorem about the pump holds.        *)
THEOREM MeasuringUsesPump == MSpec => Spec
<1>1. MInit => Init
  BY DEF MInit
<1> QED
  BY <1>1, PumpOnly, MeasuringInvariant, PTL DEF MSpec, Spec

(* Theorem MeasuringDmaTarget: DMA writes only to a buffer that nobody else   *)
(* has and that belongs to the message it becomes.                            *)
THEOREM MeasuringDmaTarget == MSpec => []DmaTargetReserved
<1>1. MInv => DmaTargetReserved
  <2> SUFFICES ASSUME MInv, converting PROVE DmaTargetReserved
    BY DEF DmaTargetReserved
  <2>1. /\ curBuffer \in Bufs /\ curBuffer \in owned /\ curBuffer # state
        /\ curBuffer[1] = (IF calibrationDone THEN Raw ELSE Calib)
    BY DEF MInv, MTypeOK, HeldInv
  <2>2. ~Queued(curBuffer) /\ flags[curBuffer] = "InUse"
    BY <2>1 DEF MInv, CalledInv, IInv, OwnedInv
  <2> QED
    BY <2>1, <2>2 DEF DmaTargetReserved, FreeBuf
<1> QED
  BY <1>1, MeasuringInvariant, PTL

(* Theorem MeasuringCalibratedFirst: as long as no post was refused, no raw   *)
(* measurement is evaluated before the offsets are computed.                  *)
THEOREM MeasuringCalibratedFirst == MSpec => []CalibratedFirst
<1>1. MInv => CalibratedFirst
  <2> SUFFICES ASSUME MInv, pc = "callback", handler = onRaw, ~refused, offsets # "computed"
               PROVE  FALSE
    BY DEF CalibratedFirst
  <2>1. front \in Slots /\ Waiting(front)
    BY DispatchFacts DEF MInv, IInv, RingInv
  <2>2. queue[front].id = Raw
    BY DEF MInv, CalledInv, Current
  <2>3. calibrationDone /\ offsets = "zero"
    BY <2>1, <2>2 DEF MInv, OrderInv, MTypeOK
  <2>4. PICK s \in Slots : CalibWaits(s)
    BY <2>3 DEF MInv, OrderInv
  <2>5. Offset(s) < Offset(front)
    BY <2>1, <2>2, <2>4 DEF CalibWaits
  <2>6. Offset(front) = 0 /\ Offset(s) >= 0 /\ Offset(s) \in Int
    BY <2>1, SizeAssumption DEF Offset, Slots
  <2> QED
    BY <2>5, <2>6
<1> QED
  BY <1>1, MeasuringInvariant, PTL

(* Theorem MeasuringNothingLost: only a refused post loses a buffer.          *)
THEOREM MeasuringNothingLost == MSpec => []NothingLost
<1>1. MInv => NothingLost
  BY DEF MInv
<1> QED
  BY <1>1, MeasuringInvariant, PTL
===============================================================================
