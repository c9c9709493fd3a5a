----------------------------- MODULE SwTimerProofs -----------------------------
(* Four facts about the software timers, for any callbacks, slots and        *)
(* intervals: a callback has one slot, between two scans the hardware timer  *)
(* is set to the earliest deadline, no callback is called early, and none    *)
(* has more than its interval to wait.                                       *)
EXTENDS SwTimer, WellFoundedInduction, TLAPS

-------------------------------------------------------------------------------
(* The types the proof needs: what a handle is, and natural numbers.         *)
Handle == [callback : Callbacks \cup {None}, interval : Intervals \cup {0},
           tickCounter : Int, oneShot : BOOLEAN]

Types ==
  /\ handles \in [Indexes -> Handle]
  /\ cen \in BOOLEAN /\ irq \in BOOLEAN
  /\ psc \in Nat /\ ccr \in 0..Top /\ ticks \in Nat
  /\ pc \in {"open", "scan", "callback"}
  /\ slot \in Nat /\ slot <= Slots
  /\ pc = "callback" => slot < Slots
  /\ elapsed \in Nat /\ next \in Int /\ least \in {MinRegister, MinTrigger}

Used(i) == handles[i].callback # None
Tc(i)   == handles[i].tickCounter

(* The running scan has dealt with slot i. *)
Done(i) == pc = "open" \/ i < slot

(* The latest deadline there is once the elapsed ticks are taken off.        *)
Near == Most(MaxTicks, Longest)

NearInv == \A i \in Indexes : Used(i) =>
             /\ Done(i) \/ (pc = "callback" /\ i = slot) => Tc(i) <= Near
             /\ ~Done(i) => Tc(i) - elapsed <= Near

(* nextInterval is no later than any deadline the scan has seen.             *)
NextInv == pc # "open" =>
             /\ next = Far \/ next <= Near
             /\ \A i \in Indexes \ skipped : Used(i) /\ i < slot => next <= Tc(i)

(* The hardware timer has not reached its compare value without an interrupt.*)
RunInv == cen /\ ~irq => ticks < Deadline

TimerInv == Types /\ NearInv /\ NextInv /\ RunInv /\ Armed

-------------------------------------------------------------------------------
(* Intervals are below Far, so that there is a longest one.                  *)

LEMMA Smallest ==
  ASSUME NEW S \in SUBSET Nat, S # {}
  PROVE  \E m \in S : \A k \in S : m <= k
<1> DEFINE R == OpToRel(<, Nat)
<1>1. IsWellFoundedOn(R, Nat)
  BY NatLessThanWellFounded
<1>2. \E m \in S : \A k \in S : ~(<<k, m>> \in R)
  <2> HIDE DEF R
  <2> QED BY <1>1, WFMin, Zenon
<1>3. PICK m \in S : \A k \in S : ~(<<k, m>> \in R)
  BY <1>2
<1>4. ASSUME NEW k \in S PROVE m <= k
  <2>1. k < m => <<k, m>> \in R
    BY DEF OpToRel
  <2>2. ~(k < m)
    BY <1>3, <2>1
  <2>3. k \in Nat /\ m \in Nat
    OBVIOUS
  <2> HIDE DEF R
  <2> QED BY <2>2, <2>3
<1> QED BY <1>4

LEMMA FarType == Far \in Nat /\ Far > 0
BY SMT DEF Far

LEMMA LongestInterval == Longest \in Intervals /\ \A t \in Intervals : t <= Longest
<1>1. Far \in Nat /\ Intervals \subseteq Nat /\ \A t \in Intervals : t < Far
  BY SizeAssumption, IntervalAssumption, FarType
<1> DEFINE Short == {Far - t : t \in Intervals}
<1>2. Short \subseteq Nat /\ Short # {}
  <2>1. \A t \in Intervals : Far - t \in Nat
    BY <1>1
  <2> QED BY <2>1, SizeAssumption
<1>3. PICK m \in Short : \A k \in Short : m <= k
  BY <1>2, Smallest
<1>4. PICK n \in Intervals : m = Far - n
  BY <1>3
<1>5. \A t \in Intervals : t <= n
  <2> SUFFICES ASSUME NEW t \in Intervals PROVE t <= n
    OBVIOUS
  <2>1. Far - n <= Far - t
    BY <1>3, <1>4
  <2> QED BY <1>1, <2>1
<1> QED BY <1>5 DEF Longest

LEMMA NearType ==
  /\ Far \in Nat /\ Near \in Nat /\ Near < Far /\ MaxTicks <= Near /\ MaxTicks \in Nat
  /\ \A t \in Intervals \cup {0} : t \in Nat /\ t <= Near
<1>1. MaxTicks \in Nat /\ Longest \in Nat /\ MaxTicks < Far /\ Longest < Far
  BY LongestInterval, SizeAssumption, IntervalAssumption
<1>2. Near \in Nat /\ Near < Far /\ MaxTicks <= Near /\ Longest <= Near
  BY <1>1 DEF Near, Most
<1>3. \A t \in Intervals \cup {0} : t \in Nat /\ t <= Longest
  BY <1>1, LongestInterval, SizeAssumption
<1> QED BY <1>1, <1>2, <1>3, FarType

-------------------------------------------------------------------------------
(* Facts about division: hw_timerSetupTimer and hw_timerGetTicksElapsed.     *)


LEMMA DivBounds ==
  ASSUME NEW t \in Nat, NEW d \in Nat \ {0}
  PROVE  /\ t \div d \in Nat
         /\ d * (t \div d) \in Nat
         /\ d * (t \div d) <= t
         /\ t \div d <= t
BY Z3

LEMMA LeastType == ASSUME NEW a \in Int, NEW b \in Int
                   PROVE  Least(a, b) \in Int /\ Least(a, b) <= a /\ Least(a, b) <= b
                          /\ (Least(a, b) = a \/ Least(a, b) = b)
BY DEF Least

LEMMA MostType == ASSUME NEW a \in Int, NEW b \in Int
                  PROVE  Most(a, b) \in Int /\ a <= Most(a, b) /\ b <= Most(a, b)
                         /\ (Most(a, b) = a \/ Most(a, b) = b)
BY DEF Most

LEMMA ElapsedType == ASSUME psc \in Nat, ticks \in Nat PROVE Elapsed \in Nat
BY DivBounds DEF Elapsed, Count

LEMMA CounterType == ASSUME Types, NEW i \in Indexes PROVE Tc(i) \in Int
BY DEF Types, Handle, Tc

(* The compare value is reached after at most t ticks, and not at once.      *)
LEMMA SetupDeadline ==
  ASSUME NEW t \in Nat, t > 0, SetupTimer(t)
  PROVE  /\ psc' \in Nat /\ ccr' \in 0..Top /\ ticks' = 0 /\ cen' = TRUE /\ sr' = FALSE
         /\ Deadline' <= t
         /\ Deadline' > 0
<1>1. Top + 1 \in Nat \ {0} /\ Top \in Nat /\ Top >= 1
  BY SizeAssumption
<1>2. psc' = t \div (Top + 1) /\ psc' \in Nat
  BY <1>1, DivBounds DEF SetupTimer
<1>3. psc' + 1 \in Nat \ {0}
  BY <1>2
<1> DEFINE q == t \div (psc' + 1)
<1>4. q \in Nat /\ (psc' + 1) * q <= t
  BY <1>3, DivBounds
<1>5. psc' + 1 <= t
  <2>1. (Top + 1) * psc' <= t
    BY <1>1, <1>2, DivBounds
  <2>2. 2 * psc' <= (Top + 1) * psc'
    BY <1>1, <1>2, Z3
  <2> QED BY <2>1, <2>2, <1>1, <1>2, Z3
<1>6. q >= 1
  BY <1>3, <1>5, Z3
<1>7. ccr' = Least(q, Top)
  BY DEF SetupTimer
<1>8. ccr' \in 0..Top /\ ccr' >= 1 /\ ccr' <= q
  BY <1>1, <1>4, <1>6, <1>7 DEF Least
<1>9. (psc' + 1) * ccr' <= (psc' + 1) * q /\ (psc' + 1) * ccr' \in Nat
  BY <1>3, <1>4, <1>8, Z3
<1>10. (psc' + 1) * ccr' > 0
  BY <1>3, <1>8, Z3
<1> QED BY <1>2, <1>4, <1>8, <1>9, <1>10 DEF SetupTimer, Deadline

-------------------------------------------------------------------------------
(* One slot per callback.                                                    *)

HandlesType == handles \in [Indexes -> Handle]

OneSlotInv == HandlesType /\ OneSlot

(* A new or updated handle cannot double a callback: SlotFor gives the slot  *)
(* the callback has, or it has none.                                         *)
LEMMA AssignOneSlot ==
  ASSUME OneSlot, HandlesType,
         NEW c \in Callbacks, NEW i \in Indexes, SlotFor(c, i),
         HandlesType', handles'[i].callback = c,
         \A j \in Indexes : j # i => handles'[j] = handles[j]
  PROVE  OneSlot'
<1>1. \A j \in Indexes : j # i => handles[j].callback # c
  BY NoneAssumption DEF OneSlot, SlotFor
<1> QED BY <1>1 DEF OneSlot

-------------------------------------------------------------------------------
(* The invariant holds initially. *)
LEMMA TimerInit == Init => TimerInv /\ OneSlotInv
<1> SUFFICES ASSUME Init PROVE TimerInv /\ OneSlotInv
  OBVIOUS
<1>1. Free \in Handle /\ Free.callback = None
  BY NearType DEF Free, Handle
<1>2. \A i \in Indexes : ~Used(i)
  BY <1>1 DEF Init, Used
<1>3. HandlesType
  BY <1>1 DEF Init, HandlesType
<1>4. cen \in BOOLEAN /\ irq \in BOOLEAN /\ pc \in {"open", "scan", "callback"}
      /\ (pc = "callback" => slot < Slots) /\ least \in {MinRegister, MinTrigger}
  BY DEF Init
<1>5. psc \in Nat /\ ccr \in 0..Top /\ ticks \in Nat /\ slot \in Nat /\ slot <= Slots
      /\ elapsed \in Nat /\ next \in Int
  BY SizeAssumption, NearType DEF Init
<1>6. NearInv /\ Armed
  BY <1>2 DEF NearInv, Armed, Used
<1>7. NextInv /\ RunInv
  BY DEF Init, NextInv, RunInv
<1>8. OneSlot
  BY <1>2 DEF OneSlot, Used
<1> QED BY <1>3, <1>4, <1>5, <1>6, <1>7, <1>8 DEF TimerInv, Types, OneSlotInv, HandlesType

-------------------------------------------------------------------------------
(* The steps. *)

LEMMA TickKeeps == ASSUME TimerInv, OneSlotInv, Tick PROVE TimerInv' /\ OneSlotInv'
<1> USE DEF TimerInv, OneSlotInv, HandlesType
<1>1. UNCHANGED <<handles, psc, ccr, scan, skipped>> /\ pc = "open"
  BY DEF Tick
<1>2. OneSlotInv'
  BY <1>1 DEF OneSlot, Handle
<1>3. cen' \in BOOLEAN /\ irq' \in BOOLEAN
  BY DEF Tick, Types
<1>4. ticks' \in Nat
  BY DEF Tick, Types
<1>5. Types'
  BY <1>1, <1>3, <1>4 DEF Types, scan, Handle
<1>6. NearInv' /\ NextInv'
  BY <1>1 DEF NearInv, NextInv, scan, Used, Tc, Done
<1>7. RunInv'
  <2> SUFFICES ASSUME cen', ~irq' PROVE ticks' < Deadline'
    BY DEF RunInv
  <2>1. cen /\ ~irq
    BY DEF Tick
  <2>2. ticks' = ticks + 1 /\ ticks < Deadline /\ Deadline' = Deadline
    BY <1>1, <2>1 DEF Tick, RunInv, Deadline
  <2>3. (ticks + 1) \div (psc + 1) # ccr
    BY <2>1 DEF Tick
  <2>4. ticks + 1 # Deadline
    BY <2>3, Z3 DEF Deadline, Types
  <2> QED BY <2>2, <2>4, Z3 DEF Types, Deadline
<1>8. Armed'
  <2> SUFFICES ASSUME ~irq', NEW i \in Indexes \ skipped, Used(i)
               PROVE  cen' /\ Deadline' <= Most(Tc(i)', Most(MinRegister, MinTrigger))
    BY <1>1 DEF Armed, Used, Tc, scan
  <2>1. ~irq
    BY DEF Tick
  <2>2. cen /\ Deadline <= Most(Tc(i), Most(MinRegister, MinTrigger))
    BY <1>1, <2>1 DEF Armed, Used, Tc
  <2>3. ~Overflows
    <3>1. cen => ticks < (psc + 1) * ccr
      BY <2>1 DEF RunInv, Deadline
    <3>2. (psc + 1) * ccr <= (psc + 1) * Top /\ (psc + 1) * Top < (psc + 1) * (Top + 1)
      BY SizeAssumption, Z3 DEF Types
    <3> QED BY <2>2, <3>1, <3>2, SizeAssumption, Z3 DEF Types, Overflows
  <2> QED BY <1>1, <2>1, <2>2, <2>3 DEF Tick, Deadline, Tc
<1> QED BY <1>2, <1>5, <1>6, <1>7, <1>8

(* A scan begins: no slot is done, and every deadline will do. *)
LEMMA BeginScanKeeps ==
  ASSUME Types, RunInv, OneSlotInv', NEW l \in {MinRegister, MinTrigger}, BeginScan(l),
         \A i \in Indexes : Used(i)' => Tc(i)' - Elapsed <= Near,
         UNCHANGED <<ticks, psc, ccr>>, cen' \in BOOLEAN, irq' \in BOOLEAN, RunInv'
  PROVE  TimerInv'
<1>1. elapsed' \in Nat /\ elapsed' = Elapsed
  BY ElapsedType DEF BeginScan, Types
<1>2. pc' = "scan" /\ slot' = 0 /\ next' = Far /\ least' = l
  BY DEF BeginScan
<1>3. Types'
  BY <1>1, <1>2, NearType, SizeAssumption DEF Types, OneSlotInv, HandlesType
<1>4. NearInv'
  BY <1>1, <1>2 DEF NearInv, Done, Indexes
<1>5. NextInv'
  BY <1>2, NearType DEF NextInv, Indexes
<1>6. Armed'
  BY <1>2 DEF Armed
<1> QED BY <1>3, <1>4, <1>5, <1>6 DEF TimerInv

(* What Assign puts into a slot, and that it leaves the others alone.        *)
LEMMA AssignFacts ==
  ASSUME Types, NEW c \in Callbacks, NEW i \in Indexes, NEW t \in Intervals,
         NEW once \in BOOLEAN, Assign(i, c, t, once)
  PROVE  /\ HandlesType'
         /\ handles'[i].callback = c
         /\ handles'[i].tickCounter = t + Elapsed
         /\ \A j \in Indexes : j # i => handles'[j] = handles[j]
<1>1. t \in Nat /\ t + Elapsed \in Int
  BY SizeAssumption, ElapsedType DEF Types
<1> DEFINE h == [callback |-> c, interval |-> t, oneShot |-> once, tickCounter |-> t + Elapsed]
<1>2. h \in Handle
  BY <1>1 DEF Handle
<1>3. handles' = [handles EXCEPT ![i] = h]
  BY DEF Assign
<1> HIDE DEF h
<1>4. HandlesType' /\ handles'[i] = h /\ \A j \in Indexes : j # i => handles'[j] = handles[j]
  BY <1>2, <1>3 DEF Types, HandlesType
<1> QED BY <1>4 DEF h

LEMMA RegisterKeeps ==
  ASSUME TimerInv, OneSlotInv, NEW c \in Callbacks, NEW t \in Intervals, NEW once \in BOOLEAN,
         Register(c, t, once)
  PROVE  TimerInv' /\ OneSlotInv'
<1> USE DEF TimerInv
<1>1. pc = "open" /\ BeginScan(MinRegister) /\ UNCHANGED <<hw, irq>>
  BY DEF Register
<1>2. Elapsed \in Nat
  BY ElapsedType DEF Types
<1>3. \A i \in Indexes : Used(i) => Tc(i) - Elapsed <= Near
  BY <1>1, <1>2, NearType DEF NearInv, Done, Types, Handle, Tc
<1>4. OneSlotInv' /\ \A i \in Indexes : Used(i)' => Tc(i)' - Elapsed <= Near
  <2>1. CASE \E i \in Indexes : SlotFor(c, i) /\ Assign(i, c, t, once)
    <3> PICK i \in Indexes : SlotFor(c, i) /\ Assign(i, c, t, once)
      BY <2>1
    <3>1. /\ HandlesType' /\ handles'[i].callback = c
          /\ handles'[i].tickCounter = t + Elapsed
          /\ \A j \in Indexes : j # i => handles'[j] = handles[j]
      BY AssignFacts
    <3>2. OneSlot'
      BY <3>1, AssignOneSlot DEF OneSlotInv
    <3>3. \A j \in Indexes : Used(j)' => Tc(j)' - Elapsed <= Near
      BY <1>2, <1>3, <3>1, IntervalAssumption, SizeAssumption, NearType DEF Used, Tc
    <3> QED BY <3>1, <3>2, <3>3 DEF OneSlotInv
  <2>2. CASE UNCHANGED <<handles, left>>
    BY <1>3, <2>2 DEF OneSlotInv, HandlesType, OneSlot, Used, Tc
  <2> QED BY <2>1, <2>2 DEF Register
<1>5. RunInv' /\ UNCHANGED <<ticks, psc, ccr>> /\ cen' \in BOOLEAN /\ irq' \in BOOLEAN
  BY <1>1 DEF RunInv, Deadline, hw, Types
<1> QED BY <1>1, <1>4, <1>5, BeginScanKeeps

LEMMA InterruptKeeps == ASSUME TimerInv, OneSlotInv, Interrupt PROVE TimerInv' /\ OneSlotInv'
<1> USE DEF TimerInv
<1>1. pc = "open" /\ BeginScan(MinTrigger) /\ UNCHANGED <<handles, ticks, psc, ccr>>
      /\ cen' = FALSE /\ irq' = FALSE
  BY DEF Interrupt
<1>2. Elapsed \in Nat
  BY ElapsedType DEF Types
<1>3. \A i \in Indexes : Used(i)' => Tc(i)' - Elapsed <= Near
  BY <1>1, <1>2, NearType DEF NearInv, Done, Types, Handle, Used, Tc
<1>4. OneSlotInv' /\ RunInv'
  BY <1>1 DEF OneSlotInv, HandlesType, OneSlot, RunInv
<1> QED BY <1>1, <1>3, <1>4, BeginScanKeeps

(* A callback registers a timer: a slot the scan has passed is skipped.      *)
LEMMA RegisterNestedKeeps ==
  ASSUME TimerInv, OneSlotInv, NEW c \in Callbacks, NEW t \in Intervals, NEW once \in BOOLEAN,
         RegisterNested(c, t, once)
  PROVE  TimerInv' /\ OneSlotInv'
<1> USE DEF TimerInv
<1>1. pc = "callback" /\ t + Elapsed <= MaxTicks /\ UNCHANGED <<hw, irq, scan>>
  BY DEF RegisterNested
<1>2. PICK i \in Indexes : /\ SlotFor(c, i) /\ Assign(i, c, t, once)
                           /\ skipped' = IF i < slot THEN skipped \cup {i} ELSE skipped
  BY DEF RegisterNested
<1>3. /\ HandlesType' /\ handles'[i].callback = c
      /\ handles'[i].tickCounter = t + Elapsed
      /\ \A j \in Indexes : j # i => handles'[j] = handles[j]
  BY <1>2, AssignFacts
<1>4. OneSlotInv'
  BY <1>2, <1>3, AssignOneSlot DEF OneSlotInv
<1>5. Types'
  BY <1>1, <1>3 DEF Types, HandlesType, hw, scan
<1>6. Tc(i)' <= Near /\ Tc(i)' - elapsed' <= Near
  <2>1. Elapsed \in Nat /\ elapsed' = elapsed /\ elapsed \in Nat /\ t \in Nat
    BY <1>1, ElapsedType, SizeAssumption DEF Types, scan
  <2> QED BY <1>1, <1>3, <2>1, IntervalAssumption, SizeAssumption, NearType DEF Tc
<1>7. NearInv'
  BY <1>1, <1>3, <1>6 DEF NearInv, Done, Used, Tc, scan
<1>8. NextInv'
  BY <1>1, <1>2, <1>3 DEF NextInv, Used, Tc, scan
<1>9. RunInv' /\ Armed'
  BY <1>1 DEF RunInv, Deadline, Armed, hw, scan
<1> QED BY <1>4, <1>5, <1>7, <1>8, <1>9

LEMMA UnregisterKeeps ==
  ASSUME TimerInv, OneSlotInv, NEW c \in Callbacks, Unregister(c)
  PROVE  TimerInv' /\ OneSlotInv'
<1> USE DEF TimerInv
<1>1. UNCHANGED <<hw, irq, scan, skipped>>
  BY DEF Unregister
<1>2. PICK i \in Indexes : handles' = [handles EXCEPT ![i] = Free]
  BY DEF Unregister
<1>3. Free \in Handle /\ Free.callback = None
  BY NearType DEF Free, Handle
<1>4. HandlesType' /\ ~Used(i)' /\ \A j \in Indexes : j # i => handles'[j] = handles[j]
  BY <1>2, <1>3 DEF HandlesType, Types, Used
<1>5. OneSlotInv'
  BY <1>4 DEF OneSlotInv, OneSlot, Used
<1>6. Types'
  BY <1>1, <1>4 DEF Types, HandlesType, hw, scan
<1>7. NearInv' /\ NextInv'
  BY <1>1, <1>4 DEF NearInv, NextInv, Done, Used, Tc, scan
<1>8. Armed'
  BY <1>1, <1>4 DEF Armed, Deadline, Used, hw, scan
<1>9. RunInv'
  BY <1>1 DEF RunInv, Deadline, hw
<1> QED BY <1>5, <1>6, <1>7, <1>8, <1>9

LEMMA ScanFreeKeeps == ASSUME TimerInv, OneSlotInv, ScanFree PROVE TimerInv' /\ OneSlotInv'
<1> USE DEF TimerInv
<1>1. /\ pc = "scan" /\ slot < Slots /\ slot' = slot + 1
      /\ UNCHANGED <<handles, hw, irq, pc, elapsed, next, least, skipped>>
  BY DEF ScanFree, At, hist
<1>2. slot \in Indexes => ~Used(slot)
  BY DEF ScanFree, At, Used
<1>3. OneSlotInv'
  BY <1>1 DEF OneSlotInv, HandlesType, OneSlot
<1>4. Types'
  BY <1>1, SizeAssumption DEF Types, hw
<1>5. NearInv' /\ NextInv'
  BY <1>1, <1>2, SizeAssumption DEF NearInv, NextInv, Done, Used, Tc, Types, Indexes
<1>6. RunInv' /\ Armed'
  BY <1>1 DEF RunInv, Deadline, Armed, hw
<1> QED BY <1>3, <1>4, <1>5, <1>6

(* The ticks elapsed are taken off, and the deadline is among those seen.    *)
LEMMA ScanRunningKeeps ==
  ASSUME TimerInv, OneSlotInv, ScanRunning PROVE TimerInv' /\ OneSlotInv'
<1> USE DEF TimerInv
<1>1. PICK i \in Indexes :
        /\ pc = "scan" /\ slot = i /\ slot < Slots /\ Used(i)
        /\ handles' = [handles EXCEPT ![i].tickCounter = Rest(i)]
        /\ next' = Least(next, Rest(i))
        /\ slot' = slot + 1
        /\ UNCHANGED <<hw, irq, pc, elapsed, least, skipped>>
  BY DEF ScanRunning, At, hist, Used
<1>2. Rest(i) \in Int
  BY DEF Rest, Types, Handle
<1>3. /\ HandlesType'
      /\ \A j \in Indexes : handles'[j].callback = handles[j].callback
      /\ \A j \in Indexes : j # i => handles'[j] = handles[j]
  BY <1>1, <1>2 DEF HandlesType, Types, Handle
<1>4. Tc(i)' = Rest(i)
  BY <1>1 DEF Tc, Types, Handle
<1>5. OneSlotInv'
  <2>1. OneSlot'
    <3> SUFFICES ASSUME NEW j \in Indexes, NEW k \in Indexes,
                        handles'[j].callback = handles'[k].callback, handles'[j].callback # None
                 PROVE  j = k
      BY DEF OneSlot
    <3>1. handles[j].callback = handles[k].callback /\ handles[j].callback # None
      BY <1>3
    <3> QED BY <3>1 DEF OneSlotInv, OneSlot
  <2> QED BY <1>3, <2>1 DEF OneSlotInv
<1>6. next' \in Int /\ next' <= next /\ next' <= Rest(i) /\ next' \in {next, Rest(i)}
  BY <1>1, <1>2, LeastType DEF Types
<1>7. Types'
  BY <1>1, <1>3, <1>6, SizeAssumption DEF Types, HandlesType, hw
<1>8. Rest(i) <= Near
  BY <1>1 DEF NearInv, Done, Rest, Tc, Types
<1>9. NearInv'
  <2> SUFFICES ASSUME NEW j \in Indexes, Used(j)
               PROVE  /\ Done(j)' => Tc(j)' <= Near
                      /\ ~Done(j)' => Tc(j)' - elapsed <= Near
    BY <1>1, <1>3 DEF NearInv, Used
  <2>1. CASE j = i
    BY <1>1, <1>4, <1>8, <2>1, SizeAssumption DEF Done, Indexes
  <2>2. CASE j # i
    <3>1. Done(j)' <=> Done(j)
      BY <1>1, <2>2, SizeAssumption DEF Done, Indexes
    <3>2. Tc(j)' = Tc(j)
      BY <1>3, <2>2 DEF Tc
    <3> QED BY <3>1, <3>2 DEF NearInv
  <2> QED BY <2>1, <2>2
<1>10. NextInv'
  <2>0. next' = Far \/ next' <= Near
    BY <1>1, <1>6, <1>8 DEF NextInv
  <2> SUFFICES ASSUME NEW j \in Indexes \ skipped, Used(j), j < slot + 1
               PROVE  next' <= Tc(j)'
    BY <1>1, <1>3, <2>0 DEF NextInv, Types, Used
  <2>1. CASE j = i
    BY <1>4, <1>6, <2>1
  <2>2. CASE j # i
    <3>1. j < slot
      <4>1. j \in Int /\ i \in Int
        BY SizeAssumption DEF Indexes
      <4>2. slot = i
        BY <1>1
      <4> QED BY <2>2, <4>1, <4>2
    <3>2. next <= Tc(j) /\ Tc(j) \in Int
      BY <1>1, <3>1, CounterType DEF NextInv
    <3>3. Tc(j)' = Tc(j)
      BY <1>3, <2>2 DEF Tc
    <3>4. next \in Int
      BY DEF Types
    <3> QED BY <1>6, <3>2, <3>3, <3>4
  <2> QED BY <2>1, <2>2
<1>11. RunInv' /\ Armed'
  BY <1>1 DEF RunInv, Deadline, Armed, hw
<1> QED BY <1>5, <1>7, <1>9, <1>10, <1>11

LEMMA ScanExpiredKeeps ==
  ASSUME TimerInv, OneSlotInv, ScanExpired PROVE TimerInv' /\ OneSlotInv'
<1> USE DEF TimerInv
<1>1. PICK i \in Indexes :
        /\ pc = "scan" /\ slot = i /\ slot < Slots /\ Used(i)
        /\ handles' = [handles EXCEPT ![i] = Rescheduled(handles[i], Rest(i))]
        /\ pc' = "callback"
        /\ UNCHANGED <<hw, irq, slot, elapsed, next, least, skipped>>
  BY DEF ScanExpired, At, Used
<1> DEFINE h == Rescheduled(handles[i], Rest(i))
<1>2. h \in Handle /\ h.callback \in {None, handles[i].callback}
      /\ (h.callback # None => h.tickCounter <= Near)
  <2>1. CASE handles[i].oneShot
    BY <2>1, NearType DEF Rescheduled, Free, Handle
  <2>2. CASE ~handles[i].oneShot
    <3> DEFINE k == Least(Most(Rest(i) + handles[i].interval, 0), handles[i].interval)
    <3>1. handles[i] \in Handle /\ handles[i].interval \in Nat /\ Rest(i) \in Int
          /\ handles[i].interval <= Near
      BY NearType DEF Types, Handle, Rest
    <3>2. Most(Rest(i) + handles[i].interval, 0) \in Int
      BY <3>1, NearType DEF Most
    <3>3. k \in Int /\ k <= Near
      BY <3>1, <3>2, NearType DEF Least
    <3>4. h = [handles[i] EXCEPT !.tickCounter = k]
      BY <2>2 DEF Rescheduled
    <3> HIDE DEF h, k
    <3> QED BY <3>1, <3>3, <3>4 DEF Handle
  <2> QED BY <2>1, <2>2
<1> HIDE DEF h
<1>3. HandlesType' /\ handles'[i] = h /\ \A j \in Indexes : j # i => handles'[j] = handles[j]
  BY <1>1, <1>2 DEF HandlesType, Types, h
<1>4. OneSlotInv'
  BY <1>2, <1>3 DEF OneSlotInv, OneSlot
<1>5. Types'
  BY <1>1, <1>3 DEF Types, HandlesType, hw
<1>6. Used(i)' => Tc(i)' <= Near /\ Tc(i)' - elapsed' <= Near
  BY <1>1, <1>2, <1>3, NearType DEF Used, Tc, Types, Handle
<1>7. NearInv'
  BY <1>1, <1>3, <1>6, SizeAssumption DEF NearInv, Done, Used, Tc, Types, Indexes
<1>8. NextInv'
  BY <1>1, <1>3, SizeAssumption DEF NextInv, Used, Tc, Types, Indexes
<1>9. RunInv' /\ Armed'
  BY <1>1 DEF RunInv, Deadline, Armed, hw
<1> QED BY <1>4, <1>5, <1>7, <1>8, <1>9

LEMMA CallbackReturnsKeeps ==
  ASSUME TimerInv, OneSlotInv, CallbackReturns PROVE TimerInv' /\ OneSlotInv'
<1> USE DEF TimerInv
<1>1. /\ pc = "callback" /\ pc' = "scan" /\ slot' = slot + 1 /\ slot < Slots
      /\ next' = IF Used(slot) THEN Least(next, Tc(slot)) ELSE next
      /\ UNCHANGED <<handles, hw, irq, elapsed, least, skipped>>
  BY DEF CallbackReturns, hist, Types, Used, Tc
<1>2. slot \in Indexes /\ Tc(slot) \in Int
  BY <1>1, SizeAssumption DEF Types, Indexes, Tc, Handle
<1>3. next' \in Int /\ next' <= next /\ (Used(slot) => next' <= Tc(slot))
      /\ (next' = next \/ (Used(slot) /\ next' = Tc(slot)))
  BY <1>1, <1>2, LeastType DEF Types
<1>4. OneSlotInv'
  BY <1>1 DEF OneSlotInv, HandlesType, OneSlot
<1>5. Types'
  BY <1>1, <1>3, SizeAssumption DEF Types, hw
<1>6. NearInv'
  BY <1>1, SizeAssumption DEF NearInv, Done, Used, Tc, Types, Indexes
<1>7. NextInv'
  <2>0. next' = Far \/ next' <= Near
    <3>1. Used(slot) => Tc(slot) <= Near
      BY <1>1, <1>2 DEF NearInv
    <3> QED BY <1>1, <1>3, <3>1 DEF NextInv
  <2> SUFFICES ASSUME NEW j \in Indexes \ skipped, Used(j), j < slot + 1
               PROVE  next' <= Tc(j)
    BY <1>1, <1>3, <2>0 DEF NextInv, Types, Used, Tc
  <2>1. CASE j = slot
    BY <1>3, <2>1
  <2>2. CASE j # slot
    <3>1. j < slot
      BY <1>2, <2>2, SizeAssumption DEF Indexes, Types
    <3>2. next <= Tc(j) /\ Tc(j) \in Int
      BY <1>1, <3>1 DEF NextInv, Tc, Types, Handle
    <3> QED BY <1>3, <3>2 DEF Types
  <2> QED BY <2>1, <2>2
<1>8. RunInv' /\ Armed'
  BY <1>1 DEF RunInv, Deadline, Armed, hw
<1> QED BY <1>4, <1>5, <1>6, <1>7, <1>8

(* The hardware timer is set no later than any deadline the scan has seen;   *)
(* without one it is left as it is, and no timer waits for it.               *)
LEMMA ScanEndsKeeps == ASSUME TimerInv, OneSlotInv, ScanEnds PROVE TimerInv' /\ OneSlotInv'
<1> USE DEF TimerInv
<1>1. /\ pc = "scan" /\ slot = Slots /\ pc' = "open" /\ slot' = 0 /\ elapsed' = 0
      /\ next' = Far /\ least' = MinTrigger /\ UNCHANGED <<handles, skipped>>
  BY DEF ScanEnds, hist
<1>2. irq' \in BOOLEAN /\ (~irq' => ~irq)
  BY DEF ScanEnds, Types
<1>3. OneSlotInv'
  BY <1>1 DEF OneSlotInv, HandlesType, OneSlot
<1>4. NearInv' /\ NextInv'
  <2>1. \A i \in Indexes : i < Slots /\ Tc(i)' = Tc(i) /\ Used(i)' = Used(i)
    BY <1>1, SizeAssumption DEF Indexes, Tc, Used
  <2> QED BY <1>1, <2>1 DEF NearInv, NextInv, Done
<1>5. \A i \in Indexes \ skipped : Used(i) => next <= Tc(i) /\ Tc(i) <= Near
  BY <1>1, SizeAssumption DEF NextInv, NearInv, Done, Indexes
<1>6. CASE next # Far
  <2> DEFINE t == Most(next, least)
  <2>1. t \in Nat /\ t > 0 /\ next <= t /\ least <= t /\ (t = next \/ t = least)
    <3>1. least \in Nat /\ least > 0 /\ next \in Int
      BY SizeAssumption DEF Types
    <3> QED BY <3>1 DEF Most
  <2>2. SetupTimer(t)
    BY <1>6 DEF ScanEnds
  <2> HIDE DEF t
  <2>3. /\ psc' \in Nat /\ ccr' \in 0..Top /\ ticks' = 0 /\ cen' = TRUE
        /\ Deadline' <= t /\ Deadline' > 0
    BY <2>1, <2>2, SetupDeadline
  <2>4. Types'
    BY <1>1, <1>2, <2>3, NearType, SizeAssumption DEF Types
  <2>5. RunInv'
    BY <2>3 DEF RunInv
  <2>6. \A i \in Indexes \ skipped : Used(i) => t <= Most(Tc(i), Most(MinRegister, MinTrigger))
    BY <1>5, <2>1, SizeAssumption DEF Most, Types, Tc, Handle
  <2>7. Armed'
    <3> SUFFICES ASSUME NEW i \in Indexes \ skipped, Used(i)
                 PROVE  cen' /\ Deadline' <= Most(Tc(i), Most(MinRegister, MinTrigger))
      BY <1>1 DEF Armed, Used, Tc
    <3>1. Tc(i) \in Int /\ MinRegister \in Int /\ MinTrigger \in Int
      BY SizeAssumption DEF Tc, Types, Handle
    <3>2. Most(Tc(i), Most(MinRegister, MinTrigger)) \in Int
      BY <3>1, MostType
    <3>3. Deadline' \in Int
      BY <2>3, SizeAssumption DEF Deadline
    <3> QED BY <2>1, <2>3, <2>6, <3>2, <3>3
  <2> QED BY <1>3, <1>4, <2>4, <2>5, <2>7
<1>7. CASE next = Far
  <2>1. UNCHANGED hw
    BY <1>7 DEF ScanEnds
  <2>2. Types'
    BY <1>1, <1>2, <2>1, NearType, SizeAssumption DEF Types, hw
  <2>3. RunInv'
    BY <1>2, <2>1 DEF RunInv, Deadline, hw
  <2>4. \A i \in Indexes \ skipped : ~Used(i)
    BY <1>5, <1>7, NearType DEF Tc, Types, Handle
  <2>5. Armed'
    BY <1>1, <2>4 DEF Armed, Used
  <2> QED BY <1>3, <1>4, <2>2, <2>3, <2>5
<1> QED BY <1>6, <1>7

LEMMA OtherKeeps ==
  ASSUME TimerInv, OneSlotInv, UNCHANGED <<handles, hw, irq, scan, skipped>>
  PROVE  TimerInv' /\ OneSlotInv'
<1>1. OneSlotInv'
  BY DEF OneSlotInv, HandlesType, OneSlot
<1>2. Types'
  BY DEF TimerInv, Types, hw, scan
<1>3. NearInv' /\ NextInv'
  BY DEF TimerInv, NearInv, NextInv, Done, Used, Tc, scan
<1>4. RunInv' /\ Armed'
  BY DEF TimerInv, RunInv, Armed, Deadline, hw, scan
<1> QED BY <1>1, <1>2, <1>3, <1>4 DEF TimerInv

LEMMA TimerNext ==
  ASSUME TimerInv, OneSlotInv, [Next]_vars PROVE TimerInv' /\ OneSlotInv'
<1>1. CASE Tick
  BY <1>1, TickKeeps
<1>2. CASE Interrupt
  BY <1>2, InterruptKeeps
<1>3. CASE Scan
  BY <1>3, ScanFreeKeeps, ScanRunningKeeps, ScanExpiredKeeps, CallbackReturnsKeeps,
     ScanEndsKeeps DEF Scan
<1>4. CASE CalmDown
  BY <1>4, OtherKeeps DEF CalmDown
<1>5. ASSUME NEW c \in Callbacks, Unregister(c) PROVE TimerInv' /\ OneSlotInv'
  BY <1>5, UnregisterKeeps
<1>6. ASSUME NEW c \in Callbacks, NEW t \in Intervals, NEW once \in BOOLEAN, Register(c, t, once)
      PROVE  TimerInv' /\ OneSlotInv'
  BY <1>6, RegisterKeeps
<1>7. ASSUME NEW c \in Callbacks, NEW t \in Intervals, NEW once \in BOOLEAN,
             RegisterNested(c, t, once)
      PROVE  TimerInv' /\ OneSlotInv'
  BY <1>7, RegisterNestedKeeps
<1>8. CASE UNCHANGED vars
  BY <1>8, OtherKeeps DEF vars, hist
<1> QED BY <1>1, <1>2, <1>3, <1>4, <1>5, <1>6, <1>7, <1>8 DEF Next

-------------------------------------------------------------------------------
(* No timer is called early.                                                 *)

Owner(i) == handles[i].callback

(* A callback whose ticks left are known: its timer is not adrift, nor too   *)
(* late to count.                                                            *)
Exact(c) == c \notin adrift /\ left[c] # -MaxLate

(* Ticks that have passed and are still to be taken off the counter of slot  *)
(* i: what the timer has counted, until a scan has dealt with the slot.      *)
Owed(i) ==
  IF pc = "open" THEN IF cen THEN ticks ELSE Elapsed
  ELSE IF i \notin skipped /\ (i < slot \/ (i = slot /\ pc = "callback")) THEN 0
  ELSE elapsed

EarlyInv ==
  /\ left \in [Callbacks -> Int]
  /\ skipped \subseteq Indexes
  /\ pc # "open" => elapsed = Elapsed /\ \A i \in skipped : i < slot
  /\ \A i \in Indexes : Used(i) /\ Exact(Owner(i)) => left[Owner(i)] + Owed(i) <= Tc(i)

LEMMA OwedType == ASSUME Types, NEW i \in Indexes PROVE Owed(i) \in Nat
BY ElapsedType DEF Owed, Types

LEMMA UsedFacts ==
  ASSUME Types, EarlyInv, NEW i \in Indexes, Used(i)
  PROVE  Owner(i) \in Callbacks /\ left[Owner(i)] \in Int /\ Tc(i) \in Int /\ Owed(i) \in Nat
BY OwedType DEF Types, EarlyInv, Handle, Owner, Used, Tc

(* What has been counted is at most what has passed.                         *)
LEMMA ElapsedBound == ASSUME Types PROVE Elapsed \in Nat /\ Elapsed <= ticks
<1>1. psc + 1 \in Nat \ {0} /\ ticks \in Nat
  BY DEF Types
<1> QED BY <1>1, DivBounds DEF Elapsed, Count

LEMMA EarlyInit == Init => EarlyInv
<1> SUFFICES ASSUME Init PROVE EarlyInv
  OBVIOUS
<1>1. \A i \in Indexes : ~Used(i)
  BY DEF Init, Used, Free
<1>2. left \in [Callbacks -> Int] /\ skipped \subseteq Indexes /\ pc = "open"
  BY DEF Init
<1> QED BY <1>1, <1>2 DEF EarlyInv

(* A tick is counted, or the timer stands still and the tick only makes the  *)
(* timers later.                                                             *)
LEMMA EarlyTick == ASSUME Types, EarlyInv, Tick PROVE EarlyInv'
<1>1. pc = "open" /\ UNCHANGED <<handles, psc, scan, skipped, adrift>>
  BY DEF Tick
<1>2. left' = [c \in Callbacks |-> IF Registered(c) THEN Most(left[c] - 1, -MaxLate) ELSE 0]
  BY DEF Tick
<1>3. -MaxLate \in Int
  BY SizeAssumption
<1>4. left' \in [Callbacks -> Int]
  <2>1. \A c \in Callbacks : Most(left[c] - 1, -MaxLate) \in Int
    BY <1>3, MostType DEF EarlyInv
  <2> QED BY <1>2, <2>1
<1>5. ASSUME NEW i \in Indexes, Used(i), Exact(Owner(i))'
      PROVE  (left[Owner(i)])' + Owed(i)' <= Tc(i)
  <2> DEFINE c == Owner(i)
  <2>1. c \in Callbacks /\ left[c] \in Int /\ Tc(i) \in Int /\ Owed(i) \in Nat /\ c' = c
    BY <1>1, <1>5, UsedFacts DEF Owner
  <2>2. Registered(c)
    BY <1>5 DEF Registered, Owner
  <2>3. left'[c] = Most(left[c] - 1, -MaxLate) /\ left'[c] # -MaxLate /\ c \notin adrift
    BY <1>1, <1>2, <1>5, <2>1, <2>2 DEF Exact
  <2>4. left'[c] = left[c] - 1 /\ left[c] # -MaxLate
    BY <1>3, <2>1, <2>3 DEF Most
  <2>5. left[c] + Owed(i) <= Tc(i)
    BY <1>5, <2>3, <2>4 DEF EarlyInv, Exact
  <2>6. Owed(i)' <= Owed(i) + 1 /\ Owed(i)' \in Int
    <3>1. CASE cen /\ cen'
      BY <1>1, <3>1 DEF Owed, Tick, Types, scan
    <3>2. CASE cen /\ ~cen'
      <4>1. ticks' = 0 /\ ticks \in Nat /\ psc \in Nat
        BY <3>2 DEF Tick, Types
      <4>2. Elapsed' = 0
        BY <1>1, <4>1, Z3 DEF Elapsed, Count
      <4> QED BY <1>1, <3>2, <4>1, <4>2 DEF Owed, scan
    <3>3. CASE ~cen
      <4>1. Owed(i)' = Owed(i)
        BY <1>1, <3>3 DEF Owed, Tick, Elapsed, Count, scan
      <4> QED BY <2>1, <4>1
    <3> QED BY <3>1, <3>2, <3>3
  <2> QED BY <2>1, <2>4, <2>5, <2>6
<1>6. \A i \in Indexes : Used(i)' = Used(i) /\ Tc(i)' = Tc(i)
  BY <1>1 DEF Used, Tc
<1> QED BY <1>1, <1>4, <1>5, <1>6 DEF EarlyInv, scan

(* A new timer has all its ticks left, and the ticks elapsed on top; the     *)
(* other callbacks keep theirs.                                              *)
LEMMA EarlyAssign ==
  ASSUME Types, OneSlotInv, EarlyInv, NEW c \in Callbacks, NEW i \in Indexes,
         NEW t \in Intervals, NEW once \in BOOLEAN, SlotFor(c, i), Assign(i, c, t, once)
  PROVE  /\ left' \in [Callbacks -> Int]
         /\ Owner(i)' = c /\ left'[c] = t /\ t \in Nat /\ Tc(i)' = t + Elapsed
         /\ \A j \in Indexes : j # i /\ Used(j)' =>
              /\ Used(j) /\ Owner(j)' = Owner(j) /\ Tc(j)' = Tc(j)
              /\ left'[Owner(j)] = left[Owner(j)]
              /\ (Exact(Owner(j)))' => Exact(Owner(j))
<1>1. /\ handles'[i].callback = c /\ handles'[i].tickCounter = t + Elapsed
      /\ \A j \in Indexes : j # i => handles'[j] = handles[j]
  BY AssignFacts
<1>2. left' = [left EXCEPT ![c] = t] /\ adrift' = adrift \ {c} /\ t \in Nat
  BY SizeAssumption DEF Assign
<1>3. left' \in [Callbacks -> Int] /\ left'[c] = t
      /\ \A d \in Callbacks : d # c => left'[d] = left[d]
  BY <1>2 DEF EarlyInv
<1>4. \A j \in Indexes : j # i => handles[j].callback # c
  BY NoneAssumption DEF OneSlotInv, OneSlot, SlotFor
<1>5. ASSUME NEW j \in Indexes, j # i, Used(j)'
      PROVE  /\ Used(j) /\ Owner(j)' = Owner(j) /\ Tc(j)' = Tc(j)
             /\ left'[Owner(j)] = left[Owner(j)]
             /\ (Exact(Owner(j)))' => Exact(Owner(j))
  <2>1. Used(j) /\ Owner(j)' = Owner(j) /\ Tc(j)' = Tc(j)
    BY <1>1, <1>5 DEF Used, Owner, Tc
  <2>2. Owner(j) \in Callbacks /\ Owner(j) # c
    BY <1>4, <1>5, <2>1, UsedFacts DEF Owner
  <2> QED BY <1>2, <1>3, <2>1, <2>2 DEF Exact
<1> QED BY <1>1, <1>2, <1>3, <1>5 DEF Owner, Tc

(* Every slot has the ticks elapsed ahead of it when a scan begins.          *)
LEMMA EarlyBeginScan ==
  ASSUME Types, NEW l, BeginScan(l), left' \in [Callbacks -> Int], UNCHANGED <<ticks, psc>>,
         \A i \in Indexes : Used(i)' /\ (Exact(Owner(i)))' =>
                              left'[Owner(i)'] + Elapsed <= Tc(i)'
  PROVE  EarlyInv'
<1>1. pc' = "scan" /\ slot' = 0 /\ elapsed' = Elapsed /\ skipped' = {} /\ Elapsed' = Elapsed
  BY DEF BeginScan, Elapsed, Count
<1>2. \A i \in Indexes : Owed(i)' = Elapsed
  BY <1>1 DEF Owed, Indexes
<1> QED BY <1>1, <1>2 DEF EarlyInv

(* Between scans at least the elapsed ticks are to be taken off.             *)
LEMMA EarlyOpen ==
  ASSUME Types, EarlyInv, pc = "open", NEW i \in Indexes, Used(i), Exact(Owner(i))
  PROVE  left[Owner(i)] + Elapsed <= Tc(i)
<1>1. Owed(i) >= Elapsed
  BY ElapsedBound DEF Owed, Types
<1>2. left[Owner(i)] + Owed(i) <= Tc(i)
  BY DEF EarlyInv
<1> QED BY <1>1, <1>2, UsedFacts, ElapsedBound

LEMMA EarlyRegister ==
  ASSUME Types, OneSlotInv, EarlyInv, NEW c \in Callbacks, NEW t \in Intervals,
         NEW once \in BOOLEAN, Register(c, t, once)
  PROVE  EarlyInv'
<1>1. pc = "open" /\ BeginScan(MinRegister) /\ UNCHANGED <<ticks, psc>>
  BY DEF Register, hw
<1>2. CASE \E i \in Indexes : SlotFor(c, i) /\ Assign(i, c, t, once)
  <2> PICK i \in Indexes : SlotFor(c, i) /\ Assign(i, c, t, once)
    BY <1>2
  <2>1. /\ left' \in [Callbacks -> Int]
        /\ Owner(i)' = c /\ left'[c] = t /\ t \in Nat /\ Tc(i)' = t + Elapsed
        /\ \A j \in Indexes : j # i /\ Used(j)' =>
             /\ Used(j) /\ Owner(j)' = Owner(j) /\ Tc(j)' = Tc(j)
             /\ left'[Owner(j)] = left[Owner(j)]
             /\ (Exact(Owner(j)))' => Exact(Owner(j))
    BY EarlyAssign
  <2>2. ASSUME NEW j \in Indexes, Used(j)', (Exact(Owner(j)))'
        PROVE  left'[Owner(j)'] + Elapsed <= Tc(j)'
    <3>1. CASE j = i
      BY <2>1, <3>1, ElapsedBound
    <3>2. CASE j # i
      BY <1>1, <2>1, <2>2, <3>2, EarlyOpen
    <3> QED BY <3>1, <3>2
  <2> QED BY <1>1, <2>1, <2>2, EarlyBeginScan
<1>3. CASE UNCHANGED <<handles, left, adrift>>
  <2>1. \A j \in Indexes : Used(j)' /\ (Exact(Owner(j)))' => left'[Owner(j)'] + Elapsed <= Tc(j)'
    BY <1>1, <1>3, EarlyOpen DEF Used, Owner, Exact, Tc
  <2> QED BY <1>1, <1>3, <2>1, EarlyBeginScan DEF EarlyInv
<1> QED BY <1>2, <1>3 DEF Register

LEMMA EarlyInterrupt == ASSUME Types, EarlyInv, Interrupt PROVE EarlyInv'
<1>1. pc = "open" /\ BeginScan(MinTrigger) /\ UNCHANGED <<handles, ticks, psc, left, adrift>>
  BY DEF Interrupt
<1>2. \A j \in Indexes : Used(j)' /\ (Exact(Owner(j)))' => left'[Owner(j)'] + Elapsed <= Tc(j)'
  BY <1>1, EarlyOpen DEF Used, Owner, Exact, Tc
<1> QED BY <1>1, <1>2, EarlyBeginScan DEF EarlyInv

(* In a slot the scan has passed the elapsed ticks stay on top: the slot is  *)
(* skipped, and they are taken off by the next scan.                         *)
LEMMA EarlyRegisterNested ==
  ASSUME Types, OneSlotInv, EarlyInv, NEW c \in Callbacks, NEW t \in Intervals,
         NEW once \in BOOLEAN, RegisterNested(c, t, once)
  PROVE  EarlyInv'
<1>1. pc = "callback" /\ UNCHANGED <<hw, scan>>
  BY DEF RegisterNested
<1>2. PICK i \in Indexes : /\ SlotFor(c, i) /\ Assign(i, c, t, once)
                           /\ skipped' = IF i < slot THEN skipped \cup {i} ELSE skipped
  BY DEF RegisterNested
<1>3. /\ left' \in [Callbacks -> Int]
      /\ Owner(i)' = c /\ left'[c] = t /\ t \in Nat /\ Tc(i)' = t + Elapsed
      /\ \A j \in Indexes : j # i /\ Used(j)' =>
           /\ Used(j) /\ Owner(j)' = Owner(j) /\ Tc(j)' = Tc(j)
           /\ left'[Owner(j)] = left[Owner(j)]
           /\ (Exact(Owner(j)))' => Exact(Owner(j))
  BY <1>2, EarlyAssign
<1>4. elapsed = Elapsed /\ elapsed' = elapsed /\ Elapsed' = Elapsed /\ Elapsed \in Nat
  BY <1>1, ElapsedBound DEF EarlyInv, Elapsed, Count, hw, scan
<1>5. skipped' \subseteq Indexes /\ \A j \in skipped' : j < slot'
  BY <1>1, <1>2 DEF EarlyInv, scan
<1>6. ASSUME NEW j \in Indexes, Used(j)', (Exact(Owner(j)))'
      PROVE  (left[Owner(j)])' + Owed(j)' <= Tc(j)'
  <2>1. CASE j = i
    <3>1. Owed(i)' \in {0, elapsed}
      BY <1>1, <1>4 DEF Owed, scan
    <3> QED BY <1>3, <1>4, <2>1, <3>1
  <2>2. CASE j # i
    <3>1. Owed(j)' = Owed(j)
      BY <1>1, <1>2, <2>2 DEF Owed, scan
    <3>2. left[Owner(j)] + Owed(j) <= Tc(j)
      BY <1>3, <1>6, <2>2 DEF EarlyInv
    <3> QED BY <1>3, <1>6, <2>2, <3>1, <3>2
  <2> QED BY <2>1, <2>2
<1> QED BY <1>1, <1>3, <1>4, <1>5, <1>6 DEF EarlyInv, scan

LEMMA EarlyUnregister ==
  ASSUME Types, OneSlotInv, EarlyInv, NEW c \in Callbacks, Unregister(c) PROVE EarlyInv'
<1>1. UNCHANGED <<hw, scan, skipped, adrift>>
  BY DEF Unregister
<1>2. PICK i \in Indexes : handles[i].callback = c /\ handles' = [handles EXCEPT ![i] = Free]
  BY DEF Unregister
<1>3. ~Used(i)' /\ \A j \in Indexes : j # i => handles'[j] = handles[j]
  BY <1>2 DEF Types, Used, Free
<1>4. left' = [left EXCEPT ![c] = 0]
  BY DEF Unregister
<1>5. left' \in [Callbacks -> Int]
  BY <1>4 DEF EarlyInv
<1>6. ASSUME NEW j \in Indexes, Used(j)', (Exact(Owner(j)))'
      PROVE  (left[Owner(j)])' + Owed(j)' <= Tc(j)'
  <2>1. j # i /\ Used(j) /\ Owner(j)' = Owner(j) /\ Tc(j)' = Tc(j)
    BY <1>3, <1>6 DEF Used, Owner, Tc
  <2>2. Owner(j) # c /\ Owner(j) \in Callbacks
    BY <1>2, <2>1, NoneAssumption, UsedFacts DEF OneSlotInv, OneSlot, Owner
  <2>3. left'[Owner(j)] = left[Owner(j)]
    BY <1>4, <2>2 DEF EarlyInv
  <2>4. Owed(j)' = Owed(j)
    BY <1>1 DEF Owed, Elapsed, Count, hw, scan
  <2>5. left[Owner(j)] + Owed(j) <= Tc(j)
    BY <1>1, <1>6, <2>1, <2>3 DEF EarlyInv, Exact
  <2> QED BY <2>1, <2>3, <2>4, <2>5
<1>7. (pc # "open" => elapsed = Elapsed /\ \A j \in skipped : j < slot)'
  BY <1>1 DEF EarlyInv, Elapsed, Count, hw, scan
<1> QED BY <1>1, <1>5, <1>6, <1>7 DEF EarlyInv

(* The scan goes on from a slot whose counter is right.                      *)
LEMMA EarlyPass ==
  ASSUME Types, EarlyInv, NEW i \in Indexes,
         pc # "open", slot = i, pc' = "scan", slot' = slot + 1,
         UNCHANGED <<hw, elapsed, skipped, adrift, left>>,
         \A j \in Indexes : Owner(j)' = Owner(j) /\ (j # i => Tc(j)' = Tc(j)),
         Used(i) /\ Exact(Owner(i)) => left[Owner(i)] <= Tc(i)'
  PROVE  EarlyInv'
<1>1. elapsed' = Elapsed' /\ slot \in Nat /\ \A j \in skipped : j < slot /\ j \in Nat
  BY DEF EarlyInv, Elapsed, Count, hw, Types, Indexes
<1>2. \A j \in skipped' : j < slot'
  BY <1>1
<1>3. ASSUME NEW j \in Indexes, Used(j)', (Exact(Owner(j)))'
      PROVE  (left[Owner(j)])' + Owed(j)' <= Tc(j)'
  <2>1. Used(j) /\ Exact(Owner(j)) /\ (left[Owner(j)])' = left[Owner(j)]
    BY <1>3 DEF Used, Owner, Exact
  <2>2. left[Owner(j)] + Owed(j) <= Tc(j) /\ left[Owner(j)] \in Int
    BY <2>1, UsedFacts DEF EarlyInv
  <2>3. CASE j = i
    <3>1. Owed(j)' = 0
      BY <1>1, <2>3 DEF Owed
    <3> QED BY <2>1, <2>2, <2>3, <3>1
  <2>4. CASE j # i
    <3>1. Owed(j)' = Owed(j)
      BY <1>1, <2>4, SizeAssumption DEF Owed, Indexes
    <3> QED BY <2>1, <2>2, <2>4, <3>1
  <2> QED BY <2>3, <2>4
<1> QED BY <1>1, <1>2, <1>3 DEF EarlyInv

LEMMA EarlyScanFree == ASSUME Types, EarlyInv, ScanFree PROVE EarlyInv'
<1>1. PICK i \in Indexes :
        /\ pc = "scan" /\ slot = i /\ slot' = slot + 1 /\ pc' = "scan" /\ ~Used(i)
        /\ UNCHANGED <<handles, hw, elapsed, skipped, adrift, left>>
  BY DEF ScanFree, At, hist, Used
<1>2. \A j \in Indexes : Owner(j)' = Owner(j) /\ Tc(j)' = Tc(j)
  BY <1>1 DEF Owner, Tc
<1> QED BY <1>1, <1>2, EarlyPass

LEMMA EarlyScanRunning == ASSUME Types, EarlyInv, ScanRunning PROVE EarlyInv'
<1>1. PICK i \in Indexes :
        /\ pc = "scan" /\ slot = i /\ slot < Slots /\ Used(i)
        /\ handles' = [handles EXCEPT ![i].tickCounter = Rest(i)]
        /\ slot' = slot + 1 /\ pc' = "scan"
        /\ UNCHANGED <<hw, elapsed, skipped, adrift, left>>
  BY DEF ScanRunning, At, hist, Used
<1>2. \A j \in Indexes : Owner(j)' = Owner(j) /\ (j # i => Tc(j)' = Tc(j))
  BY <1>1 DEF Owner, Tc, Types, Handle
<1>3. Tc(i)' = Tc(i) - elapsed
  BY <1>1 DEF Tc, Rest, Types, Handle
<1>4. Owed(i) = elapsed
  BY <1>1 DEF Owed, EarlyInv, Types
<1>5. Exact(Owner(i)) => left[Owner(i)] <= Tc(i)'
  BY <1>1, <1>3, <1>4, UsedFacts DEF EarlyInv
<1> QED BY <1>1, <1>2, <1>5, EarlyPass

LEMMA EarlyReturns == ASSUME Types, EarlyInv, CallbackReturns PROVE EarlyInv'
<1>1. /\ pc = "callback" /\ slot < Slots /\ slot' = slot + 1 /\ pc' = "scan"
      /\ UNCHANGED <<handles, hw, elapsed, skipped, adrift, left>>
  BY DEF CallbackReturns, hist, Types
<1>2. PICK i \in Indexes : i = slot
  BY <1>1, SizeAssumption DEF Types, Indexes
<1>3. \A j \in Indexes : Owner(j)' = Owner(j) /\ Tc(j)' = Tc(j)
  BY <1>1 DEF Owner, Tc
<1>4. Owed(i) = 0
  BY <1>1, <1>2, SizeAssumption DEF Owed, EarlyInv, Indexes
<1>5. Used(i) /\ Exact(Owner(i)) => left[Owner(i)] <= Tc(i)'
  BY <1>3, <1>4, UsedFacts DEF EarlyInv
<1> QED BY <1>1, <1>2, <1>3, <1>5, EarlyPass

(* A timer whose ticks left are known ran out if its counter did.            *)
LEMMA RanOut ==
  ASSUME Types, EarlyInv, NEW i \in Indexes, pc = "scan", slot = i, Used(i), Rest(i) <= 0,
         Owner(i) \notin adrift
  PROVE  left[Owner(i)] <= 0 /\ (Exact(Owner(i)) => left[Owner(i)] <= Rest(i))
<1>1. Owed(i) = elapsed /\ elapsed \in Nat
  BY DEF Owed, EarlyInv, Types
<1>2. Rest(i) = Tc(i) - elapsed
  BY DEF Rest, Tc
<1>3. Exact(Owner(i)) => left[Owner(i)] + elapsed <= Tc(i)
  BY <1>1 DEF EarlyInv
<1>4. left[Owner(i)] \in Int /\ Tc(i) \in Int
  BY UsedFacts
<1>5. ~Exact(Owner(i)) => left[Owner(i)] <= 0
  BY <1>4, SizeAssumption DEF Exact
<1> QED BY <1>1, <1>2, <1>3, <1>4, <1>5

(* An expired timer has its interval put on what is left of it, and at least *)
(* that on its counter.                                                      *)
LEMMA EarlyExpired == ASSUME Types, OneSlotInv, EarlyInv, ScanExpired PROVE EarlyInv'
<1>1. PICK i \in Indexes :
        /\ pc = "scan" /\ slot = i /\ Used(i) /\ Rest(i) <= 0
        /\ handles' = [handles EXCEPT ![i] = Rescheduled(handles[i], Rest(i))]
        /\ left' = [left EXCEPT ![Owner(i)] = IF handles[i].oneShot THEN 0
                                              ELSE IF left[Owner(i)] = -MaxLate
                                                   THEN left[Owner(i)]
                                              ELSE left[Owner(i)] + handles[i].interval]
        /\ pc' = "callback"
        /\ UNCHANGED <<hw, slot, elapsed, skipped, adrift>>
  BY DEF ScanExpired, At, Used, Owner
<1> DEFINE c == Owner(i)
           t == handles[i].interval
<1>2. c \in Callbacks /\ left[c] \in Int /\ t \in Nat /\ Rest(i) \in Int /\ handles[i] \in Handle
  BY <1>1, UsedFacts, NearType DEF Types, Handle, Rest
<1>3. left' \in [Callbacks -> Int] /\ \A d \in Callbacks : d # c => left'[d] = left[d]
  BY <1>1, <1>2 DEF EarlyInv
<1>4. \A j \in Indexes : j # i => handles'[j] = handles[j]
  BY <1>1 DEF Types
<1>5. \A j \in Indexes : Owed(j)' = IF j = i THEN 0 ELSE Owed(j)
  <2>1. i \notin skipped
    BY <1>1, SizeAssumption DEF EarlyInv, Indexes
  <2>2. \A j \in Indexes : Owed(j) = IF j \notin skipped /\ j < i THEN 0 ELSE elapsed
    BY <1>1 DEF Owed
  <2>3. \A j \in Indexes : Owed(j)' = IF j \notin skipped /\ (j < i \/ j = i) THEN 0
                                      ELSE elapsed
    BY <1>1 DEF Owed
  <2> QED BY <2>1, <2>2, <2>3
<1>6. handles'[i] = Rescheduled(handles[i], Rest(i))
  BY <1>1 DEF Types
<1>7. ASSUME NEW j \in Indexes, Used(j)', (Exact(Owner(j)))'
      PROVE  (left[Owner(j)])' + Owed(j)' <= Tc(j)'
  <2>1. CASE j # i
    <3>1. Used(j) /\ Owner(j)' = Owner(j) /\ Tc(j)' = Tc(j)
      BY <1>4, <1>7, <2>1 DEF Used, Owner, Tc
    <3>2. Owner(j) # c /\ Owner(j) \in Callbacks
      BY <1>1, <2>1, <3>1, UsedFacts DEF OneSlotInv, OneSlot, Owner, Used
    <3>3. left[Owner(j)] + Owed(j) <= Tc(j)
      BY <1>1, <1>3, <1>7, <3>1, <3>2 DEF EarlyInv, Exact
    <3> QED BY <1>3, <1>5, <2>1, <3>1, <3>2, <3>3
  <2>2. CASE j = i
    <3>1. ~handles[i].oneShot
      BY <1>6, <1>7, <2>2 DEF Rescheduled, Used, Free
    <3> DEFINE k == Least(Most(Rest(i) + t, 0), t)
    <3>2. handles'[i] = [handles[i] EXCEPT !.tickCounter = k]
      BY <1>6, <3>1 DEF Rescheduled
    <3>3. Tc(i)' = k /\ Owner(i)' = c
      BY <1>2, <3>2 DEF Tc, Owner, Handle
    <3>4. left'[c] = IF left[c] = -MaxLate THEN left[c] ELSE left[c] + t
      BY <1>1, <1>2, <3>1 DEF EarlyInv
    <3>5. left'[c] # -MaxLate /\ c \notin adrift
      BY <1>1, <1>7, <2>2, <3>3 DEF Exact
    <3>6. left'[c] = left[c] + t /\ Exact(c)
      BY <3>4, <3>5 DEF Exact
    <3>7. left[c] <= Rest(i)
      BY <1>1, <3>5, <3>6, RanOut
    <3>8. Most(Rest(i) + t, 0) \in Int /\ Rest(i) + t <= Most(Rest(i) + t, 0)
      BY <1>2, MostType
    <3>9. Rest(i) + t <= k
      BY <1>1, <1>2, <3>8 DEF Least
    <3>10. k \in Int
      BY <1>2, <3>8 DEF Least
    <3> HIDE DEF k
    <3>11. (left[Owner(i)])' = left[c] + t /\ Owed(i)' = 0
      BY <1>5, <3>3, <3>6
    <3>12. left[c] + t <= k
      BY <1>2, <3>7, <3>9, <3>10
    <3> QED BY <1>2, <2>2, <3>3, <3>11, <3>12
  <2> QED BY <2>1, <2>2
<1>8. elapsed' = Elapsed' /\ skipped' \subseteq Indexes /\ \A j \in skipped' : j < slot'
  BY <1>1 DEF EarlyInv, Elapsed, Count, hw
<1> QED BY <1>3, <1>7, <1>8 DEF EarlyInv

(* The hardware timer starts at 0, the ticks elapsed are those the scan took *)
(* off or left on top, or it stands still; a timer it runs on for is adrift. *)
LEMMA EarlyScanEnds ==
  ASSUME TimerInv, OneSlotInv, EarlyInv, ScanEnds PROVE EarlyInv'
<1>1. /\ pc = "scan" /\ slot = Slots /\ pc' = "open"
      /\ UNCHANGED <<handles, skipped, left>>
      /\ adrift' = adrift \cup
           {c \in Callbacks : next = Far /\ cen /\ \E i \in skipped : Owner(i) = c}
  BY DEF ScanEnds, Owner
<1>2. Types
  BY DEF TimerInv
<1>3. ASSUME NEW i \in Indexes, Used(i), (Exact(Owner(i)))'
      PROVE  left[Owner(i)] + Owed(i)' <= Tc(i)
  <2>1. Exact(Owner(i)) /\ Owner(i) \in Callbacks
    BY <1>1, <1>2, <1>3, UsedFacts DEF Exact, Owner
  <2>2. left[Owner(i)] + Owed(i) <= Tc(i) /\ left[Owner(i)] \in Int /\ Tc(i) \in Int
        /\ Owed(i) \in Nat
    BY <1>2, <1>3, <2>1, UsedFacts DEF EarlyInv
  <2>3. CASE next # Far
    <3>1. cen' = TRUE /\ ticks' = 0
      BY <2>3 DEF ScanEnds, SetupTimer
    <3>2. Owed(i)' = 0
      BY <1>1, <3>1 DEF Owed
    <3> QED BY <2>2, <3>2
  <2>4. CASE next = Far
    <3>1. UNCHANGED hw
      BY <2>4 DEF ScanEnds
    <3>2. i \in skipped
      <4>1. Tc(i) <= Near /\ (i \notin skipped => next <= Tc(i))
        BY <1>1, <1>3, SizeAssumption DEF TimerInv, NearInv, NextInv, Done, Indexes
      <4> QED BY <2>2, <2>4, <4>1, NearType
    <3>3. ~cen
      BY <1>1, <1>3, <2>1, <2>4, <3>2 DEF Exact, Owner
    <3>4. Owed(i)' = Elapsed /\ Owed(i) = Elapsed
      BY <1>1, <3>1, <3>2, <3>3 DEF Owed, EarlyInv, Elapsed, Count, hw
    <3> QED BY <2>2, <3>4
  <2> QED BY <2>3, <2>4
<1>4. ASSUME NEW i \in Indexes, Used(i)', (Exact(Owner(i)))'
      PROVE  (left[Owner(i)])' + Owed(i)' <= Tc(i)'
  BY <1>1, <1>3, <1>4 DEF Used, Owner, Tc
<1> QED BY <1>1, <1>4 DEF EarlyInv

LEMMA EarlyOther ==
  ASSUME EarlyInv, UNCHANGED <<handles, hw, scan, skipped, adrift, left>> PROVE EarlyInv'
<1>1. \A i \in Indexes : Owed(i)' = Owed(i) /\ Owner(i)' = Owner(i) /\ Used(i)' = Used(i)
                         /\ Tc(i)' = Tc(i)
  BY DEF Owed, Owner, Used, Tc, Elapsed, Count, hw, scan
<1>2. \A i \in Indexes : Exact(Owner(i))' => Exact(Owner(i)) /\ (left[Owner(i)])' = left[Owner(i)]
  BY <1>1 DEF Exact
<1>3. (pc # "open" => elapsed = Elapsed /\ \A i \in skipped : i < slot)'
  BY DEF EarlyInv, Elapsed, Count, hw, scan
<1> QED BY <1>1, <1>2, <1>3 DEF EarlyInv

LEMMA EarlyNext ==
  ASSUME TimerInv, OneSlotInv, EarlyInv, [Next]_vars PROVE EarlyInv'
<1> USE DEF TimerInv
<1>1. CASE Tick
  BY <1>1, EarlyTick
<1>2. CASE Interrupt
  BY <1>2, EarlyInterrupt
<1>3. CASE Scan
  BY <1>3, EarlyScanFree, EarlyScanRunning, EarlyExpired, EarlyReturns, EarlyScanEnds DEF Scan
<1>4. CASE CalmDown
  BY <1>4, EarlyOther DEF CalmDown
<1>5. ASSUME NEW c \in Callbacks, Unregister(c) PROVE EarlyInv'
  BY <1>5, EarlyUnregister
<1>6. ASSUME NEW c \in Callbacks, NEW t \in Intervals, NEW once \in BOOLEAN, Register(c, t, once)
      PROVE  EarlyInv'
  BY <1>6, EarlyRegister
<1>7. ASSUME NEW c \in Callbacks, NEW t \in Intervals, NEW once \in BOOLEAN,
             RegisterNested(c, t, once)
      PROVE  EarlyInv'
  BY <1>7, EarlyRegisterNested
<1>8. CASE UNCHANGED vars
  BY <1>8, EarlyOther DEF vars, hist
<1> QED BY <1>1, <1>2, <1>3, <1>4, <1>5, <1>6, <1>7, <1>8 DEF Next

(* Only a scan that finds a counter run out calls anybody.                   *)
LEMMA EarlyStep ==
  ASSUME Types, EarlyInv, Next, calling' \notin adrift \cup {None}, calling = None
  PROVE  left[calling'] <= 0
<1>1. ScanExpired
  BY DEF Next, Tick, Interrupt, Scan, ScanFree, ScanRunning, CallbackReturns, ScanEnds, CalmDown,
     Unregister, Register, RegisterNested, BeginScan, scan
<1>2. PICK i \in Indexes : pc = "scan" /\ slot = i /\ Used(i) /\ Rest(i) <= 0
                           /\ calling' = Owner(i)
  BY <1>1 DEF ScanExpired, At, Used, Owner
<1> QED BY <1>2, RanOut

-------------------------------------------------------------------------------
(* How far the timers count, and how long they have to wait.                 *)

(* The hardware timer runs on for as long as its interrupt waits, and never  *)
(* longer; when it was stopped or set again is in the other conjuncts.       *)
CountInv ==
  /\ ticks < (psc + 1) * (Top + 1)
  /\ cen /\ sr => irq
  /\ cen /\ irq => ticks <= Deadline + waited
  /\ ticks <= Deadline + Latency
  /\ sr \in BOOLEAN /\ waited \in Nat /\ waited <= Latency

CounterInv == \A i \in Indexes : Tc(i) \in Nat

(* What has elapsed is on top of an interval in the slots the running scan   *)
(* is still to come to, and in no other, for timers that are not late.       *)
Ahead(i) == pc # "open" /\ (i > slot \/ (i = slot /\ pc = "scan"))

PromptInv ==
  /\ late \subseteq Callbacks
  /\ \A i \in Indexes : Used(i) /\ Owner(i) \notin late =>
       Tc(i) <= handles[i].interval + (IF Ahead(i) THEN elapsed ELSE 0)

LeftInv ==
  /\ calling \in Callbacks \cup {None}
  /\ adrift \subseteq Callbacks
  /\ \A c \in Callbacks : left[c] >= -MaxLate /\ (c \notin adrift => left[c] <= Longest)

RangeInv == CountInv /\ CounterInv /\ PromptInv /\ LeftInv

LEMMA BoundsType == Longest \in Nat /\ Latency \in Nat /\ MaxLate \in Nat
BY LongestInterval, SizeAssumption

LEMMA RangeInit == Init => RangeInv
<1> SUFFICES ASSUME Init PROVE RangeInv
  OBVIOUS
<1>1. ticks = 0 /\ psc = 0 /\ Deadline = 0 /\ cen = FALSE /\ sr = FALSE /\ waited = 0
  BY DEF Init, Deadline
<1>2. ticks < (psc + 1) * (Top + 1)
  BY <1>1, SizeAssumption
<1>3. ticks <= Deadline + Latency /\ waited <= Latency
  BY <1>1, BoundsType
<1>4. CountInv
  BY <1>1, <1>2, <1>3 DEF CountInv
<1>5. CounterInv
  BY DEF Init, CounterInv, Tc, Free
<1>6. PromptInv
  BY DEF Init, PromptInv, Used, Free
<1>7. LeftInv
  BY BoundsType DEF Init, LeftInv
<1> QED BY <1>4, <1>5, <1>6, <1>7 DEF RangeInv

LEMMA ProductType ==
  ASSUME NEW a \in Nat, NEW b \in Nat PROVE (a + 1) * b \in Nat /\ (b > 0 => (a + 1) * b > 0)
BY Z3

LEMMA DeadlineType == ASSUME Types PROVE Deadline \in Nat /\ (psc + 1) * (Top + 1) \in Nat \ {0}
<1>1. psc \in Nat /\ ccr \in Nat /\ Top + 1 \in Nat /\ Top + 1 > 0
  BY SizeAssumption DEF Types
<1>2. (psc + 1) * ccr \in Nat
  BY <1>1, ProductType
<1>3. (psc + 1) * (Top + 1) \in Nat /\ (psc + 1) * (Top + 1) > 0
  BY <1>1, ProductType
<1> QED BY <1>2, <1>3 DEF Deadline

LEMMA Later == ASSUME NEW a \in Int, NEW b \in Int, NEW w \in Nat, a <= b PROVE a <= b + w
OBVIOUS

(* A tick is counted up to the deadline, or while the interrupt waits.       *)
LEMMA CountTick == ASSUME Types, RunInv, CountInv, Tick PROVE CountInv'
<1>1. UNCHANGED <<psc, ccr>> /\ Deadline' = Deadline
  BY DEF Tick, Deadline
<1> DEFINE P == (psc + 1) * (Top + 1)
<1>2. P \in Nat \ {0} /\ Deadline \in Nat /\ ticks \in Nat /\ ticks < P
      /\ Latency \in Nat /\ waited \in Nat /\ waited <= Latency
  BY DeadlineType, BoundsType DEF CountInv, Types
<1>3. waited' \in Nat /\ waited' <= Latency /\ (irq => waited' = waited + 1)
      /\ (irq => waited < Latency)
  BY <1>2 DEF Tick
<1>4. CASE cen
  <2>1. /\ cen' = ~(ticks + 1 = P) /\ irq' = (irq \/ sr') /\ sr' \in BOOLEAN
        /\ ticks' = IF ticks + 1 = P THEN 0 ELSE ticks + 1
    BY <1>4 DEF Tick, Overflows
  <2> HIDE DEF P
  <2>2. ticks' < P /\ ticks' \in Nat /\ ticks' <= ticks + 1
    BY <1>2, <2>1
  <2>3. CASE irq
    <3>1. ticks <= Deadline + waited
      BY <1>4, <2>3 DEF CountInv
    <3>2. ticks' <= Deadline + waited' /\ ticks' <= Deadline + Latency
      BY <1>2, <1>3, <2>2, <2>3, <3>1
    <3> QED BY <1>1, <1>2, <1>3, <2>1, <2>2, <2>3, <3>2 DEF CountInv, P
  <2>4. CASE ~irq
    <3>1. ticks < Deadline
      BY <1>4, <2>4 DEF RunInv
    <3>2. ticks' <= Deadline
      BY <1>2, <2>2, <3>1
    <3>3. waited' \in Nat /\ ticks' \in Int /\ Deadline \in Int
      BY <1>2, <1>3, <2>2
    <3>4. ticks' <= Deadline + waited' /\ ticks' <= Deadline + Latency
      BY <1>2, <3>2, <3>3, Later
    <3> QED BY <1>1, <1>2, <1>3, <2>1, <2>2, <3>4 DEF CountInv, P
  <2> QED BY <2>3, <2>4
<1>5. CASE ~cen
  <2>1. UNCHANGED <<cen, ticks, sr, irq>>
    BY <1>5 DEF Tick
  <2> QED BY <1>1, <1>2, <1>3, <1>5, <2>1 DEF CountInv
<1> QED BY <1>4, <1>5

(* A scan ends with the hardware timer at 0 and no later deadline than the   *)
(* timers have, or leaves it as it is.                                       *)
LEMMA CountScanEnds == ASSUME TimerInv, CountInv, ScanEnds PROVE CountInv'
<1>1. Types /\ pc = "scan" /\ UNCHANGED waited
  BY DEF TimerInv, ScanEnds
<1>2. CASE next # Far
  <2> DEFINE t == Most(next, least)
  <2>1. next \in Int /\ least \in Nat /\ least > 0
    BY <1>1, SizeAssumption DEF Types
  <2>2. t \in Nat /\ t > 0
    BY <2>1 DEF Most
  <2>3. SetupTimer(t)
    BY <1>2 DEF ScanEnds
  <2> HIDE DEF t
  <2>4. /\ psc' \in Nat /\ ccr' \in 0..Top /\ ticks' = 0 /\ cen' = TRUE /\ sr' = FALSE
        /\ Deadline' > 0
    BY <2>2, <2>3, SetupDeadline
  <2>5. Deadline' \in Nat /\ (psc' + 1) * (Top + 1) > 0
    <3>1. psc' \in Nat /\ ccr' \in Nat /\ Top + 1 \in Nat /\ Top + 1 > 0
      BY <2>4, SizeAssumption
    <3>2. (psc' + 1) * ccr' \in Nat
      BY <3>1, ProductType
    <3>3. (psc' + 1) * (Top + 1) > 0
      BY <3>1, ProductType
    <3> QED BY <3>2, <3>3 DEF Deadline
  <2>7. waited \in Nat /\ waited <= Latency /\ Latency \in Nat
    BY BoundsType DEF CountInv
  <2>8. ticks' <= Deadline' + waited' /\ ticks' <= Deadline' + Latency
    <3>1. waited' \in Nat /\ ticks' \in Int /\ Deadline' \in Int /\ ticks' <= Deadline'
      BY <1>1, <2>4, <2>5, <2>7
    <3> QED BY <2>7, <3>1, Later
  <2> QED BY <1>1, <2>4, <2>5, <2>7, <2>8 DEF CountInv
<1>3. CASE next = Far
  <2>1. UNCHANGED <<cen, ticks, psc, ccr, sr>> /\ irq' = (irq \/ sr) /\ Deadline' = Deadline
    BY <1>3 DEF ScanEnds, hw, Deadline
  <2>2. cen /\ irq' => irq
    BY <2>1 DEF CountInv
  <2> QED BY <1>1, <2>1, <2>2 DEF CountInv
<1> QED BY <1>2, <1>3

LEMMA CountOther ==
  ASSUME CountInv, UNCHANGED <<ticks, psc, ccr, sr>>, waited' \in {0, waited},
         \/ UNCHANGED <<cen, irq, waited>>
         \/ cen' = FALSE
  PROVE  CountInv'
<1>1. Deadline' = Deadline /\ Latency \in Nat
  BY BoundsType DEF Deadline
<1> QED BY <1>1 DEF CountInv

LEMMA CountNext ==
  ASSUME TimerInv, CountInv, [Next]_vars PROVE CountInv'
<1>1. CASE Tick
  BY <1>1, CountTick DEF TimerInv
<1>2. CASE Interrupt
  BY <1>2, CountOther DEF Interrupt
<1>3. CASE ScanEnds
  BY <1>3, CountScanEnds
<1>4. CASE UNCHANGED <<hw, irq, waited>>
  BY <1>4, CountOther DEF hw
<1> QED BY <1>1, <1>2, <1>3, <1>4 DEF Next, Scan, ScanFree, ScanRunning, ScanExpired,
           CallbackReturns, CalmDown, Unregister, Register, RegisterNested, hist, vars

(* A counter starts with an interval, on top of what has elapsed.            *)
LEMMA CounterAssign ==
  ASSUME Types, CounterInv, NEW c \in Callbacks, NEW i \in Indexes,
         NEW t \in Intervals, NEW once \in BOOLEAN, Assign(i, c, t, once)
  PROVE  CounterInv'
<1>1. /\ handles'[i].tickCounter = t + Elapsed
      /\ \A j \in Indexes : j # i => handles'[j] = handles[j]
  BY AssignFacts
<1>2. Elapsed \in Nat /\ t \in Nat
  BY ElapsedType, SizeAssumption DEF Types
<1>3. Tc(i)' \in Nat
  BY <1>1, <1>2 DEF Tc
<1> QED BY <1>1, <1>3 DEF CounterInv, Tc

LEMMA CounterNext ==
  ASSUME TimerInv, CounterInv, [Next]_vars PROVE CounterInv'
<1>0. Types
  BY DEF TimerInv
<1>1. ASSUME UNCHANGED handles PROVE CounterInv'
  BY <1>1 DEF CounterInv, Tc
<1>2. ASSUME NEW i \in Indexes, NEW h, handles' = [handles EXCEPT ![i] = h],
             h.tickCounter \in Nat
      PROVE  CounterInv'
  BY <1>0, <1>2 DEF CounterInv, Tc, Types
<1>3. CASE ScanRunning
  <2>1. PICK i \in Indexes : handles' = [handles EXCEPT ![i].tickCounter = Rest(i)] /\ Rest(i) > 0
    BY <1>3 DEF ScanRunning
  <2>2. Rest(i) \in Int
    BY <1>0 DEF Rest, Types, Handle
  <2>3. Rest(i) \in Nat
    BY <2>1, <2>2
  <2>4. \A j \in Indexes : Tc(j)' = IF j = i THEN Rest(i) ELSE Tc(j)
    BY <1>0, <2>1 DEF Tc, Types, Handle
  <2> QED BY <2>3, <2>4 DEF CounterInv
<1>4. CASE ScanExpired
  <2>1. PICK i \in Indexes : handles' = [handles EXCEPT ![i] = Rescheduled(handles[i], Rest(i))]
    BY <1>4 DEF ScanExpired
  <2> DEFINE h == Rescheduled(handles[i], Rest(i))
             n == handles[i].interval
  <2>2. n \in Nat /\ Rest(i) \in Int /\ handles[i] \in Handle
    BY <1>0, NearType DEF Types, Handle, Rest
  <2>3. h.tickCounter \in Nat
    <3>1. CASE handles[i].oneShot
      BY <3>1 DEF Rescheduled, Free
    <3>2. CASE ~handles[i].oneShot
      <4> DEFINE k == Least(Most(Rest(i) + n, 0), n)
      <4>1. h.tickCounter = k
        BY <2>2, <3>2 DEF Rescheduled, Handle
      <4>2. Most(Rest(i) + n, 0) \in Nat
        BY <2>2 DEF Most
      <4>3. k \in Nat
        BY <2>2, <4>2 DEF Least
      <4> QED BY <4>1, <4>3
    <3> QED BY <3>1, <3>2
  <2> HIDE DEF h
  <2> QED BY <1>2, <2>1, <2>3 DEF h
<1>5. ASSUME NEW c \in Callbacks, Unregister(c) PROVE CounterInv'
  <2>1. PICK i \in Indexes : handles' = [handles EXCEPT ![i] = Free]
    BY <1>5 DEF Unregister
  <2>2. Free.tickCounter \in Nat
    BY DEF Free
  <2> QED BY <1>2, <2>1, <2>2
<1>6. ASSUME NEW c \in Callbacks, NEW t \in Intervals, NEW once \in BOOLEAN,
             Register(c, t, once) \/ RegisterNested(c, t, once)
      PROVE  CounterInv'
  <2>1. UNCHANGED handles \/ \E i \in Indexes : Assign(i, c, t, once)
    BY <1>6 DEF Register, RegisterNested
  <2> QED BY <1>0, <1>1, <2>1, CounterAssign
<1>7. CASE Tick \/ Interrupt \/ ScanFree \/ CallbackReturns \/ ScanEnds \/ CalmDown
           \/ UNCHANGED vars
  BY <1>1, <1>7 DEF Tick, Interrupt, ScanFree, CallbackReturns, ScanEnds, CalmDown, vars
<1> QED BY <1>3, <1>4, <1>5, <1>6, <1>7 DEF Next, Scan

(* A handle changes: the others keep their bound, and a callback that is     *)
(* taken off the late ones is in no other slot.                              *)
LEMMA PromptHandle ==
  ASSUME Types, OneSlotInv, PromptInv,
         NEW i \in Indexes, NEW c \in Callbacks,
         handles[i].callback = c \/ \A j \in Indexes : handles[j].callback # c,
         \A j \in Indexes : j # i => handles'[j] = handles[j],
         \A j \in Indexes : j # i => (Ahead(j) => Ahead(j)'),
         elapsed' \in Nat, (pc = "open" \/ elapsed' = elapsed),
         late' = late \ {c} \/ (late' = late \cup {c} /\ handles'[i].callback = c),
         handles'[i].callback \in {c, None},
         c \in late' \/ handles'[i].callback = None
           \/ Tc(i)' <= handles'[i].interval + (IF Ahead(i)' THEN elapsed' ELSE 0)
  PROVE  PromptInv'
<1>1. late' \subseteq Callbacks
  BY DEF PromptInv
<1>2. ASSUME NEW j \in Indexes, j # i, Used(j), Owner(j) \notin late'
      PROVE  Tc(j) <= handles[j].interval + (IF Ahead(j)' THEN elapsed' ELSE 0)
  <2>1. Owner(j) # c
    BY <1>2, NoneAssumption DEF OneSlotInv, OneSlot, Owner
  <2>2. Owner(j) \notin late
    BY <1>2, <2>1
  <2>3. Tc(j) <= handles[j].interval + (IF Ahead(j) THEN elapsed ELSE 0)
    BY <1>2, <2>2 DEF PromptInv
  <2>4. Tc(j) \in Int /\ handles[j].interval \in Int /\ elapsed \in Nat
    BY NearType DEF Types, Handle, Tc
  <2>5. Ahead(j) => Ahead(j)' /\ elapsed' = elapsed
    BY <1>2 DEF Ahead
  <2> QED BY <2>3, <2>4, <2>5
<1>3. ASSUME NEW j \in Indexes, Used(j)', Owner(j)' \notin late'
      PROVE  Tc(j)' <= handles'[j].interval + (IF Ahead(j)' THEN elapsed' ELSE 0)
  <2>1. CASE j = i
    BY <1>3, <2>1 DEF Used, Owner
  <2>2. CASE j # i
    <3>1. handles'[j] = handles[j] /\ Used(j) /\ Owner(j) \notin late'
      BY <1>3, <2>2 DEF Used, Owner
    <3> QED BY <1>2, <2>2, <3>1 DEF Tc
  <2> QED BY <2>1, <2>2
<1> QED BY <1>1, <1>3 DEF PromptInv

(* The scan goes on, past no used slot whose elapsed ticks are still on it.  *)
LEMMA PromptPass ==
  ASSUME Types, PromptInv, UNCHANGED <<handles, late>>,
         \A j \in Indexes : Used(j) /\ Ahead(j) => Ahead(j)' /\ elapsed' = elapsed,
         elapsed' \in Nat
  PROVE  PromptInv'
<1>1. ASSUME NEW j \in Indexes, Used(j), Owner(j) \notin late
      PROVE  Tc(j) <= handles[j].interval + (IF Ahead(j)' THEN elapsed' ELSE 0)
  <2>1. Tc(j) <= handles[j].interval + (IF Ahead(j) THEN elapsed ELSE 0)
    BY <1>1 DEF PromptInv
  <2>2. Tc(j) \in Int /\ handles[j].interval \in Int /\ elapsed \in Nat
    BY NearType DEF Types, Handle, Tc
  <2> QED BY <1>1, <2>1, <2>2
<1> QED BY <1>1 DEF PromptInv, Used, Owner, Tc

LEMMA PromptNext ==
  ASSUME TimerInv, OneSlotInv, EarlyInv, PromptInv, [Next]_vars PROVE PromptInv'
<1>0. Types /\ elapsed \in Nat /\ Elapsed \in Nat /\ (pc # "open" => elapsed = Elapsed)
  BY ElapsedType DEF TimerInv, Types, EarlyInv
<1>1. CASE Tick \/ CalmDown \/ UNCHANGED vars
  <2>1. UNCHANGED <<handles, late, pc, slot, elapsed>>
    BY <1>1 DEF Tick, CalmDown, vars, hist, scan
  <2> QED BY <1>0, <2>1, PromptPass DEF Ahead
<1>2. CASE Interrupt
  <2>1. UNCHANGED <<handles, late>> /\ pc = "open" /\ elapsed' = Elapsed
    BY <1>2 DEF Interrupt, BeginScan
  <2> QED BY <1>0, <2>1, PromptPass DEF Ahead
<1>3. CASE ScanFree
  <2>1. PICK i \in Indexes : /\ slot = i /\ pc = "scan" /\ ~Used(i) /\ slot' = slot + 1
                             /\ UNCHANGED <<handles, late, pc, elapsed>>
    BY <1>3 DEF ScanFree, At, Used, hist
  <2>2. \A j \in Indexes : Used(j) /\ Ahead(j) => Ahead(j)'
    BY <2>1, SizeAssumption DEF Ahead, Indexes
  <2> QED BY <1>0, <2>1, <2>2, PromptPass
<1>4. CASE CallbackReturns
  <2>1. /\ pc = "callback" /\ pc' = "scan" /\ slot' = slot + 1
        /\ UNCHANGED <<handles, late, elapsed>>
    BY <1>4 DEF CallbackReturns, hist
  <2>2. \A j \in Indexes : Ahead(j) => Ahead(j)'
    BY <1>0, <2>1, SizeAssumption DEF Ahead, Indexes, Types
  <2> QED BY <1>0, <2>1, <2>2, PromptPass
<1>5. CASE ScanEnds
  <2>1. pc = "scan" /\ slot = Slots /\ elapsed' = 0 /\ UNCHANGED <<handles, late>>
    BY <1>5 DEF ScanEnds
  <2>2. \A j \in Indexes : ~Ahead(j)
    BY <2>1, SizeAssumption DEF Ahead, Indexes
  <2> QED BY <1>0, <2>1, <2>2, PromptPass
<1>6. CASE ScanRunning
  <2>1. PICK i \in Indexes :
          /\ pc = "scan" /\ slot = i /\ Used(i)
          /\ handles' = [handles EXCEPT ![i].tickCounter = Rest(i)]
          /\ slot' = slot + 1 /\ UNCHANGED <<pc, elapsed, late>>
    BY <1>6 DEF ScanRunning, At, Used, hist
  <2>2. /\ Tc(i)' = Tc(i) - elapsed /\ handles'[i].interval = handles[i].interval
        /\ Owner(i)' = Owner(i)
        /\ \A j \in Indexes : j # i => handles'[j] = handles[j]
    BY <1>0, <2>1 DEF Types, Handle, Tc, Owner, Rest
  <2>3. Ahead(i) /\ \A j \in Indexes : j # i => (Ahead(j) <=> Ahead(j)')
    BY <2>1, SizeAssumption DEF Ahead, Indexes
  <2>4. ASSUME NEW j \in Indexes, Used(j)', Owner(j)' \notin late'
        PROVE  Tc(j)' <= handles'[j].interval + (IF Ahead(j)' THEN elapsed' ELSE 0)
    <3>1. Used(j) /\ Owner(j) \notin late
      BY <2>1, <2>2, <2>4 DEF Used, Owner
    <3>2. Tc(j) <= handles[j].interval + (IF Ahead(j) THEN elapsed ELSE 0)
      BY <3>1 DEF PromptInv
    <3>3. Tc(j) \in Int /\ handles[j].interval \in Int
      BY <1>0, NearType DEF Types, Handle, Tc
    <3>4. CASE j = i
      BY <1>0, <2>1, <2>2, <2>3, <3>2, <3>3, <3>4
    <3>5. CASE j # i
      BY <2>1, <2>2, <2>3, <3>2, <3>5 DEF Tc
    <3> QED BY <3>4, <3>5
  <2> QED BY <2>1, <2>4 DEF PromptInv
<1>7. CASE ScanExpired
  <2>1. PICK i \in Indexes :
          /\ pc = "scan" /\ slot = i /\ Used(i) /\ Rest(i) <= 0
          /\ handles' = [handles EXCEPT ![i] = Rescheduled(handles[i], Rest(i))]
          /\ late' = late \ {Owner(i)} /\ pc' = "callback" /\ UNCHANGED <<slot, elapsed>>
    BY <1>7 DEF ScanExpired, At, Used, Owner
  <2> DEFINE h == Rescheduled(handles[i], Rest(i))
             n == handles[i].interval
  <2>2. /\ handles[i] \in Handle /\ n \in Nat /\ Rest(i) \in Int
        /\ Owner(i) \in Callbacks
    BY <1>0, <2>1, NearType DEF Types, Handle, Rest, Used, Owner
  <2>3. /\ h.callback \in {Owner(i), None}
        /\ h.callback = None \/ h.tickCounter <= h.interval
    <3>1. CASE handles[i].oneShot
      BY <3>1 DEF Rescheduled, Free
    <3>2. CASE ~handles[i].oneShot
      <4> DEFINE k == Least(Most(Rest(i) + n, 0), n)
      <4>1. h = [handles[i] EXCEPT !.tickCounter = k]
        BY <3>2 DEF Rescheduled
      <4>2. k <= n
        BY <2>2 DEF Least, Most
      <4> HIDE DEF k, h
      <4> QED BY <2>2, <4>1, <4>2 DEF Handle, Owner
    <3> QED BY <3>1, <3>2
  <2> HIDE DEF h
  <2>4. handles'[i] = h /\ \A j \in Indexes : j # i => handles'[j] = handles[j]
    BY <1>0, <2>1 DEF Types, h
  <2>5. ~Ahead(i)' /\ \A j \in Indexes : j # i => (Ahead(j) => Ahead(j)')
    BY <2>1, SizeAssumption DEF Ahead, Indexes
  <2>6. /\ handles'[i].callback \in {Owner(i), None}
        /\ handles'[i].callback = None
             \/ Tc(i)' <= handles'[i].interval + (IF Ahead(i)' THEN elapsed' ELSE 0)
    <3>1. CASE h.callback = None
      BY <2>4, <3>1
    <3>2. CASE h.tickCounter <= h.interval /\ h = [handles[i] EXCEPT !.tickCounter = h.tickCounter]
      BY <2>2, <2>3, <2>4, <2>5, <3>2 DEF Tc, Handle
    <3>3. handles[i].oneShot \/ h = [handles[i] EXCEPT !.tickCounter = h.tickCounter]
      BY <2>2 DEF h, Rescheduled, Handle
    <3>4. handles[i].oneShot => h.callback = None
      BY DEF h, Rescheduled, Free
    <3> QED BY <2>3, <3>1, <3>2, <3>3, <3>4
  <2> QED BY <1>0, <2>1, <2>2, <2>4, <2>5, <2>6, PromptHandle DEF Owner
<1>8. ASSUME NEW c \in Callbacks, Unregister(c) PROVE PromptInv'
  <2>1. PICK i \in Indexes : handles[i].callback = c /\ handles' = [handles EXCEPT ![i] = Free]
    BY <1>8 DEF Unregister
  <2>2. late' = late \ {c} /\ UNCHANGED <<pc, slot, elapsed>>
    BY <1>8 DEF Unregister, scan
  <2>3. handles'[i].callback = None /\ \A j \in Indexes : j # i => handles'[j] = handles[j]
    BY <1>0, <2>1 DEF Types, Free
  <2> QED BY <1>0, <2>1, <2>2, <2>3, PromptHandle DEF Ahead
<1>9. ASSUME NEW c \in Callbacks, NEW t \in Intervals, NEW once \in BOOLEAN, NEW i \in Indexes,
             SlotFor(c, i), Assign(i, c, t, once)
      PROVE  /\ handles[i].callback = c \/ \A j \in Indexes : handles[j].callback # c
             /\ \A j \in Indexes : j # i => handles'[j] = handles[j]
             /\ handles'[i].callback = c /\ handles'[i].interval = t /\ t \in Nat
             /\ Tc(i)' = t + Elapsed
  <2>1. handles[i].callback = c \/ \A j \in Indexes : handles[j].callback # c
    BY <1>9 DEF SlotFor
  <2>2. handles'[i] = [callback |-> c, interval |-> t, oneShot |-> once, tickCounter |-> t + Elapsed]
        /\ \A j \in Indexes : j # i => handles'[j] = handles[j]
    BY <1>0, <1>9 DEF Types, Assign
  <2> QED BY <2>1, <2>2, SizeAssumption DEF Tc
<1>10. ASSUME NEW c \in Callbacks, NEW t \in Intervals, NEW once \in BOOLEAN,
              Register(c, t, once)
       PROVE  PromptInv'
  <2>1. /\ pc = "open" /\ pc' = "scan" /\ slot' = 0 /\ elapsed' = Elapsed
        /\ late' = late \ {c}
    BY <1>10 DEF Register, BeginScan
  <2>2. \A j \in Indexes : ~Ahead(j) /\ Ahead(j)'
    BY <2>1, SizeAssumption DEF Ahead, Indexes
  <2>3. CASE \E i \in Indexes : SlotFor(c, i) /\ Assign(i, c, t, once)
    <3> PICK i \in Indexes : SlotFor(c, i) /\ Assign(i, c, t, once)
      BY <2>3
    <3>1. Tc(i)' <= handles'[i].interval + (IF Ahead(i)' THEN elapsed' ELSE 0)
      BY <1>0, <1>9, <2>1, <2>2
    <3> QED BY <1>0, <1>9, <2>1, <2>2, <3>1, PromptHandle
  <2>4. CASE (\A i \in Indexes : ~SlotFor(c, i)) /\ UNCHANGED handles
    <3>1. \A j \in Indexes : Owner(j) # c
      BY <2>4 DEF SlotFor, Owner
    <3>2. ASSUME NEW j \in Indexes, Used(j), Owner(j) \notin late'
          PROVE  Tc(j) <= handles[j].interval + elapsed'
      <4>1. Tc(j) <= handles[j].interval + 0
        BY <2>1, <2>2, <3>1, <3>2 DEF PromptInv
      <4>2. Tc(j) \in Int /\ handles[j].interval \in Int
        BY <1>0, NearType DEF Types, Handle, Tc
      <4> QED BY <1>0, <2>1, <4>1, <4>2
    <3> QED BY <2>1, <2>2, <2>4, <3>2 DEF PromptInv, Used, Owner, Tc
  <2> QED BY <1>10, <2>3, <2>4 DEF Register
<1>11. ASSUME NEW c \in Callbacks, NEW t \in Intervals, NEW once \in BOOLEAN,
              RegisterNested(c, t, once)
       PROVE  PromptInv'
  <2>1. PICK i \in Indexes : /\ SlotFor(c, i) /\ Assign(i, c, t, once)
                             /\ late' = IF i <= slot THEN late \cup {c} ELSE late \ {c}
    BY <1>11 DEF RegisterNested
  <2>2. pc = "callback" /\ UNCHANGED <<pc, slot, elapsed>>
    BY <1>11 DEF RegisterNested, scan
  <2>3. c \in late' \/ Tc(i)' <= handles'[i].interval + (IF Ahead(i)' THEN elapsed' ELSE 0)
    <3>1. i \in Int /\ slot \in Int
      BY <1>0, SizeAssumption DEF Indexes, Types
    <3>2. i > slot => Ahead(i)' /\ elapsed' = Elapsed
      BY <1>0, <2>2 DEF Ahead
    <3>3. i <= slot => c \in late'
      BY <2>1
    <3> QED BY <1>0, <1>9, <2>1, <3>1, <3>2, <3>3
  <2>4. late' = late \ {c} \/ late' = late \cup {c}
    BY <2>1
  <2>5. \A j \in Indexes : Ahead(j) => Ahead(j)'
    BY <2>2 DEF Ahead
  <2> QED BY <1>0, <1>9, <2>1, <2>2, <2>3, <2>4, <2>5, PromptHandle
<1> QED BY <1>1, <1>2, <1>3, <1>4, <1>5, <1>6, <1>7, <1>8, <1>10, <1>11 DEF Next, Scan

(* A callback is due an interval after it was registered or was due before:  *)
(* unless its timer is adrift it was due when it was called.                 *)
LEMMA LeftNext ==
  ASSUME TimerInv, EarlyInv, LeftInv, [Next]_vars PROVE LeftInv'
<1>0. Types /\ left \in [Callbacks -> Int] /\ MaxLate \in Nat /\ Longest \in Nat
  BY BoundsType DEF TimerInv, EarlyInv
<1>1. ASSUME UNCHANGED left, adrift \subseteq adrift', adrift' \subseteq Callbacks,
             calling' \in {calling, None}
      PROVE  LeftInv'
  BY <1>1 DEF LeftInv
<1>2. ASSUME NEW c \in Callbacks, NEW x \in Int, left' = [left EXCEPT ![c] = x],
             x >= -MaxLate, x <= Longest, adrift' \in {adrift, adrift \ {c}},
             calling' \in Callbacks \cup {None}
      PROVE  LeftInv'
  <2>1. \A d \in Callbacks : left'[d] = IF d = c THEN x ELSE left[d]
    BY <1>0, <1>2
  <2> QED BY <1>2, <2>1 DEF LeftInv
<1>3. CASE Tick
  <2>1. UNCHANGED <<adrift, calling>>
        /\ left' = [c \in Callbacks |-> IF Registered(c) THEN Most(left[c] - 1, -MaxLate) ELSE 0]
    BY <1>3 DEF Tick, scan
  <2>2. ASSUME NEW c \in Callbacks
        PROVE  left'[c] >= -MaxLate /\ (c \notin adrift => left'[c] <= Longest)
    <3>1. left'[c] = (IF Registered(c) THEN Most(left[c] - 1, -MaxLate) ELSE 0) /\ left[c] \in Int
      BY <1>0, <2>1
    <3>2. left[c] >= -MaxLate /\ (c \notin adrift => left[c] <= Longest)
      BY DEF LeftInv
    <3> QED BY <1>0, <3>1, <3>2 DEF Most
  <2> QED BY <2>1, <2>2 DEF LeftInv
<1>4. CASE ScanExpired
  <2>1. PICK i \in Indexes :
          /\ pc = "scan" /\ slot = i /\ Used(i) /\ Rest(i) <= 0 /\ calling' = Owner(i)
          /\ left' = [left EXCEPT ![Owner(i)] = IF handles[i].oneShot THEN 0
                                                ELSE IF left[Owner(i)] = -MaxLate
                                                     THEN left[Owner(i)]
                                                ELSE left[Owner(i)] + handles[i].interval]
          /\ UNCHANGED adrift
    BY <1>4 DEF ScanExpired, At, Used, Owner
  <2> DEFINE c == Owner(i)
             n == handles[i].interval
             x == IF handles[i].oneShot THEN 0
                  ELSE IF left[c] = -MaxLate THEN left[c] ELSE left[c] + n
  <2>2. c \in Callbacks /\ left[c] \in Int /\ n \in Nat /\ n <= Longest
    <3>1. c \in Callbacks /\ left[c] \in Int
      BY <1>0, <2>1, UsedFacts
    <3>2. n \in Intervals \cup {0}
      BY <1>0 DEF Types, Handle
    <3>3. \A t \in Intervals \cup {0} : t \in Nat /\ t <= Longest
      BY <1>0, LongestInterval, SizeAssumption
    <3> HIDE DEF c, n
    <3> QED BY <3>1, <3>2, <3>3
  <2>3. c \notin adrift => left[c] <= 0
    BY <1>0, <2>1, RanOut
  <2>4. x \in Int /\ x >= -MaxLate /\ (c \notin adrift => x <= Longest)
    <3>1. left[c] >= -MaxLate
      BY <2>2 DEF LeftInv
    <3> QED BY <1>0, <2>2, <2>3, <3>1
  <2>5. \A d \in Callbacks : left'[d] = IF d = c THEN x ELSE left[d]
    BY <1>0, <2>1
  <2> QED BY <2>1, <2>2, <2>4, <2>5 DEF LeftInv
<1>5. ASSUME NEW c \in Callbacks, Unregister(c) PROVE LeftInv'
  <2>1. left' = [left EXCEPT ![c] = 0] /\ UNCHANGED <<adrift, calling>>
    BY <1>5 DEF Unregister, scan
  <2> QED BY <1>0, <1>2, <2>1 DEF LeftInv
<1>6. ASSUME NEW c \in Callbacks, NEW t \in Intervals, NEW once \in BOOLEAN,
             Register(c, t, once) \/ RegisterNested(c, t, once)
      PROVE  LeftInv'
  <2>1. UNCHANGED calling
    BY <1>6 DEF Register, RegisterNested, BeginScan, scan
  <2>2. \/ UNCHANGED <<left, adrift>>
        \/ left' = [left EXCEPT ![c] = t] /\ adrift' = adrift \ {c}
    BY <1>6 DEF Register, RegisterNested, Assign
  <2>3. t \in Nat /\ t <= Longest
    BY LongestInterval, SizeAssumption
  <2>4. t \in Int /\ t >= -MaxLate
    BY <1>0, <2>3
  <2>5. calling' \in Callbacks \cup {None} /\ adrift \subseteq Callbacks
    BY <2>1 DEF LeftInv
  <2> QED BY <1>1, <1>2, <2>1, <2>2, <2>3, <2>4, <2>5
<1>7. CASE CallbackReturns \/ ScanEnds
  <2>1. UNCHANGED left /\ adrift \subseteq adrift' /\ calling' \in {calling, None}
    BY <1>7 DEF CallbackReturns, ScanEnds, hist
  <2>2. adrift' \subseteq Callbacks
    BY <1>7 DEF CallbackReturns, ScanEnds, hist, LeftInv
  <2> QED BY <1>1, <2>1, <2>2
<1>8. CASE Interrupt \/ ScanFree \/ ScanRunning \/ CalmDown \/ UNCHANGED vars
  <2>1. UNCHANGED <<left, adrift, calling>>
    BY <1>8 DEF Interrupt, BeginScan, ScanFree, ScanRunning, CalmDown, vars, hist, scan
  <2>2. adrift' \subseteq Callbacks
    BY <2>1 DEF LeftInv
  <2> QED BY <1>1, <2>1, <2>2
<1> QED BY <1>3, <1>4, <1>5, <1>6, <1>7, <1>8 DEF Next, Scan

LEMMA RangeNext ==
  ASSUME TimerInv, OneSlotInv, EarlyInv, RangeInv, [Next]_vars PROVE RangeInv'
BY CountNext, CounterNext, PromptNext, LeftNext DEF RangeInv

LEMMA RangeTypeOK ==
  ASSUME TimerInv, EarlyInv, RangeInv PROVE TypeOK
<1>1. Types /\ left \in [Callbacks -> Int] /\ skipped \subseteq Indexes
  BY DEF TimerInv, EarlyInv
<1>2. \A i \in Indexes : Tc(i) \in Nat
  BY DEF RangeInv, CounterInv
<1>3. handles \in [Indexes -> [callback : Callbacks \cup {None}, oneShot : BOOLEAN,
                               interval : Intervals \cup {0},
                               tickCounter : Nat]]
  BY <1>1, <1>2 DEF Types, Handle, Tc
<1>4. ticks \in 0..((psc + 1) * (Top + 1) - 1) /\ ticks <= Deadline + Latency
  BY <1>1, DeadlineType DEF RangeInv, CountInv, Types
<1>5. slot \in 0..Slots /\ waited \in 0..Latency
  BY <1>1, BoundsType, SizeAssumption DEF RangeInv, CountInv, Types
<1>6. ASSUME pc = "open", NEW i \in Indexes, handles[i].callback \notin late \cup {None}
      PROVE  handles[i].tickCounter <= handles[i].interval
  <2>1. Tc(i) <= handles[i].interval + 0
    BY <1>6 DEF RangeInv, PromptInv, Ahead, Used, Owner
  <2>2. Tc(i) \in Int /\ handles[i].interval \in Int
    BY <1>1, NearType DEF Types, Handle, Tc
  <2> QED BY <2>1, <2>2 DEF Tc
<1>7. late \subseteq Callbacks
  BY DEF RangeInv, PromptInv
<1> QED BY <1>1, <1>3, <1>4, <1>5, <1>6, <1>7 DEF TypeOK, Types, RangeInv, CountInv, LeftInv

-------------------------------------------------------------------------------
(* The deadlines of a scan (NearInv, NextInv) and the state of the hardware   *)
(* timer (RunInv) go together in every state: what swTimer_trigger collects  *)
(* in nextInterval is what hw_timerSetupTimer is called with.                *)
THEOREM TimerInvariant == Spec => [](TimerInv /\ OneSlotInv)
<1>1. Init => TimerInv /\ OneSlotInv
  BY TimerInit
<1>2. TimerInv /\ OneSlotInv /\ [Next]_vars => TimerInv' /\ OneSlotInv'
  BY TimerNext
<1> QED BY <1>1, <1>2, PTL DEF Spec

(* A callback is in one slot at most, however often swTimer_register... is   *)
(* called for it, from wherever.                                             *)
THEOREM TimersOneSlot == Spec => []OneSlot
<1>1. TimerInv /\ OneSlotInv => OneSlot
  BY DEF OneSlotInv
<1> QED BY <1>1, TimerInvariant, PTL

(* The hardware timer is never set later than the earliest deadline, except  *)
(* for timers a callback put into a slot its scan had passed.                *)
THEOREM TimersArmed == Spec => []Armed
<1>1. TimerInv /\ OneSlotInv => Armed
  BY DEF TimerInv
<1> QED BY <1>1, TimerInvariant, PTL

(* No call comes before its time, whoever registers, unregisters or expires  *)
(* meanwhile and whenever the hardware timer is set, stops or overflows: the *)
(* ticks a timer has left, and those not yet taken off its counter, are      *)
(* never more than the counter (EarlyInv).  Only a timer that is adrift is   *)
(* excepted.                                                                 *)
THEOREM TimersNotEarly == Spec => NotEarly
<1> DEFINE Early == calling' \notin adrift \cup {None} /\ calling = None => left[calling'] <= 0
<1>1. Init => EarlyInv
  BY EarlyInit
<1>2. TimerInv /\ OneSlotInv /\ EarlyInv /\ [Next]_vars => EarlyInv'
  BY EarlyNext
<1>3. TimerInv /\ EarlyInv /\ [Next]_vars => [Early]_vars
  BY EarlyStep DEF TimerInv
<1>4. NotEarly <=> [][Early]_vars
  BY DEF NotEarly
<1> QED BY <1>1, <1>2, <1>3, <1>4, TimerInvariant, PTL DEF Spec

(* Between two scans no timer has more than its interval to wait, except one *)
(* a callback put into a slot its scan had come to (which the model bounds   *)
(* with MaxTicks, and the code does not): every scan takes off what has      *)
(* elapsed, and a registration puts on top what the scan it starts, or the   *)
(* running one, will take off (PromptInv).  And the hardware timer passes    *)
(* its compare value only while its interrupt waits (CountInv).              *)
THEOREM TimersTypeOK == Spec => []TypeOK
<1>1. Init => EarlyInv /\ RangeInv
  BY EarlyInit, RangeInit
<1>2. TimerInv /\ OneSlotInv /\ EarlyInv /\ RangeInv /\ [Next]_vars => EarlyInv' /\ RangeInv'
  BY EarlyNext, RangeNext
<1>3. TimerInv /\ EarlyInv /\ RangeInv => TypeOK
  BY RangeTypeOK
<1> QED BY <1>1, <1>2, <1>3, TimerInvariant, PTL DEF Spec
===============================================================================
