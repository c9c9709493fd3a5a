-------------------------------- MODULE SwTimer --------------------------------
(***************************************************************************)
(* The software timers (swTimer.c) on one hardware timer (hwTimer.c).      *)
(* Callbacks are registered in slots with the ticks that are left; both a  *)
(* registration and the interrupt of the hardware timer scan the slots,    *)
(* call what ran out and set the hardware timer to the earliest of the     *)
(* rest.  A callback may register and unregister timers itself.            *)
(*                                                                         *)
(* All of this runs with interrupts disabled, and takes no time in the     *)
(* model; between two scans the hardware timer counts, and its interrupt   *)
(* may have to wait.                                                       *)
(***************************************************************************)
EXTENDS Integers

CONSTANTS Callbacks,
          Slots,         \* SW_TIMER_MAX_HANDLES
          Intervals,     \* hw_timerTicks clients ask for
          MinRegister,   \* least interval of a registration (4) and
          MinTrigger,    \* of swTimer_trigger (40)
          Top,           \* largest count and compare value (0xffff)
          Latency,       \* ticks the interrupt may have to wait
          MaxLate,       \* bound: lateness counted
          MaxTicks,      \* bound: ticks a callback may have a timer start with
          None

ASSUME SizeAssumption ==
  /\ Slots \in Nat \ {0} /\ Top \in Nat \ {0} /\ {Latency, MaxLate, MaxTicks} \subseteq Nat
  /\ MinRegister \in 1..Top /\ MinTrigger \in 1..Top
  /\ Intervals \subseteq Nat \ {0} /\ Intervals # {}
ASSUME NoneAssumption == None \notin Callbacks

VARIABLES
  handles,   \* g_swTimerHandles
  cen, ticks, psc, ccr, sr,   \* TIM2: enabled, ticks since set up, prescaler,
                              \* compare value, compare flag
  irq,       \* the interrupt is pending
  pc, slot, elapsed, next,    \* a scan: place, i, ticksElapsed, nextInterval
  least,     \* its minimal interval: who scans
  calling,   \* the callback the scan has called
  skipped,   \* history: slots a callback filled after the scan had passed them
  adrift,    \* history: callbacks whose timer waits on a hardware timer that
             \* was not restarted for it
  left,      \* history: ticks until each callback is due, -MaxLate: too late to
             \* count
  waited,    \* history: ticks the interrupt has been pending
  late,      \* history: callbacks whose timer a callback put into a slot the
             \* scan had come to: what had elapsed is on top of the interval
  calm       \* history: no client will register or unregister again

hw    == <<cen, ticks, psc, ccr, sr>>
scan  == <<pc, slot, elapsed, next, least, calling>>
hist  == <<skipped, adrift, left, waited, late, calm>>
vars  == <<handles, hw, irq, scan, hist>>

Indexes == 0..(Slots - 1)
Free    == [callback |-> None, interval |-> 0, tickCounter |-> 0, oneShot |-> FALSE]
Far     == 2147483647        \* 0x7fffffff: no deadline

(* Intervals below 44 seconds; a longer one would set no deadline. *)
ASSUME IntervalAssumption == MaxTicks < Far /\ \A t \in Intervals : t < Far

Longest == CHOOSE n \in Intervals : \A m \in Intervals : m <= n
Least(a, b) == IF a > b THEN b ELSE a
Most(a, b)  == IF a < b THEN b ELSE a

Deadline == (psc + 1) * ccr

Registered(c) == \E i \in Indexes : handles[i].callback = c

(* Types and ranges.  Between two scans no timer has more than its interval  *)
(* to wait, however often other registrations reset the hardware timer, the  *)
(* prescaler rounds or interrupts are late - except one a callback put into  *)
(* a slot its scan had come to.  The hardware timer counts on for no longer  *)
(* than its interrupt has to wait.                                           *)
TypeOK ==
  /\ handles \in [Indexes -> [callback : Callbacks \cup {None}, oneShot : BOOLEAN,
                              interval : Intervals \cup {0},
                              tickCounter : Nat]]
  /\ pc = "open" =>
       \A i \in Indexes : handles[i].callback \notin late \cup {None} =>
                            handles[i].tickCounter <= handles[i].interval
  /\ cen \in BOOLEAN /\ sr \in BOOLEAN /\ irq \in BOOLEAN
  /\ psc \in Nat /\ ccr \in 0..Top /\ ticks \in 0..((psc + 1) * (Top + 1) - 1)
  /\ ticks <= Deadline + Latency
  /\ pc \in {"open", "scan", "callback"}
  /\ slot \in 0..Slots
  /\ calling \in Callbacks \cup {None}
  /\ skipped \subseteq Indexes /\ {adrift, late} \subseteq SUBSET Callbacks
  /\ left \in [Callbacks -> Int]
  /\ \A c \in Callbacks : left[c] >= -MaxLate /\ (c \notin adrift => left[c] <= Longest)
  /\ waited \in 0..Latency

(* swTimerInit and the init of hwTimer.c *)
Init ==
  /\ handles = [i \in Indexes |-> Free]
  /\ cen = FALSE /\ ticks = 0 /\ psc = 0 /\ ccr = 0 /\ sr = FALSE /\ irq = FALSE
  /\ pc = "open" /\ slot = 0 /\ elapsed = 0 /\ next = Far /\ least = MinTrigger
  /\ calling = None
  /\ skipped = {} /\ adrift = {} /\ late = {}
  /\ left = [c \in Callbacks |-> 0]
  /\ waited = 0 /\ calm = FALSE

-------------------------------------------------------------------------------
(* Mistakes a change of swTimer.c could make; see the definition named       *)
(* beside each.                                                              *)

Mistake_SlotFor(c, i) ==                        \* for SlotFor
  /\ handles[i].callback \in {None, c}
  /\ \A j \in Indexes : j < i => handles[j].callback \notin {None, c}

Mistake_Assign(i, c, t, once) ==                \* for Assign
  /\ handles' = [handles EXCEPT ![i] = [callback |-> c, interval |-> t, oneShot |-> once,
                                        tickCounter |-> t]]
  /\ left' = [left EXCEPT ![c] = t] /\ adrift' = adrift \ {c}

Mistake_BeginScan(l) ==                         \* for BeginScan
  /\ pc' = "scan" /\ slot' = 0 /\ elapsed' = 0 /\ next' = Far /\ least' = l
  /\ skipped' = {}
  /\ UNCHANGED calling

Mistake_CallbackReturns ==                      \* for CallbackReturns
  /\ pc = "callback"
  /\ calling' = None
  /\ slot' = slot + 1
  /\ pc' = "scan"
  /\ UNCHANGED <<handles, hw, irq, elapsed, next, least, hist>>

Mistake_ScanRunning ==                          \* for ScanRunning
  \E i \in Indexes :
    /\ pc = "scan" /\ slot = i /\ i < Slots
    /\ handles[i].callback # None /\ handles[i].tickCounter - elapsed > 0
    /\ next' = Least(next, handles[i].tickCounter - elapsed)
    /\ slot' = slot + 1
    /\ UNCHANGED <<handles, hw, irq, pc, elapsed, least, calling, hist>>

-------------------------------------------------------------------------------
(* The hardware timer. *)

Count == ticks \div (psc + 1)

(* hw_timerGetTicksElapsed *)
Elapsed == (psc + 1) * Count

(* hw_timerSetupTimer *)
SetupTimer(t) ==
  /\ psc' = t \div (Top + 1)
  /\ ccr' = Least(t \div (psc' + 1), Top)
  /\ ticks' = 0
  /\ sr' = FALSE
  /\ cen' = TRUE

(* One tick of its clock.  It is in one-pulse mode: when the count overflows *)
(* it is 0 and the timer stops.                                              *)
Overflows == ticks + 1 = (psc + 1) * (Top + 1)

Tick ==
  /\ pc = "open"
  /\ irq => waited < Latency
  /\ waited' = IF irq THEN waited + 1 ELSE 0
  /\ IF cen
       THEN /\ ticks' = IF Overflows THEN 0 ELSE ticks + 1
            /\ cen' = ~Overflows
            /\ sr' = (sr \/ (ticks + 1) \div (psc + 1) = ccr)
            /\ irq' = (irq \/ sr')
       ELSE UNCHANGED <<cen, ticks, sr, irq>>
  /\ left' = [c \in Callbacks |-> IF Registered(c) THEN Most(left[c] - 1, -MaxLate) ELSE 0]
  /\ UNCHANGED <<handles, psc, ccr, scan, skipped, adrift, late, calm>>

-------------------------------------------------------------------------------
(* Registration. *)

(* (An empty slot keeps its other fields in the code, where nobody reads     *)
(* them.)                                                                    *)

(* The slot a callback is in, else the first that is free. *)
SlotFor(c, i) ==
  \/ handles[i].callback = c
  \/ /\ handles[i].callback = None
     /\ \A j \in Indexes : handles[j].callback # c
     /\ \A j \in Indexes : handles[j].callback = None => i <= j

Assign(i, c, t, once) ==
  /\ handles' = [handles EXCEPT ![i] = [callback |-> c, interval |-> t, oneShot |-> once,
                                        tickCounter |-> t + Elapsed]]
  /\ left' = [left EXCEPT ![c] = t] /\ adrift' = adrift \ {c}

BeginScan(l) ==
  /\ pc' = "scan" /\ slot' = 0 /\ elapsed' = Elapsed /\ next' = Far /\ least' = l
  /\ skipped' = {}
  /\ UNCHANGED calling

(* swTimer_registerOnTimerUS, from the main loop or a handler; also when all *)
(* slots are taken it scans.                                                 *)
Register(c, t, once) ==
  /\ pc = "open" /\ ~calm
  /\ \/ \E i \in Indexes : SlotFor(c, i) /\ Assign(i, c, t, once)
     \/ (\A i \in Indexes : ~SlotFor(c, i)) /\ UNCHANGED <<handles, left, adrift>>
  /\ BeginScan(MinRegister)
  /\ late' = late \ {c}
  /\ UNCHANGED <<hw, irq, waited, calm>>

(* The same from a callback: no scan, and the hardware timer is not set.     *)
(* The ticks elapsed are added, but the scan takes them off again only in    *)
(* slots it has yet to come to: a callback that registers itself waits       *)
(* longer every time, without limit.  The guard with MaxTicks is a bound of  *)
(* the model and not in the code: it ends that growth.                       *)
RegisterNested(c, t, once) ==
  /\ pc = "callback" /\ ~calm
  /\ t + Elapsed <= MaxTicks
  /\ \E i \in Indexes :
       /\ SlotFor(c, i)
       /\ Assign(i, c, t, once)
       /\ skipped' = IF i < slot THEN skipped \cup {i} ELSE skipped
       /\ late' = IF i <= slot THEN late \cup {c} ELSE late \ {c}
  /\ UNCHANGED <<hw, irq, scan, waited, calm>>

(* swTimer_unRegisterFromTimer *)
Unregister(c) ==
  /\ pc \in {"open", "callback"} /\ ~calm
  /\ \E i \in Indexes :
       /\ handles[i].callback = c
       /\ handles' = [handles EXCEPT ![i] = Free]
  /\ left' = [left EXCEPT ![c] = 0] /\ late' = late \ {c}
  /\ UNCHANGED <<hw, irq, scan, skipped, adrift, waited, calm>>

-------------------------------------------------------------------------------
(* tim2_isr and swTimer_trigger: the timer is stopped while they run. *)
Interrupt ==
  /\ pc = "open" /\ irq
  /\ irq' = FALSE /\ waited' = 0
  /\ cen' = FALSE
  /\ BeginScan(MinTrigger)
  /\ UNCHANGED <<handles, ticks, psc, ccr, sr, adrift, left, late, calm>>

(* A slot of the scan. *)
At(i) == pc = "scan" /\ slot = i /\ i < Slots
Rest(i) == handles[i].tickCounter - elapsed

ScanFree ==
  \E i \in Indexes :
    /\ At(i) /\ handles[i].callback = None
    /\ slot' = slot + 1
    /\ UNCHANGED <<handles, hw, irq, pc, elapsed, next, least, calling, hist>>

ScanRunning ==
  \E i \in Indexes :
    /\ At(i) /\ handles[i].callback # None /\ Rest(i) > 0
    /\ handles' = [handles EXCEPT ![i].tickCounter = Rest(i)]
    /\ next' = Least(next, Rest(i))
    /\ slot' = slot + 1
    /\ UNCHANGED <<hw, irq, pc, elapsed, least, calling, hist>>

(* What becomes of a handle that ran out, before its callback is called.     *)
Rescheduled(h, rest) ==
  IF h.oneShot THEN Free
  ELSE [h EXCEPT !.tickCounter = Least(Most(rest + h.interval, 0), h.interval)]

ScanExpired ==
  \E i \in Indexes :
    /\ At(i) /\ handles[i].callback # None /\ Rest(i) <= 0
    /\ handles' = [handles EXCEPT ![i] = Rescheduled(@, Rest(i))]
    /\ calling' = handles[i].callback
    /\ left' = [left EXCEPT ![calling'] = IF handles[i].oneShot THEN 0
                                          ELSE IF @ = -MaxLate THEN @
                                          ELSE @ + handles[i].interval]
    /\ late' = late \ {calling'}
    /\ pc' = "callback"
    /\ UNCHANGED <<hw, irq, slot, elapsed, next, least, skipped, adrift, waited, calm>>

CallbackReturns ==
  /\ pc = "callback"
  /\ next' = IF handles[slot].callback = None THEN next
             ELSE Least(next, handles[slot].tickCounter)
  /\ calling' = None
  /\ slot' = slot + 1
  /\ pc' = "scan"
  /\ UNCHANGED <<handles, hw, irq, elapsed, least, hist>>

(* The hardware timer is set when a deadline was found.  An interrupt whose  *)
(* flag is still set comes again.                                            *)
ScanEnds ==
  /\ pc = "scan" /\ slot = Slots
  /\ IF next # Far THEN SetupTimer(Most(next, least)) ELSE UNCHANGED hw
  /\ irq' = (irq \/ sr')
  /\ pc' = "open" /\ slot' = 0 /\ elapsed' = 0 /\ next' = Far /\ least' = MinTrigger
  /\ adrift' = adrift \cup
       {c \in Callbacks : next = Far /\ cen /\ \E i \in skipped : handles[i].callback = c}
  /\ UNCHANGED <<handles, calling, skipped, left, waited, late, calm>>

-------------------------------------------------------------------------------
Scan == ScanFree \/ ScanRunning \/ ScanExpired \/ CallbackReturns \/ ScanEnds

CalmDown == ~calm /\ calm' = TRUE /\ UNCHANGED <<handles, hw, irq, scan, skipped, adrift, left, waited, late>>

Next ==
  \/ Tick \/ Interrupt \/ Scan \/ CalmDown
  \/ \E c \in Callbacks :
       \/ Unregister(c)
       \/ \E t \in Intervals, once \in BOOLEAN :
            Register(c, t, once) \/ RegisterNested(c, t, once)

Spec == Init /\ [][Next]_vars

(* Time goes on, a pending interrupt is served, and a scan runs to its end,  *)
(* its callbacks included.                                                   *)
FairSpec == Spec /\ WF_vars(Tick) /\ WF_vars(Interrupt) /\ WF_vars(Scan)

-------------------------------------------------------------------------------
(* Property OneSlot: a callback is in one slot at most, whoever registers it *)
(* again and when.                                                           *)
OneSlot ==
  \A i, j \in Indexes :
    handles[i].callback = handles[j].callback /\ handles[i].callback # None => i = j

(* Property NotEarly: the k-th call of a callback comes k intervals after it *)
(* was registered at the earliest, whatever else is registered, expires or   *)
(* resets the hardware timer meanwhile.  Only a timer that is adrift can be  *)
(* called early, by less than a step of the prescaler: what has elapsed when *)
(* it starts is rounded down, and nothing sets the hardware timer to 0.      *)
NotEarly ==
  [][calling' \notin adrift \cup {None} /\ calling = None => left[calling'] <= 0]_vars

(* Property Armed: between two scans the interrupt is pending, or the        *)
(* hardware timer runs and no registered timer waits for a later deadline -  *)
(* except one that a callback put into a slot the scan had passed.           *)
Armed ==
  pc = "open" /\ ~irq =>
    \A i \in Indexes \ skipped :
      handles[i].callback # None =>
        cen /\ Deadline <= Most(handles[i].tickCounter, Most(MinRegister, MinTrigger))

(* Property Expires: once nobody changes the timers any more, each one that  *)
(* is registered is called - unless interrupts always wait until the         *)
(* hardware timer overflows, or it was never set for a timer in a slot the   *)
(* last scan had passed.                                                     *)
Overflown == pc = "open" /\ sr /\ ~cen
Expires ==
  <>[](~Overflown) /\ []<>(skipped = {}) =>
    \A c \in Callbacks : (calm /\ Registered(c)) ~> (calling = c \/ ~Registered(c))
===============================================================================
