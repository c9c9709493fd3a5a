------------------------------ MODULE MotorSwitch ------------------------------
(***************************************************************************)
(* The motor power switch (motorPwr.c on gpio_interrupts.c): an edge of    *)
(* the pin interrupts, the handler masks the line and starts a one-shot    *)
(* timer, and the timer's callback samples the pin, posts what it read and *)
(* unmasks the line.  The two handlers do not preempt each other; the pin  *)
(* changes at any time.                                                    *)
(***************************************************************************)
EXTENDS Integers

CONSTANTS QueueMayBeFull   \* whether msgPump_postMessage may refuse

ASSUME QueueAssumption == QueueMayBeFull \in BOOLEAN

VARIABLES
  contact,     \* level at the switch outside
  driven,      \* level the open-drain output is set to
  pending,     \* EXTI_PR of the line
  unmasked,    \* EXTI_IMR of the line
  timer,       \* the debounce timer is registered and runs
  pc,          \* where the processor is in a handler
  motorPwrState,   \* the sample onDebounceTimer took
  reported     \* the level posted last, 2 if none was

pin  == <<contact, driven>>
exti == <<pending, unmasked>>
vars == <<pin, exti, timer, pc, motorPwrState, reported>>

Levels == 0..1
Places == {"main", "register", "mask", "clear", "dispatched", "post", "forget", "unmask"}

TypeOK ==
  /\ contact \in Levels /\ driven \in Levels
  /\ pending \in BOOLEAN /\ unmasked \in BOOLEAN
  /\ timer \in BOOLEAN
  /\ pc \in Places
  /\ motorPwrState \in Levels
  /\ reported \in 0..2

(* gpio_get: the switch and the output each can pull the line down. *)
Level(c, d) == IF c = 1 /\ d = 1 THEN 1 ELSE 0

(* init_motorPWR *)
Init ==
  /\ contact \in Levels /\ driven = 1
  /\ pending = FALSE /\ unmasked = TRUE
  /\ timer = FALSE
  /\ pc = "main"
  /\ motorPwrState = 0
  /\ reported = 2

-------------------------------------------------------------------------------
(* Mistakes a change of motorPwr.c or gpio_interrupts.c could make; see the  *)
(* definition named beside each.                                             *)

Mistake_OnMotorPwrChange ==           \* for OnMotorPwrChange
  /\ pc = "main" /\ pending /\ unmasked
  /\ pc' = "mask"
  /\ UNCHANGED <<pin, exti, timer, motorPwrState, reported>>

Mistake_Mask ==                       \* for Mask
  /\ pc = "mask"
  /\ unmasked' = TRUE
  /\ pc' = "clear"
  /\ UNCHANGED <<pin, pending, timer, motorPwrState, reported>>

Mistake_OnDebounceTimer ==            \* for OnDebounceTimer
  /\ pc = "main" /\ timer
  /\ timer' = FALSE
  /\ motorPwrState' = 4 * Level(contact, driven)
  /\ pc' = "post"
  /\ UNCHANGED <<pin, exti, reported>>

-------------------------------------------------------------------------------
(* The line latches every edge, masked or not. *)
Edge == pending' = (pending \/ Level(contact', driven') # Level(contact, driven))

Flip ==
  /\ contact' = 1 - contact
  /\ UNCHANGED driven
  /\ Edge
  /\ UNCHANGED <<unmasked, timer, pc, motorPwrState, reported>>

(* setMotorPower, in the main loop: value 0 releases the line. *)
SetMotorPower(d) ==
  /\ pc = "main"
  /\ driven' = d
  /\ UNCHANGED contact
  /\ Edge
  /\ UNCHANGED <<unmasked, timer, pc, motorPwrState, reported>>

(* exti2_3_isr, dispatchInterrupt, onMotorPwrChange: register the timer.     *)
OnMotorPwrChange ==
  /\ pc = "main" /\ pending /\ unmasked
  /\ timer' = TRUE
  /\ pc' = "mask"
  /\ UNCHANGED <<pin, exti, motorPwrState, reported>>

(* gpio_disable_interrupt *)
Mask ==
  /\ pc = "mask"
  /\ unmasked' = FALSE
  /\ pc' = "clear"
  /\ UNCHANGED <<pin, pending, timer, motorPwrState, reported>>

(* It clears the pending bit, and so does dispatchInterrupt afterwards.      *)
Clear(here, next) ==
  /\ pc = here
  /\ pending' = FALSE
  /\ pc' = next
  /\ UNCHANGED <<pin, unmasked, timer, motorPwrState, reported>>

GpioClear     == Clear("clear", "dispatched")
DispatchClear == Clear("dispatched", "main")

(* tim2_isr calls onDebounceTimer, which samples the pin. *)
OnDebounceTimer ==
  /\ pc = "main" /\ timer
  /\ timer' = FALSE
  /\ motorPwrState' = Level(contact, driven)
  /\ pc' = "post"
  /\ UNCHANGED <<pin, exti, reported>>

Post ==
  /\ pc = "post"
  /\ \/ reported' = motorPwrState
     \/ QueueMayBeFull /\ UNCHANGED reported
  /\ pc' = "forget"
  /\ UNCHANGED <<pin, exti, timer, motorPwrState>>

(* gpio_enable_interrupt clears the pending bit, then unmasks the line.      *)
Forget == Clear("forget", "unmask")

Unmask ==
  /\ pc = "unmask"
  /\ unmasked' = TRUE
  /\ pc' = "main"
  /\ UNCHANGED <<pin, pending, timer, motorPwrState, reported>>

Handlers == \/ OnMotorPwrChange \/ Mask \/ GpioClear \/ DispatchClear
            \/ OnDebounceTimer \/ Post \/ Forget \/ Unmask

Next == Handlers \/ Flip \/ \E d \in Levels : SetMotorPower(d)

Spec == Init /\ [][Next]_vars

(* Handlers run to their end, a pending interrupt is served, and a timer that *)
(* was registered expires.                                                    *)
FairSpec == Spec /\ WF_vars(Handlers)

-------------------------------------------------------------------------------
(* Property NeverDeaf: while the line is masked the debounce timer runs or a *)
(* handler is about to unmask it; and no timer runs while it is unmasked, so *)
(* that a bouncing contact is sampled once per debounce time.                *)
NeverDeaf == pc = "main" => (timer <=> ~unmasked)

(* Property EdgeSampled: after an edge of the unmasked line the pin is       *)
(* sampled again, be it that the edge comes while a handler runs.            *)
EdgeSampled == pending /\ unmasked ~> pc = "post"

(* Property SwitchReported, as FEATURES states it: "The processor            *)
(* distributes information about the state of the switch to attached         *)
(* systems."  When the pin came to rest after a change, what was reported    *)
(* last is its level.                                                        *)
SwitchReported ==
  \A v \in Levels :
    <>(Level(contact, driven) # v) /\ <>[](Level(contact, driven) = v)
      => <>[](reported = v)
===============================================================================
