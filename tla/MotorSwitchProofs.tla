--------------------------- MODULE MotorSwitchProofs ---------------------------
(* The line of the motor switch is never masked without a timer that will    *)
(* unmask it, however edges, handlers and refused posts interleave.          *)
EXTENDS MotorSwitch, TLAPS

(* What the timer and the mask are at each place of the two handlers.        *)
HandOver ==
  /\ pc = "main" => (timer <=> ~unmasked)
  /\ pc = "mask" => timer /\ unmasked
  /\ pc \in {"clear", "dispatched"} => timer /\ ~unmasked
  /\ pc \in {"post", "forget", "unmask"} => ~timer /\ ~unmasked

(* The inductive invariant. *)
SwitchInv == TypeOK /\ HandOver

LEMMA LevelType == \A c, d : Level(c, d) \in Levels
BY DEF Level, Levels

LEMMA SwitchInit == Init => SwitchInv
<1> SUFFICES ASSUME Init PROVE SwitchInv
  OBVIOUS
<1>1. contact \in Levels /\ driven \in Levels /\ motorPwrState \in Levels /\ reported \in 0..2
  BY DEF Init, Levels
<1>2. /\ pending \in BOOLEAN /\ unmasked \in BOOLEAN /\ timer \in BOOLEAN
      /\ pc \in Places /\ HandOver
  BY Zenon DEF Init, Places, HandOver
<1> QED BY <1>1, <1>2 DEF SwitchInv, TypeOK

(* A handler keeps what it hands over to its next step; the pin and the main *)
(* loop touch neither the timer nor the mask.                                *)
LEMMA SwitchNext == SwitchInv /\ [Next]_vars => SwitchInv'
<1> SUFFICES ASSUME SwitchInv, [Next]_vars PROVE SwitchInv'
  OBVIOUS
<1> USE DEF SwitchInv, TypeOK, HandOver, Levels, Places
<1>1. CASE OnMotorPwrChange
  BY <1>1 DEF OnMotorPwrChange, pin, exti
<1>2. CASE Mask
  BY <1>2 DEF Mask, pin
<1>3. CASE GpioClear
  BY <1>3 DEF GpioClear, Clear, pin
<1>4. CASE DispatchClear
  BY <1>4 DEF DispatchClear, Clear, pin
<1>5. CASE OnDebounceTimer
  BY <1>5, LevelType DEF OnDebounceTimer, pin, exti
<1>6. CASE Post
  BY <1>6 DEF Post, pin, exti
<1>7. CASE Forget
  BY <1>7 DEF Forget, Clear, pin
<1>8. CASE Unmask
  BY <1>8 DEF Unmask, pin
<1>9. CASE Flip
  BY <1>9 DEF Flip, Edge
<1>10. CASE \E d \in Levels : SetMotorPower(d)
  BY <1>10 DEF SetMotorPower, Edge
<1>11. CASE UNCHANGED vars
  BY <1>11 DEF vars, pin, exti
<1> QED
  BY <1>1, <1>2, <1>3, <1>4, <1>5, <1>6, <1>7, <1>8, <1>9, <1>10, <1>11
  DEF Next, Handlers

(* The mask and the timer agree at every place, for a queue that refuses     *)
(* posts and for one that does not.                                          *)
THEOREM SwitchInvariant == Spec => []SwitchInv
<1> QED BY SwitchInit, SwitchNext, PTL DEF Spec

(* Every variable of the switch stays in its range. *)
THEOREM SwitchTypeOK == Spec => []TypeOK
<1>1. SwitchInv => TypeOK BY DEF SwitchInv
<1> QED BY <1>1, SwitchInvariant, PTL

(* onMotorPwrChange and onDebounceTimer never leave the line masked without  *)
(* a timer, nor a timer with the line unmasked.                              *)
THEOREM SwitchNeverDeaf == Spec => []NeverDeaf
<1>1. SwitchInv => NeverDeaf BY DEF SwitchInv, HandOver, NeverDeaf
<1> QED BY <1>1, SwitchInvariant, PTL
===============================================================================
