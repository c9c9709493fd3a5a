------------------------------- MODULE PowerCheck -------------------------------
(***************************************************************************)
(* The battery watchdog (powerCheck.c): two thresholds for the battery     *)
(* voltage.  At or below the lower one the board switches itself off;      *)
(* above, the place of the voltage between them is its relative level.     *)
(* What calls these operations is in Reporting.                            *)
(***************************************************************************)
EXTENDS Integers

CONSTANTS Voltages,      \* batteryVoltcV of the measurements, in centivolts
          Thresholds,    \* what setLower/UpperVoltageEndoint may be sent
          DefaultLow, DefaultHigh,
          Loaded         \* both thresholds, as the flash may have them at boot

(* A 12 bit conversion gives at most 4095 * 330 * 11 / 4096 centivolts, and  *)
(* thresholds are set from a uint16_t packet.  What a torn update leaves in  *)
(* flash may be any value of the 32 bit variables.                           *)
MaxVoltage   == 3629
MaxThreshold == 65535

ASSUME VoltageAssumption == Voltages \subseteq 0..MaxVoltage
ASSUME ThresholdAssumption ==
  /\ Thresholds \cup {DefaultLow, DefaultHigh} \subseteq 0..MaxThreshold
  /\ Loaded \subseteq Nat \X Nat

VARIABLES
  lowThresh, highThresh,   \* g_lowThresh, g_highThresh
  enabled      \* the power enable pin is set: the board is on

pwrVars == <<lowThresh, highThresh, enabled>>

PwrTypeOK ==
  /\ lowThresh \in Nat /\ highThresh \in Nat
  /\ enabled \in BOOLEAN

(* config_readFromFlash has run. *)
PwrInit ==
  /\ \E t \in Loaded \cup {<<DefaultLow, DefaultHigh>>} :
       lowThresh = t[1] /\ highThresh = t[2]
  /\ enabled = TRUE

-------------------------------------------------------------------------------
(* A mistake a change of powerCheck.c could make, for RelativeLevel: to       *)
(* forget the lower threshold in the divisor.                                 *)
Mistake_RelativeLevel(v) ==
  IF v > highThresh THEN 255 ELSE (255 * (v - lowThresh)) \div highThresh

-------------------------------------------------------------------------------
TooLow(v) == lowThresh >= v

(* Evaluated for voltages above lowThresh only, so the case level = 0x00 of  *)
(* the code is never taken; the product stays below 2^32.                    *)
RelativeLevel(v) ==
  IF v > highThresh THEN 255 ELSE (255 * (v - lowThresh)) \div (highThresh - lowThresh)

(* switchAllOff clears the pin and never returns. *)
SwitchAllOff ==
  /\ enabled' = FALSE
  /\ UNCHANGED <<lowThresh, highThresh>>

SetLowerVoltage(x) ==
  /\ lowThresh' = x
  /\ UNCHANGED <<highThresh, enabled>>

SetUpperVoltage(x) ==
  /\ highThresh' = x
  /\ UNCHANGED <<lowThresh, enabled>>

-------------------------------------------------------------------------------
(* Property LevelFollowsVoltage: whichever thresholds packets have set or a   *)
(* torn update has left, the lower equal to the upper or above it included,   *)
(* the level of a voltage that keeps the board on fits its byte, is 0xff      *)
(* exactly from the upper threshold on, and does not fall while the voltage   *)
(* rises: the branches of the code meet without a step, and never divide by   *)
(* 0.  And 0, for a battery that is empty, is reported by a board that stays  *)
(* on only if the thresholds are further apart than the level has values.     *)
LevelFollowsVoltage ==
  \A v, w \in Voltages : ~TooLow(v) =>
    /\ RelativeLevel(v) \in 0..255
    /\ RelativeLevel(v) = 255 <=> v >= highThresh
    /\ v <= w => RelativeLevel(v) <= RelativeLevel(w)
    /\ RelativeLevel(v) = 0 => highThresh - lowThresh > 255
===============================================================================
