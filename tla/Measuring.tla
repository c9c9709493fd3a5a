------------------------------- MODULE Measuring -------------------------------
(***************************************************************************)
(* The measuring module (measuring.c) on top of the message pump.  A timer *)
(* starts a conversion into a buffer of the pump, DMA fills the buffer,    *)
(* and the handler of its interrupt posts it: the first one as calibration,*)
(* the others as raw measurements.  The callback of a raw measurement, in  *)
(* the main loop, turns it into a message with the power state.            *)
(***************************************************************************)
EXTENDS MsgPump

CONSTANTS Raw, Calib, State,   \* MSG_ID_VOLTAGE_RAW, _CALIBRATION, SYSTEM_POWER_STATE
          onRaw, onCalib,      \* onRawMeasurement, onRawCalibMeasurement
          Others               \* ids other parts of the firmware post

ASSUME IdAssumption ==
  /\ {Raw, Calib, State} \subseteq MsgIds /\ Others \subseteq MsgIds
  /\ Others \cap {Raw, Calib, State} = {}
  /\ Raw # Calib /\ Raw # State /\ Calib # State
  /\ {onRaw, onCalib} \subseteq Callbacks /\ onRaw # onCalib

(* MSG_PUMP_DECLARE_MESSAGE_BUFFER_POOL(pwrMeasurementCalib, ..., 1, ...)    *)
ASSUME PoolAssumption == msgAmount[Calib] # 0

VARIABLES
  curBuffer,   \* g_curBuffer
  calibrationDone,   \* g_calibrationMeasurementDone
  converting,  \* the ADC runs and DMA channel 1 writes to curBuffer
  stage,       \* init and the timers: "init", "registered", "calibrate", "measure"
  offsets,     \* g_offsetVoltages: still 0, or computed
  call, state, \* onRawMeasurement: its place and its powerStatePtr
  refused      \* history: the pump refused a post of this module

mvars == <<curBuffer, calibrationDone, converting, stage, offsets, call, state, refused>>
all   == <<vars, mvars>>

MTypeOK ==
  /\ TypeOK
  /\ curBuffer \in Bufs \cup {Null} /\ state \in Bufs \cup {Null}
  /\ calibrationDone \in BOOLEAN /\ converting \in BOOLEAN
  /\ stage \in {"init", "registered", "calibrate", "measure"}
  /\ offsets \in {"zero", "computed"}
  /\ call \in {"enter", "post", "return"}
  /\ refused \in BOOLEAN

MInit ==
  /\ Init
  /\ curBuffer = Null /\ state = Null
  /\ calibrationDone = FALSE /\ converting = FALSE
  /\ stage = "init" /\ offsets = "zero" /\ call = "return"
  /\ refused = FALSE

(* The buffer a call of msgPump_getFreeBuffer returned, Null if it failed. *)
Got(m) == \/ /\ GetFreeBuffer(m)
          \/ /\ \A b \in Bufs : ~FirstFree(m, b)
             /\ UNCHANGED vars
Result == IF owned' = owned THEN Null ELSE CHOOSE b \in Bufs : b \in owned' \ owned

(* msgPump_postMessage refuses when the queue is full; the buffer stays the  *)
(* caller's then.                                                            *)
PostOrNot(b) == \/ PostOwn(b) /\ UNCHANGED refused
                \/ Full /\ refused' = TRUE /\ UNCHANGED vars

-------------------------------------------------------------------------------
(* Mistakes a change of measuring.c could make; see the definition named     *)
(* beside each.                                                              *)

Mistake_Start(m) ==                    \* for Start
  /\ Got(m)
  /\ curBuffer' = Result
  /\ converting' = (Result # Null)

Mistake_MeasurementIsr ==              \* for MeasurementIsr
  /\ converting
  /\ PostOrNot(curBuffer)
  /\ converting' = FALSE
  /\ calibrationDone' = TRUE
  /\ UNCHANGED <<curBuffer, stage, offsets, call, state>>

Mistake_TriggerCalibration ==          \* for TriggerCalibration
  /\ stage = "calibrate"
  /\ stage' = "measure"
  /\ UNCHANGED <<vars, curBuffer, converting, calibrationDone, offsets, call, state, refused>>

Mistake_RegisterCalib ==               \* for RegisterCalib
  /\ stage = "registered"
  /\ stage' = "calibrate"
  /\ UNCHANGED <<vars, curBuffer, calibrationDone, converting, offsets, call, state, refused>>

-------------------------------------------------------------------------------
(* init_measuring *)
RegisterRaw ==
  /\ stage = "init"
  /\ Register(Raw, onRaw)
  /\ stage' = "registered"
  /\ UNCHANGED <<curBuffer, calibrationDone, converting, offsets, call, state, refused>>

RegisterCalib ==
  /\ stage = "registered"
  /\ Register(Calib, onCalib)
  /\ stage' = "calibrate"
  /\ UNCHANGED <<curBuffer, calibrationDone, converting, offsets, call, state, refused>>

(* The common part of triggerMeasurement and triggerCalibration. *)
Start(m) ==
  IF curBuffer = Null
    THEN /\ Got(m)
         /\ curBuffer' = Result
         /\ converting' = (Result # Null)
    ELSE UNCHANGED <<vars, curBuffer, converting>>

TriggerCalibration ==
  /\ stage = "calibrate"
  /\ Start(Calib)
  /\ stage' = "measure"
  /\ UNCHANGED <<calibrationDone, offsets, call, state, refused>>

TriggerMeasurement ==
  /\ stage = "measure"
  /\ Start(Raw)
  /\ UNCHANGED <<calibrationDone, stage, offsets, call, state, refused>>

(* The ADC fills the buffer while it converts. *)
Convert(v) ==
  /\ converting
  /\ Fill(curBuffer, v)
  /\ UNCHANGED mvars

(* dma1_ch1_isr: whether the post succeeded is not looked at.  The message   *)
(* id follows calibrationDone; that it is the one of the buffer's pool, as   *)
(* PostOwn has it, is part of DmaTargetReserved.                             *)
MeasurementIsr ==
  /\ converting
  /\ PostOrNot(curBuffer)
  /\ converting' = FALSE
  /\ calibrationDone' = TRUE
  /\ curBuffer' = Null
  /\ UNCHANGED <<stage, offsets, call, state>>

-------------------------------------------------------------------------------
(* The main loop, with the callbacks. *)

CallbackBegins ==
  /\ PumpCall
  /\ call' = IF handler' = onRaw THEN "enter" ELSE "return"
  /\ offsets' = IF handler' = onCalib THEN "computed" ELSE offsets
  /\ UNCHANGED <<curBuffer, calibrationDone, converting, stage, state, refused>>

OnRawGet ==
  /\ pc = "callback" /\ call = "enter"
  /\ Got(State)
  /\ state' = Result
  /\ call' = IF Result = Null THEN "return" ELSE "post"
  /\ UNCHANGED <<curBuffer, calibrationDone, converting, stage, offsets, refused>>

(* It fills the message and posts it; the result is not looked at.           *)
OnRawPost ==
  /\ pc = "callback" /\ call = "post"
  /\ PostOrNot(state)
  /\ state' = Null
  /\ call' = "return"
  /\ UNCHANGED <<curBuffer, calibrationDone, converting, stage, offsets>>

CallbackReturns ==
  /\ call = "return"
  /\ PumpReturn
  /\ UNCHANGED mvars

Loop == \/ CallbackBegins \/ OnRawGet \/ OnRawPost \/ CallbackReturns
        \/ /\ PumpBegin \/ PumpSkip \/ PumpScanned \/ PumpClear
              \/ PumpUnlock \/ PumpAdvance
           /\ UNCHANGED mvars

Timer == TriggerCalibration \/ TriggerMeasurement

Boot == RegisterRaw \/ RegisterCalib

(* The other parts of the firmware: UART packets, the switch, timers.        *)
Other ==
  /\ \E m \in Others, v \in Values : PostCopy(m, v)
  /\ UNCHANGED mvars

MNext == \/ Boot \/ Timer \/ MeasurementIsr \/ Loop \/ Other
         \/ \E v \in Values : Convert(v)

MSpec == MInit /\ [][MNext]_all

(* The timer is periodic, a conversion ends, the main loop goes on.          *)
MFairSpec == /\ MSpec
             /\ WF_all(Boot) /\ WF_all(Timer)
             /\ WF_all(MeasurementIsr) /\ WF_all(Loop)

-------------------------------------------------------------------------------
(* Property DmaTargetReserved: the buffer DMA writes to is the converter's   *)
(* alone: it is no waiting message and the pool would not hand it out; and   *)
(* it is of the pool of the message it will be posted as.                    *)
DmaTargetReserved ==
  converting =>
    /\ curBuffer \in owned /\ ~Queued(curBuffer) /\ ~FreeBuf(curBuffer)
    /\ curBuffer # state
    /\ curBuffer[1] = (IF calibrationDone THEN Raw ELSE Calib)

(* Property CalibratedFirst: no raw measurement is evaluated with offsets    *)
(* that were not computed, unless the pump refused the calibration.          *)
CalibratedFirst ==
  pc = "callback" /\ handler = onRaw => offsets = "computed" \/ refused

(* Property NothingLost: a buffer taken from the pump is the converter's or  *)
(* the callback's until it is posted; only a refused post loses one.         *)
NothingLost == owned # {curBuffer, state} \ {Null} => refused

-------------------------------------------------------------------------------
(* The inductive invariant behind these properties. *)

(* The buffers of the converter and of the callback are taken and different.  *)
HeldInv ==
  /\ converting <=> curBuffer # Null
  /\ curBuffer # Null => /\ curBuffer \in owned
                         /\ curBuffer[1] = (IF calibrationDone THEN Raw ELSE Calib)
  /\ state # Null => state \in owned /\ state # curBuffer /\ state[1] = State
  /\ call = "post" <=> state # Null
  /\ call # "return" => pc = "callback"

(* Nobody takes the calibration's buffer before the calibration: the first    *)
(* conversion never goes without it.                                          *)
FirstInv ==
  /\ stage # "measure" => /\ curBuffer = Null /\ ~calibrationDone
                          /\ \A b \in Bufs : b[1] = Calib => FreeBuf(b)
  /\ stage = "measure" /\ ~calibrationDone => curBuffer # Null

(* The firmware posts no NULL. *)
NoNullInv ==
  /\ pc # "fault"
  /\ \A s \in Slots : Waiting(s) => queue[s].buf # Null

(* The callbacks are registered, and one that runs was called for its message;*)
(* nobody locks a buffer of the measuring, so every post of it is queued and  *)
(* none is recovered.                                                         *)
CalledInv ==
  /\ lost = {} /\ \A b \in owned : refs[b] = 1
  /\ \A m \in MsgIds, i \in Indexes : vec[m][i] = onRaw => m = Raw
  /\ stage \in {"calibrate", "measure"} => \E i \in Indexes : vec[Calib][i] = onCalib
  /\ pc = "callback" /\ handler = onRaw => Current.id = Raw

(* The calibration waits in slot s, before every raw measurement, and if it   *)
(* is being dispatched, onRawCalibMeasurement is yet to be called.            *)
CalibWaits(s) ==
  /\ Waiting(s) /\ queue[s].id = Calib
  /\ \A t \in Slots : Waiting(t) /\ queue[t].id = Raw => Offset(s) < Offset(t)
  /\ s = front => \/ pc = "idle"
                  \/ \E i \in Indexes : /\ vec[Calib][i] = onCalib
                                        /\ \/ pc = "scan" /\ recv <= i
                                           \/ pc = "callback" /\ recv < i

OrderInv ==
  /\ ~calibrationDone => \A t \in Slots : Waiting(t) => queue[t].id # Raw
  /\ calibrationDone /\ offsets = "zero" => refused \/ \E s \in Slots : CalibWaits(s)

(* Property MInv: converter, callback and pump agree on whose each buffer is, *)
(* and until the offsets are computed the calibration is ahead in the queue.  *)
MInv == MTypeOK /\ IInv /\ HeldInv /\ FirstInv /\ NoNullInv /\ NothingLost
        /\ CalledInv /\ OrderInv

-------------------------------------------------------------------------------
(* Property KeepsMeasuring, as FEATURES states it: "The processor            *)
(* distributes information about the state of this domain in an interval of  *)
(* about 50ms."  There is always another measurement of the state.           *)
KeepsMeasuring == []<>(\E s \in Slots : Waiting(s) /\ queue[s].id = State)

(* Property MeasuresUnlessRefused: what the code does of this: it goes on as *)
(* long as no post was refused, whatever the other parts post and however    *)
(* conversions, timers and the main loop interleave.                         *)
MeasuresUnlessRefused == [](~refused) => KeepsMeasuring
===============================================================================
