------------------------------- MODULE Reporting -------------------------------
(***************************************************************************)
(* From a measurement to a packet and from a packet to a threshold: the    *)
(* watchdog (powerCheck.c), the distribution (dataDistribution.c), the     *)
(* proxy (msgProxy.c), the dispatcher of packets                           *)
(* (genericFlawLessProtocolPacketDispatcher.c) and the buck converter      *)
(* (buck.c) together on the message pump.  Of the pump this uses what      *)
(* MsgPump shows of it: a bounded FIFO of accepted messages.  A callback   *)
(* makes at most one call of the pump, so each is one step.                *)
(***************************************************************************)
EXTENDS PowerCheck, Sequences, FiniteSets

CONSTANTS QSize,        \* MSG_PUMP_MSG_QUEUE_MAX_SIZE
          Pool,         \* elements of each buffer pool
          Interval,     \* DISTRIBUTION_INTERVAL
          Packets,      \* packets the robot may send: endpoint and argument
          Followed,     \* broadcast messages a property follows: id and content
          Traced,       \* the id of the measurements the history is about
          MaxRefused    \* refusals in a row that the history counts

(* Message ids without their prefix. *)
Distributed == {"STATE", "LEVEL"}                   \* measured, and counted
Broadcast   == {"STATE_OUT", "LEVEL_OUT", "SWITCH"} \* in the map of the proxy
Ids         == Distributed \cup Broadcast \cup {"PACKET"}
Endpoints   == {"setLower", "setUpper", "getLimits", "masterOff", "other"}

ASSUME BusAssumption == /\ QSize \in Nat \ {0} /\ Interval \in Nat \ {0}
                        /\ Pool \in [Ids -> Nat \ {0}]
                        /\ Traced \in Distributed /\ MaxRefused \in Nat
ASSUME PacketAssumption ==
  /\ Packets \subseteq [to : Endpoints \cup Broadcast, val : Nat]
  /\ \A p \in Packets : p.to \in {"setLower", "setUpper"} => p.val \in Thresholds

VARIABLES
  queue,       \* messages accepted, oldest first; the front one is dispatched
  turn,        \* the receiver of the front message that is next
  released,    \* the front message is unlocked, but its entry still counted
  counter,     \* the counters of onSystemMeasurement and onRelativeMeasurement
  listening,   \* onRelativeBatteryVoltage is registered
  started,     \* the buck converter's pin is set
  frame,       \* what the last step of the loop gave to the protocol to send
  gap,         \* history: measurements since one was passed on
  refused      \* history: how often passing on was refused since

bus     == <<queue, turn, released>>
history == <<gap, refused>>
buck    == <<listening, started>>
vars    == <<pwrVars, bus, counter, buck, frame, history>>

Msg(id, v) == [id |-> id, to |-> "nobody", val |-> v]
Silence    == <<"nobody", 0, 0>>

Message ==
  {m \in [id : Ids, to : Endpoints \cup Broadcast \cup {"nobody"}, val : Nat] :
     /\ m.id = "STATE" => m.val \in Voltages
     /\ m.id = "LEVEL" => m.val \in 0..255
     /\ m.id = "PACKET" => [to |-> m.to, val |-> m.val] \in Packets}

RTypeOK ==
  /\ PwrTypeOK
  /\ queue \in Seq(Message) /\ Len(queue) <= QSize
  /\ turn \in 1..3
  /\ released \in BOOLEAN
  /\ counter \in [Distributed -> 0..(Interval - 1)]
  /\ listening \in BOOLEAN /\ started \in BOOLEAN
  /\ frame \in (Broadcast \cup {"limits", "nobody"}) \X Nat \X Nat
  /\ gap \in Nat /\ refused \in 0..MaxRefused

(* All have registered but the buck converter, which waits for 100 ms. *)
Init ==
  /\ PwrInit
  /\ queue = <<>> /\ turn = 1 /\ released = FALSE
  /\ counter = [id \in Distributed |-> 0]
  /\ listening = FALSE /\ started = FALSE
  /\ frame = Silence
  /\ gap = 0 /\ refused = 0

-------------------------------------------------------------------------------
(* The pump. *)

Holders(id) == {k \in DOMAIN queue : queue[k].id = id /\ ~(k = 1 /\ released)}
Room(id)    == Len(queue) < QSize /\ Cardinality(Holders(id)) < Pool[id]

(* msgPump_postMessage, with its result ignored as every caller here does *)
Post(msg) == queue' = IF Room(msg.id) THEN Append(queue, msg) ELSE queue

Front == Head(queue)

(* What a measurement is passed on as. *)
Out(id) == IF id = "STATE" THEN "STATE_OUT" ELSE "LEVEL_OUT"

Receivers(id) ==
  CASE id = "STATE"     -> <<"onNewPwrMeasurement", "onSystemMeasurement">>
    [] id = "LEVEL"     -> IF listening
                             THEN <<"onRelativeMeasurement", "onRelativeBatteryVoltage">>
                             ELSE <<"onRelativeMeasurement">>
    [] id \in Broadcast -> <<"msgCallback">>
    [] id = "PACKET"    -> <<"onReceivedPacket">>

(* msgPump_pumpMessage calls c. *)
Callback(c) ==
  /\ enabled
  /\ queue # <<>> /\ ~released
  /\ turn <= Len(Receivers(Front.id))
  /\ Receivers(Front.id)[turn] = c
  /\ turn' = turn + 1
  /\ UNCHANGED released

(* It unlocks the message and, one locked section later, advances the front. *)
Release ==
  /\ enabled
  /\ queue # <<>> /\ ~released
  /\ turn > Len(Receivers(Front.id))
  /\ released' = TRUE
  /\ frame' = Silence
  /\ UNCHANGED <<pwrVars, queue, turn, counter, buck, history>>

Advance ==
  /\ enabled
  /\ released
  /\ queue' = Tail(queue)
  /\ turn' = 1
  /\ released' = FALSE
  /\ UNCHANGED <<pwrVars, counter, buck, frame, history>>

-------------------------------------------------------------------------------
(* Mistakes a change of the callbacks could make, each for the definition     *)
(* named beside it: to start over only if the post was accepted; to take the  *)
(* buffer for the level first, and give up without one; to start with a full  *)
(* battery only; and to leave out the last entry of the map.                  *)

Mistake_Count(id) ==                     \* for Count
  IF counter[id] + 1 = Interval /\ Room(Out(id))
    THEN counter' = [counter EXCEPT ![id] = 0]
    ELSE counter' = [counter EXCEPT ![id] = @ + 1]

Mistake_OnNewPwrMeasurement ==                \* for OnNewPwrMeasurement
  /\ Callback("onNewPwrMeasurement")
  /\ IF ~Room("LEVEL") THEN UNCHANGED <<queue, pwrVars>>
     ELSE IF TooLow(Front.val) THEN SwitchAllOff /\ UNCHANGED queue
     ELSE Post(Msg("LEVEL", RelativeLevel(Front.val))) /\ UNCHANGED pwrVars
  /\ frame' = Silence
  /\ UNCHANGED <<counter, buck, history>>

Mistake_OnRelativeBatteryVoltage ==           \* for OnRelativeBatteryVoltage
  /\ Callback("onRelativeBatteryVoltage")
  /\ started' = (started \/ Front.val = 255)
  /\ frame' = Silence
  /\ UNCHANGED <<pwrVars, queue, counter, listening, history>>

Mistake_MsgCallback ==                        \* for MsgCallback
  /\ Callback("msgCallback")
  /\ frame' = IF Front.id = "SWITCH" THEN Silence ELSE <<Front.id, Front.val, 0>>
  /\ UNCHANGED <<pwrVars, queue, counter, buck, history>>

-------------------------------------------------------------------------------
(* powerCheck.c.  The colours of the LED are left out. *)
OnNewPwrMeasurement ==
  /\ Callback("onNewPwrMeasurement")
  /\ IF TooLow(Front.val)
       THEN SwitchAllOff /\ UNCHANGED queue
       ELSE Post(Msg("LEVEL", RelativeLevel(Front.val))) /\ UNCHANGED pwrVars
  /\ frame' = Silence
  /\ UNCHANGED <<counter, buck, history>>

(* dataDistribution.c: every message of id is counted, one of Interval is     *)
(* passed on as Out(id).                                                      *)
Due(id) == counter[id] + 1 = Interval

Count(id) ==
  counter' = [counter EXCEPT ![id] = IF Due(id) THEN 0 ELSE @ + 1]

Remember(id) ==
  IF id # Traced THEN UNCHANGED history
  ELSE IF Due(id) /\ Room(Out(id)) THEN gap' = 0 /\ refused' = 0
  ELSE IF refused = MaxRefused THEN UNCHANGED history
  ELSE gap' = gap + 1 /\ refused' = IF Due(id) THEN refused + 1 ELSE refused

Distribute(c, id) ==
  /\ Callback(c)
  /\ IF Due(id) THEN Post(Msg(Out(id), Front.val)) ELSE UNCHANGED queue
  /\ Count(id)
  /\ Remember(id)
  /\ frame' = Silence
  /\ UNCHANGED <<pwrVars, buck>>

OnSystemMeasurement   == Distribute("onSystemMeasurement", "STATE")
OnRelativeMeasurement == Distribute("onRelativeMeasurement", "LEVEL")

(* buck.c; the timer comes 100 ms after the start, once. *)
OnLateInitTimer ==
  /\ enabled /\ ~listening
  /\ listening' = TRUE
  /\ UNCHANGED <<pwrVars, bus, counter, started, frame, history>>

OnRelativeBatteryVoltage ==
  /\ Callback("onRelativeBatteryVoltage")
  /\ started' = (started \/ Front.val > 0)
  /\ frame' = Silence
  /\ UNCHANGED <<pwrVars, queue, counter, listening, history>>

(* msgProxy.c: the message leaves with the id and the length of its pool, on  *)
(* the only interface.                                                        *)
MsgCallback ==
  /\ Callback("msgCallback")
  /\ frame' = <<Front.id, Front.val, 0>>
  /\ UNCHANGED <<pwrVars, queue, counter, buck, history>>

(* The dispatcher calls the endpoint a packet is for.  Packets for which      *)
(* there is none, or whose length it does not take, are "other" ones.         *)
Endpoint(e) == Callback("onReceivedPacket") /\ Front.to = e

SetLowerVoltageEndoint ==
  /\ Endpoint("setLower")
  /\ SetLowerVoltage(Front.val)
  /\ frame' = Silence
  /\ UNCHANGED <<queue, counter, buck, history>>

SetUpperVoltageEndoint ==
  /\ Endpoint("setUpper")
  /\ SetUpperVoltage(Front.val)
  /\ frame' = Silence
  /\ UNCHANGED <<queue, counter, buck, history>>

(* The reply has two uint16_t. *)
LowHalf(threshold) == threshold % (MaxThreshold + 1)

GetLimitsEndoint ==
  /\ Endpoint("getLimits")
  /\ frame' = <<"limits", LowHalf(lowThresh), LowHalf(highThresh)>>
  /\ UNCHANGED <<pwrVars, queue, counter, buck, history>>

MasterOff ==
  /\ Endpoint("masterOff")
  /\ IF Front.val # 0 THEN SwitchAllOff ELSE UNCHANGED pwrVars
  /\ frame' = Silence
  /\ UNCHANGED <<queue, counter, buck, history>>

(* msgProxy.c: a message of the map with the length of its pool is posted;    *)
(* there is no other interface to forward it to.                              *)
IncommingEndpoint ==
  /\ \E id \in Broadcast : Endpoint(id) /\ Post(Msg(id, Front.val))
  /\ frame' = Silence
  /\ UNCHANGED <<pwrVars, counter, buck, history>>

Ignored ==
  /\ Endpoint("other")
  /\ frame' = Silence
  /\ UNCHANGED <<pwrVars, queue, counter, buck, history>>

Loop == \/ Release \/ Advance
        \/ OnNewPwrMeasurement \/ OnSystemMeasurement
        \/ OnRelativeMeasurement \/ OnRelativeBatteryVoltage \/ MsgCallback
        \/ SetLowerVoltageEndoint \/ SetUpperVoltageEndoint \/ GetLimitsEndoint
        \/ MasterOff \/ IncommingEndpoint \/ Ignored

-------------------------------------------------------------------------------
(* The others that post: measuring, the switch's timer, the receiver.         *)
Posts(msg) ==
  /\ enabled
  /\ Room(msg.id)
  /\ Post(msg)
  /\ UNCHANGED <<pwrVars, turn, released, counter, buck, frame, history>>

Measured == \E v \in Voltages : Posts(Msg("STATE", v))
Switched == \E b \in {0, 1} : Posts(Msg("SWITCH", b))
Received == \E p \in Packets : Posts([id |-> "PACKET", to |-> p.to, val |-> p.val])

Next == Loop \/ OnLateInitTimer \/ Measured \/ Switched \/ Received

Spec == Init /\ [][Next]_vars

(* The loop never blocks while the board is on, and the timer expires.        *)
(* Nobody has to post.                                                        *)
FairSpec == Spec /\ WF_vars(Loop) /\ WF_vars(OnLateInitTimer)

-------------------------------------------------------------------------------
(* Property RInv: of the messages that are counted one in Interval is passed  *)
(* on, and each refused post makes that one Interval more, whatever else      *)
(* fills the queue and the pools: the counter never runs past its limit.      *)
RInv ==
  /\ RTypeOK
  /\ released => queue # <<>>
  /\ refused < MaxRefused => gap = counter[Traced] + Interval * refused

(* A message that waits: not the front one, or none of its receivers has been *)
(* called.                                                                    *)
Waits(msg) == \E k \in DOMAIN queue : queue[k] = msg /\ (k = 1 => turn = 1)

(* Property CutsOff: a measurement that was accepted and is too low switches  *)
(* the board off, unless a packet lowers the threshold before its turn.       *)
CutsOff ==
  \A v \in Voltages :
    Waits(Msg("STATE", v)) /\ TooLow(v) ~> ~enabled \/ ~TooLow(v)

(* Property Reported: what is to be broadcast and was accepted leaves the     *)
(* board unaltered, unless the board switches itself off.                     *)
Reported ==
  \A m \in Followed :
    Waits(Msg(m[1], m[2])) ~> frame = <<m[1], m[2], 0>> \/ ~enabled

(* Property BuckStarts: if the battery is reported above empty again and      *)
(* again, the buck converter starts, although it misses what is reported      *)
(* before it listens.                                                         *)
BuckStarts ==
  []<>(\E k \in DOMAIN queue : queue[k].id = "LEVEL" /\ queue[k].val > 0)
    => <>(started \/ ~enabled)
===============================================================================
