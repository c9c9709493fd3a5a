---------------------------- MODULE ReportingProofs ----------------------------
(***************************************************************************)
(* Theorems about the watchdog and the distribution, for every set of      *)
(* voltages, thresholds and packets, every interval and every size of the  *)
(* queue and the pools.                                                    *)
(***************************************************************************)
EXTENDS Reporting, TLAPS

-------------------------------------------------------------------------------
(* The arithmetic of the relative level.                                     *)

LEMMA Quotient ==
  ASSUME NEW a \in Nat, NEW d \in Nat \ {0}
  PROVE  /\ a \div d \in Nat
         /\ d * (a \div d) <= a
         /\ a < d * (a \div d) + d
OBVIOUS

LEMMA Product ==
  ASSUME NEW d \in Nat \ {0}, NEW q \in Nat, NEW k \in Nat
  PROVE  /\ q >= k => d * q >= d * k
         /\ q >= k + 1 => d * q >= d * k + d
OBVIOUS

LEMMA QuotientBound ==
  ASSUME NEW a \in Nat, NEW d \in Nat \ {0}, NEW k \in Nat
  PROVE  a \div d >= k <=> a >= d * k
<1> DEFINE q == a \div d
<1>1. q \in Nat /\ d * q <= a /\ a < d * q + d
  BY Quotient
<1> HIDE DEF q
<1>2. ASSUME q >= k PROVE a >= d * k
  <2>1. d * q >= d * k
    BY <1>1, <1>2, Product
  <2>2. d * q \in Int /\ d * k \in Int
    BY <1>1
  <2> QED
    BY <1>1, <2>1, <2>2
<1>3. ASSUME ~(q >= k) PROVE ~(a >= d * k)
  <2>1. d * k >= d * q + d
    BY <1>1, <1>3, Product
  <2>2. d * q \in Int /\ d * k \in Int
    BY <1>1
  <2> QED
    BY <1>1, <2>1, <2>2
<1> QED
  BY <1>2, <1>3 DEF q

LEMMA QuotientMonotone ==
  ASSUME NEW a \in Nat, NEW b \in Nat, a <= b, NEW d \in Nat \ {0}
  PROVE  a \div d <= b \div d
<1>1. a \div d \in Nat /\ b \div d \in Nat /\ d * (a \div d) <= a
  BY Quotient
<1>2. d * (a \div d) \in Int
  BY <1>1
<1>3. b >= d * (a \div d)
  BY <1>1, <1>2
<1>4. b \div d >= a \div d
  BY <1>1, <1>3, QuotientBound
<1> QED
  BY <1>1, <1>4

LEMMA LevelRange ==
  ASSUME NEW v \in Nat, lowThresh \in Nat, highThresh \in Nat, ~TooLow(v)
  PROVE  /\ RelativeLevel(v) \in 0..255
         /\ RelativeLevel(v) = 255 <=> v >= highThresh
         /\ RelativeLevel(v) = 0 => highThresh - lowThresh > 255
<1>1. CASE v > highThresh
  BY <1>1 DEF RelativeLevel
<1>2. CASE ~(v > highThresh)
  <2> DEFINE d == highThresh - lowThresh
             a == 255 * (v - lowThresh)
  <2>1. d \in Nat \ {0} /\ a \in Nat /\ a >= 255
    BY <1>2 DEF TooLow
  <2>2. a >= d * 255 <=> v >= highThresh
    BY <1>2 DEF TooLow
  <2>3. ~(a >= d * 256)
    BY <1>2 DEF TooLow
  <2>4. a \div d \in Nat
    BY <2>1, Quotient
  <2>5. RelativeLevel(v) = a \div d
    BY <1>2 DEF RelativeLevel
  <2>6. d > 255 \/ a >= d * 1
    BY <2>1
  <2> HIDE DEF a, d
  <2>7. a \div d >= 255 <=> v >= highThresh
    BY <2>1, <2>2, QuotientBound
  <2>8. ~(a \div d >= 256)
    BY <2>1, <2>3, QuotientBound
  <2>9. d > 255 \/ a \div d >= 1
    BY <2>1, <2>6, QuotientBound
  <2> QED
    BY <2>4, <2>5, <2>7, <2>8, <2>9 DEF d
<1> QED
  BY <1>1, <1>2

LEMMA LevelMonotone ==
  ASSUME NEW v \in Nat, NEW w \in Nat, lowThresh \in Nat, highThresh \in Nat,
         ~TooLow(v), v <= w
  PROVE  RelativeLevel(v) <= RelativeLevel(w)
<1>1. ~TooLow(w)
  BY DEF TooLow
<1>2. RelativeLevel(v) \in 0..255 /\ RelativeLevel(w) \in 0..255
  BY <1>1, LevelRange
<1>3. CASE w > highThresh
  <2>1. RelativeLevel(w) = 255
    BY <1>3 DEF RelativeLevel
  <2> QED
    BY <1>2, <2>1
<1>4. CASE ~(w > highThresh)
  <2> DEFINE d == highThresh - lowThresh
             a == 255 * (v - lowThresh)
             b == 255 * (w - lowThresh)
  <2>1. d \in Nat \ {0} /\ a \in Nat /\ b \in Nat /\ a <= b
    BY <1>4 DEF TooLow
  <2>2. RelativeLevel(v) = a \div d /\ RelativeLevel(w) = b \div d
    BY <1>4 DEF RelativeLevel
  <2> HIDE DEF a, b, d
  <2> QED
    BY <2>1, <2>2, QuotientMonotone
<1> QED
  BY <1>3, <1>4

ThresholdsOK == lowThresh \in Nat /\ highThresh \in Nat

LEMMA BoundNat == \A x \in 0..MaxThreshold : x \in Nat
<1>1. MaxThreshold \in Int
  BY DEF MaxThreshold
<1> QED
  BY <1>1

LEMMA VoltageNat == \A v \in Voltages : v \in Nat
<1>1. MaxVoltage \in Int
  BY DEF MaxVoltage
<1> QED
  BY <1>1, VoltageAssumption

LEMMA LevelCorrect == ThresholdsOK => LevelFollowsVoltage
<1> SUFFICES ASSUME ThresholdsOK, NEW v \in Voltages, NEW w \in Voltages, ~TooLow(v)
             PROVE  /\ RelativeLevel(v) \in 0..255
                    /\ RelativeLevel(v) = 255 <=> v >= highThresh
                    /\ v <= w => RelativeLevel(v) <= RelativeLevel(w)
                    /\ RelativeLevel(v) = 0 => highThresh - lowThresh > 255
  BY DEF LevelFollowsVoltage
<1>1. v \in Nat /\ w \in Nat
  BY VoltageNat
<1> QED
  BY <1>1, LevelRange, LevelMonotone DEF ThresholdsOK

-------------------------------------------------------------------------------
(* The queue holds messages as their pools do, and thresholds are what        *)
(* packets may set.                                                           *)

QueueOK == /\ queue \in Seq(Message)
           /\ Len(queue) <= QSize
           /\ released => queue # <<>>

LEMMA Lengths ==
  ASSUME QueueOK
  PROVE  Len(queue) \in Nat /\ QSize \in Nat \ {0}
BY BusAssumption DEF QueueOK

LEMMA FrontOK ==
  ASSUME QueueOK, queue # <<>>
  PROVE  Front \in Message
BY DEF QueueOK, Front

LEMMA FrontFields ==
  ASSUME QueueOK, queue # <<>>
  PROVE  /\ Front.id \in Ids /\ Front.val \in Nat
         /\ Front.id = "STATE" => Front.val \in Voltages
         /\ Front.id = "PACKET" => [to |-> Front.to, val |-> Front.val] \in Packets
<1>1. Front \in Message
  BY FrontOK
<1> DEFINE f == Front
<1> HIDE DEF f
<1>2. f \in Message => /\ f.id \in Ids /\ f.val \in Nat
                       /\ f.id = "STATE" => f.val \in Voltages
                       /\ f.id = "PACKET" => [to |-> f.to, val |-> f.val] \in Packets
  BY DEF Message
<1> QED
  BY <1>1, <1>2 DEF f

LEMMA PostOK ==
  ASSUME QueueOK, NEW msg \in Message, Post(msg), released' => released \/ queue # <<>>
  PROVE  QueueOK'
<1>1. CASE Room(msg.id)
  <2>1. queue' = Append(queue, msg) /\ Len(queue) < QSize
    BY <1>1 DEF Post, Room
  <2>2. queue' \in Seq(Message) /\ Len(queue') = Len(queue) + 1 /\ queue' # <<>>
    BY <2>1 DEF QueueOK
  <2> QED
    BY <2>1, <2>2, Lengths DEF QueueOK
<1>2. CASE ~Room(msg.id)
  BY <1>2 DEF Post, QueueOK
<1> QED
  BY <1>1, <1>2

LEMMA KeepOK ==
  ASSUME QueueOK, queue' = queue, released' => released \/ queue # <<>>
  PROVE  QueueOK'
BY DEF QueueOK

LEMMA StateMessage == \A v \in Voltages : Msg("STATE", v) \in Message
BY VoltageNat DEF Message, Msg, Ids, Distributed

LEMMA LevelMessage == \A v \in 0..255 : Msg("LEVEL", v) \in Message
BY DEF Message, Msg, Ids, Distributed

LEMMA BroadcastMessage == \A id \in Broadcast, v \in Nat : Msg(id, v) \in Message
<1> SUFFICES ASSUME NEW id \in Broadcast, NEW v \in Nat PROVE Msg(id, v) \in Message
  OBVIOUS
<1>1. id \in Ids /\ id # "STATE" /\ id # "LEVEL" /\ id # "PACKET"
  BY DEF Broadcast, Ids
<1> QED
  BY <1>1 DEF Message, Msg

LEMMA PacketMessage ==
  \A p \in Packets : [id |-> "PACKET", to |-> p.to, val |-> p.val] \in Message
<1> SUFFICES ASSUME NEW p \in Packets
             PROVE  [id |-> "PACKET", to |-> p.to, val |-> p.val] \in Message
  OBVIOUS
<1>1. p \in [to : Endpoints \cup Broadcast, val : Nat]
  BY PacketAssumption
<1>2. [to |-> p.to, val |-> p.val] = p
  BY <1>1
<1> QED
  BY <1>1, <1>2 DEF Message, Ids

LEMMA CallbackFront ==
  ASSUME NEW c, Callback(c)
  PROVE  queue # <<>> /\ released' = released
BY DEF Callback

LEMMA QueueStep ==
  ASSUME QueueOK, ThresholdsOK, [Next]_vars
  PROVE  QueueOK'
<1>1. CASE Release
  BY <1>1, KeepOK DEF Release
<1>2. CASE Advance
  <2>1. queue # <<>> /\ queue' = Tail(queue) /\ ~released'
    BY <1>2 DEF Advance, QueueOK
  <2>2. queue' \in Seq(Message) /\ Len(queue') = Len(queue) - 1
    BY <2>1 DEF QueueOK
  <2> QED
    BY <2>1, <2>2, Lengths DEF QueueOK
<1>3. CASE OnNewPwrMeasurement
  <2>1. queue # <<>> /\ released' = released
    BY <1>3, CallbackFront DEF OnNewPwrMeasurement
  <2>2. CASE TooLow(Front.val)
    BY <1>3, <2>1, <2>2, KeepOK DEF OnNewPwrMeasurement
  <2>3. CASE ~TooLow(Front.val)
    <3>1. Front.val \in Nat
      BY <2>1, FrontFields
    <3>3. RelativeLevel(Front.val) \in 0..255
      BY <2>3, <3>1, LevelRange DEF ThresholdsOK
    <3>4. Post(Msg("LEVEL", RelativeLevel(Front.val)))
      BY <1>3, <2>3 DEF OnNewPwrMeasurement
    <3> QED
      BY <2>1, <3>3, <3>4, LevelMessage, PostOK
  <2> QED
    BY <2>2, <2>3
<1>4. ASSUME NEW c, NEW id \in Distributed, Distribute(c, id) PROVE QueueOK'
  <2>1. queue # <<>> /\ released' = released
    BY <1>4, CallbackFront DEF Distribute
  <2>2. CASE Due(id)
    <3>1. Post(Msg(Out(id), Front.val)) /\ Front.val \in Nat
      BY <1>4, <2>1, <2>2, FrontFields DEF Distribute
    <3>2. Out(id) \in Broadcast
      BY DEF Out, Broadcast
    <3> QED
      BY <2>1, <3>1, <3>2, BroadcastMessage, PostOK
  <2>3. CASE ~Due(id)
    BY <1>4, <2>1, <2>3, KeepOK DEF Distribute
  <2> QED
    BY <2>2, <2>3
<1>5. CASE \/ OnRelativeBatteryVoltage \/ MsgCallback \/ GetLimitsEndoint
           \/ SetLowerVoltageEndoint \/ SetUpperVoltageEndoint
           \/ MasterOff \/ Ignored
  <2>1. queue' = queue /\ released' = released
    BY <1>5 DEF OnRelativeBatteryVoltage, MsgCallback, GetLimitsEndoint,
                SetLowerVoltageEndoint, SetUpperVoltageEndoint, MasterOff,
                Ignored, Endpoint, Callback
  <2> QED
    BY <2>1, KeepOK
<1>6. CASE IncommingEndpoint
  <2>1. PICK id \in Broadcast : Endpoint(id) /\ Post(Msg(id, Front.val))
    BY <1>6 DEF IncommingEndpoint
  <2>2. queue # <<>> /\ released' = released
    BY <2>1, CallbackFront DEF Endpoint
  <2>3. Front.val \in Nat
    BY <2>2, FrontFields
  <2> QED
    BY <2>1, <2>2, <2>3, BroadcastMessage, PostOK
<1>7. CASE OnLateInitTimer
  BY <1>7, KeepOK DEF OnLateInitTimer, bus
<1>8. ASSUME NEW msg \in Message, Posts(msg) PROVE QueueOK'
  <2>1. Post(msg) /\ released' = released
    BY <1>8 DEF Posts
  <2> QED
    BY <2>1, PostOK
<1>9. CASE Measured
  BY <1>8, <1>9, StateMessage DEF Measured
<1>10. CASE Switched
  <2>1. "SWITCH" \in Broadcast /\ 0 \in Nat /\ 1 \in Nat
    BY DEF Broadcast
  <2> QED
    BY <1>8, <1>10, <2>1, BroadcastMessage DEF Switched
<1>11. CASE Received
  BY <1>8, <1>11, PacketMessage DEF Received
<1>12. CASE UNCHANGED vars
  BY <1>12, KeepOK DEF vars, bus
<1>13. "STATE" \in Distributed /\ "LEVEL" \in Distributed
  BY DEF Distributed
<1> QED
  BY <1>1, <1>2, <1>3, <1>4, <1>5, <1>6, <1>7, <1>9, <1>10, <1>11, <1>12, <1>13
     DEF Next, Loop, OnSystemMeasurement, OnRelativeMeasurement

LEMMA ThresholdStep ==
  ASSUME QueueOK, turn \in 1..3, ThresholdsOK, [Next]_vars
  PROVE  ThresholdsOK'
<1>1. ASSUME NEW x, x \in Thresholds PROVE x \in Nat
  <2>1. x \in 0..MaxThreshold
    BY <1>1, ThresholdAssumption
  <2> QED
    BY <2>1, BoundNat
<1>2. ASSUME NEW e \in {"setLower", "setUpper"}, Endpoint(e)
      PROVE  Front.val \in Nat
  <2>1. queue # <<>> /\ Front.to = e
    BY <1>2, CallbackFront DEF Endpoint
  <2>2. Front.id = "PACKET"
    <3>1. /\ Front.id \in Ids
          /\ Receivers(Front.id)[turn] = "onReceivedPacket"
          /\ turn <= Len(Receivers(Front.id)) /\ turn \in 1..3
      BY <1>2, <2>1, FrontFields DEF Endpoint, Callback
    <3> QED
      BY <3>1 DEF Receivers, Ids, Distributed, Broadcast
  <2>3. [to |-> Front.to, val |-> Front.val] \in Packets
    BY <2>1, <2>2, FrontFields
  <2>4. Front.val \in Thresholds
    BY <2>1, <2>3, PacketAssumption
  <2> QED
    BY <1>1, <2>4
<1>3. CASE SetLowerVoltageEndoint
  BY <1>2, <1>3 DEF SetLowerVoltageEndoint, SetLowerVoltage, ThresholdsOK
<1>4. CASE SetUpperVoltageEndoint
  BY <1>2, <1>4 DEF SetUpperVoltageEndoint, SetUpperVoltage, ThresholdsOK
<1>5. CASE UNCHANGED <<lowThresh, highThresh>>
  BY <1>5 DEF ThresholdsOK
<1>6. \/ SetLowerVoltageEndoint \/ SetUpperVoltageEndoint
      \/ UNCHANGED <<lowThresh, highThresh>>
  BY DEF Next, Loop, Release, Advance, OnNewPwrMeasurement, OnSystemMeasurement,
         OnRelativeMeasurement, Distribute, OnRelativeBatteryVoltage, MsgCallback,
         GetLimitsEndoint, MasterOff, IncommingEndpoint, Ignored, OnLateInitTimer,
         Measured, Switched, Received, Posts, SwitchAllOff, vars, pwrVars
<1> QED
  BY <1>3, <1>4, <1>5, <1>6
-------------------------------------------------------------------------------
(* The place of the loop, the pins, and what is sent.                         *)

LEMMA CallbackTurn ==
  ASSUME QueueOK, turn \in 1..3, NEW c, Callback(c)
  PROVE  turn' \in 1..3
<1> DEFINE n == Len(Receivers(Front.id))
<1>1. turn <= n /\ turn' = turn + 1
  BY DEF Callback
<1>2. Front.id \in Ids
  BY CallbackFront, FrontFields
<1>3. n = 1 \/ n = 2
  <2>1. CASE Front.id = "STATE"
    BY <2>1 DEF Receivers
  <2>2. CASE Front.id = "LEVEL"
    BY <2>2 DEF Receivers
  <2>3. CASE Front.id \in Broadcast
    BY <2>3 DEF Receivers, Broadcast
  <2>4. CASE Front.id = "PACKET"
    BY <2>4 DEF Receivers, Broadcast
  <2> QED
    BY <1>2, <2>1, <2>2, <2>3, <2>4 DEF Ids, Distributed
<1> HIDE DEF n
<1> QED
  BY <1>1, <1>3

LEMMA CallbackOrNot ==
  ASSUME [Next]_vars
  PROVE  \/ \E c : Callback(c)
         \/ turn' = turn
         \/ turn' = 1
BY DEF Next, Loop, Release, Advance, OnNewPwrMeasurement, OnSystemMeasurement,
       OnRelativeMeasurement, Distribute, OnRelativeBatteryVoltage, MsgCallback,
       SetLowerVoltageEndoint, SetUpperVoltageEndoint, Endpoint,
       GetLimitsEndoint, MasterOff, IncommingEndpoint, Ignored, OnLateInitTimer,
       Measured, Switched, Received, Posts, vars, bus

LEMMA TurnStep ==
  ASSUME QueueOK, turn \in 1..3, [Next]_vars
  PROVE  turn' \in 1..3
BY CallbackTurn, CallbackOrNot

PinsOK == /\ enabled \in BOOLEAN /\ released \in BOOLEAN
          /\ listening \in BOOLEAN /\ started \in BOOLEAN

LEMMA PinsStep ==
  ASSUME PinsOK, [Next]_vars
  PROVE  PinsOK'
<1>1. enabled' \in {enabled, FALSE}
  BY DEF Next, Loop, Release, Advance, OnNewPwrMeasurement, OnSystemMeasurement,
         OnRelativeMeasurement, Distribute, OnRelativeBatteryVoltage, MsgCallback,
         SetLowerVoltageEndoint, SetUpperVoltageEndoint, SetLowerVoltage,
         SetUpperVoltage, SwitchAllOff,
         GetLimitsEndoint, MasterOff, IncommingEndpoint, Ignored, OnLateInitTimer,
         Measured, Switched, Received, Posts, vars, pwrVars
<1>2. released' \in {released, TRUE, FALSE}
  BY DEF Next, Loop, Release, Advance, OnNewPwrMeasurement, OnSystemMeasurement,
         OnRelativeMeasurement, Distribute, OnRelativeBatteryVoltage, MsgCallback,
         SetLowerVoltageEndoint, SetUpperVoltageEndoint, Endpoint, Callback,
         GetLimitsEndoint, MasterOff, IncommingEndpoint, Ignored, OnLateInitTimer,
         Measured, Switched, Received, Posts, vars, bus
<1>3. /\ listening' \in {listening, TRUE}
      /\ started' = started \/ started' = (started \/ Front.val > 0)
  BY DEF Next, Loop, Release, Advance, OnNewPwrMeasurement, OnSystemMeasurement,
         OnRelativeMeasurement, Distribute, OnRelativeBatteryVoltage, MsgCallback,
         SetLowerVoltageEndoint, SetUpperVoltageEndoint,
         GetLimitsEndoint, MasterOff, IncommingEndpoint, Ignored, OnLateInitTimer,
         Measured, Switched, Received, Posts, vars, buck
<1> QED
  BY <1>1, <1>2, <1>3 DEF PinsOK

FrameOK == frame \in (Broadcast \cup {"limits", "nobody"}) \X Nat \X Nat

LEMMA FrameStep ==
  ASSUME QueueOK, turn \in 1..3, ThresholdsOK, FrameOK, [Next]_vars
  PROVE  FrameOK'
<1>1. CASE MsgCallback
  <2>1. /\ queue # <<>> /\ frame' = <<Front.id, Front.val, 0>>
        /\ Receivers(Front.id)[turn] = "msgCallback"
        /\ turn <= Len(Receivers(Front.id))
    BY <1>1 DEF MsgCallback, Callback
  <2>2. Front.id \in Ids /\ Front.val \in Nat
    BY <2>1, FrontFields
  <2>3. Front.id \in Broadcast
    BY <2>1, <2>2 DEF Receivers, Ids, Distributed
  <2> QED
    BY <2>1, <2>2, <2>3 DEF FrameOK
<1>2. CASE GetLimitsEndoint
  <2>1. frame' = <<"limits", LowHalf(lowThresh), LowHalf(highThresh)>>
    BY <1>2 DEF GetLimitsEndoint
  <2>2. LowHalf(lowThresh) \in Nat /\ LowHalf(highThresh) \in Nat
    BY DEF ThresholdsOK, LowHalf, MaxThreshold
  <2> QED
    BY <2>1, <2>2 DEF FrameOK
<1>3. CASE frame' = frame
  BY <1>3 DEF FrameOK
<1>4. CASE frame' = Silence
  BY <1>4 DEF FrameOK, Silence
<1>5. MsgCallback \/ GetLimitsEndoint \/ frame' = frame \/ frame' = Silence
  BY DEF Next, Loop, Release, Advance, OnNewPwrMeasurement, OnSystemMeasurement,
         OnRelativeMeasurement, Distribute, OnRelativeBatteryVoltage,
         SetLowerVoltageEndoint, SetUpperVoltageEndoint,
         MasterOff, IncommingEndpoint, Ignored, OnLateInitTimer,
         Measured, Switched, Received, Posts, vars
<1> QED
  BY <1>1, <1>2, <1>3, <1>4, <1>5

-------------------------------------------------------------------------------
(* The interval of the distribution.                                          *)

CountOK ==
  /\ counter \in [Distributed -> 0..(Interval - 1)]
  /\ gap \in Nat /\ refused \in 0..MaxRefused
  /\ refused < MaxRefused => gap = counter[Traced] + Interval * refused

LEMMA DistributeCount ==
  ASSUME CountOK, NEW c, NEW id \in Distributed, Distribute(c, id)
  PROVE  CountOK'
<1>1. /\ Count(id) /\ Remember(id)
  BY DEF Distribute
<1>2. /\ Interval \in Nat \ {0} /\ MaxRefused \in Nat /\ Traced \in Distributed
  BY BusAssumption
<1>3. /\ \A d \in Distributed : counter[d] \in Nat /\ counter[d] < Interval
      /\ counter' = [counter EXCEPT ![id] = IF Due(id) THEN 0 ELSE @ + 1]
  BY <1>1, <1>2 DEF Count, CountOK
<1>4. \A d \in Distributed :
        counter'[d] = IF d = id THEN IF Due(id) THEN 0 ELSE counter[id] + 1
                                ELSE counter[d]
  BY <1>3 DEF CountOK
<1>5. counter' \in [Distributed -> 0..(Interval - 1)]
  <2>1. \A d \in Distributed : counter'[d] \in 0..(Interval - 1)
    BY <1>2, <1>3, <1>4 DEF Due
  <2> QED
    BY <1>3, <2>1 DEF CountOK
<1>6. CASE id # Traced
  <2>1. gap' = gap /\ refused' = refused /\ counter'[Traced] = counter[Traced]
    BY <1>1, <1>2, <1>4, <1>6 DEF Remember, history
  <2> QED
    BY <1>5, <2>1 DEF CountOK
<1>7. CASE id = Traced /\ Due(id) /\ Room(Out(id))
  <2>1. gap' = 0 /\ refused' = 0 /\ counter'[Traced] = 0
    BY <1>1, <1>4, <1>7 DEF Remember
  <2> QED
    BY <1>2, <1>5, <2>1 DEF CountOK
<1>8. CASE id = Traced /\ ~(Due(id) /\ Room(Out(id))) /\ refused = MaxRefused
  <2>1. gap' = gap /\ refused' = refused
    BY <1>1, <1>8 DEF Remember, history
  <2> QED
    BY <1>2, <1>5, <1>8, <2>1 DEF CountOK
<1>9. CASE /\ id = Traced /\ ~(Due(id) /\ Room(Out(id))) /\ refused # MaxRefused
  <2>1. gap' = gap + 1 /\ refused' = IF Due(id) THEN refused + 1 ELSE refused
    BY <1>1, <1>9 DEF Remember
  <2>2. gap \in Nat /\ refused \in Nat /\ refused < MaxRefused
    BY <1>2, <1>9 DEF CountOK
  <2>3. gap = counter[Traced] + Interval * refused
    BY <2>2 DEF CountOK
  <2>4. Interval * refused \in Nat /\ Interval * (refused + 1) = Interval * refused + Interval
    BY <1>2, <2>2
  <2>5. gap' = counter'[Traced] + Interval * refused'
    <3>1. CASE Due(id)
      <4>1. counter[Traced] + 1 = Interval /\ counter'[Traced] = 0
        BY <1>2, <1>4, <1>9, <3>1 DEF Due
      <4>2. gap' = Interval * (refused + 1)
        BY <1>2, <1>3, <2>1, <2>3, <2>4, <4>1
      <4>3. refused' = refused + 1
        BY <2>1, <3>1
      <4> QED
        BY <1>2, <2>4, <4>1, <4>2, <4>3
    <3>2. CASE ~Due(id)
      <4>1. counter'[Traced] = counter[Traced] + 1 /\ refused' = refused
        BY <1>2, <1>4, <1>9, <2>1, <3>2
      <4> QED
        BY <1>2, <1>3, <2>1, <2>3, <2>4, <4>1
    <3> QED
      BY <3>1, <3>2
  <2>6. refused' \in 0..MaxRefused /\ gap' \in Nat
    BY <1>2, <2>1, <2>2
  <2> QED
    BY <1>5, <2>5, <2>6 DEF CountOK
<1> QED
  BY <1>6, <1>7, <1>8, <1>9

LEMMA CountStep ==
  ASSUME CountOK, [Next]_vars
  PROVE  CountOK'
<1>1. ASSUME NEW c, NEW id \in Distributed, Distribute(c, id) PROVE CountOK'
  BY <1>1, DistributeCount
<1>2. CASE UNCHANGED <<counter, gap, refused>>
  BY <1>2 DEF CountOK
<1>3. \/ OnSystemMeasurement \/ OnRelativeMeasurement
      \/ UNCHANGED <<counter, gap, refused>>
  BY DEF Next, Loop, Release, Advance, OnNewPwrMeasurement,
         OnRelativeBatteryVoltage, MsgCallback,
         SetLowerVoltageEndoint, SetUpperVoltageEndoint,
         GetLimitsEndoint, MasterOff, IncommingEndpoint, Ignored, OnLateInitTimer,
         Measured, Switched, Received, Posts, vars, history
<1> QED
  BY <1>1, <1>2, <1>3
     DEF OnSystemMeasurement, OnRelativeMeasurement, Distributed

-------------------------------------------------------------------------------
ReportingInv ==
  QueueOK /\ turn \in 1..3 /\ ThresholdsOK /\ PinsOK /\ FrameOK /\ CountOK

LEMMA ReportingInit == Init => ReportingInv
<1> SUFFICES ASSUME Init PROVE ReportingInv
  OBVIOUS
<1>1. QueueOK /\ turn \in 1..3
  BY BusAssumption DEF Init, QueueOK
<1>2. ThresholdsOK
  <2>1. PICK t \in Loaded \cup {<<DefaultLow, DefaultHigh>>} :
          lowThresh = t[1] /\ highThresh = t[2]
    BY DEF Init, PwrInit
  <2>2. DefaultLow \in 0..MaxThreshold /\ DefaultHigh \in 0..MaxThreshold
    BY ThresholdAssumption
  <2>3. t = <<DefaultLow, DefaultHigh>> \/ t \in Nat \X Nat
    BY ThresholdAssumption
  <2>4. DefaultLow \in Nat /\ DefaultHigh \in Nat
    BY <2>2, BoundNat
  <2> QED
    BY <2>1, <2>3, <2>4 DEF ThresholdsOK
<1>3. PinsOK
  BY DEF Init, PwrInit, PinsOK
<1>4. FrameOK
  BY DEF Init, Silence, FrameOK
<1>5. CountOK
  <2>1. Traced \in Distributed /\ Interval \in Nat \ {0} /\ MaxRefused \in Nat
    BY BusAssumption
  <2>2. counter = [id \in Distributed |-> 0] /\ gap = 0 /\ refused = 0
    BY DEF Init
  <2> QED
    BY <2>1, <2>2 DEF CountOK
<1> QED
  BY <1>1, <1>2, <1>3, <1>4, <1>5 DEF ReportingInv

LEMMA ReportingInvStep == ReportingInv /\ [Next]_vars => ReportingInv'
BY QueueStep, TurnStep, ThresholdStep, PinsStep, FrameStep, CountStep DEF ReportingInv

(* Theorem ReportingInvariant: for every interval and every size of the queue *)
(* and the pools, one in Interval measurements is passed on, each refused     *)
(* post delays that by exactly one Interval, and levels fit their byte.       *)
THEOREM ReportingInvariant == Spec => []RInv
<1>1. ReportingInv => RInv
  <2> SUFFICES ASSUME ReportingInv PROVE RInv
    OBVIOUS
  <2>1. PwrTypeOK
    BY DEF ReportingInv, ThresholdsOK, PinsOK, PwrTypeOK
  <2>2. /\ queue \in Seq(Message) /\ Len(queue) <= QSize
        /\ released => queue # <<>>
    BY DEF ReportingInv, QueueOK
  <2>3. /\ released \in BOOLEAN /\ listening \in BOOLEAN /\ started \in BOOLEAN
        /\ turn \in 1..3
    BY DEF ReportingInv, PinsOK
  <2>4. frame \in (Broadcast \cup {"limits", "nobody"}) \X Nat \X Nat
    BY DEF ReportingInv, FrameOK
  <2>5. /\ counter \in [Distributed -> 0..(Interval - 1)]
        /\ gap \in Nat /\ refused \in 0..MaxRefused
        /\ refused < MaxRefused => gap = counter[Traced] + Interval * refused
    BY DEF ReportingInv, CountOK
  <2> QED
    BY <2>1, <2>2, <2>3, <2>4, <2>5 DEF RInv, RTypeOK
<1> QED
  BY <1>1, ReportingInit, ReportingInvStep, PTL DEF Spec

(* Theorem ReportingLevel: whatever thresholds are loaded from flash or set   *)
(* by packets, and whatever is measured, the relative level follows the       *)
(* voltage without a step, fits its byte, and is 0xff exactly from the upper  *)
(* threshold on.                                                              *)
THEOREM ReportingLevel == Spec => []LevelFollowsVoltage
<1>1. ReportingInv => LevelFollowsVoltage
  BY LevelCorrect DEF ReportingInv
<1> QED
  BY <1>1, ReportingInit, ReportingInvStep, PTL DEF Spec
===============================================================================
