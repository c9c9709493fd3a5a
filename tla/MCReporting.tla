------------------------------ MODULE MCReporting ------------------------------
(* Values of Reporting's constants for TLC. *)
EXTENDS Reporting

MCPool == [id \in Ids |-> IF id \in {"PACKET", "SWITCH"} THEN 1 ELSE 2]

(* The lower threshold can be lowered and raised, and both become 0. *)
MCPackets == [to : {"setLower"}, val : Thresholds]
             \cup [to : {"setUpper", "getLimits", "other"}, val : {0}]
             \cup {[to |-> "masterOff", val |-> 1], [to |-> "STATE_OUT", val |-> 960]}

(* One of the two thresholds has an erased upper half-word: 2000000000 stands *)
(* for 0xffff0000 and more, which TLC's integers do not reach.                *)
MCLoaded == {<<DefaultLow, 2000000000>>, <<2000000000, DefaultHigh>>}

MCFollowed == {<<"STATE_OUT", v>> : v \in Voltages}
              \cup {<<"LEVEL_OUT", 0>>, <<"LEVEL_OUT", 255>>, <<"SWITCH", 1>>}
===============================================================================
