------------------------------ MODULE MCMeasuring ------------------------------
(* Values of Measuring's constants for TLC: the pools as the firmware has    *)
(* them, and one for all the messages of the other parts.                    *)
EXTENDS Measuring, TLC

MCMsgIds == {"raw", "calib", "state", "other"}
MCAmount == [m \in MCMsgIds |-> IF m = "calib" THEN 1 ELSE 2]
===============================================================================
