------------------------------- MODULE MCMsgPump -------------------------------
(* Values of MsgPump's constants for TLC: one message id with two buffers.   *)
EXTENDS MsgPump, TLC

CONSTANT m1

MCMsgIds == {m1}
MCAmount == (m1 :> 2)
MCNullPosters == {m1}
MCShared == {<<m1, 1>>}
===============================================================================
