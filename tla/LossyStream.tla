------------------------------ MODULE LossyStream ------------------------------
(***************************************************************************)
(* What serial reception promises: bytes are handed on once, unaltered and *)
(* in order, and none is lost while fewer than Capacity - 1 wait.  When    *)
(* more do, everything that waits is lost at once; nothing older is ever   *)
(* handed on after something newer.                                        *)
(***************************************************************************)
EXTENDS Naturals, Sequences

CONSTANTS Bytes, Capacity

VARIABLES stream,   \* bytes received and not yet handed on, oldest first
          last      \* the byte handed on last

vars == <<stream, last>>

Init == /\ stream = <<>>
        /\ last \in Bytes

Receive(b) == /\ Len(stream) < Capacity
              /\ stream' = Append(stream, b)
              /\ UNCHANGED last

Overrun(b) == /\ Len(stream) >= Capacity - 1
              /\ stream' = IF Len(stream) = Capacity THEN <<b>> ELSE <<>>
              /\ UNCHANGED last

HandOn == /\ stream # <<>>
          /\ last' = Head(stream)
          /\ stream' = Tail(stream)

Next == HandOn \/ \E b \in Bytes : Receive(b) \/ Overrun(b)

Spec == Init /\ [][Next]_vars
===============================================================================
