------------------------------ MODULE ByteStream ------------------------------
(***************************************************************************)
(* What either direction of the serial link promises: a bounded stream of  *)
(* bytes.  Every byte put in comes out once, unaltered and in order.       *)
(***************************************************************************)
EXTENDS Naturals, Sequences

CONSTANTS Bytes, Capacity

VARIABLES stream,   \* bytes put in and not yet taken out, oldest first
          last      \* the byte taken out last

vars == <<stream, last>>

Init == /\ stream = <<>>
        /\ last \in Bytes

Put(bytes) == /\ Len(stream) + Len(bytes) <= Capacity
              /\ stream' = stream \o bytes
              /\ UNCHANGED last

Take == /\ stream # <<>>
        /\ last' = Head(stream)
        /\ stream' = Tail(stream)

Chunks == UNION {[1..n -> Bytes] : n \in 1..Capacity}

Next == Take \/ \E bytes \in Chunks : Put(bytes)

Spec == Init /\ [][Next]_vars
===============================================================================
