-------------------------------- MODULE Framing --------------------------------
(***************************************************************************)
(* The generic flawless protocol (genericFlawLessProtocol.c): a sender     *)
(* that frames packets and the receiver at the other end of a serial line, *)
(* both the same code on two boards.  The line may lose bytes and invent   *)
(* some.  A packet is an endpoint and a payload.                           *)
(***************************************************************************)
EXTENDS Integers, Sequences

CONSTANTS Modulus,       \* 2^8: checksums are uint8_t
          BEGINNING, END, ESCAPE,   \* FLAWLESS_PROTOCOL_PACKET_CHAR_*
          MaxPacketLen,  \* FLAWLESS_PROTOCOL_MAX_PACKET_LEN
          Endpoints,     \* subprotocol ids that are sent to
          Payload,       \* bytes payloads are made of
          MaxPayload,    \* longest payload the model sends
          Noise,         \* bytes the line may invent
          Buffers,       \* GENERIC_PROTCOL_BUFFER_COUNT
          MaxFaults      \* bytes the model loses, invents or has no buffer for

Bytes   == 0..(Modulus - 1)
Special == {BEGINNING, END, ESCAPE}

ASSUME ByteAssumption ==
  /\ Modulus \in Nat \ {0}
  /\ Special \cup Endpoints \cup Payload \cup Noise \subseteq Bytes
  /\ BEGINNING # END /\ END # ESCAPE /\ BEGINNING # ESCAPE
ASSUME LengthAssumption ==
  /\ MaxPacketLen \in Nat \ {0} /\ MaxPayload \in Nat /\ MaxFaults \in Nat
  /\ Buffers \in Nat \ {0}

VARIABLES
  isSending, checksum,        \* sendState
  line,                       \* bytes sent and not yet received
  mode, n, sum,               \* receiveState: mode, receivedPayloadBytes, checkSum
  endpoint, packet,           \* the buffer: subProtocolID and the bytes stored
  hasBuffer,                  \* receiveState->buffer is not NULL
  free, waiting,              \* buffers of the pool: free, posted and not released
  frame,                      \* the packet sent last, as far as it was given
  intact,                     \* the line treated its bytes well until now
  settled,                    \* when it began, the receiver awaited no escaped byte,
                              \* or the line had treated the packet before well
  handed,                     \* packets handed to msgPump_postMessage since it began
  faults                      \* bytes lost, invented or ignored so far

sender   == <<isSending, checksum>>
pool     == <<hasBuffer, free, waiting>>
state    == <<mode, n, sum, endpoint, packet>>
receiver == <<state, pool>>
history  == <<frame, intact, settled, handed, faults>>
vars     == <<sender, line, receiver, history>>

Modes == {"UNKNOWN", "ESCAPE_CHAR", "PAYLOAD", "PACKET_END"}

TypeOK ==
  /\ isSending \in BOOLEAN /\ checksum \in Bytes
  /\ \A i \in DOMAIN line : line[i] \in Bytes
  /\ mode \in Modes /\ n \in 0..MaxPacketLen /\ sum \in Bytes
  /\ endpoint \in Bytes
  /\ Len(packet) < MaxPacketLen /\ \A i \in DOMAIN packet : packet[i] \in Bytes
  /\ hasBuffer \in BOOLEAN
  /\ free \in 0..Buffers /\ waiting \in 0..Buffers
  /\ intact \in BOOLEAN /\ settled \in BOOLEAN /\ faults \in 0..MaxFaults
  /\ frame.ep \in Bytes /\ Len(frame.data) <= MaxPayload

(* genericProtocol_init: resetBuffer acquires the first buffer. *)
Init ==
  /\ isSending = FALSE /\ checksum = 0
  /\ line = <<>>
  /\ mode = "UNKNOWN" /\ n = 0 /\ sum = 0
  /\ endpoint = 0 /\ packet = <<>>
  /\ hasBuffer = TRUE /\ free = Buffers - 1 /\ waiting = 0
  /\ frame = [ep |-> 0, data |-> <<>>] /\ intact = FALSE /\ settled = FALSE
  /\ handed = <<>> /\ faults = 0

-------------------------------------------------------------------------------
(* Sending. *)

(* genericProtocol_send with i_escape, and what it returns *)
Escaped(b)    == IF b \in Special THEN <<ESCAPE, b>> ELSE <<b>>
EscapedSum(b) == IF b \in Special THEN ESCAPE + b ELSE b

(* both over a sequence: recursive functions over its prefixes *)
EscapedSeq(s) ==
  LET f[i \in 0..Len(s)] == IF i = 0 THEN <<>> ELSE f[i - 1] \o Escaped(s[i])
  IN  f[Len(s)]
EscapedSeqSum(s) ==
  LET f[i \in 0..Len(s)] == IF i = 0 THEN 0 ELSE f[i - 1] + EscapedSum(s[i])
  IN  f[Len(s)]

Negative(x) == (Modulus - (x % Modulus)) % Modulus

Mistake_ChecksumBytes(x) == Escaped(Negative(x))      \* for ChecksumBytes

(* genericProtocol_sendChecksum: an escape character counts, too. *)
ChecksumBytes(x) ==
  IF Negative(x) \in Special THEN <<ESCAPE, Negative(x + ESCAPE)>>
                             ELSE <<Negative(x)>>

(* A new packet begins: the model sends it when the line is drained, which   *)
(* bounds the line and tells the packets apart, not the receiver's bytes.    *)
NewFrame(ep, data) ==
  /\ line = <<>>
  /\ frame' = [ep |-> ep, data |-> data]
  /\ settled' = (intact \/ mode # "ESCAPE_CHAR")
  /\ intact' = TRUE
  /\ handed' = <<>>
  /\ UNCHANGED faults

(* genericProtocol_sendMessage *)
SendMessage(ep, data) ==
  /\ ~isSending
  /\ NewFrame(ep, data)
  /\ line' = <<BEGINNING>> \o Escaped(ep) \o EscapedSeq(data)
                \o ChecksumBytes(EscapedSum(ep) + EscapedSeqSum(data)) \o <<END>>
  /\ UNCHANGED <<sender, receiver>>

BeginTransmittingFrame(ep) ==
  /\ ~isSending
  /\ NewFrame(ep, <<>>)
  /\ isSending' = TRUE
  /\ line' = <<BEGINNING>> \o Escaped(ep)
  /\ checksum' = EscapedSum(ep) % Modulus
  /\ UNCHANGED receiver

(* The functions below do not test isSending; their only caller, msgProxy.c, *)
(* calls them in order.                                                      *)
SendInsideFrame(data) ==
  /\ isSending
  /\ Len(frame.data) + Len(data) <= MaxPayload
  /\ frame' = [frame EXCEPT !.data = @ \o data]
  /\ line' = line \o EscapedSeq(data)
  /\ checksum' = (checksum + EscapedSeqSum(data)) % Modulus
  /\ UNCHANGED <<isSending, receiver, intact, settled, handed, faults>>

EndTransmittingFrame ==
  /\ isSending
  /\ line' = line \o ChecksumBytes(checksum) \o <<END>>
  /\ checksum' = 0
  /\ isSending' = FALSE
  /\ UNCHANGED <<receiver, history>>

-------------------------------------------------------------------------------
(* Receiving: genericProtocol_receiveByte for byte b. *)

Mistake_TooLong == n > MaxPacketLen                   \* for TooLong

(* this frame cannot be processed *)
TooLong == n >= MaxPacketLen

Begins(b) == b = BEGINNING /\ mode # "ESCAPE_CHAR"
Ends(b)   == b = END /\ mode # "ESCAPE_CHAR"

(* A byte goes wrong. *)
Fault ==
  /\ faults < MaxFaults
  /\ faults' = faults + 1
  /\ intact' = FALSE

(* The buffers of the pool that are free once the byte has one: a receiver    *)
(* without a buffer first acquires one.  It is then out of frame with nothing *)
(* received, so that resetting its state changes nothing.                     *)
FreeNow == IF hasBuffer THEN free ELSE free - 1

Acquire == hasBuffer' = TRUE /\ free' = FreeNow /\ UNCHANGED waiting

(* No buffer, and the pool has none: the byte is gone. *)
Ignore ==
  /\ ~hasBuffer /\ free = 0
  /\ mode' = "UNKNOWN" /\ n' = 0 /\ sum' = 0
  /\ UNCHANGED <<endpoint, packet, pool, handed>>

Begin(b) ==
  /\ Begins(b)
  /\ mode' = "PAYLOAD" /\ n' = 0 /\ sum' = 0
  /\ Acquire
  /\ UNCHANGED <<endpoint, packet, handed>>

Overlong(b) ==
  /\ ~Begins(b) /\ TooLong
  /\ mode' = "UNKNOWN"
  /\ UNCHANGED <<n, sum, endpoint, packet, pool, handed>>

(* The first byte is the endpoint, the others are payload and checksum. *)
Store(b) ==
  /\ n' = n + 1
  /\ IF n = 0 THEN /\ endpoint' = b
                   /\ packet' = <<>>
              ELSE /\ packet' = Append(packet, b)
                   /\ UNCHANGED endpoint

Content(b) ==
  /\ ~Begins(b) /\ ~Ends(b) /\ ~TooLong
  /\ sum' = (sum + b) % Modulus
  /\ \/ /\ mode = "PAYLOAD" /\ b = ESCAPE
        /\ mode' = "ESCAPE_CHAR"
        /\ UNCHANGED <<n, endpoint, packet>>
     \/ /\ mode = "ESCAPE_CHAR" \/ (mode = "PAYLOAD" /\ b # ESCAPE)
        /\ mode' = "PAYLOAD"
        /\ Store(b)
  /\ UNCHANGED <<pool, handed>>

(* Out of frame.  After an end with a wrong checksum the mode stays, and     *)
(* every byte counts as another end: its "checksum" is b - END, never 0.     *)
Skip(b) ==
  /\ ~Begins(b) /\ ~Ends(b) /\ ~TooLong
  /\ \/ /\ mode = "UNKNOWN"
        /\ sum' = (sum + b) % Modulus
        /\ UNCHANGED <<n, packet>>
     \/ /\ mode = "PACKET_END"
        /\ sum' = 0 /\ n' = 0 /\ packet' = <<>>
  /\ Acquire
  /\ UNCHANGED <<mode, endpoint, handed>>

Deliver == handed' = Append(handed, [ep |-> endpoint,
                                     data |-> SubSeq(packet, 1, n - 2)])

Mistake_Refill(posted) ==                             \* for Refill
  /\ waiting' = IF posted THEN waiting + 1 ELSE waiting
  /\ IF FreeNow > 0 THEN hasBuffer' = TRUE /\ free' = FreeNow - 1
                    ELSE hasBuffer' = FALSE /\ free' = 0

(* What the post does to the pool, then resetBuffer: a buffer that was        *)
(* refused is given up for another one, if there is another one.              *)
Refill(posted) ==
  /\ waiting' = IF posted THEN waiting + 1 ELSE waiting
  /\ IF FreeNow > 0 THEN hasBuffer' = TRUE /\ free' = FreeNow - 1
                    ELSE hasBuffer' = ~posted /\ free' = 0

(* The end: a packet with the right checksum is posted, successfully or not. *)
Finish(b) ==
  /\ Ends(b) /\ ~TooLong
  /\ IF sum = 0 /\ n >= 2
       THEN /\ Deliver
            /\ mode' = "UNKNOWN"
            /\ \E posted \in BOOLEAN : Refill(posted)
       ELSE /\ mode' = IF sum = 0 THEN "UNKNOWN" ELSE "PACKET_END"
            /\ Acquire
            /\ UNCHANGED handed
  /\ sum' = 0 /\ n' = 0 /\ packet' = <<>>
  /\ UNCHANGED endpoint

ReceiveByte(b) ==
  /\ hasBuffer \/ free > 0
  /\ Begin(b) \/ Overlong(b) \/ Content(b) \/ Skip(b) \/ Finish(b)

(* The main loop has dispatched a packet and its buffer is free again. *)
Release ==
  /\ waiting > 0
  /\ waiting' = waiting - 1 /\ free' = free + 1
  /\ UNCHANGED <<sender, line, state, hasBuffer, history>>

-------------------------------------------------------------------------------
(* The line. *)

Arrive ==
  /\ line # <<>>
  /\ line' = Tail(line)
  /\ \/ ReceiveByte(Head(line)) /\ UNCHANGED <<intact, faults>>
     \/ Ignore /\ Fault
  /\ UNCHANGED <<sender, frame, settled>>

Lose ==
  /\ line # <<>>
  /\ line' = Tail(line)
  /\ Fault
  /\ UNCHANGED <<sender, receiver, frame, settled, handed>>

Invent(b) ==
  /\ ReceiveByte(b) \/ Ignore
  /\ Fault
  /\ UNCHANGED <<sender, line, frame, settled>>

Send ==
  \/ \E ep \in Endpoints :
       \/ BeginTransmittingFrame(ep)
       \/ \E k \in 0..MaxPayload : \E data \in [1..k -> Payload] : SendMessage(ep, data)
  \/ \E k \in 1..MaxPayload : \E data \in [1..k -> Payload] : SendInsideFrame(data)
  \/ EndTransmittingFrame

Next == Send \/ Arrive \/ Lose \/ Release \/ \E b \in Noise : Invent(b)

Spec == Init /\ [][Next]_vars

-------------------------------------------------------------------------------
Complete == ~isSending /\ line = <<>> /\ intact /\ settled
FrameLen == Len(frame.data) + 2       \* with endpoint and checksum

(* Property IntactFrameDelivered: a packet whose frame the line did not harm *)
(* is handed on once, with its endpoint and bytes, if it fits - whatever     *)
(* happened before, but for one case: an escape character came last, which   *)
(* takes the BEGINNING of the frame with it.  That cannot be if the frame    *)
(* before was not harmed either, however it ended, so no second packet goes. *)
(* A packet that is too long is not handed on.  (Its tail may be: out of     *)
(* frame, an escaped BEGINNING begins a packet, too.)                        *)
IntactFrameDelivered ==
  Complete => IF FrameLen < MaxPacketLen THEN handed = <<frame>>
                                         ELSE \A k \in DOMAIN handed : handed[k] # frame

(* Property BufferForFrame: the receiver is inside a frame only with a buffer *)
(* to store it; and packets whose posts are refused lose their buffers for    *)
(* good, but never the last one: a receiver without a buffer gets one when    *)
(* the main loop has dispatched what waits.                                   *)
BufferForFrame ==
  /\ ~hasBuffer => mode = "UNKNOWN" /\ n = 0 /\ sum = 0
  /\ hasBuffer \/ free + waiting > 0
===============================================================================
