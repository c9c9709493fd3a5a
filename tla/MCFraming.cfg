CONSTANTS
  Modulus = 8
  BEGINNING = 6
  END = 1
  ESCAPE = 3
  MaxPacketLen = 4
  Endpoints = {1, 3}
  Payload = {2, 6}
  MaxPayload = 5
  Noise = {1, 3, 6, 5}
  Buffers = 2
  MaxFaults = 1
SPECIFICATION Spec
INVARIANT TypeOK
INVARIANT IntactFrameDelivered
INVARIANT BufferForFrame
