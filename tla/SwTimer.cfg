CONSTANTS
  Callbacks = {"a", "b"}
  Slots = 2
  Intervals = {2, 5}
  MinRegister = 1
  MinTrigger = 2
  Top = 3
  Latency = 1
  MaxLate = 2
  MaxTicks = 7
  None = None
SPECIFICATION FairSpec
INVARIANT TypeOK
INVARIANT OneSlot
INVARIANT Armed
PROPERTY NotEarly
PROPERTY Expires
