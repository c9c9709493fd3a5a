CONSTANTS
  Bytes = {0, 1}
  Zero = 0
  FifoSize = 4
  MaxPacket = 6
SPECIFICATION FairSpec
INVARIANT TxInv
INVARIANT NeverStalls
PROPERTY TxStream
PROPERTY SendReturns
PROPERTY Drains
