CONSTANTS
  Bytes = {0, 1}
  Zero = 0
  FifoSize = 3
  MaxDepth = 2
SPECIFICATION FairSpec
INVARIANT RxInv
INVARIANT Exclusive
PROPERTY RxStream
PROPERTY RxServed
