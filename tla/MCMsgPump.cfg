CONSTANTS
  m1 = m1
  MsgIds <- MCMsgIds
  msgAmount <- MCAmount
  Callbacks = {"c1", "c2"}
  Values = {0, 1}
  Zero = 0
  QSize = 2
  Receivers = 2
  MaxRef = 2
  Null = Null
  NullPosters <- MCNullPosters
  Unregistrars = {"c1"}
  Shared <- MCShared
SPECIFICATION FairSpec
INVARIANT IInv
INVARIANT QueuedBufferReserved
INVARIANT NoDuplicateReceiver
PROPERTY BusSpec
PROPERTY EveryMessageDispatched
PROPERTY BufferComesBack
\* a store through a NULL message may fault and stop the board
CHECK_DEADLOCK FALSE
