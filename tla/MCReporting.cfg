CONSTANTS
  Voltages = {960, 1200}
  Thresholds = {0, 65535}
  DefaultLow = 970
  DefaultHigh = 1200
  Loaded <- MCLoaded
  QSize = 3
  Pool <- MCPool
  Interval = 2
  Packets <- MCPackets
  Followed <- MCFollowed
  Traced = "STATE"
  MaxRefused = 2
SPECIFICATION FairSpec
INVARIANT RInv
INVARIANT LevelFollowsVoltage
PROPERTY CutsOff
PROPERTY Reported
PROPERTY BuckStarts
\* the board that switched itself off is off
CHECK_DEADLOCK FALSE
