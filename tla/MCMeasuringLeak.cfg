CONSTANTS
  MsgIds <- MCMsgIds
  msgAmount <- MCAmount
  Callbacks = {"onRaw", "onCalib"}
  Values = {0}
  Zero = 0
  QSize = 3
  Receivers = 1
  MaxRef = 1
  Null = Null
  NullPosters = {}
  Unregistrars = {}
  Shared = {}
  Raw = "raw"
  Calib = "calib"
  State = "state"
  onRaw = "onRaw"
  onCalib = "onCalib"
  Others = {"other"}
SPECIFICATION MFairSpec
PROPERTY KeepsMeasuring
