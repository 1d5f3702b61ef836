SPECIFICATION LiveSpec
CONSTANTS
  x1 = x1
  x2 = x2
  f1 = f1
  bad = bad
  o1 = o1
  o2 = o2
  o3 = o3
  o4 = o4
  Names = {1, 2}
  XLinks <- OneXLink
  FFLinks <- OneFFLink
  Objects = {o1, o2}
  Numeric = {0, 1}
  Texts = {}
  Budget = 5
  Zero = 0
  SdkType <- OneType
  Writable <- OneXLink
  FFSettable <- OneFFLink
  Builtin <- OneXLink
  Files <- NoFiles
  OddArgs = {}
  ReqTypes = {NoType}
  NoType = NoType
  Missing = Missing
  NotText = NotText
  None = None
  AircraftSwaps = FALSE
  MaxCount = 2
CHECK_DEADLOCK FALSE
PROPERTIES FFSetReachesAircraft
