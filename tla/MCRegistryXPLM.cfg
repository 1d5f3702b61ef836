SPECIFICATION XPLMSpec
CONSTANTS
  x1 = x1
  x2 = x2
  f1 = f1
  bad = bad
  o1 = o1
  o2 = o2
  o3 = o3
  o4 = o4
  Names = {1, 2}
  XLinks <- TwoXLinks
  FFLinks = {}
  Objects = {o1, o2, o3, o4}
  Numeric = {0, 1}
  Texts = {}
  Zero = 0
  SdkType <- TwoTypes
  Writable <- TwoXLinks
  FFSettable = {}
  Builtin <- OneXLink
  Files <- TwoFiles
  OddArgs = {}
  ReqTypes = {NoType}
  NoType = NoType
  Missing = Missing
  NotText = NotText
  None = None
  AircraftSwaps = FALSE
  MaxCount = 3
SYMMETRY AddressesAlike
CHECK_DEADLOCK FALSE
INVARIANTS TypeOK SubscribedAreRegistered CountCoversSubscriptions PointersAreLive
PROPERTIES NamesAreNeverRetargeted ImplementsDirectory
