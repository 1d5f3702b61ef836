SPECIFICATION SystemSpec
CONSTANTS
  Ports = {1, 50555, 50556}
  DefaultIn = 50556
  DefaultOut = 50555
  Absent = Absent
  NotNumber = NotNumber
  Configs <- Edited
  NoFile = NoFile
  Garbled = Garbled
  NoServer = NoServer
  MaxManagers = 3
  LOAD_DLL = LOAD_DLL
  REG_DATA = REG_DATA
  FFDATA_INIT = FFDATA_INIT
  MORE = MORE
  default = default
  extra = extra
  Ops = {LOAD_DLL, REG_DATA, FFDATA_INIT, MORE}
  Dlls = {default, extra}
  DefaultDll = default
  Offers <- TwoDlls
  None = None
  MaxLoads = 3
  Hosts = {h1}

INVARIANTS TypeOK SystemTypeOK LoopsFindServer LoopsRunOnce EnabledIsServed OneManagerServes OneManagerEnforces HandlersAreLoaded DefaultsPrevail
PROPERTIES ServesInTheEnd FirstHandlerStays ImplementsTable
