SPECIFICATION Spec
CONSTANTS
  Ports = {1, 50555, 50556}
  DefaultIn = 50556
  DefaultOut = 50555
  Absent = Absent
  NotNumber = NotNumber
  Configs <- JustShipped
  NoFile = NoFile
  Garbled = Garbled
  NoServer = NoServer
  MaxManagers = 3

INVARIANTS ListensOnInPort
