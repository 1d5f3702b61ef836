SPECIFICATION Spec
CONSTANTS
  h1 = h1
  h2 = h2
  n1 = n1
  l1 = l1
  EVENT = EVENT
  Names = {n1}
  Links = {l1}
  NoLink = NoLink
  Hosts = {h1, h2}
  Scripts <- TwoHostScripts
  Values = {0, 1}
  EMPTY = EMPTY
  BAD = BAD
  Junk = {EMPTY, BAD}
  Notices = {EVENT}
  InboxSize = 1
  Binary = {1}
  ExportLimit = 0
  Lengthy <- LongReads
  Unseen = Unseen
SYMMETRY HostsAlike
CHECK_DEADLOCK FALSE
INVARIANTS TypeOK ClientsAreDistinct ExportedAreRegistered ListenersStayKnown DoneIsExported
