SPECIFICATION LiveSpec
CONSTANTS
  h1 = h1
  h2 = h2
  n1 = n1
  l1 = l1
  EVENT = EVENT
  Names = {n1}
  Links = {l1}
  NoLink = NoLink
  Hosts = {h1}
  Scripts <- SingleScripts
  Values = {0, 1}
  EMPTY = EMPTY
  BAD = BAD
  Junk = {}
  Notices = {}
  InboxSize = 1
  Binary = {}
  ExportLimit = 1
  Lengthy = {}
  Unseen = Unseen
CHECK_DEADLOCK FALSE
PROPERTIES ScriptsFinish ViewsConverge
