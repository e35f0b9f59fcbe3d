\* Two sends, nodes that catch up before the second read, answers in order.
CONSTANTS
  Sends = {s1, s2}
  s1 = s1
  s2 = s2
  NoSend = NoSend
  Prompt = TRUE
  Overtakes = FALSE
  FetchFails = TRUE
  MaxVersions = 2
  MaxOpens = 2
SPECIFICATION FairSpec
INVARIANTS
  TypeOK
  NoDoubleStake
  PanelIsTrue
  PageCatchesUp
PROPERTIES
  BusyEnds
CHECK_DEADLOCK FALSE
