SPECIFICATION Spec
CONSTANTS
  Sends = {s1, s2}
  s1 = s1
  s2 = s2
  NoSend = NoSend
  Prompt = TRUE
  Overtakes = TRUE
  FetchFails = FALSE
  MaxVersions = 2
  MaxOpens = 2
CHECK_DEADLOCK FALSE
INVARIANT PageCatchesUp
