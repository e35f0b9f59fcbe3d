SPECIFICATION Spec
CONSTANTS
  Sends = {s1, s2}
  s1 = s1
  s2 = s2
  NoSend = NoSend
  Prompt = TRUE
  Overtakes = FALSE
  FetchFails = FALSE
  MaxVersions = 2
  MaxOpens = 2
CHECK_DEADLOCK FALSE
INVARIANT AvailableAtOnce
