SPECIFICATION Spec
CONSTANTS
  s1 = s1  s2 = s2  u1 = u1  u2 = u2
  Socks = {s1}
  Urls = {u1}
  CmdCap = 2
  MaxCalls = 5
  CallsAfterTerm = FALSE
  EarlyNnTerm = FALSE
  Topics <- OneTopic
  TopicsOf <- OneTopicOf
  IdSpace = 3
  FirstIds = {2}
  NetCap = 0
  MaxGen = 0
  Noise = TRUE
  LosesUpdates = TRUE
  UpdatesSocket = 7
  ErrorRetry = 1
  RequestWait = 1
  MaxPoll = 1
  RequestAgain = 2
  Interrupts = FALSE
PROPERTIES ConfigureJoins
CHECK_DEADLOCK FALSE
