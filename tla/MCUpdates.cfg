SPECIFICATION Spec
CONSTANTS
  s1 = s1  s2 = s2  u1 = u1  u2 = u2
  Socks = {s1}
  Urls = {u1}
  CmdCap = 2
  MaxCalls = 3
  CallsAfterTerm = TRUE
  EarlyNnTerm = FALSE
  Topics <- OneTopic
  TopicsOf <- OneTopicOf
  IdSpace = 2
  FirstIds = {1}
  NetCap = 1
  MaxGen = 1
  Noise = TRUE
  LosesUpdates = FALSE
  UpdatesSocket = 7
  ErrorRetry = 1
  RequestWait = 2
  MaxPoll = 2
  RequestAgain = 3
  Interrupts = TRUE
INVARIANTS TypeOK Settled NoOversleep Informed
CHECK_DEADLOCK FALSE
