SPECIFICATION FairSpec
CONSTANTS
  s1 = s1  s2 = s2  u1 = u1  u2 = u2
  Socks = {s1}
  Urls = {u1}
  CmdCap = 1
  MaxCalls = 3
  CallsAfterTerm = FALSE
  EarlyNnTerm = FALSE
  Topics <- OneTopic
  TopicsOf <- OneTopicOf
  IdSpace = 2
  FirstIds = {1}
  NetCap = 1
  MaxGen = 1
  Noise = FALSE
  LosesUpdates = TRUE
  UpdatesSocket = 7
  ErrorRetry = 1
  RequestWait = 1
  MaxPoll = 1
  RequestAgain = 2
  Interrupts = FALSE
PROPERTIES Converges
CHECK_DEADLOCK FALSE
