SPECIFICATION Spec
CONSTANTS
  s1 = s1  s2 = s2  a1 = a1  a2 = a2  t1 = t1  t2 = t2
  Socks = {s1, s2}
  Addrs = {a1, a2}
  Topics = {t1, t2}
  Replies <- Mixed
  MaxReplies = 4
  Refusals = TRUE
  UpdatesSocket = 7
INVARIANTS TypeOK Tracked AppliedExactly Reached TopicsExactly
PROPERTIES Undisturbed
SYMMETRY SockSymmetry
CHECK_DEADLOCK FALSE
