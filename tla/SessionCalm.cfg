\* Operations that wait for the messages of the one before, three devices, crashes.
SPECIFICATION FairSpec
CONSTANTS
  a = a
  b = b
  c3 = c3
  NoKey = NoKey
  Broadcast = Broadcast
  Client <- Three
  Alias <- OwnName
  Occurs <- Unrelated
  Allowed = {"quit", "crash"}
  MaxLaunch = 1
  MaxBacklog = 1
  MaxStart = 3
CHECK_DEADLOCK FALSE
INVARIANT SettledSessionsAgree
PROPERTY EventuallyHeard
