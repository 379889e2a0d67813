\* A crash between registering and saving the session key.
SPECIFICATION Spec
CONSTANTS
  a = a
  b = b
  c3 = c3
  NoKey = NoKey
  Broadcast = Broadcast
  Client <- Two
  Alias <- OwnName
  Occurs <- Unrelated
  Allowed = {"crash"}
  MaxLaunch = 1
  MaxBacklog = 1
  MaxStart = 2
CHECK_DEADLOCK FALSE
INVARIANT LeftoverRemembered
