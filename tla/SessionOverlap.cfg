\* Two devices inside a read and write of the registry at once.
SPECIFICATION Spec
CONSTANTS
  a = a
  b = b
  c3 = c3
  NoKey = NoKey
  Broadcast = Broadcast
  Client <- Two
  Alias <- OwnName
  Occurs <- Unrelated
  Allowed = {"haste", "overlap"}
  MaxLaunch = 1
  MaxBacklog = 2
  MaxStart = 2
CHECK_DEADLOCK FALSE
INVARIANT SelfListed
