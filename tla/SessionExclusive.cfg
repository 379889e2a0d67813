\* Operations that do not overlap, messages in any order, quits and relaunches.
SPECIFICATION Spec
CONSTANTS
  a = a
  b = b
  c3 = c3
  NoKey = NoKey
  Broadcast = Broadcast
  Client <- Two
  Alias <- OwnName
  Occurs <- Unrelated
  Allowed = {"haste", "quit"}
  MaxLaunch = 2
  MaxBacklog = 1
  MaxStart = 2
CHECK_DEADLOCK FALSE
SYMMETRY Symmetry
INVARIANTS TypeOK SelfListed StoppedIsUnlisted PeersAreHeard NeverOwnPeer LeftoverRemembered
PROPERTY ImplementsRoster
