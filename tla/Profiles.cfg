\* Two sessions, one of them called "sessions", and one other device.
SPECIFICATION Spec
CONSTANTS
  s = s
  sessions = sessions
  d = d
  Session <- Two
  SessionsKey = sessions
  Other <- One
  Visits <- ToSessions
  NoKey = NoKey
  Broadcast = Broadcast
  Allowed = {"edit", "expire", "end", "outage"}
  MaxCopy = 2
  MaxStart = 3
  MaxStrain = 1
CHECK_DEADLOCK FALSE
INVARIANTS OthersStayListed  NoOtherSelf
