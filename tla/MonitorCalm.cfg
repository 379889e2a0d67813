\* Two devices whose users wait for each other: a copy reaches the other one.
SPECIFICATION FairSpec
CONSTANTS
  a = a
  b = b
  c3 = c3
  Client <- Two
  MaxCopy = 2
  MaxStart = 4
  MaxBacklog = 1
  Haste = FALSE
CHECK_DEADLOCK FALSE
INVARIANT ClipboardsAgree
PROPERTY CopyArrives
