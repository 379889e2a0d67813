\* Two prototype clients, three session ids, one trouble.
SPECIFICATION Spec
CONSTANTS
  a = a
  b = b
  i1 = i1
  i2 = i2
  i3 = i3
  NoId = NoId
  NoKey = NoKey
  Blank = Blank
  Client <- TwoClients
  Id <- Three
  Allowed = {"outage", "loss", "crash"}
  MaxStarts = 2
  MaxEvents = 1
CHECK_DEADLOCK FALSE
SYMMETRY Alike
INVARIANTS TypeOK ListsAreRight  
