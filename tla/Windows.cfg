\* Two starts, two edits and three openings of the preferences window, two saved profiles.
SPECIFICATION Spec
CONSTANTS
  k1 = k1
  k2 = k2
  k3 = k3
  NoKey = NoKey
  Keys <- MCKeys
  allKeys <- MCAllKeys
  Saved <- MCSaved
  MaxStarts = 2
  MaxEdits = 2
  MaxVisits = 3
CHECK_DEADLOCK FALSE
INVARIANTS TypeOK ProfilesPersist ProfilesAreTheirOwn FaultHasACause
