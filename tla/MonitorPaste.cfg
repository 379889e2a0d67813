\* Two devices, two copies, two starts: ticks, pastes and copies interleave.
SPECIFICATION Spec
CONSTANTS
  a = a
  b = b
  c3 = c3
  Client <- Two
  MaxCopy = 2
  MaxStart = 2
  MaxBacklog = 1
  Haste = TRUE
CHECK_DEADLOCK FALSE
SYMMETRY Symmetry
INVARIANTS NoEcho 
