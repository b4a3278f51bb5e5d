\* No faults, an application that keeps up: what polling for data delivers.
SPECIFICATION Spec
CONSTANTS
  Last = 2
  CountMod = 5
  IdMod = 3
  MaxTries = 1
  MaxFrame = 4
  Faults = FALSE
  AutoStop = TRUE
INVARIANT FreshInv
INVARIANT FreshResults
PROPERTY NoFrameMissed
PROPERTY CallsEnd
