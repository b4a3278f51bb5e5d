\* Interrupts instead of polling; signals, and no faults.
SPECIFICATION KSpec
CONSTANTS
  Last = 1
  CountMod = 4
  IdMod = 3
  MaxTries = 1
  MaxFrame = 3
  Faults = FALSE
  AutoStop = TRUE
INVARIANT KTypeOK
PROPERTY FrameDelivered
