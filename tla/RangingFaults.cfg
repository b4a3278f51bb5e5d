\* Transfers may fail and writes may be lost; the stream count wraps.
SPECIFICATION SafeSpec
CONSTANTS
  Last = 2
  CountMod = 2
  IdMod = 3
  MaxTries = 1
  MaxFrame = 4
  Faults = TRUE
  AutoStop = FALSE
INVARIANT PacketInv
INVARIANT NoTornResult
PROPERTY StopSeen
