\* An application that uses the detection thresholds; nothing fails.
SPECIFICATION SafeSpec
CONSTANTS
  MaxFaults = 0
  Tuned = {"enable", "resolution"}
INVARIANT EnableTells
