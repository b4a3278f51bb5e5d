\* A wake-up from deep sleep that fails, and is tried again.
SPECIFICATION SafeSpec
CONSTANTS
  MaxTries = 2
  Faults = TRUE
INVARIANT RetryRestarts
