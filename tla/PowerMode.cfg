\* Transfers may fail, and the driver is told.
SPECIFICATION Spec
CONSTANTS
  MaxTries = 3
  Faults = TRUE
INVARIANT TypeOK
INVARIANT InitRestores
INVARIANT ModeApplied
INVARIANT AwakeMeansReady
PROPERTY CallsReturn
