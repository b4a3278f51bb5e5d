\* In a calibration two steps fail, in calls that follow one another, and the sensor
\* starts in 4x4; the other bounds are those of the modules.
SPECIFICATION PSpec
CONSTANTS
  MaxFaults = 2
  Tuned = {"resolution", "order"}
  Word = 65536
  Samples = {0, 3, 10}
  ChunkSize = 4
  Spidev = 5
  Registers = 9
  Targets = {1, 2, 3, 4}
  Packets = 2
  Limits <- ThresholdLimits
  Tries = 1
  Distances = {100, 400, 1500, 4000}
  Sensors = {s1, s2, s3}
  Addresses = {a0, a1, a2}
  Default = a0
  I2cDevices = {i}
  SpiDevices = {s}
  WithIrq = {i, s}
INVARIANT GridReduced
INVARIANT ChunksWhole
INVARIANT PacketFits
INVARIANT PacketMapped
INVARIANT ThresholdsTold
INVARIANT MotionAsSet
INVARIANT AnswersAlone
INVARIANT UsedIsThere
INVARIANT SavedKept
INVARIANT GridInUse
INVARIANT CaldataTells
INVARIANT HostWhole
