\* One caller; the bus may refuse a write.
SPECIFICATION SafeSpec
CONSTANTS
  u = u
  v = v
  Clients = {c1}
  Devices = {d1}
  Regs = {0, 1}
  Values = {u, v}
  MaxChunks = 2
  Requests <- MCRequests
  Serialised = TRUE
INVARIANT ZeroMeansWritten
