\* Two callers and two sensors; the callers of one sensor take turns.
SPECIFICATION Spec
CONSTANTS
  u = u
  v = v
  Clients = {c1, c2}
  Devices = {d1, d2}
  Regs = {0, 1}
  Values = {u, v}
  MaxChunks = 2
  Requests <- MCRequests
  Serialised = TRUE
INVARIANT IInv
INVARIANT ReadDelivers
INVARIANT WriteArrives
PROPERTY ImplementsChunkAccess
