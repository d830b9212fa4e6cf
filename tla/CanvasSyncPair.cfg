SPECIFICATION Spec
CONSTANTS
  a = a
  b = b
  v = v
  w = w
  canvas = c1
  Canvas = {c1}
  Element = {a}
  Value = {v, w}
  None = None
  Client = {u, x}
  Editors = {u, x}
  Faults = {"retryable"}
  Inline = {TRUE}
  MaxEdits = 2
  MaxFaults = 0
  MaxDrops = 0
  MaxReloads = 1
  MaxSaves = 0
  MaxIds = 4
  EventLimit = 1
  Stored <- MCOneElement
  Mutation <- MCMutation
  Requests <- MCRequests
INVARIANTS
  ShownUnchangedWasStored
CHECK_DEADLOCK FALSE
