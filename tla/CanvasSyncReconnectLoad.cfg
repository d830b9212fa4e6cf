SPECIFICATION Spec
CONSTANTS
  a = a
  b = b
  v = v
  w = w
  canvas = c1
  Canvas = {c1}
  Element = {a}
  Value = {v, w}
  None = None
  Client = {u}
  Editors = {u}
  Faults = {"retryable"}
  Inline = {TRUE}
  MaxEdits = 1
  MaxFaults = 0
  MaxDrops = 1
  MaxReloads = 0
  MaxSaves = 0
  MaxIds = 4
  EventLimit = 2
  Stored <- MCEmpty
  Mutation <- MCMutation
  Requests <- MCRequests
PROPERTIES
  LoadKeepsDrawing
CHECK_DEADLOCK FALSE
