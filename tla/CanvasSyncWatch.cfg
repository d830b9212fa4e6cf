SPECIFICATION Spec
CONSTANTS
  a = a
  b = b
  v = v
  w = w
  canvas = c1
  Canvas = {c1}
  Element = {a}
  Value = {v}
  None = None
  Client = {u, x}
  Editors = {u}
  Faults = {"retryable"}
  Inline = {TRUE, FALSE}
  MaxEdits = 2
  MaxFaults = 1
  MaxDrops = 1
  MaxReloads = 0
  MaxSaves = 0
  MaxIds = 3
  EventLimit = 1
  Stored <- MCEmpty
  Mutation <- MCMutation
  Requests <- MCRequests
INVARIANTS
  TypeOK
  UnsavedIsPursued
  
CHECK_DEADLOCK FALSE
