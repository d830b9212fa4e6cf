SPECIFICATION FairSpec
CONSTANTS
  a = a
  b = b
  v = v
  w = w
  canvas = c1
  Canvas = {c1}
  Element = {a}
  Value = {v, w}
  None = None
  Client = {u}
  Editors = {u}
  Faults = {"retryable", "permanent"}
  Inline = {TRUE}
  MaxEdits = 3
  MaxFaults = 2
  MaxDrops = 0
  MaxReloads = 0
  MaxSaves = 1
  MaxIds = 9
  EventLimit = 2
  Stored <- MCEmpty
  Mutation <- MCMutation
  Requests <- MCRequests
INVARIANTS
  ShownIsStored
  UnsavedIsPursued
  MutationNamesOnePayload
PROPERTIES
  
  EventuallySaved
CHECK_DEADLOCK FALSE
