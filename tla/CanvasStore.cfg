SPECIFICATION FairSpec
CONSTANTS
  a = a
  b = b
  v = v
  w = w
  Canvas = {c1}
  Mutation = {m1, m2}
  Element = {a}
  Value = {v, w}
  None = None
  Requests <- MCRequests
  Handler = {h1, h2}
  NoHandler = NoHandler
  Untouched = Untouched
INVARIANTS
  TypeOK
  RevisionHasOneMutation
  ContentIsReplay
  AcknowledgedIsDurable
  SnapshotIsNotOlder
  NoOrphans
  LocksProtect
PROPERTIES
  RevisionMonotonic
  ImplementsLedger
  EveryRequestAnswered
