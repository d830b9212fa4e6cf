\* Two tabs edit one note; nothing fails, nobody leaves.
SPECIFICATION Spec
CONSTANTS
  None = None
  Absent = Absent
  a = a
  b = b
  o = o
  x = x
  y = y
  u1 = u1
  u2 = u2
  u3 = u3
  Client <- MCClient
  Writer <- MCClient
  Content <- MCContent
  Call <- MCCall
  Initial = o
  MaxRevision = 3
  Kinds = {"note-saved"}
  Departures = {"link", "reload"}
  MaxRetries = 1
  MaxTroubles = 0
SYMMETRY NoteSymmetry
INVARIANTS SavedMeansStored
 
\* Revisions run out, and with them what users can do.
CHECK_DEADLOCK FALSE
