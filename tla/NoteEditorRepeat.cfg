\* A tab and the list page; the answer of a save is lost.
SPECIFICATION Spec
CONSTANTS
  None = None
  Absent = Absent
  a = a
  b = b
  o = o
  x = x
  y = y
  u1 = u1
  u2 = u2
  u3 = u3
  Client <- MCClient
  Writer <- MCWriter
  Content <- MCContents
  Call <- MCCall
  Initial = o
  MaxRevision = 3
  Kinds = {"note-saved"}
  Departures = {"link", "reload"}
  MaxRetries = 1
  MaxTroubles = 1
SYMMETRY ListSymmetry
INVARIANT NoteIsReadable
\* Revisions run out, and with them what users can do.
CHECK_DEADLOCK FALSE
