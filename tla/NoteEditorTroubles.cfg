\* A tab and the list page; a request fails, a page is left or the note is removed.
SPECIFICATION Spec
CONSTANTS
  None = None
  Absent = Absent
  a = a
  b = b
  o = o
  x = x
  y = y
  u1 = u1
  u2 = u2
  u3 = u3
  Client <- MCClient
  Writer <- MCWriter
  Content <- MCContents
  Call <- MCCall
  Initial = o
  MaxRevision = 4
  Kinds = {"note-saved"}
  Departures = {"link", "reload"}
  MaxRetries = 1
  MaxTroubles = 1
CONSTRAINT FewerRevisions
SYMMETRY ListSymmetry
INVARIANTS TypeOK SavedNoteIsReadable 
\* Revisions run out, and with them what users can do.
CHECK_DEADLOCK FALSE
