\* One terminal of four chunks; the user connects and asks for a new session.
SPECIFICATION Spec
CONSTANTS
  Device = {d1}
  Session = {s1}
  Socket = {k1, k2}
  Request = {1, 2, 3, 4, 5, 6}
  None = None
  ReplayLimit = 1
  BufferLimit = 4
  MaxOutput = 4
  PendingLimit = 2
  Events = {"connect", "new", "loss"}
  MaxEvents = 3
SYMMETRY Symmetry
\* The bounded events run out, and with them what the program can do.
CHECK_DEADLOCK FALSE
INVARIANT ConnectedScreenIsWhole
