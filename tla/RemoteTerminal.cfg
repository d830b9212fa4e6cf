\* Two devices, one terminal after another: three events among connections
\* that are lost, "new session" and a launch of the app, which also opens the
\* first connection.
SPECIFICATION Spec
CONSTANTS
  Device = {d1, d2}
  Session = {s1, s2}
  Socket = {k1, k2}
  Request = {1, 2, 3, 4, 5, 6}
  None = None
  ReplayLimit = 1
  BufferLimit = 1
  MaxOutput = 2
  PendingLimit = 2
  Events = {"new", "relaunch", "loss"}
  MaxEvents = 3
SYMMETRY Symmetry
\* The bounded events run out, and with them what the program can do.
CHECK_DEADLOCK FALSE
INVARIANTS
  TypeOK OneWriter OneTerminal SinkIsOwners TimerMeansDetached
  ScreenIsPrefix AcknowledgedIsHandedOver
PROPERTY ImplementsStream
