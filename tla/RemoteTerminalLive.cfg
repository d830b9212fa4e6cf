\* One device, three terminals, two events, and every callback that is due is run.
SPECIFICATION FairSpec
CONSTANTS
  Device = {d1}
  Session = {s1, s2, s3}
  Socket = {k1, k2}
  Request = {1, 2, 3, 4, 5, 6}
  None = None
  ReplayLimit = 1
  BufferLimit = 0
  MaxOutput = 1
  PendingLimit = 2
  Events = {"connect", "disconnect", "new", "close", "relaunch", "exit", "loss", "deadline", "break", "restart"}
  MaxEvents = 2
\* The bounded events run out, and with them what the program can do.
CHECK_DEADLOCK FALSE
 
PROPERTIES Delivered Settles 
