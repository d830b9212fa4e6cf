\* Two phones and a PC; two events among a connection lost, a device that
\* connects again, a pause, a click of the operator and the PC's permission.
SPECIFICATION Spec
CONSTANTS
  Phone = {a, b}
  Pc = Pc
  Later = {again}
  Click = {click}
  Monitor = Monitor
  None = None
  Action = {"down", "move", "hold", "tap", "up"}
  MaxCommands = 2
  MaxEvents = 2
SYMMETRY Symmetry
\* Connections, commands and events are bounded.
CHECK_DEADLOCK FALSE
INVARIANTS TypeOK DragHasOneSource OrphanIsPursued GoneHoldsNoLease
