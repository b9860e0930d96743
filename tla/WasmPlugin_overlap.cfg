SPECIFICATION Spec
CONSTANTS
  h1 = h1  h2 = h2
  Handlers = {h1, h2}
  Types = {goal, clock}
  Capacity = 2
  MaxEvents = 6
SYMMETRY Symmetric
INVARIANT GuestIsSerial
CHECK_DEADLOCK FALSE
