SPECIFICATION Spec
CONSTANTS
  n1 = n1
  n2 = n2
  Nodes = {n1, n2}
  MaxQueue = 2
  MaxPrompts = 2
  MaxEvents = 8
SYMMETRY Symmetry
INVARIANT Safe
INVARIANT ShownIsRunning
CHECK_DEADLOCK FALSE
