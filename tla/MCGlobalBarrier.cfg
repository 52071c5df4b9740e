CONSTANTS
  Procs = {p0, p1, p2}
SPECIFICATION Spec
PROPERTIES AllReturn
CHECK_DEADLOCK FALSE
