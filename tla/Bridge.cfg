SPECIFICATION Spec
CONSTANTS
  CPU = {c1, c2}
  Irq = {i1, i2}
  MAX_REQ = 2
  MAX_DEVS = 2
  Access = {"cfg", "notify"}
  MaxAccess = 2
  MaxShm = 1
  Relaxed = {"store_load", "load_load"}
CHECK_DEADLOCK FALSE
SYMMETRY Symmetry
INVARIANT RequestHeld
