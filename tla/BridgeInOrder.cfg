SPECIFICATION FairSpec
CONSTANTS
  CPU = {c1, c2}
  Irq = {i1}
  MAX_REQ = 2
  MAX_DEVS = 4
  Access = {"cfg", "notify"}
  MaxAccess = 2
  MaxShm = 0
  Relaxed = {}
CHECK_DEADLOCK FALSE
INVARIANT OwnAnswer
PROPERTIES AccessReturns VirtioIrqInjected
