SPECIFICATION Spec
CONSTANTS
  CPU = {c1}
  Irq = {i1, i2, i3, i4}
  MAX_REQ = 4
  MAX_DEVS = 4
  Access = {"notify"}
  MaxAccess = 4
  MaxShm = 0
  Relaxed = {}
CHECK_DEADLOCK FALSE
INVARIANT RoomForEveryDevice
