SPECIFICATION MCFairSpec
CONSTANTS
  NLR = 2
  HwIrq = {h1, h2}
  SwIrq = {s1, s2}
  MaxPending = 2
  Zones = {0, 1}
  N = 3
  Lpi = {8192, 8193}
  MaxCmds = 3
  CPU = {0, 1}
  Spi = {32, 33}
  Private = {7, 25, 27}
  Reserved = {7, 25}
  ZoneOf <- MCZoneOf
  WordOf <- MCWordOf
  IrqZone <- MCIrqZone
  Sgi = {1, 3}
  HighSgi = {8}
  HwIrq2 = {32}
  VTR = 2
  MaxWait = 2
  Zone2 = {0, 1}
  Owner <- MCOwner
  Byte = {0, 1}
CHECK_DEADLOCK FALSE
INVARIANTS HeldOnce CommandsForwarded FieldsAreOwn TakenIsListed PriorityIsOwn
PROPERTIES WaitingIsInjected CmdqReleased
