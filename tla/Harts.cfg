SPECIFICATION MCSpec
CONSTANTS
  CPU = {c1, c2}
  Sent <- MCSent
  Reached = {c1, c2}
  Affinities <- MCAffinities
  MaxEvents = 2
  NHart = 2
  HwIrq = {1}
  SwIrq = {2}
  MaxPrio = 1
  ACpu = {0, 3}
  Source = {5, 6}
  FirstCpu <- MCFirstCpu
  BYTE = 2
  HartEvents = 1
  Size = {1, 2, 4, 8}
  Raw = {10, 5}
CHECK_DEADLOCK FALSE
SYMMETRY Symmetry
INVARIANTS StrandedOnlyByRace ClaimsKept SoftIrqSignalled RootSourcesKept TimerExact LoadExtends
INVARIANTS GuestStateKept
