SPECIFICATION Spec
CONSTANTS
  NCPU = 3
  RootCpus = {0}
  ZoneCfg <- Overlapping
  MaxZones = 2
  MaxEvents = 2
  Env = {"cpu_on", "mmio", "fault", "system_off"}
CHECK_DEADLOCK FALSE
INVARIANTS ShutdownNeverStranded OneOwner NoCpuLeak
