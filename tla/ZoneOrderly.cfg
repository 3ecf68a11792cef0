SPECIFICATION FairSpec
CONSTANTS
  NCPU = 3
  RootCpus = {0}
  ZoneCfg <- OneSmpZone
  MaxZones = 3
  MaxEvents = 2
  Env = {"orderly", "cpu_on", "mmio", "virtio", "shm"}
CHECK_DEADLOCK FALSE
INVARIANTS GuestInLiveZone NoPanic
PROPERTIES StartCompletes ShutdownCompletes
