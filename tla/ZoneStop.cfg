SPECIFICATION Spec
CONSTANTS
  NCPU = 3
  RootCpus = {0}
  ZoneCfg <- OneSmpZone
  MaxZones = 1
  MaxEvents = 2
  Env = {"patient", "mmio", "virtio"}
CHECK_DEADLOCK FALSE
INVARIANT AllCpusDown
