SPECIFICATION MCFairSpec
CONSTANTS
  CPU = {0, 1, 2, 3}
  Primary = 0
  RootCpus = {0, 1}
  BootCpu = 0
  PaRange <- MCPaRange
  NFrame = 6
  PoolBase = 1
  NCpu = 2
  Count = 2
  Align = 2
  ENTRY_COUNT = 2
  NFrames = 5
  Region <- MCRegion
  Formats <- MCFormats
  W = 8
  PAGE = 32
  Layouts <- MCLayouts
  Devices <- MCDevices
  Others = {o1}
  CpuBase <- MCCpuBase
  PciBase <- MCPciBase
  BarValues = {0}
  MaxPhantom = 3
  Shifts = {0, 1, 2}
  Sid = {0, 1}
  SmmuZone = {0, 1}
  Root <- MCRoot
  Stale <- MCStale
  MaxCalls = 3
  ZoneId = {0, 1, 2}
  IvcId = {1, 2}
  Configs <- MCConfigs
  MaxStarts = 3
CHECK_DEADLOCK FALSE
INVARIANTS RootZoneReady FramesAccounted TranslatesRegions ClearNeverPanics BarsMapped CommandIsVirtual
INVARIANTS StreamsKept RegionShared HandlerAnswers
PROPERTIES EveryCpuBoots ImplementsAddressSpace AddDeviceReturns
