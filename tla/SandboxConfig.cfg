SPECIFICATION Spec
CONSTANTS
  Kernel <- TwoKernels
  Release <- Releases
  Units <- KernelUnits
  DirOf <- UnitDirs
  Dir <- TwoDirs
  SchedDir = "sched"
  BootStub <- Stubs
  ModFile <- TwoFiles
  Configs <- DocConfigs
  Major <- SeriesLength
  MaxRuns = 1
CHECK_DEADLOCK FALSE
INVARIANT ConfigLongest
