SPECIFICATION Spec
CONSTANTS
  Kernel <- TwoKernels
  Release <- Releases
  Units <- KernelUnits
  DirOf <- UnitDirs
  Dir <- TwoDirs
  SchedDir = "sched"
  BootStub <- Stubs
  ModFile <- TwoFiles
  Configs <- AllConfigs
  Major <- SeriesLength
  MaxRuns = 4
CHECK_DEADLOCK FALSE
INVARIANTS MetadataComplete PackageOfOneKernel ConfigClose
PROPERTY RetrySucceeds
