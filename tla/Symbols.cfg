SPECIFICATION Spec
CONSTANTS
  Name <- Names
  KernPath = "kern_path"
  UnitSeq <- Units
  ArchUnit <- Arch
  FileRank <- Ranks
  ModSrc <- Mod
  SdcrSrc <- Sdcr
  Header <- SchedH
  Homonym <- SameBasename
  Uses <- AllUses
  Kernel <- Kernels
CHECK_DEADLOCK FALSE
INVARIANTS CallsAttributed CallbacksFound PresenceHonest ExportsFound ResolvedToMeant TaintedHonest
