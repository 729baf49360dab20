SPECIFICATION CoverFairSpec
CONSTANTS
  Fn <- FourFns
  File <- TwoFiles
  Program <- SmallPrograms
  RecursionLimit = 3
  Schedule <- ScheduleFn
  MaxDepth = 4
  MaxEntries = 4
CHECK_DEADLOCK FALSE
INVARIANTS
  OutsidersKeptOut InflectMaximal SidecarsComplete ClonesSafe PassingStackIsClean
PROPERTY AnalysisTerminates
