SPECIFICATION FairSpec
CONSTANTS
  CPU <- ThreeCPUs
  Task <- OneTask
  NView = 0
  PoolSlack = 1
INVARIANT
  Unanimous
PROPERTIES
  RedirectQuiescent
  UpdateTerminates
  ImplementsLiveUpdate
