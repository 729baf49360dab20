SPECIFICATION Spec
CONSTANTS
  CPU <- TwoCPUs
  Task <- TwoTasks
  NView = 1
  PoolSlack = 0
INVARIANTS
  TypeOK
  NoStaleFrames
  RunQueuesRestored
  NoStaleCallback
  EveryTaskChecked
  AllocWithinPool
  ReferenceHonest
  FailedUpdateHarmless
