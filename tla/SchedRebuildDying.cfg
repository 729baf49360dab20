SPECIFICATION Spec
CONSTANTS
  Task <- ThreeTasks
  Stop = Stop
  Junk = Junk
  Head = Head
  MaxRunning <- NRunning
CHECK_DEADLOCK FALSE
PROPERTY DyingHandedOver
