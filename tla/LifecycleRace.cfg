SPECIFICATION Spec
CONSTANTS
  Writer = {w1}
  Installer = inst
  MaxAttempts = 3
  Serialized = FALSE
INVARIANT RemovedOnlyWhenDisabled
