SPECIFICATION Spec
CONSTANTS
  Writer = {w1, w2}
  Installer = inst
  MaxAttempts = 3
  Serialized = TRUE
INVARIANTS RemovedOnlyWhenDisabled HotfixKept EnableHonest
