SPECIFICATION Spec
CONSTANTS
  NoTarget = NoTarget
  NoCall = NoCall
  Calls = {c1, c2}
  Targets = {t1, w1, f1}
  Pages = {t1, f1}
  Foreign = {f1}
SYMMETRY Symmetric
INVARIANTS
  AttachedIsLive
  RejectedForCause
CHECK_DEADLOCK FALSE
