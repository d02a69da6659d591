SPECIFICATION Spec
CONSTANTS
  o1 = o1
  o2 = o2
  NoOp = NoOp
  Ops <- MCOps
  MaximumPending = 1
SYMMETRY Symmetry
INVARIANTS
  NoEffectAfterTimeout
CHECK_DEADLOCK FALSE
