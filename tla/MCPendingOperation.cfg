SPECIFICATION Spec
CONSTANTS
  o1 = o1
  o2 = o2
  NoOp = NoOp
  Ops <- MCOps
  MaximumPending = 2
SYMMETRY Symmetry
INVARIANTS
  ContextOutlivesCallbacks
  NoOrphan
PROPERTIES
  EffectWhenDecided
CHECK_DEADLOCK FALSE
