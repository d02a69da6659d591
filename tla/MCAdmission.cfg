SPECIFICATION FairSpec
CONSTANTS
  c1 = c1
  c2 = c2
  k1 = k1
  NoCall = NoCall
  NoCloser = NoCloser
  Calls <- MCCalls
  Closers <- MCClosers
  MaximumSlots = 2
INVARIANTS
  NoEffectIsHonest
PROPERTIES
  SlotsReclaimed
  CloseEnds
CHECK_DEADLOCK FALSE
