SPECIFICATION FairSpec
CONSTANT LineLimit = 5
INVARIANTS
  UnwoundInOrder
  OwnWork
  SuccessIsHonest
  WholeOrNothing
PROPERTY Terminates
CHECK_DEADLOCK FALSE
