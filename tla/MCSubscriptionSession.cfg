SPECIFICATION Spec
CONSTANTS
  a = a
  b = b
  NoSub = NoSub
  Subs <- MCSubs
  MaximumAttempts = 2
  GenerationLimit = 2
  ReportLimit = 1
  ChannelLimit = 2
SYMMETRY Symmetry
INVARIANTS
  ProtocolAgrees
  EndsOnce
PROPERTY CancellationWatched
CHECK_DEADLOCK FALSE
