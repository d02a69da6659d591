SPECIFICATION Spec
CONSTANTS
  s1 = s1
  s2 = s2
  NoStream = NoStream
  Streams <- MCStreams
  QueueLimits <- MCQueueLimits
  Bodies <- MCBodies
  Digits <- MCDigits
  SessionReportCredit = 2
  SessionByteCredit = 10
  StreamReportCredit = 2
  MaximumQueuedReports = 2
  MaximumQueuedBytes = 9
  MaximumLive = 2
  MaximumStreams = 4
  MaximumSequence = 4
  MaximumBytes = 14
  OutputFrames = 3
SYMMETRY Symmetry
INVARIANTS
  TypeOK
  Limits
  Window
  Accounting
  BarrierIsLast
  NoIdleCredit
PROPERTIES
  NoOvertaking
  AcknowledgeMonotone
CHECK_DEADLOCK FALSE
