SPECIFICATION FlowSpec
CONSTANTS
  s1 = s1
  s2 = s2
  s3 = s3
  NoStream = NoStream
  Streams <- MCStreams
  QueueLimits <- MCQueueLimits
  Bodies <- MCBodies
  Digits <- MCDigits
  SessionReportCredit = 2
  SessionByteCredit = 7
  StreamReportCredit = 2
  MaximumQueuedReports = 1
  MaximumQueuedBytes = 9
  MaximumLive = 2
  MaximumStreams = 5
  MaximumSequence = 5
  MaximumBytes = 20
  OutputFrames = 3
  LedgerReports = 2
  LedgerBytes = 7
  LedgerStreams = 3
  MaximumSubscriptions = 2
SYMMETRY Symmetry
INVARIANTS
  EndsAgree
  CreditConserved
  CreditComesBack
CHECK_DEADLOCK FALSE
