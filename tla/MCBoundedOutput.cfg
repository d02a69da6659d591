SPECIFICATION FairSpec
CONSTANTS
  Classes <- MCClasses
  Report = "Report"
  Sizes <- MCSizes
  MaximumFrames <- MCFrames
  MaximumBytes <- MCBytes
  MaximumFrame <- MCFrame
  SessionReportCredit = 2
  SessionByteCredit = 3
  PipeFrames = 2
  AcceptedLimit = 5
  NoFrame = NoFrame
INVARIANTS
  OutputKept
PROPERTIES
  StopReturns
CHECK_DEADLOCK FALSE
