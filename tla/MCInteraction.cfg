SPECIFICATION Spec
CONSTANTS
  ElementLimit = 64
  ChildLimit = 63
  AccessLimit = 4
  FrameNodes = 256
  ResultBytes = 6144
  ReportLimit = 64
  PathLimit = 4
  EntryNodes = 10
  SingleAnswers = 2
  Requests <- MCRequests
  Answers <- MCAnswers
INVARIANTS
  AdmittedIsServed
  WrittenAsAsked
  BackendIsBelieved
  RefusedForCause
CHECK_DEADLOCK FALSE
