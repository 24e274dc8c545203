SPECIFICATION Spec
CONSTANTS
  Target     = {t1, t2}
  Jobs       = 2
  MaxVersion = 3
  Key       <- MCKey
  MaxEvents  = 3
  PairEvents = 2
  Queries    = 4
  Nuget      = {2, 3, 4}
  BatchSize  = 2
  Retries    = 2
  Segments   = 3
  PipeRoom   = 2
  MaxInput   = 4
  LastDay    = 2
  MaxRecorded = 2
  Limits     = {1}
INVARIANTS
  AnalysisTypeOK
  EachRepoItsOwn
  DemotedOnEvidence
  NotInRangeIsTrue
  FixClears
  FailedIsCountedNone
  ReturnLeavesNothing
PROPERTY
  CallEnds
  OverdueUntilSettled
CHECK_DEADLOCK FALSE
