CONSTANTS
  None = None
  InitQueue <- MCQueue
  Variants <- MCVariants
  Invalid <- MCInvalid
  Hits <- MCHits
  InitSaved = 2
  MaxSaved = 3
  Paths = {p1, p2}
  InitPath = p1
  MaxFault = 1
  MaxEdit = 1
SPECIFICATION LiveSpec
INVARIANTS
  TypeOK
  CheckpointLoadable
  CountedIsDurable
  ReportedOnce
  RecordedOnce
PROPERTIES
  ProgressKept
  RemovedIsReported
  RowsConsumed
