CONSTANTS
  t1 = t1
  t2 = t2
  bad = bad
  None = None
  Workers = {1, 2}
  Targets = {t1, t2, bad}
  Malformed = {bad}
  Selection <- MCAnyStage
  Outcomes = {"Points", "Empty"}
  InitQueue <- MCMixedQueue
  CkptPath <- MCOnePath
  Edits <- MCComment
  Deletes = FALSE
  MaxBatch = 3
  MaxFault = 1
  MaxEdit = 1
SPECIFICATION LiveSpec
PROPERTIES
  RefinesLedger
  ReceiptResolved
  RowsWorkedOff
