CONSTANTS
  t1 = t1
  t2 = t2
  bad = bad
  None = None
  Workers = {1, 2}
  Targets = {t1, t2, bad}
  Malformed = {bad}
  Selection <- MCAnyStage
  Outcomes = {"Points", "Empty"}
  InitQueue <- MCQueue
  CkptPath <- MCOwnPath
  Edits <- MCNoEdits
  Deletes = TRUE
  MaxBatch = 3
  MaxFault = 2
  MaxEdit = 1
SPECIFICATION Spec
INVARIANTS
  TypeOK
  OneRowPerBatch
  ConsumedIsPublished
  HandoffKept
  NoOrphanBatch
CONSTRAINT MCDisturbed
