CONSTANTS
  t1 = t1
  t2 = t2
  bad = bad
  None = None
  Workers = {1, 2}
  Targets = {t1}
  Malformed = {}
  Selection <- MCAnyStage
  Outcomes = {"Points"}
  InitQueue <- MCTwoWorkers
  CkptPath <- MCSharedPath
  Edits <- MCNoEdits
  Deletes = FALSE
  MaxBatch = 2
  MaxFault = 0
  MaxEdit = 0
SPECIFICATION Spec
PROPERTIES
  CheckpointLocked
