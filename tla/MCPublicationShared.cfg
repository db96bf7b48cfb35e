CONSTANTS
  b1 = b1
  b2 = b2
  b3 = b3
  None = None
  Stage2 = Stage2
  Batches = {b1, b2, b3}
  CurvesOf <- MCCurves
  Hits = {1}
  Pointless = {3}
  Found = {1}
  Continued = {2}
  MaxFault = 1
SPECIFICATION Spec
INVARIANTS
  CommitCompletes
