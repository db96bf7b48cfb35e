CONSTANTS
  None = None
  InitQueue <- MCOne
  Variants <- MCVariants
  Invalid <- MCInvalid
  Hits <- MCHits
  InitSaved = 2
  MaxSaved = 3
  Paths = {p1, p2}
  InitPath = p1
  MaxFault = 1
  MaxEdit = 0
SPECIFICATION Spec
INVARIANT AllReported
