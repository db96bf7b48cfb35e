CONSTANTS
  None = None
  Sources = {1}
  Todo <- MCThree
  Receivers = {1, 2}
  Routing = "auto"
  Receiver <- MCReceiver
  FinishedOf <- MCShared
  InitQueue <- MCSections
  MaxFault = 2
SPECIFICATION LiveSpec
INVARIANTS
  TypeOK
  RunOnce
PROPERTIES
  ImplementsHandoff
  AllRun
