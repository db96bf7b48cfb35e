CONSTANTS
  None = None
  Tasks = {1, 2}
  Keys = {"K"}
  BadKeys = {"K"}
  KeyOf <- MCKeyOf
  Settings <- MCSettings
  MaxFault = 2
SPECIFICATION LiveSpec
CHECK_DEADLOCK FALSE
INVARIANTS
  TypeOK
  SavedFirst
  NeverLost
  SentOnce
PROPERTIES
  HandedOver
