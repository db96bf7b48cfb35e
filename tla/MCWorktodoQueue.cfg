CONSTANTS
  None = None
  Workers = {1, 2}
  Rows <- MCRows
  Selections <- MCSelections
  Texts <- MCTexts
  MaxRows = 3
SPECIFICATION Spec
INVARIANTS
  SelectedIsTaken
PROPERTIES
  OwnSection
  OrderKept
CHECK_DEADLOCK FALSE
