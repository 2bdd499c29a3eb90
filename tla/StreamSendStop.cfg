CONSTANTS
  InitialMaxData = 1
  MaxSize = 3
  MaxCredit = 3
  MaxFrame = 2
  MaxLosses = 3
SPECIFICATION Spec
PROPERTIES LateFinCloses
