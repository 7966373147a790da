SPECIFICATION Spec
CONSTANTS
  Ids = {1, 2, 3, 4, 5}
  Own = {1, 2, 4, 5}
  Times = {1, 2}
  PageSizes = {1, 2}
  None = None
INVARIANTS
  NothingIsSkipped
  HistoryInv
PROPERTY PagesDescend
