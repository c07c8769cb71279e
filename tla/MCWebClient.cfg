CONSTANTS
  Tasks = {t1, t2}
  Sources = {s1}
  Filters = {f1, f2}
  LastPage = 2
  MaxPage = 2
  MaxEdits = 1
  MaxStarts = 2
  AuthEnabled = FALSE
  None = None
SPECIFICATION Spec
INVARIANTS
  PanelsAgree
  LoadingIsPending
SYMMETRY TaskAndFilterSymmetry
CHECK_DEADLOCK FALSE
