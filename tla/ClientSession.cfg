CONSTANTS
  Tasks = {t1, t2}
  Sources = {s1}
  Filters = {f1}
  LastPage = 2
  MaxPage = 2
  MaxEdits = 1
  MaxStarts = 2
  AuthEnabled = TRUE
  None = None
SPECIFICATION Spec
INVARIANTS
  TypeOK
  CachesFollowWrites
  OneCardEach
  LockedIsHidden
SYMMETRY TaskAndFilterSymmetry
CHECK_DEADLOCK FALSE
