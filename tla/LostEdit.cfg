SPECIFICATION Spec
CONSTANTS
  Threads = {t1, t2}
  Ids = {a, b}
  FirstFiles <- SomeProtected
  MaxRev = 2
  MaxCrashes = 0
  Absent = Absent
  Invalid = Invalid
  Blank = Blank
INVARIANT SavedMeansPersisted
