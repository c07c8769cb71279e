SPECIFICATION Spec
CONSTANTS
  Threads = {t1, t2}
  Ids = {a, b}
  FirstFiles <- SomeProtected
  MaxRev = 3
  MaxCrashes = 1
  Absent = Absent
  Invalid = Invalid
  Blank = Blank
SYMMETRY ThreadsAndIds
INVARIANTS
  TypeOK
  PasswordsStay
  OnlyDeletesRemove
  SerialEditsExact
