SPECIFICATION Spec
CONSTANTS
  Absent = Absent
  One = 1
  QuotaPerUnit = 2
  Shapes <- Rows
  Options <- Tables
  Forms <- Asked
  Like <- Contains
  Hour = 1
  Day = 2
  Week = 4
  LongSpan = 6
  TokenLimit = 1
  Unset = Unset
  Other = Other
  MaxLogs = 3
  k1 = k1
  m1 = m1
  m2 = m2
  g1 = g1
  c1 = c1
  p1 = p1
INVARIANTS
  TypeOK
  EveryLogCounted
  PageWithinTotal
  WalkMissesFew
