SPECIFICATION Spec
CONSTANTS
  Threads = {t1, t2}
  Sources = {s1, s2}
  Kinds = {mysql, postgres}
  Conns = {c1, c2}
  PoolSize = 1
  None = None
  TTL = 1
  MaxDelay = 0
  MaxClock = 2
  MaxVersions = 2
SYMMETRY Interchangeable
INVARIANTS
  TypeOK
  OwnDatabase
  StaleOnlyByPool
