SPECIFICATION Spec
CONSTANTS
  Threads = {t1, t2, t3}
  Keys = {m}
  Reconnecting = {m}
  Conns = {c1, c2, c3}
  PoolSize = 2
  None = None
INVARIANTS
  TypeOK
  PoolBounded
  NotShared
  NoLeak
PROPERTY
  LockIsReleased
  KeepsPromise
