SPECIFICATION Spec
CONSTANTS
  Threads = {t1, t2}
  Keys = {k}
  TTL = 2
  MaxLoad = 1
  MaxClock = 3
INVARIANTS
  TypeOK
  AnswerFresh
PROPERTY
  KeepsPromise
