SPECIFICATION Spec
CONSTANTS
  Refreshers = {p, q}
  Tokens = {k1, k2}
  Ips = {i1, i2}
  Ids = {r1, r2}
  NDays = 2
  PerDay = 2
  PerWeek = 2
  Rates = {1, 2}
  HostShift <- HalfDayOff
  p = p
  q = q
  MinSpan = 2
  Unset = Unset
INVARIANT TrendHonoursIp
