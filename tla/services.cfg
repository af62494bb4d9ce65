\* Each part on an instance of its own; see the table of bounds in README.md.
SPECIFICATION ServicesSpec
CONSTANTS
  q1 = q1  q2 = q2  r1 = r1  r2 = r2  r3 = r3  a1 = a1  a2 = a2  e1 = e1  e2 = e2
  g1 = g1  g2 = g2  y1 = y1  s1 = s1  s2 = s2  u1 = u1  d1 = d1  st1 = st1
  b1 = b1  b2 = b2  c1 = c1  c2 = c2  t1 = t1  t2 = t2
  w1 = w1  w2 = w2  w3 = w3  m1 = m1  m2 = m2  m3 = m3  m4 = m4
  Requests = {q1, q2}
  Limits = {1}
  FreeLimit = 2
  NoLimit = NoLimit
  NoPlan = NoPlan
  MaxCases = 4
  Runs = {r1, r2, r3}
  Legacy = Legacy
  VersionNumbers = {1, 2, 3, 4}
  AccountIds = {a1, a2}
  Emails = {e1, e2}
  SeedEmail = e1
  Google = {g1, g2}
  Yandex = {y1}
  Nobody = Nobody
  Saves = {s1, s2}
  User = u1
  AdminIds = {d1}
  Namesakes = {d1}
  States = {st1}
  Tabs = {b1, b2}
  Sockets = {c1, c2}
  MaxEvent = 2
  Threads = {t1, t2}
  TTL = 2
  MaxTime = 4
  MaxObject = 2
  Workers = {w1, w2, w3}
  Copies = {m1, m2, m3, m4}
  Preloaded = Preloaded
  NoCopy = NoCopy
INVARIANTS QuotaOvershootBounded VersionServesItself SessionIsOnePrincipal NothingMissed StaleAtMostTTL MemoryFollowsWork
PROPERTIES KeepsAccount FieldsIndependent
CHECK_DEADLOCK FALSE
