SPECIFICATION Services
CONSTANTS
  Friends = {f1, f2}
  NoCode = NoCode
  MaxHosting = 2
  MaxFaults = 1
  Tabs = {t1, t2}
  Calls = {c1, c2}
  MaxExpiries = 2
  MaxTrouble = 1
  NoTab = NoTab
  NoToken = NoToken
  Nodes = {n1, n2}
  Sockets = {s1, s2}
  NoNode = NoNode
  NoUser = NoUser
  Season <- Rivals
  SoloSeason <- Beginners
  Intents = {i1, i2}
  MAX_INTENTS_PER_SECOND = 2
  VIOLATION_THRESHOLD = 2
  Windows <- TwoTicks
  Requests = {q1, q2}
  AUTH_CACHE_TTL = 2
  MaxLatency = 1
  Lifetime = 2
  MaxTime = 5
INVARIANTS
  InviteOK
  SessionOK
  PresenceOK
  RecordsOK
  GuardOK
  AccountOK
PROPERTIES HostTold SplashEnds CountersForget
CHECK_DEADLOCK FALSE
