SPECIFICATION ScenarioSpec
CONSTANTS
  None = None
  Requests = {r1, r2}
  Clusters = {c1, c2}
  Apps = {a1, a2, a3}
  Groups = {g1, g2}
  Balancers = {lb1, lb2}
  Nodes = {n1, n2}
  MaxApplications = 1
  MaxItems = 1
  MaxVersions = 2
  MaxMade = 7
  Buckets = {b1}
  Sites = {s1}
  Permissions = {p1}
  MaxKeys = 1
  MaxIssued = 2
  MaxContracts = 3
  Users = {u1}
  Devices = {d1, d2}
  SecurityKeys = {k1}
  Principals = {sp1}
  PrincipalKeys = {pk1}
  Projects = {pr1}
  Folders = {f1}
  Others = {o1}
  Branches = {x1, x2, x3}
  MaxTurns = 1
  Books <- MCBooks
  MaxRounds = 2
  Last <- MCLast
  Month <- MCMonth
  Day <- MCDay
  Weekday <- MCWeekday
  Hour <- MCHour
  Minute <- MCMinute
  NextMonth <- MCNextMonth
  NextDay <- MCNextDay
  NextHour <- MCNextHour
  Fields <- MCFields
  Windows <- MCWindows
  Starts <- MCStarts
  FiveYears = 20
  MaxFiresPerTick = 3
  Longest <- MCLongest
  MaxParseDepth = 3
  States = {st1, st2, st3}
  SessionIDs = {si1, si2, si3}
  LoginTTL = 1
  SessionTTLs = {0, 2}
  Threshold = 2
  MaxNow = 4
  LogStorages = {l1}
  MetricsStorages = {m1}
  TraceStorages = {t1}
  StorageKeys = {sk1}
  AlertRules = {ar1}
  LogMeasureRules = {lm1}
  Targets = {tg1}
  Routings = {rt1, rt2}
  LogRoutings = {lr1}
  MetricsRoutings = {mr1}
  PeerNames = {pn1, pn2}
  MaxIDs = 4
  RuleIDs = {er1}
  ActionLimit = 5
  PageSize = 2
  MaxActions = 5
  RoutingIDs = {q1, q2}
  MaxEditions = 2
  QueueNames = {qn1}
  TicksPerSecond = 2
  Defaults <- MCDefaults
  VTSeconds = {1}
  ExpSeconds = {1}
  MaxTime = 3
  MaxMsgs = 1
  MaxQueues = 2
INVARIANTS
  TypeOK RecordsAgree DataPlanesFollow ListsInOrder ApplicationsBounded
  OutcomesTrue ReadAsMeant LoginsUsedOnce
PROPERTIES
  NothingUndone RunbooksEnd
CHECK_DEADLOCK FALSE
