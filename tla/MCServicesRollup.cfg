\* The rollups alone, with a row that is not whole.
CONSTANTS
  Parts = {"rollups"}
  Chunks = 3
  Attempts = 3
  TransferFaults = 3
  Lines = 3
  BufferMax = 2
  LinesMax = 2
  StreamFaults = 2
  Viewer = {v1, v2}
  Visits = 3
  Connections = 2
  Loops = 2
  Asker = {a1, a2}
  Window = {w1}
  CacheTTL = 2
  LastTime = 5
  Minute = 6
  Minutes = 4
  CronItem <- MCItems
  FieldItems = 1
  Limits <- MCLimits
  Feed <- MCFeeds
  FeedItem = {i1, i2}
  Changes = 1
  FeedFaults = 1
  Width = 3
  Back = 6
  Cycle = 2
  Retention = 6
  LastSecond = 16
  HealRule = {r1, r2}
  HealPause = 2
  Heals = 2
  HealClock = 2
  HealFaults = 1
  Monitor = {e1}
  AlertName <- MCAlertName
  Interval = 1
  SlaWindow = 3
  EndSecond = 7
  EndpointFaults = 1
  Rule = {r1}
  Collector = {c1, c2}
  Cooldown = 2
  AlertClock = 5
  AlertFaults = 1
  Process = {p1, p2}
  Starts = 3
  Sources = 1
  KeepCount = 1
  RetainDays = 0
  PerDay = 1
  LastStamp = 2
  Target = {1, 2, 3, 4}
  MayNeed <- MCNeeds
  Plugin = {g1}
  Reloads = 3
  Token = {k1}
  Request = {q1, q2}
  TokenLife = 2
  SessionFaults = 2
  LoginWindow = 2
  Lockout = 3
  MaxAttempts = 3
  SessionClock = 6
SPECIFICATION ServicesSpec
INVARIANT
  RowIsWhole
CHECK_DEADLOCK FALSE
