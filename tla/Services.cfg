SPECIFICATION Spec
CONSTANTS
  Conns = {c1}
  Updaters = {g1, g2}
  SendBuffer = 1
  MaxChanges = 3
  Viewers = {v1, v2}
  LogRingSize = 2
  LogBuffer = 1
  MaxLines = 3
  fa = fa
  fb = fb
  a1 = a1
  b1 = b1
  ua = ua
  ub = ub
  Pictures <- PicturesDef
  Names <- NamesDef
  NameOf <- NameOfDef
  ThumbURLs <- ThumbURLsDef
  Requests = {r1, r2}
  CacheSize = 1
  NoThumb = NoThumb
  NoURL = NoURL
  NoName = NoName
  Savers = {s1, s2}
  Intervals = {"10s"}
  Levels <- LevelsDef
  Secrets = {"secret1"}
  NoValue = "none"
  MaxNamed = 1
  Addresses = {h1, h2, h3}
  Candidates = {h1}
  Workers = 2
  Layouts <- OrdinaryCards
  MaxDepth = 2
  MaxBreaks = 1
INVARIANTS
  ServicesTypeOK
  NoSendOnClosed PageIsNewest
  ViewerSeesAll
  CacheBounded ThumbIsOfName
  SettingsSurviveRestart
  LanTypeOK NothingLost
  ListingIsFaithful
PROPERTIES
  GoneIsCleaned
  GoneIsUnsubscribed
  StoredValuesKept
  ScanReturns
  EveryPictureListed
CHECK_DEADLOCK FALSE
