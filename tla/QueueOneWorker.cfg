CONSTANTS
  A = A
  B = B
  u1 = u1
  u2 = u2
  Filenames = {A}
  URLs = {u1, u2}
  Workers = {w1}
  Handlers = {h1}
  MaxRetries = 2
  PushChanCapacity = 1
  DeleteAfterUpload = TRUE
  AtomicBackend = FALSE
  Handles <- OneHandleEach
  OnCard = {}
  Renumbers = FALSE
  Requests = {"pause", "queue", "queue-all", "retry-failed", "auto"}
  CanStop = {"crash", "signal"}
  NoRow = NoRow
  NoImage = NoImage
  NoFile = NoFile
  Partial = Partial
SPECIFICATION Spec
INVARIANTS DoneIsStored DeletedIsStored FailedIsExhausted
