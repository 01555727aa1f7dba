CONSTANTS
  A = A
  B = B
  u1 = u1
  u2 = u2
  Filenames = {A}
  URLs = {u1, u2}
  Workers = {w1}
  Handlers = {h1}
  MaxRetries = 1
  PushChanCapacity = 1
  DeleteAfterUpload = TRUE
  AtomicBackend = TRUE
  Handles <- OneHandleEach
  OnCard = {}
  Renumbers = FALSE
  Requests = {"pause", "clear", "queue", "retry-failed"}
  CanStop = {"crash"}
  NoRow = NoRow
  NoImage = NoImage
  NoFile = NoFile
  Partial = Partial
SPECIFICATION FairSpec
PROPERTIES QueuedSettles AutoUploadCompletes
