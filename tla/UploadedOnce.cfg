CONSTANTS
  A = A
  B = B
  u1 = u1
  u2 = u2
  Filenames = {A}
  URLs = {u1, u2}
  Workers = {w1}
  Handlers = {}
  MaxRetries = 1
  PushChanCapacity = 1
  DeleteAfterUpload = FALSE
  AtomicBackend = TRUE
  Handles <- OneHandleEach
  OnCard = {A}
  Renumbers = FALSE
  Requests = {}
  CanStop = {}
  NoRow = NoRow
  NoImage = NoImage
  NoFile = NoFile
  Partial = Partial
SPECIFICATION Spec
PROPERTIES UploadedOnce
