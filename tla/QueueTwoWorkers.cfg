CONSTANTS
  A = A
  B = B
  u1 = u1
  u2 = u2
  Filenames = {A}
  URLs = {u1, u2}
  Workers = {w1, w2}
  Handlers = {h1}
  MaxRetries = 1
  PushChanCapacity = 1
  DeleteAfterUpload = TRUE
  AtomicBackend = TRUE
  Handles <- OneHandleEach
  OnCard = {}
  Renumbers = FALSE
  Requests = {"clear", "queue", "queue-all"}
  CanStop = {"crash"}
  NoRow = NoRow
  NoImage = NoImage
  NoFile = NoFile
  Partial = Partial
SPECIFICATION Spec
SYMMETRY WorkerSymmetry
INVARIANTS TypeOK TokensConserved UploadingIsOwned DeletedIsStored
PROPERTIES ImplementsDelivery
