CONSTANTS
  A = A
  B = B
  u1 = u1
  u2 = u2
  Filenames = {A, B}
  URLs = {u1, u2}
  Workers = {w1}
  Handlers = {}
  MaxRetries = 0
  PushChanCapacity = 1
  DeleteAfterUpload = TRUE
  AtomicBackend = TRUE
  Handles <- AnyHandle
  OnCard = {A, B}
  Renumbers = TRUE
  Requests = {}
  CanStop = {}
  NoRow = NoRow
  NoImage = NoImage
  NoFile = NoFile
  Partial = Partial
SPECIFICATION Spec
INVARIANTS TokensConserved URLsUnique
