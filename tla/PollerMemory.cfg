CONSTANTS
  A = A
  B = B
  C = C
  u1 = u1
  u2 = u2
  u3 = u3
  Files = {A, B, C}
  URLs = {u1, u2, u3}
  MaxSeenImages = 3
  Handles <- OneHandleEach
  Deletes = {"backlog", "unconfirmed"}
  ListsTwice = TRUE
  NoFile = NoFile
SPECIFICATION Spec
INVARIANTS TypeOK RingCoversCaches
PROPERTIES HandedOnce
