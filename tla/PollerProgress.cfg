CONSTANTS
  A = A
  B = B
  C = C
  u1 = u1
  u2 = u2
  u3 = u3
  Files = {A, B, C}
  URLs = {u1, u2}
  MaxSeenImages = 1
  Handles <- ReusedHandle
  Deletes = {"backlog"}
  ListsTwice = FALSE
  NoFile = NoFile
SPECIFICATION FairSpec
PROPERTIES EveryPictureHandedOver TriggerIsServed ConfigTakesEffect CancelReturns
