SPECIFICATION FairSpec
CONSTANTS
  a1 = a1
  a2 = a2
  b1 = b1
  b2 = b2
  c1 = c1
  ann = ann
  ben = ben
  cho = cho
  Request = {a1, a2, b1, b2, c1}
  Uid = {ann, ben, cho}
  UidOf <- UserOf
  MaxConcurrent = 2
  MaxPerUID = 1
  QueueSize = 2
INVARIANTS SlotsAccounted CapsHold NoIdleSlot
PROPERTIES InOrder LetIn
CHECK_DEADLOCK FALSE
