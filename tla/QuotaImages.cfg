SPECIFICATION QuotaSpec
CONSTANTS
  QLane = {q1, q2}
  Limit <- Limits
  CostGuard = 1
  TurnCost = 1
  Batch = 2
  MaxDay = 2
  MaxRequests = 3
  MaxGiveUps = 0
INVARIANT ImagesAreMetered
CHECK_DEADLOCK FALSE
