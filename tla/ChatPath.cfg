SPECIFICATION PathSpec
CONSTANTS
  QLane = {q1, q2}
  Limit <- Limits
  CostGuard = 1
  TurnCost = 1
  Batch = 2
  MaxDay = 2
  MaxRequests = 3
  MaxGiveUps = 1
  Turn = {t1, t2}
  SlotOptions = {1}
  Threshold = 2
  MaxCalls = 1
  Asker = {a1, a2, a3}
  RecentKeep = 2
  CompressMin = 1
  AtOnce = 2
  MaxCuts = 1
  AgentKeep = 2
  AgentMin = 1
  MaxEntries = 8
INVARIANTS PathTypeOK NothingOverdrawn ChargedOncePerSuccess 
PROPERTY ChatPathEnds
CHECK_DEADLOCK FALSE
