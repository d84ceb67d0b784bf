SPECIFICATION SideSpec
CONSTANTS
  Instance = {i1, i2, i3}
  NoOwner = NoOwner
  FormerOwner = FormerOwner
  Ttl = 2
  MaxRun = 2
  MaxCrashes = 2
  NoOne = NoOne
  Operator = {alice, bob}
  CallerThread = {t1, t2}
  MaxRequests = 3
  MaxCallerDeaths = 1
  MaxTimed = 2
  Worker = {w1}
  QueueCapacity = 1
  RegisterCapacity = 1
  MaxCalls = 2
  ScanLimit = 2
  MaxPoison = 1
  MaxDeaths = 1
  MayBeEarly = FALSE
INVARIANTS SideTypeOK OnlyOneRuns TwoPeople CompletedIsTruthful
PROPERTIES ClosesOnlyOverdue SideConcludes
CHECK_DEADLOCK FALSE
