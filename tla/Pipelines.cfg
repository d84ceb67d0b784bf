SPECIFICATION PipelinesSpec
CONSTANTS
  Exec = {e1, e2}
  Sweeper = Sweeper
  Admin = Admin
  NoLease = NoLease
  MaxLeases = 1
  LeaseLimit = 1
  OrphanDryRun = FALSE
  MaxFaults = 1
  PoolWorker = {p1, p2}
  MaxTaskAttempts = 2
  MaxTriggers = 3
  MaxReplicaDeaths = 1
  Task = {t1, t2}
  SlotOptions = {1, 2}
  MaxText = 2
  Req = {r1, r2}
  MaxVer = 2
  ExecCall = {g1, g2, g3}
  NoCall = NoCall
  Submission = {s1, s2}
  MaxLoss = 1
INVARIANTS PipelinesTypeOK LeaseIsHonest  
  
CHECK_DEADLOCK FALSE
