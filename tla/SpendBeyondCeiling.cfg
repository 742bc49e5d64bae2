CONSTANTS
  Rem = {1, 2}
  Sid = {s1, s2}
  Sha = {1, 2}
  NoRem = NoRem
  NoSid = NoSid
  NoSha = 0
  NoSnap = NoSnap
  Snapshots <- MCSnapshots
  MaxAcuLimit = 2
  GlobalAcuBudget = 3
  MaxHealAttempts = 1
  MaxFaults = 0
  MaxLoads = 0
  NewSession <- Fresh
  DevinMoves <- Headstrong
SPECIFICATION ControlSpec
INVARIANTS
  RealSpendWithinCeiling
