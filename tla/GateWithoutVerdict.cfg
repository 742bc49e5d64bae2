CONSTANTS
  Rem = {1}
  Sid = {s1, s2}
  Sha = {1, 2}
  NoRem = NoRem
  NoSid = NoSid
  NoSha = 0
  NoSnap = NoSnap
  Snapshots <- MCSnapshots
  MaxAcuLimit = 1
  GlobalAcuBudget = 4
  MaxHealAttempts = 0
  MaxFaults = 1
  MaxLoads = 0
  NewSession <- Fresh
  DevinMoves <- Headstrong
SPECIFICATION ControlSpec
INVARIANTS
  GateHasVerdict
