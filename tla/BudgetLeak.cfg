CONSTANTS
  Rem = {1, 2}
  Sid = {s1, s2}
  Sha = {1}
  NoRem = NoRem
  NoSid = NoSid
  NoSha = 0
  NoSnap = NoSnap
  Snapshots <- MCSnapshots
  MaxAcuLimit = 1
  GlobalAcuBudget = 2
  MaxHealAttempts = 0
  MaxFaults = 0
  MaxLoads = 0
  NewSession <- Coding
  DevinMoves <- BriskAsking
SPECIFICATION FairSpec
PROPERTIES
  QueuedIsDispatchedUndisturbed
