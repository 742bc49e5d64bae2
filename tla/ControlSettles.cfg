CONSTANTS
  Rem = {1}
  Sid = {s1, s2}
  Sha = {1, 2, 3}
  NoRem = NoRem
  NoSid = NoSid
  NoSha = 0
  NoSnap = NoSnap
  Snapshots <- MCSnapshots
  MaxAcuLimit = 1
  GlobalAcuBudget = 1
  MaxHealAttempts = 2
  MaxFaults = 1
  MaxLoads = 0
  NewSession <- Fresh
  DevinMoves <- Cooperative
SPECIFICATION FairSpec
PROPERTIES
  HealingIsDelivered
  SettlesUndisturbed
  HealsOnlyIdleUndisturbed
