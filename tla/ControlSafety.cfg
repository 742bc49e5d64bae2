CONSTANTS
  Rem = {1, 2}
  Sid = {s1, s2, s3}
  Sha = {1, 2}
  NoRem = NoRem
  NoSid = NoSid
  NoSha = 0
  NoSnap = NoSnap
  Snapshots <- MCSnapshots
  MaxAcuLimit = 1
  GlobalAcuBudget = 1
  MaxHealAttempts = 2
  MaxFaults = 1
  MaxLoads = 0
  NewSession <- Coding
  DevinMoves <- Unruly
SPECIFICATION ControlSpec
SYMMETRY SidSymmetry
INVARIANTS
  ControlTypeOK
  GateHasVerdictUndisturbed
  InFlightIsWatchedUndisturbed
  GateWasGreen
  HealsOncePerCommit
  OverrunIsAccounted
