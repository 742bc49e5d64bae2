CONSTANTS
  Rem = {1, 2}
  Sid = {s1, s2, s3}
  Sha = {h1, h2}
  NoRem = NoRem
  NoSid = NoSid
  NoSha = NoSha
  NoSnap = NoSnap
  Snapshots <- MCSnapshots
  MaxAcuLimit = 2
  GlobalAcuBudget = 5
  MaxHealAttempts = 1
  MaxFaults = 1
  MaxLoads = 1
SPECIFICATION Spec
SYMMETRY Symmetric
INVARIANTS
  TypeOK
  OneSessionRow
  SettledReleased
  LedgerNeverAhead
  MessagesMatchAttempts
  MessagesWithinCap
  OrphansOnlyByFault
  OneSessionAskedFor
  CopyIsFresh
PROPERTIES
  FollowsLifecycle
