CONSTANTS
  Rem = {1, 2, 3}
  Sid = {1, 2, 3, 4, 5, 6}
  Sha = {}
  NoRem = 0
  NoSid = 0
  NoSha = NoSha
  NoSnap = NoSnap
  Snapshots <- SimSnapshots
  MaxAcuLimit = 100
  GlobalAcuBudget = 210
  MaxHealAttempts = 2
  MaxFaults = 1
  MaxLoads = 0
  Scripts <- MCScripts
  IssueNumber <- MCIssueNumber
  MaxRestarts = 1
SPECIFICATION SimSpec
INVARIANTS
  SimTypeOK
  EndsAsScripted
  RecordedSpendWithinBudget
PROPERTIES
  EndsAcrossRestarts
  SeriesCatchesUp
