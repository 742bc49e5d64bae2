CONSTANTS
  Commits = {1, 2}
  Checks = {"anchor", "unit", "frontend"}
  FileSets <- MCFileSets
  PageSize = 30
  MaxRuns = 3
  NoSha = NoSha
SPECIFICATION FairSpec
INVARIANTS
  TypeOK
  GreenIsEarned
  RedIsEarned
PROPERTIES
  VerdictConverges
  EndedIsJudged
