CONSTANTS
  Issue = {1, 2}
  Findings = {f}
  OtherTitle = other
  Body = {b1, b2}
  NoBody = NoBody
  PageSize = 2
  MaxEdits = 1
  MaxFaults = 1
SPECIFICATION FairSpec
INVARIANTS
  TypeOK
  OneRowPerWrittenVersion
  QueuedOnce
  FindingOpenedOnce
PROPERTIES
  BacklogIsTracked
