CONSTANTS
  Issue = {1}
  Findings = {f}
  OtherTitle = other
  Body = {b1}
  NoBody = NoBody
  PageSize = 1
  MaxEdits = 0
  MaxFaults = 0
SPECIFICATION Spec
INVARIANTS
  OneRowPerVersion
