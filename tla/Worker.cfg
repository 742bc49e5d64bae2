CONSTANTS
  Rem = {1, 2, 3}
  ScanEvery = 2
  SyncEvery = 1
  Room = 2
  MaxBreaks = 2
SPECIFICATION Spec
INVARIANTS
  TypeOK
PROPERTIES
  OnlyWhatIsAheadHoldsUp
  AdvanceWaitsForDispatch
  BacklogFlows
  StopIsHonoured
