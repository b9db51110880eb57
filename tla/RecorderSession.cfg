SPECIFICATION FairSpec
CONSTANTS
  MaxParts = 3
  MaxRestarts = 1
  MaxFaults = 1
INVARIANTS
  RowNeverDangles
  OneClock
PROPERTIES
  FootageKeptWhileUp
  FootageAdvertised
CHECK_DEADLOCK FALSE
