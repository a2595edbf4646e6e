SPECIFICATION SnapSpec
CONSTANTS
  SnapVms = {"v"}
  DisksOf <- MCDisksOf
  CopyOf <- MCCopyOf
  PoolOf <- OnePool
  Tags = {"t"}
  SnapReqs = {1, 2}
  MaxSnapOps = 2
  MaxSnapFaults = 0
PROPERTY WinnerKeepsSnapshot
CHECK_DEADLOCK FALSE
