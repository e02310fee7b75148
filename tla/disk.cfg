CONSTANTS
  p1 = p1
  p2 = p2
  NoProcess = NoProcess
  Process <- TwoProcesses
  Block = {0, 1}
  Data = {0, 1}
  QueueNumMax = 8
  QueueNum = 8
  UsedCapacity = 9
  IndexSize = 16
  Drivers <- BothDrivers
SPECIFICATION FairSpec
INVARIANTS NoFailure
PROPERTIES IsBlockDevice OnlyRequestedTransfers EveryRequestReturns
CHECK_DEADLOCK FALSE
