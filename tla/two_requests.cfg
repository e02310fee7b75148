CONSTANTS
  p1 = p1
  p2 = p2
  NoProcess = NoProcess
  Process <- TwoProcesses
  Block = {0, 1}
  Data = {0, 1}
  QueueNumMax = 8
  QueueNum = 6
  UsedCapacity = 6
  IndexSize = 12
  Drivers <- ConcurrentDriver
SPECIFICATION Spec
PROPERTIES ServesPublished
CHECK_DEADLOCK FALSE
