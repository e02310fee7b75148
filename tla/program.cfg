CONSTANTS
  ByteSize = 2
  EntryWords = 4
  Entries = 5
  Files <- HostFiles
  MaxBinarySize = 8
  MmuTable <- Table
  Top = 12
  Bottom = 8
  StatSize = 2
  MaxFd = 4
  kToHost0 = 32
  kToHost1 = 40
  kTimerCmp = 16
  kTimerMtime = 24
  kUartLsr = 57
  kVirtioBase = 64
  PathMax = 3
  Jobs <- AllJobs
SPECIFICATION Spec
INVARIANTS HalvesAsBytes OptionsAsGiven ImageAsFile HostEndsAsAsked HandlesCounted
PROPERTIES IsFlatMemory NoEarlyTimer TimerMatchesMemory LoadsSeeMtime DeadlineReached
CHECK_DEADLOCK FALSE
