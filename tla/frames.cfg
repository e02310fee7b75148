CONSTANTS
  XLEN = 64
  DisableMachineInterruptDelegation = TRUE
  EcallEmulation = FALSE
  PeripheralEmulation = TRUE
  Code = {0, 4}
  DataAddress = {}
  AmoAddress = {}
  CsrWrites <- FrameWrites
  AddressWrites <- FrameAddresses
SPECIFICATION FrameSpec
INVARIANTS FrameIntact NeverAborts PendingViews
PROPERTIES ReturnResumes NoNestedInterrupt
