CONSTANTS
  XLEN = 64
  DisableMachineInterruptDelegation = FALSE
  EcallEmulation = TRUE
  PeripheralEmulation = FALSE
  Code = {2, 6}
  DataAddress = {8}
  AmoAddress = {12}
  CsrWrites <- PagingWrites
  AddressWrites <- PagingAddresses
SPECIFICATION FrameSpec
INVARIANTS TypeOK StatusViews HardwiredStatus FetchFaultReported
PROPERTIES AmoFaultReported
