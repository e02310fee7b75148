CONSTANTS
  XLEN = 64
  DisableMachineInterruptDelegation = FALSE
  EcallEmulation = FALSE
  PeripheralEmulation = TRUE
  Code = {0, 4}
  DataAddress = {}
  AmoAddress = {}
  CsrWrites <- FirmwareWrites
  AddressWrites <- NoAddresses
SPECIFICATION FrameSpec
PROPERTIES TakenWhenEnabled
