SPECIFICATION Spec
CONSTANTS
  Rom <- RomBytes
  Ram <- RamAddresses
  Starts <- StartMachines
  MaxSteps = 2
  CYCOUNT_RANGE = 16
  RXCAP = 2
  Received = {129}
INVARIANTS TypeOK CoresInStep CyclesInStep
