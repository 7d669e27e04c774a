SPECIFICATION Spec
CONSTANTS
  Rom <- RomBytes
  Ram <- RamAddresses
  Private <- ProgramRam
  Boot <- BootMachine
  MaxFrames = 2
  MaxRestarts = 1
INVARIANTS TypeOK OneIrqDeep
PROPERTIES Transparent IrqServed
