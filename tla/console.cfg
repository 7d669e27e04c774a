SPECIFICATION Spec
CONSTANTS
  HOST_RX_CAPACITY = 3
  HOST_TX_CAPACITY = 512
  EVENT_MAX = 65535
  Keys <- KeyKinds
  MaxKeys = 4
  Leads = {0, 37, 253}
  Letter = 97
INVARIANTS TypeOK CursorOnGrid
PROPERTIES TerminalSpec AllEchoed
