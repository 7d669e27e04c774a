SPECIFICATION Spec
CONSTANTS
  HOST_RX_CAPACITY = 4
  HOST_TX_CAPACITY = 4
  EVENT_MAX = 2
  Programs <- Neighbours
  Values = {1, 2}
  Keys = {97, 65, 10}
  MaxKeys = 4
  MaxEvents = 3
INVARIANTS BankHoldsItsBytes
