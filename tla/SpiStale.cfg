SPECIFICATION Spec
CONSTANTS
  Types <- MCTypes
  RxLength <- MCRxLength
  TxLength <- MCTxLength
  BOOT_MSG = "boot"
  DataBytes = {"data", "start"}
  DummyBytes = {"dummy"}
  MaxMessages = 3
INVARIANT ProcessedBeforeReceive
CHECK_DEADLOCK FALSE
