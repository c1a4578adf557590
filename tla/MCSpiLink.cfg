SPECIFICATION FairSpec
CONSTANTS
  Types <- MCTypes
  RxLength <- MCRxLength
  TxLength <- MCTxLength
  BOOT_MSG = "boot"
  DataBytes = {"data", "start"}
  DummyBytes = {"start", "get_status"}
  MaxMessages = 3
INVARIANTS TypeOK ExecutesInOrder AllExecuted FreshUntilTimeout FreshFromRest
PROPERTY MasterReturns
CHECK_DEADLOCK FALSE
