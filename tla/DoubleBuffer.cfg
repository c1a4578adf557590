SPECIFICATION FairSpec
CONSTANTS
  BufferSize = 3
  WriteLens = {1, 2, 3}
  ReadLens = {1, 2, 4}
  IdxRange = 8
  MaxBytes = 9
INVARIANTS TypeOK Accounting DeliveredInOrder
PROPERTIES StreamSpec EventuallyDelivered
