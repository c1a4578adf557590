SPECIFICATION FairUsbSpec
CONSTANTS
  BufferSize = 3
  WriteLens = {1, 2, 3}
  ReadLens = {1, 4}
  IdxRange = 8
  MaxBytes = 6
  Lockstep = TRUE
  MaxConfigs = 3
INVARIANTS UsbTypeOK StreamIntact NeverDeaf UnreadIntact
