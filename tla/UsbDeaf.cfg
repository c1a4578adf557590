SPECIFICATION FairUsbSpec
CONSTANTS
  BufferSize = 2
  WriteLens = {2}
  ReadLens = {1}
  IdxRange = 5
  MaxBytes = 6
  Lockstep = FALSE
  MaxConfigs = 1
PROPERTY NakEnds
