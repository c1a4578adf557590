SPECIFICATION UsbSpec
CONSTANTS
  BufferSize = 4
  WriteLens = {2}
  ReadLens = {1}
  IdxRange = 9
  MaxBytes = 6
  Lockstep = FALSE
  MaxConfigs = 1
INVARIANT UnreadIntact
