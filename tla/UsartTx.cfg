SPECIFICATION FairSpec
CONSTANTS
  NumBuffers = 3
  BufferSize = 3
  WriteSizes = {1, 2, 4, 10}
  FastBytes = 2
  MaxOffered = 13
INVARIANTS TypeOK InOrder
PROPERTIES DropOnlyWhenFull StallsOnlyOnLostCompletion WriteReturns
