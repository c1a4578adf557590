SPECIFICATION Spec
CONSTANTS
  MAX_PACKET_SIZE = 8
  INPUT_SIZE = 2
  START_BYTE_1 = 240
  START_BYTE_2 = 90
  Byte <- MCByte
  Crc8 <- crc8
  InputLen <- MCInputLen
  Halting = {2}
  Packets <- MCPackets
  Noise = {240, 90, 5}
  StaleLens = {0, 5}
INVARIANTS TypeOK HoldsArrived CleanPacketRuns AnswerMatches
CHECK_DEADLOCK FALSE
