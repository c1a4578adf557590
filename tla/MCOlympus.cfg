SPECIFICATION Spec
CONSTANTS
  MAX_NUM_CALLBACK_TIMERS = 6
  windows <- MCWindows
  shutdown <- MCShutdown
  SpeedDacPeriod = 2
  HeartbeatPeriod = 3
  MaxErrors = 4
  HostValues <- MCHostValues
  TypedNumbers <- MCTypedNumbers
  Huge = 99999
  Pots = {1440}
  PotStep = 100
  Diffs = {12900, 51600}
  MaxCommands = 2
  MaxPulses = 2
  Pcbs = {p1, p2}
  Blocks = {b1, b2, b3, b4}
  NULL = NULL
  Byte = {4, 5, 6}
  START_BYTE_1 = 5
  START_BYTE_2 = 4
  HEADER_SIZE = 4
  MAX_PACKET_SIZE = 6
  Letters = {"a"}
  RxSize = 3
  CONSOLE_MAX_CMD_LEN = 3
  MaxKeys = 10
INVARIANTS OnTime NoStuckNote NeverBothWays CommandsAnswered StopCutsThrottle OwnHandler LineIsTyped
PROPERTIES FallsSilent SteerSettles
CHECK_DEADLOCK FALSE
