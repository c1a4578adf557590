------------------------------- MODULE SpiLink -------------------------------
(***************************************************************************)
(* The SPI link between Olympus and one of its slave processors:                *)
(* messageSubmodule on the master (master_lib/drivers/submoduleComms.c), the     *)
(* byte queues and the message parser on the slave (slave_lib/peripherals/spi.c, *)
(* slave_lib/drivers/commsLib.c).  The slaves are selected one at a time and      *)
(* share nothing, so one stands for all.                                          *)
(*                                                                               *)
(* SPI moves a byte each way at once.  The slave raises its INT pin when its       *)
(* answer is ready and lowers it when the answer has been clocked out.  The        *)
(* master waits for the pin, and gives up after a timeout, which here may fall     *)
(* at any moment of the wait.                                                      *)
(*                                                                               *)
(* A byte is a tuple: its value, the number of the transaction it belongs to and,  *)
(* for the data of an answer, its place there.                                      *)
(***************************************************************************)
EXTENDS Integers, Sequences

CONSTANTS
  Types,         \* message types below NUM_MSGS that have a callback
  RxLength,      \* msgResp[].rxDataLength, which is also the master's tx_size
  TxLength,      \* msgResp[].txDataLength, which is also the master's rx_size
  BOOT_MSG,      \* the type whose callback restarts the slave
  DataBytes,     \* values of message data
  DummyBytes,    \* values HAL_SPI_Receive sends: what its buffer held before
  MaxMessages    \* bound: transactions in one behaviour

START == "start" \* COMMS_START_BYTE; not below NUM_MSGS
None == <<"none", 0>>

ASSUME SpiConstants ==
  /\ BOOT_MSG \in Types /\ START \notin Types
  /\ RxLength \in [Types -> Nat] /\ TxLength \in [Types -> Nat]
  /\ RxLength[BOOT_MSG] = 0 /\ TxLength[BOOT_MSG] = 0
  /\ MaxMessages \in Nat

VARIABLES
  master,     \* where messageSubmodule is; "idle" between calls
  msg,        \* msg_type
  count,      \* bytes exchanged in the current SPI call
  status,     \* the status byte received
  buff,       \* the data bytes received
  number,     \* how many transactions were begun; the current one's number
  late,       \* a wait for the INT pin has timed out
  rested,     \* the slave was at rest when the transaction began
  strayStart, \* a byte sent while receiving has been equal to the start byte
  rx, tx,     \* the slave's byte queues, each with the hardware FIFO behind it
  INT,        \* the slave's INT pin
  slave,      \* what the slave's main loop is doing
  state,      \* runCommsFSM's state
  msgType,    \* the type byte received
  args,       \* the data received
  executed    \* the callbacks run: type byte and data

masterVars == <<master, msg, count, status, buff, number, late, rested, strayStart>>
parser == <<state, msgType, args>>
slaveVars == <<rx, tx, INT, slave, parser, executed>>
vars == <<masterVars, slaveVars>>

Init ==
  /\ master = "idle"
  /\ msg = BOOT_MSG
  /\ count = 0
  /\ status = None
  /\ buff = <<>>
  /\ number = 0
  /\ late = FALSE
  /\ rested = TRUE
  /\ strayStart = FALSE
  /\ rx = <<>>
  /\ tx = <<>>
  /\ INT = 0
  /\ slave = "poll"
  /\ state = "START_BYTE"
  /\ msgType = None
  /\ args = <<>>
  /\ executed = <<>>

(***************************************************************************)
(* The wire.  The slave's interrupt handler queues what it receives and sends    *)
(* the next byte of its answer; with no answer queued the line carries noise.    *)
(***************************************************************************)
Received == IF tx = <<>> THEN None ELSE Head(tx)

SPI1_IRQHandler(b) ==
  /\ rx' = Append(rx, b)
  /\ tx' = IF tx = <<>> THEN <<>> ELSE Tail(tx)

Exchange(value) ==
  /\ SPI1_IRQHandler(<<value, number>>)
  /\ UNCHANGED <<INT, slave, parser, executed>>

(* HAL_SPI_Receive sends its buffer while it fills it: the uninitialised status byte, *)
(* then what the caller's buffer held.                                                 *)
ExchangeDummy ==
  \E v \in DummyBytes : Exchange(v) /\ strayStart' = (strayStart \/ v = START)

(***************************************************************************)
(* messageSubmodule.                                                            *)
(***************************************************************************)
AtRest == slave = "poll" /\ state = "START_BYTE" /\ rx = <<>> /\ tx = <<>> /\ INT = 0

selectModule(t) ==
  /\ master = "idle"
  /\ number < MaxMessages
  /\ number' = number + 1
  /\ msg' = t
  /\ count' = 0
  /\ status' = None
  /\ buff' = <<>>
  /\ rested' = AtRest
  /\ master' = "start"
  /\ UNCHANGED <<late, strayStart, slaveVars>>

SendStart ==
  /\ master = "start"
  /\ Exchange(START)
  /\ master' = "type"
  /\ UNCHANGED <<msg, count, status, buff, number, late, rested, strayStart>>

SendType ==
  /\ master = "type"
  /\ Exchange(msg)
  /\ master' = IF RxLength[msg] = 0 THEN "wait" ELSE "data"
  /\ UNCHANGED <<msg, count, status, buff, number, late, rested, strayStart>>

SendData ==
  /\ master = "data"
  /\ \E v \in DataBytes : Exchange(v)
  /\ count' = count + 1
  /\ master' = IF count' = RxLength[msg] THEN "wait" ELSE "data"
  /\ UNCHANGED <<msg, status, buff, number, late, rested, strayStart>>

\* Mutant of Ready: does not wait for the slave.
Ready_always == TRUE

Ready == INT = 1

WaitReady ==
  /\ master = "wait"
  /\ Ready
  /\ count' = 0
  /\ master' = "status"
  /\ UNCHANGED <<msg, status, buff, number, late, rested, strayStart, slaveVars>>

(* The time is up; the clock is read again, so also when INT has just risen. *)
WaitTimeout ==
  /\ master = "wait"
  /\ late' = TRUE
  /\ master' = "idle"
  /\ UNCHANGED <<msg, count, status, buff, number, rested, strayStart, slaveVars>>

ReceiveStatus ==
  /\ master = "status"
  /\ ExchangeDummy
  /\ status' = Received
  /\ master' = IF TxLength[msg] = 0 THEN "release" ELSE "receive"
  /\ UNCHANGED <<msg, count, buff, number, late, rested>>

ReceiveData ==
  /\ master = "receive"
  /\ ExchangeDummy
  /\ buff' = Append(buff, Received)
  /\ master' = IF Len(buff') = TxLength[msg] THEN "release" ELSE "receive"
  /\ UNCHANGED <<msg, count, status, number, late, rested>>

\* Mutant of Released: does not wait for the slave to finish sending.
Released_always == TRUE

Released == INT = 0

deselectModule ==
  /\ master = "release"
  /\ Released
  /\ master' = "idle"
  /\ UNCHANGED <<msg, count, status, buff, number, late, rested, strayStart, slaveVars>>

\* Mutant of ReleaseTimeout: waits for the pin without a limit.
ReleaseTimeout_never == master = "never" /\ UNCHANGED vars

ReleaseTimeout ==
  /\ master = "release"
  /\ INT = 1
  /\ late' = TRUE
  /\ master' = "idle"
  /\ UNCHANGED <<msg, count, status, buff, number, rested, strayStart, slaveVars>>

(***************************************************************************)
(* The slave's main loop: readByte and runCommsFSM.                             *)
(***************************************************************************)
readByte ==
  /\ slave = "poll"
  /\ rx # <<>>
  /\ rx' = Tail(rx)
  /\ UNCHANGED <<masterVars, tx>>

StartByte ==
  /\ readByte
  /\ state = "START_BYTE"
  /\ INT' = 0
  /\ state' = IF Head(rx)[1] = START THEN "MSG_TYPE" ELSE "START_BYTE"
  /\ UNCHANGED <<slave, msgType, args, executed>>

(* A message without data is run at once. *)
MsgType ==
  /\ readByte
  /\ state = "MSG_TYPE"
  /\ IF Head(rx)[1] \notin Types
       THEN state' = "START_BYTE" /\ UNCHANGED <<slave, msgType, args>>
       ELSE /\ msgType' = Head(rx)
            /\ args' = <<>>
            /\ state' = IF RxLength[Head(rx)[1]] = 0 THEN "START_BYTE" ELSE "DATA"
            /\ slave' = IF RxLength[Head(rx)[1]] = 0 THEN "callback" ELSE "poll"
  /\ UNCHANGED <<INT, executed>>

\* Mutant of DataComplete: one data byte is left in the queue.
DataComplete_early(n) == n + 1 >= RxLength[msgType[1]]

\* Mutant of DataComplete: waits for one data byte too many.
DataComplete_late(n) == n = RxLength[msgType[1]] + 1

DataComplete(n) == n = RxLength[msgType[1]]

Data ==
  /\ readByte
  /\ state = "DATA"
  /\ args' = Append(args, Head(rx))
  /\ state' = IF DataComplete(Len(args')) THEN "START_BYTE" ELSE "DATA"
  /\ slave' = IF DataComplete(Len(args')) THEN "callback" ELSE "poll"
  /\ UNCHANGED <<INT, msgType, executed>>

Run == executed' = Append(executed, [type |-> msgType, args |-> args])

(* writeResponse as far as the queue. *)
writeResponse ==
  /\ tx' = tx \o <<<<"status", msgType[2]>>>>
              \o [i \in 1 .. TxLength[msgType[1]] |-> <<"answer", msgType[2], i>>]
  /\ slave' = "raise"

Callback ==
  /\ slave = "callback"
  /\ msgType[1] # BOOT_MSG
  /\ Run
  /\ writeResponse
  /\ UNCHANGED <<masterVars, rx, INT, parser>>

(* The restart never returns, so its answer is sent first. *)
BootResponse ==
  /\ slave = "callback"
  /\ msgType[1] = BOOT_MSG
  /\ writeResponse
  /\ UNCHANGED <<masterVars, rx, INT, parser, executed>>

(* runResponse: raise the pin, wait until all is sent, lower the pin. *)
setSPIInt ==
  /\ slave = "raise"
  /\ INT' = 1
  /\ slave' = "drain"
  /\ UNCHANGED <<masterVars, rx, tx, parser, executed>>

\* Mutant of Drained: lowers the pin while the last byte is still queued.
Drained_early == Len(tx) <= 1

Drained == tx = <<>>

clearSPIInt ==
  /\ slave = "drain"
  /\ Drained
  /\ INT' = 0
  /\ slave' = IF msgType[1] = BOOT_MSG THEN "bootload" ELSE "poll"
  /\ UNCHANGED <<masterVars, rx, tx, parser, executed>>

(* The slave resets; its part ends here, and the master's messages time out. *)
bootload ==
  /\ slave = "bootload"
  /\ Run
  /\ slave' = "restart"
  /\ UNCHANGED <<masterVars, rx, tx, INT, parser>>

messageSubmodule ==
  \/ SendStart \/ SendType \/ SendData
  \/ WaitReady \/ WaitTimeout
  \/ ReceiveStatus \/ ReceiveData
  \/ deselectModule \/ ReleaseTimeout

slaveLoop ==
  \/ StartByte \/ MsgType \/ Data
  \/ Callback \/ BootResponse \/ setSPIInt \/ clearSPIInt \/ bootload

Next == (\E t \in Types : selectModule(t)) \/ messageSubmodule \/ slaveLoop

Spec == Init /\ [][Next]_vars

(* The master's code runs on, its timeouts included; so does the slave's. *)
FairSpec == Spec /\ WF_vars(messageSubmodule) /\ WF_vars(slaveLoop)
-----------------------------------------------------------------------------

ByteOK(b) == b[2] \in 0 .. MaxMessages

(* Every byte in a queue belongs to a transaction that was begun, and the slave's  *)
(* parser leaves its DATA state with the last byte its message takes, also when it  *)
(* took a byte for a start byte that was none.                                      *)
TypeOK ==
  /\ master \in {"idle", "start", "type", "data", "wait", "status", "receive", "release"}
  /\ msg \in Types
  /\ number \in 0 .. MaxMessages
  /\ late \in BOOLEAN /\ rested \in BOOLEAN /\ strayStart \in BOOLEAN
  /\ INT \in {0, 1}
  /\ slave \in {"poll", "callback", "raise", "drain", "bootload", "restart"}
  /\ state \in {"START_BYTE", "MSG_TYPE", "DATA"}
  /\ \A i \in DOMAIN rx : ByteOK(rx[i])
  /\ \A i \in DOMAIN tx : ByteOK(tx[i])
  /\ \A i \in DOMAIN args : ByteOK(args[i])
  /\ \A i \in DOMAIN buff : ByteOK(buff[i])
  /\ ByteOK(msgType) /\ ByteOK(status)
  /\ state = "DATA" => Len(args) < RxLength[msgType[1]]

(* Whatever timeouts, late answers and stale pins there are, the slave runs the  *)
(* master's messages one by one in the order they were sent, none skipped, none   *)
(* twice, and each with its own data.  The exception is a byte that messageSubmodule *)
(* sent while receiving and that happened to be COMMS_START_BYTE (status is          *)
(* uninitialised, submoduleComms.c:60): the slave then reads the next byte as a type. *)
ExecutesInOrder ==
  ~strayStart =>
    \A k \in DOMAIN executed :
      /\ executed[k].type[2] = k
      /\ Len(executed[k].args) = RxLength[executed[k].type[1]]
      /\ \A i \in DOMAIN executed[k].args : executed[k].args[i][2] = k

(* Nothing is lost on the way: when both sides are idle and the queue is empty,   *)
(* every message has been run, unless a stray start byte has eaten one.            *)
AllExecuted == ~strayStart /\ master = "idle" /\ AtRest => Len(executed) = number

(* The status and the data that messageSubmodule received are those of this        *)
(* transaction.                                                                    *)
Fresh ==
  /\ status = <<"status", number>>
  /\ buff = [i \in 1 .. TxLength[msg] |-> <<"answer", number, i>>]

(* As long as no wait has timed out and no stray start byte was sent, every         *)
(* transaction returns its own answer.                                              *)
FreshUntilTimeout ==
  ~late /\ ~strayStart /\ number > 0 /\ master \in {"idle", "release"} => Fresh

(* A timeout or a stray start byte does no lasting harm: a transaction begun with    *)
(* the slave at rest returns its own answer whatever happened before.                *)
FreshFromRest == rested /\ number > 0 /\ master = "release" => Fresh

(* messageSubmodule returns, also when the slave holds its pin up or has restarted.   *)
MasterReturns == (master # "idle") ~> (master = "idle")

(* submoduleComms.c:49: the master waits for the slave to finish processing the     *)
(* data, so when it goes on to receive, the message has been run.  (A restart is     *)
(* answered before it is run.)                                                       *)
ProcessedBeforeReceive ==
  master = "status" /\ msg # BOOT_MSG => Len(executed) = number

=============================================================================
