------------------------------- MODULE CommsFSM -------------------------------
(***************************************************************************)
(* The packet protocol between the host and Olympus over USB                   *)
(* (olympus/drivers/comms.c): runCommsFSM cuts the byte stream into packets,     *)
(* runPacket stages a packet's data and calls its callback, sendResponse         *)
(* answers through one static buffer that the USB IN endpoint sends later.       *)
(*                                                                             *)
(* A packet is  START_BYTE_1 START_BYTE_2 msgType seqNumber packetLen data crc.  *)
(* The host sends frames, well-formed packets or noise, one after the other      *)
(* without end, and may or may not wait for its answer before the next.  The     *)
(* USB interrupts come between any two stores of sendResponse.                   *)
(***************************************************************************)
EXTENDS Integers, Sequences

CONSTANTS
  MAX_PACKET_SIZE,  \* 64
  START_BYTE_1, START_BYTE_2,
  Byte,             \* the byte values in use
  Crc8(_, _),       \* crc8 of the first n bytes of a buffer
  INPUT_SIZE,       \* the bytes of inputBuf that callbacks read (4)
  InputLen,         \* the table response[]: inputDataLen by packet type
  Halting,          \* the types whose callback does not return (killBoard, resetBoard)
  Packets,          \* the well-formed packets the host may send
  Noise,            \* bytes it may send outside a packet
  StaleLens         \* what the uninitialised length byte of chdl may hold

HEADER_SIZE == 5

ASSUME CommsConstants ==
  /\ INPUT_SIZE \in Nat
  /\ MAX_PACKET_SIZE \in Nat /\ MAX_PACKET_SIZE > HEADER_SIZE + INPUT_SIZE
  /\ Byte \subseteq 0 .. 255
  /\ {0, START_BYTE_1, START_BYTE_2} \cup StaleLens \cup Noise \subseteq Byte
  /\ Packets \subseteq Seq(Byte)

Index == 0 .. MAX_PACKET_SIZE - 1

(* The packets are well formed: their header, their length and their checksum are     *)
(* right, and the callback of their type takes no more than inputBuf holds.              *)
ASSUME PacketsWellFormed ==
  /\ \A t \in DOMAIN InputLen : InputLen[t] \in 0 .. INPUT_SIZE
  /\ \A p \in Packets :
       /\ Len(p) \in HEADER_SIZE + 1 .. MAX_PACKET_SIZE
       /\ p[1] = START_BYTE_1 /\ p[2] = START_BYTE_2
       /\ p[3] % 2 = 0 /\ p[3] \div 2 \in DOMAIN InputLen
       /\ p[5] = Len(p)
       /\ Crc8([i \in Index |-> IF i < Len(p) THEN p[i + 1] ELSE 0], Len(p)) = 0

VARIABLES
  state, packetIdx, packetBuffer,  \* the CommsHandler_t
  inputBuf,     \* staged input data, shared by all packet types
  outPacket,    \* sendResponse's static packetBuffer
  TxState,      \* the IN endpoint is busy
  filling,      \* outPacket is still to be copied to the endpoint's FIFO
  sending,      \* the next step of sendResponse, "no" outside it
  board,        \* "running", "halted", or "wild" after a read past response[]
  rest,         \* the bytes of the current frame still to come
  clean,        \* the current frame is a packet, begun with the parser ready for it
  frame,        \* that packet
  waited,       \* no answer was under way when the current frame began
  arrived,      \* the bytes since the parser last left WAITING_FOR_START_1
  ran,          \* the packets run during the current frame
  answer        \* the last answer the host collected since then

parser == <<state, packetIdx, packetBuffer, arrived>>
endpoint == <<outPacket, TxState, filling, sending>>
host == <<rest, frame, clean, waited>>
vars == <<parser, inputBuf, endpoint, board, host, ran, answer>>

None == [msgType |-> 0, seqNumber |-> 0]

Init ==
  /\ state = "START_1"
  /\ packetIdx = 0
  /\ packetBuffer \in {[i \in Index |-> IF i = 4 THEN v ELSE 0] : v \in StaleLens}
  /\ inputBuf = [i \in 0 .. INPUT_SIZE - 1 |-> 0]
  /\ outPacket = None
  /\ TxState = 0
  /\ filling = FALSE
  /\ sending = "no"
  /\ board = "running"
  /\ rest = <<>>
  /\ frame = <<>>
  /\ clean = FALSE
  /\ waited = FALSE
  /\ arrived = <<>>
  /\ ran = <<>>
  /\ answer = None

(***************************************************************************)
(* The header fields of a packet in a buffer, and what is made of them.         *)
(***************************************************************************)
msgType(buf) == buf[2]
seqNumber(buf) == buf[3]
packetLen(buf) == buf[4]
packetType(buf) == msgType(buf) \div 2

(* checkPacket.  A length past the end of the buffer makes crc8 read whatever  *)
(* follows it: both outcomes are possible.                                     *)
checkPacket(buf) ==
  IF packetLen(buf) <= MAX_PACKET_SIZE
    THEN {Crc8(buf, packetLen(buf)) = 0}
    ELSE BOOLEAN

Least(a, b) == IF a < b THEN a ELSE b

dataLen(buf) == (packetLen(buf) - HEADER_SIZE - 1) % 256

bytesToCopy(buf) == Least(InputLen[packetType(buf)], dataLen(buf))

(* runPacket: stage the data, call the callback. *)
runPacket(buf) ==
  /\ inputBuf' = [i \in DOMAIN inputBuf |->
                    IF i < bytesToCopy(buf) THEN buf[HEADER_SIZE + i] ELSE inputBuf[i]]
  /\ ran' = Append(ran, [msgType |-> msgType(buf), seqNumber |-> seqNumber(buf),
                         args |-> [i \in 1 .. InputLen[packetType(buf)] |-> inputBuf'[i - 1]]])

\* Mutant of Response: answers with the sequence number of the previous answer.
Response_oldSeq(buf) ==
  [msgType |-> 2 * packetType(buf) + 1, seqNumber |-> outPacket.seqNumber]

Response(buf) == [msgType |-> 2 * packetType(buf) + 1, seqNumber |-> seqNumber(buf)]

(* sendResponse: the fields of outPacket are stored one after the other, while the  *)
(* endpoint may still have to send an earlier answer from there.                    *)
sendResponse(buf) ==
  /\ outPacket' = [msgType |-> Response(buf).msgType, seqNumber |-> outPacket.seqNumber]
  /\ sending' = "seqNumber"
  /\ UNCHANGED <<TxState, filling>>

sendResponse_seqNumber ==
  /\ sending = "seqNumber"
  /\ outPacket' = [msgType |-> outPacket.msgType,
                   seqNumber |-> Response(packetBuffer).seqNumber]
  /\ sending' = "usbWrite"
  /\ UNCHANGED <<parser, inputBuf, TxState, filling, board, host, ran, answer>>

(* USBD_CDC_TransmitPacket; its BUSY is ignored by usbWrite's callers. *)
TransmitPacket ==
  /\ TxState' = 1
  /\ filling' = IF TxState = 0 THEN TRUE ELSE filling

usbWrite ==
  /\ sending = "usbWrite"
  /\ TransmitPacket
  /\ sending' = "no"
  /\ UNCHANGED <<parser, inputBuf, outPacket, board, host, ran, answer>>

(***************************************************************************)
(* runCommsFSM on one byte, a case per state.                                   *)
(***************************************************************************)
Idle == UNCHANGED <<inputBuf, endpoint, board, ran>>

WaitingForStart1(b) ==
  /\ state = "START_1"
  /\ IF b = START_BYTE_1
       THEN /\ state' = "START_2"
            /\ packetBuffer' = [packetBuffer EXCEPT ![0] = b]
            /\ packetIdx' = 1
            /\ arrived' = <<b>>
       ELSE packetIdx' = 0 /\ UNCHANGED <<state, packetBuffer, arrived>>
  /\ Idle

WaitingForStart2(b) ==
  /\ state = "START_2"
  /\ IF b = START_BYTE_2
       THEN /\ state' = "HEADER"
            /\ packetBuffer' = [packetBuffer EXCEPT ![1] = b]
            /\ packetIdx' = 2
            /\ arrived' = Append(arrived, b)
       ELSE state' = "START_1" /\ arrived' = <<>> /\ UNCHANGED <<packetBuffer, packetIdx>>
  /\ Idle

(* The test that there is one byte left, the CRC. *)
\* Mutant of AtCrc: the CRC byte is taken for a data byte.
AtCrc_late(idx, buf) == idx = packetLen(buf)

AtCrc(idx, buf) == idx = packetLen(buf) - 1

\* Mutant of Store: the index is not advanced.
Store_noAdvance(b) ==
  /\ packetBuffer' = [packetBuffer EXCEPT ![packetIdx] = b]
  /\ packetIdx' = packetIdx
  /\ arrived' = Append(arrived, b)

Store(b) ==
  /\ packetBuffer' = [packetBuffer EXCEPT ![packetIdx] = b]
  /\ packetIdx' = packetIdx + 1
  /\ arrived' = Append(arrived, b)

(* True one byte before the length has arrived. *)
HeaderStored(idx) == idx = HEADER_SIZE - 1

WaitingForHeader(b) ==
  /\ state = "HEADER"
  /\ Store(b)
  /\ state' = IF ~HeaderStored(packetIdx') THEN "HEADER"
              ELSE IF AtCrc(packetIdx', packetBuffer') THEN "CRC" ELSE "DATA"
  /\ Idle

\* Mutant of AtLimit: the buffer may be filled to its end and beyond.
AtLimit_never(idx) == idx < 0

AtLimit(idx) == idx >= MAX_PACKET_SIZE - 1

WaitingForData(b) ==
  /\ state = "DATA"
  /\ packetBuffer' = [packetBuffer EXCEPT ![packetIdx] = b]
  /\ packetIdx' = packetIdx + 1
  /\ state' = IF AtCrc(packetIdx', packetBuffer') THEN "CRC"
              ELSE IF AtLimit(packetIdx') THEN "START_1" ELSE "DATA"
  /\ arrived' = IF state' = "START_1" THEN <<>> ELSE Append(arrived, b)
  /\ Idle

WaitingForCrc(b) ==
  /\ state = "CRC"
  /\ packetBuffer' = [packetBuffer EXCEPT ![packetIdx] = b]
  /\ state' = "START_1"
  /\ arrived' = <<>>
  /\ UNCHANGED packetIdx
  /\ \E good \in checkPacket(packetBuffer') :
       \/ ~good /\ Idle
       \/ /\ good
          /\ packetType(packetBuffer') \notin DOMAIN InputLen
          /\ board' = "wild"
          /\ UNCHANGED <<inputBuf, endpoint, ran>>
       \/ /\ good
          /\ packetType(packetBuffer') \in DOMAIN InputLen
          /\ runPacket(packetBuffer')
          /\ IF packetType(packetBuffer') \in Halting
               THEN board' = "halted" /\ UNCHANGED endpoint
               ELSE sendResponse(packetBuffer') /\ UNCHANGED board

runCommsFSM(b) ==
  \/ WaitingForStart1(b)
  \/ WaitingForStart2(b)
  \/ WaitingForHeader(b)
  \/ WaitingForData(b)
  \/ WaitingForCrc(b)

(* The main loop takes one byte from the USB buffer. *)
Receive ==
  /\ board = "running" /\ sending = "no"
  /\ rest # <<>>
  /\ runCommsFSM(Head(rest))
  /\ rest' = Tail(rest)
  /\ UNCHANGED <<frame, clean, waited, answer>>

(***************************************************************************)
(* The USB IN endpoint: the FIFO interrupt copies the buffer as it then is; the *)
(* host collects it and USBD_CDC_DataIn frees the endpoint.                     *)
(***************************************************************************)
TxFifo ==
  /\ filling
  /\ filling' = FALSE
  /\ answer' = outPacket
  /\ UNCHANGED <<parser, inputBuf, outPacket, TxState, sending, board, host, ran>>

DataIn ==
  /\ TxState = 1
  /\ ~filling
  /\ TxState' = 0
  /\ UNCHANGED <<parser, inputBuf, outPacket, filling, sending, board, host, ran, answer>>

(* The host begins a frame. *)
HostFrame(f, isPacket) ==
  /\ board = "running"
  /\ rest = <<>>
  /\ rest' = f
  /\ clean' = (isPacket /\ state = "START_1" /\ packetLen(packetBuffer) # HEADER_SIZE)
  /\ frame' = IF clean' THEN f ELSE <<>>
  /\ waited' = (TxState = 0 /\ sending = "no")
  /\ ran' = <<>>
  /\ answer' = None
  /\ UNCHANGED <<parser, inputBuf, endpoint, board>>

Next ==
  \/ Receive
  \/ sendResponse_seqNumber
  \/ usbWrite
  \/ TxFifo
  \/ DataIn
  \/ \E p \in Packets : HostFrame(p, TRUE)
  \/ \E b \in Noise : HostFrame(<<b>>, FALSE)

Spec == Init /\ [][Next]_vars
-----------------------------------------------------------------------------

States == {"START_1", "START_2", "HEADER", "DATA", "CRC"}

(* Whatever bytes arrive, every store is inside packetBuffer: packetIdx stays   *)
(* below MAX_PACKET_SIZE for every value of the length byte.                     *)
TypeOK ==
  /\ state \in States
  /\ packetIdx \in Index
  /\ packetBuffer \in [Index -> Byte]
  /\ inputBuf \in [0 .. INPUT_SIZE - 1 -> Byte]
  /\ TxState \in {0, 1}
  /\ filling \in BOOLEAN
  /\ sending \in {"no", "seqNumber", "usbWrite"}
  /\ board \in {"running", "halted", "wild"}
  /\ clean \in BOOLEAN
  /\ waited \in BOOLEAN
  /\ rest \in Seq(Byte)
  /\ arrived \in Seq(Byte)

(* While a packet is being assembled the buffer holds the bytes received since  *)
(* its start byte, all of them and in order: no stale byte is part of it, and     *)
(* as packetIdx is bounded the parser is back at WAITING_FOR_START_1 after at     *)
(* most MAX_PACKET_SIZE bytes of anything.                                        *)
HoldsArrived ==
  /\ state # "START_1" => Len(arrived) = packetIdx
  /\ \A i \in 1 .. Len(arrived) : packetBuffer[i - 1] = arrived[i]

(* Where packetIdx stands in each state. *)
Progress ==
  /\ state = "START_2" => packetIdx = 1
  /\ state = "HEADER" => packetIdx \in 2 .. HEADER_SIZE - 2
  /\ state = "DATA" => packetIdx \in HEADER_SIZE - 1 .. MAX_PACKET_SIZE - 2
  /\ state = "CRC" => packetIdx \in HEADER_SIZE - 1 .. MAX_PACKET_SIZE - 1
  /\ state = "START_1" => arrived = <<>>

(* The inductive invariant of the parser. *)
IInv == TypeOK /\ HoldsArrived /\ Progress

(* A well-formed packet that reaches a parser waiting for a start byte is run    *)
(* exactly once, with its own data as the callback's argument when it carries     *)
(* as much as the callback takes.  The exception is a parser whose buffer still   *)
(* holds the length byte 5 (clean excludes it): it is read before the packet's    *)
(* own length has arrived.                                                        *)
CleanPacketRuns ==
  clean /\ rest = <<>> =>
    /\ Len(ran) = 1
    /\ ran[1].msgType = frame[3] /\ ran[1].seqNumber = frame[4]
    /\ Len(frame) - HEADER_SIZE - 1 >= Len(ran[1].args) =>
         ran[1].args = SubSeq(frame, HEADER_SIZE + 1, HEADER_SIZE + Len(ran[1].args))

(* The answer the host collects for such a packet carries its type and its        *)
(* sequence number, although it is sent from a buffer shared by all answers, and   *)
(* later than sendResponse returns.  The exception is a host that did not wait      *)
(* until no answer was under way (waited): the new answer is then stored over one    *)
(* that is still to be sent, which goes out changed or in part changed, and when      *)
(* TransmitPacket returns BUSY the new one is not sent.                               *)
AnswerMatches ==
  clean /\ waited /\ rest = <<>> /\ board = "running" /\ sending = "no" /\ TxState = 0 =>
    answer = [msgType |-> frame[3] + 1, seqNumber |-> frame[4]]

=============================================================================
