----------------------------- MODULE CommsProofs -----------------------------
(***************************************************************************)
(* runCommsFSM stays inside its packet buffer and assembles each packet from    *)
(* the bytes received since its start byte, for every buffer size, message       *)
(* table, checksum and stream of bytes; and it runs and answers the packets that *)
(* find it ready.                                                                *)
(***************************************************************************)
EXTENDS CommsFSM, TLAPS

(* Storing a byte at an index of the buffer keeps the buffer's type and does    *)
(* not touch the bytes before it.                                                *)
LEMMA StoreByte ==
  ASSUME NEW buf \in [Index -> Byte], NEW k \in Index, NEW b \in Byte
  PROVE  /\ [buf EXCEPT ![k] = b] \in [Index -> Byte]
         /\ [buf EXCEPT ![k] = b][k] = b
         /\ \A i \in Index : i # k => [buf EXCEPT ![k] = b][i] = buf[i]
  OBVIOUS

(***************************************************************************)
(* The parser's part of the invariant.                                          *)
(***************************************************************************)
ParserOK ==
  /\ state \in States
  /\ packetIdx \in Index
  /\ packetBuffer \in [Index -> Byte]
  /\ arrived \in Seq(Byte)
  /\ HoldsArrived
  /\ Progress

(* The inductive invariant holds throughout, for every buffer size, message      *)
(* table and checksum and whatever bytes the host sends.                          *)
THEOREM Invariance == Spec => []IInv

(* One byte taken by the main loop. *)
(* Where a byte is stored the buffer and the bytes received stay equal, and a   *)
(* state that suits the new index completes the parser's invariant.              *)
<1>Extended.
  ASSUME IInv, NEW b \in Byte, Len(arrived) = packetIdx,
         packetBuffer' = [packetBuffer EXCEPT ![packetIdx] = b],
         arrived' = Append(arrived, b),
         packetIdx' = packetIdx + 1
  PROVE  /\ packetBuffer' \in [Index -> Byte]
         /\ arrived' \in Seq(Byte)
         /\ HoldsArrived'
  <2> USE <1>Extended
  (* A byte appended both to the buffer, at packetIdx, and to the bytes received   *)
  (* keeps the two equal.                                                          *)
  <2>AppendByte.
    ASSUME NEW buf \in [Index -> Byte], NEW k \in Index, NEW byte \in Byte,
           NEW seq \in Seq(Byte), Len(seq) = k,
           \A i \in 1 .. Len(seq) : buf[i - 1] = seq[i]
    PROVE  /\ Append(seq, byte) \in Seq(Byte)
           /\ Len(Append(seq, byte)) = k + 1
           /\ \A i \in 1 .. Len(Append(seq, byte)) :
                 [buf EXCEPT ![k] = byte][i - 1] = Append(seq, byte)[i]
    <3> USE <2>AppendByte
    <3> USE CommsConstants DEF HEADER_SIZE
    <3>1. Append(seq, byte) \in Seq(Byte) /\ Len(Append(seq, byte)) = k + 1 /\ k \in Nat
      BY DEF Index
    <3>2. ASSUME NEW i \in 1 .. k + 1
          PROVE  [buf EXCEPT ![k] = byte][i - 1] = Append(seq, byte)[i]
      <4>1. i - 1 \in Index /\ i \in Nat
        BY <3>1, <3>2 DEF Index
      <4>2. CASE i = k + 1
        <5>1. i - 1 = k /\ Append(seq, byte)[i] = byte
          BY <3>1, <4>2
        <5> QED
          BY <5>1, StoreByte
      <4>3. CASE i # k + 1
        <5>1. i \in 1 .. Len(seq) /\ i - 1 # k
          BY <3>1, <3>2, <4>3
        <5>2. Append(seq, byte)[i] = seq[i] /\ seq[i] = buf[i - 1]
          BY <5>1
        <5> QED
          BY <4>1, <5>1, <5>2, StoreByte
      <4> QED
        BY <4>2, <4>3
    <3> QED
      BY <3>1, <3>2
  <2>1. /\ packetBuffer \in [Index -> Byte] /\ packetIdx \in Index
        /\ arrived \in Seq(Byte)
        /\ \A i \in 1 .. Len(arrived) : packetBuffer[i - 1] = arrived[i]
    BY DEF IInv, TypeOK, HoldsArrived
  <2> DEFINE buf == [packetBuffer EXCEPT ![packetIdx] = b]
             seq == Append(arrived, b)
  <2>4. /\ seq \in Seq(Byte) /\ Len(seq) = packetIdx + 1
        /\ \A i \in 1 .. Len(seq) : buf[i - 1] = seq[i]
    BY <2>1, <2>AppendByte
  <2> HIDE DEF buf, seq
  <2>5. packetBuffer' = buf /\ arrived' = seq
    BY DEF buf, seq
  <2>2. /\ arrived' \in Seq(Byte) /\ Len(arrived') = packetIdx'
        /\ \A i \in 1 .. Len(arrived') : packetBuffer'[i - 1] = arrived'[i]
    BY <2>4, <2>5, Zenon
  <2>3. packetBuffer' \in [Index -> Byte]
    BY <2>1
  <2> QED
    BY <2>2, <2>3 DEF HoldsArrived
<1>ReceiveStep.
  ASSUME IInv, Receive
  PROVE  IInv'
  <2> USE <1>ReceiveStep
  (* Back in WAITING_FOR_START_1 no byte has been received. *)
  <2>BackAtStart.
    ASSUME state' = "START_1", arrived' = <<>>, packetIdx' \in Index,
           packetBuffer' \in [Index -> Byte]
    PROVE  ParserOK'
    BY <2>BackAtStart DEF ParserOK, HoldsArrived, Progress, States

  (* The packet data staged for a callback are bytes of the packet buffer. *)
  <2>StagedInput.
    ASSUME TypeOK, NEW buf \in [Index -> Byte], runPacket(buf)
    PROVE  inputBuf' \in [0 .. INPUT_SIZE - 1 -> Byte]
    <3> USE <2>StagedInput
    <3> USE CommsConstants DEF HEADER_SIZE
    <3>1. \A i \in 0 .. INPUT_SIZE - 1 : HEADER_SIZE + i \in Index
      BY DEF Index
    <3> QED
      BY <3>1 DEF TypeOK, runPacket

  (* In WAITING_FOR_START_1 only the first start byte begins a packet. *)
  <2>Start1Step.
    ASSUME IInv, NEW b \in Byte, WaitingForStart1(b)
    PROVE  ParserOK'
    <3> USE <2>Start1Step
    <3> USE CommsConstants DEF HEADER_SIZE
    <3>1. state = "START_1" /\ packetBuffer \in [Index -> Byte] /\ arrived = <<>>
          /\ 0 \in Index /\ 1 \in Index /\ arrived \in Seq(Byte)
      BY DEF WaitingForStart1, IInv, TypeOK, Index, Progress
    <3>2. CASE b = START_BYTE_1
      <4>1. /\ state' = "START_2" /\ packetIdx' = 1 /\ arrived' = <<b>>
            /\ packetBuffer' = [packetBuffer EXCEPT ![0] = b]
        BY <3>2 DEF WaitingForStart1
      <4>2. packetBuffer' \in [Index -> Byte] /\ packetBuffer'[0] = b
        BY <3>1, <4>1, StoreByte
      <4>3. arrived' \in Seq(Byte) /\ Len(arrived') = 1 /\ arrived'[1] = b
        BY <4>1
      <4>4. HoldsArrived'
        BY <4>1, <4>2, <4>3 DEF HoldsArrived
      <4>5. Progress'
        BY <4>1 DEF Progress
      <4> QED
        BY <3>1, <4>1, <4>2, <4>3, <4>4, <4>5 DEF ParserOK, States
    <3>3. CASE b # START_BYTE_1
      <4>1. packetIdx' = 0 /\ UNCHANGED <<state, packetBuffer, arrived>>
        BY <3>3 DEF WaitingForStart1
      <4>2. HoldsArrived'
        BY <3>1, <4>1 DEF HoldsArrived
      <4>3. Progress'
        BY <3>1, <4>1 DEF Progress
      <4> QED
        BY <3>1, <4>1, <4>2, <4>3 DEF ParserOK, States
    <3> QED
      BY <3>2, <3>3

  (* In WAITING_FOR_START_2 the second start byte goes on, another byte goes back. *)
  <2>Start2Step.
    ASSUME IInv, NEW b \in Byte, WaitingForStart2(b)
    PROVE  ParserOK'
    <3> USE <2>Start2Step
    <3> USE CommsConstants DEF HEADER_SIZE
    <3>1. /\ state = "START_2" /\ packetIdx = 1 /\ Len(arrived) = packetIdx
          /\ packetBuffer \in [Index -> Byte] /\ 2 \in Index /\ 1 \in Index
      BY DEF WaitingForStart2, IInv, TypeOK, Index, Progress, HoldsArrived
    <3>2. CASE b = START_BYTE_2
      <4>1. /\ state' = "HEADER" /\ packetIdx' = 2 /\ arrived' = Append(arrived, b)
            /\ packetBuffer' = [packetBuffer EXCEPT ![1] = b]
        BY <3>2 DEF WaitingForStart2
      <4>2. packetIdx' = packetIdx + 1 /\ packetBuffer' = [packetBuffer EXCEPT ![packetIdx] = b]
        BY <3>1, <4>1
      <4>3. packetBuffer' \in [Index -> Byte] /\ arrived' \in Seq(Byte) /\ HoldsArrived'
        BY <3>1, <4>1, <4>2, <1>Extended, Zenon
      <4>4. Progress'
        BY <4>1 DEF Progress
      <4> QED
        BY <3>1, <4>1, <4>3, <4>4 DEF ParserOK, States
    <3>3. CASE b # START_BYTE_2
      BY <3>1, <3>3, <2>BackAtStart DEF WaitingForStart2
    <3> QED
      BY <3>2, <3>3

  (* In WAITING_FOR_HEADER three bytes are stored; the state is left before the  *)
  (* length byte has arrived, for the data or at once for the CRC.                *)
  <2>HeaderStep.
    ASSUME IInv, NEW b \in Byte, WaitingForHeader(b)
    PROVE  ParserOK'
    <3> USE <2>HeaderStep
    <3> USE CommsConstants DEF HEADER_SIZE
    <3>1. /\ state = "HEADER" /\ packetIdx \in 2 .. 3 /\ Len(arrived) = packetIdx
      BY DEF WaitingForHeader, IInv, Progress, HoldsArrived
    <3>2. /\ packetBuffer' = [packetBuffer EXCEPT ![packetIdx] = b]
          /\ arrived' = Append(arrived, b) /\ packetIdx' = packetIdx + 1
      BY DEF WaitingForHeader, Store
    <3>3. packetBuffer' \in [Index -> Byte] /\ arrived' \in Seq(Byte) /\ HoldsArrived'
      BY <3>1, <3>2, <1>Extended, Zenon
    <3>4. packetIdx' \in Index /\ packetIdx' \in 3 .. 4
      BY <3>1, <3>2 DEF Index
    <3>5. state' \in {"HEADER", "CRC", "DATA"} /\ (state' = "HEADER" <=> packetIdx' # 4)
      BY DEF WaitingForHeader, HeaderStored
    <3>6. Progress'
      BY <3>4, <3>5 DEF Progress
    <3> QED
      BY <3>3, <3>4, <3>5, <3>6 DEF ParserOK, States

  (* In WAITING_FOR_DATA the last index left for data is that before the end of   *)
  (* the buffer, whatever the length byte says.                                    *)
  <2>DataStep.
    ASSUME IInv, NEW b \in Byte, WaitingForData(b)
    PROVE  ParserOK'
    <3> USE <2>DataStep
    <3> USE CommsConstants DEF HEADER_SIZE
    <3>1. /\ state = "DATA" /\ packetIdx \in 4 .. MAX_PACKET_SIZE - 2
          /\ Len(arrived) = packetIdx
      BY DEF WaitingForData, IInv, Progress, HoldsArrived
    <3>2. /\ packetBuffer' = [packetBuffer EXCEPT ![packetIdx] = b]
          /\ packetIdx' = packetIdx + 1
      BY DEF WaitingForData
    <3>3. packetIdx' \in Index /\ packetIdx' \in 5 .. MAX_PACKET_SIZE - 1
      BY <3>1, <3>2 DEF Index
    <3>4. packetBuffer' \in [Index -> Byte]
      BY <3>2, StoreByte DEF IInv, TypeOK
    <3>5. CASE state' = "START_1"
      BY <3>3, <3>4, <3>5, <2>BackAtStart DEF WaitingForData
    <3>6. CASE state' # "START_1"
      <4>1. arrived' = Append(arrived, b)
        BY <3>6 DEF WaitingForData
      <4>2. arrived' \in Seq(Byte) /\ HoldsArrived'
        BY <3>1, <3>2, <4>1, <1>Extended, Zenon
      <4>3. state' \in {"CRC", "DATA"} /\ (state' = "DATA" => packetIdx' < MAX_PACKET_SIZE - 1)
        BY <3>3, <3>6 DEF WaitingForData, AtLimit
      <4>4. Progress'
        BY <3>3, <4>3 DEF Progress
      <4> QED
        BY <3>3, <3>4, <4>2, <4>3, <4>4 DEF ParserOK, States
    <3> QED
      BY <3>5, <3>6

  (* The CRC byte ends the packet, run or not. *)
  <2>CrcStep.
    ASSUME IInv, NEW b \in Byte, WaitingForCrc(b)
    PROVE  /\ ParserOK'
           /\ inputBuf' \in [0 .. INPUT_SIZE - 1 -> Byte]
           /\ TxState' \in {0, 1}
           /\ filling' \in BOOLEAN
           /\ sending' \in {"no", "seqNumber", "usbWrite"}
           /\ board' \in {"running", "halted", "wild"}
    <3> USE <2>CrcStep
    <3>1. /\ state' = "START_1" /\ arrived' = <<>> /\ packetIdx' = packetIdx
          /\ packetBuffer' = [packetBuffer EXCEPT ![packetIdx] = b]
      BY DEF WaitingForCrc
    <3>2. packetBuffer' \in [Index -> Byte] /\ packetIdx' \in Index
      BY <3>1, StoreByte DEF IInv, TypeOK
    <3>3. ParserOK'
      BY <3>1, <3>2, <2>BackAtStart
    <3>4. \/ Idle
          \/ board' = "wild" /\ UNCHANGED <<inputBuf, endpoint, ran>>
          \/ /\ runPacket(packetBuffer')
             /\ \/ board' = "halted" /\ UNCHANGED endpoint
                \/ sendResponse(packetBuffer') /\ UNCHANGED board
      BY Zenon DEF WaitingForCrc
    <3>5. /\ TypeOK /\ inputBuf \in [0 .. INPUT_SIZE - 1 -> Byte] /\ TxState \in {0, 1}
          /\ filling \in BOOLEAN /\ board \in {"running", "halted", "wild"}
          /\ sending \in {"no", "seqNumber", "usbWrite"}
      BY DEF IInv, TypeOK
    <3>6. inputBuf' \in [0 .. INPUT_SIZE - 1 -> Byte]
      BY <3>2, <3>4, <3>5, <2>StagedInput DEF Idle
    <3>7. TxState' = TxState /\ filling' = filling
      BY <3>4, Zenon DEF Idle, endpoint, sendResponse
    <3>8. sending' \in {"no", "seqNumber", "usbWrite"}
      BY <3>4, <3>5 DEF Idle, endpoint, sendResponse
    <3>9. board' \in {"running", "halted", "wild"}
      BY <3>4, <3>5 DEF Idle
    <3> QED
      BY <3>3, <3>5, <3>6, <3>7, <3>8, <3>9, Zenon
  <2> DEFINE b == Head(rest)
  <2>1. rest \in Seq(Byte) /\ rest # <<>>
    BY DEF IInv, TypeOK, Receive
  <2>2. b \in Byte /\ rest' \in Seq(Byte)
    BY <2>1 DEF Receive
  <2>3. clean' \in BOOLEAN /\ waited' \in BOOLEAN
    BY DEF Receive, IInv, TypeOK
  <2>4. runCommsFSM(b)
    BY DEF Receive
  <2>5. /\ TypeOK /\ inputBuf \in [0 .. INPUT_SIZE - 1 -> Byte] /\ TxState \in {0, 1}
        /\ filling \in BOOLEAN /\ board \in {"running", "halted", "wild"}
        /\ sending \in {"no", "seqNumber", "usbWrite"}
    BY DEF IInv, TypeOK
  <2> HIDE DEF b
  <2>6. /\ ParserOK'
        /\ inputBuf' \in [0 .. INPUT_SIZE - 1 -> Byte]
        /\ TxState' \in {0, 1}
        /\ filling' \in BOOLEAN
        /\ sending' \in {"no", "seqNumber", "usbWrite"}
        /\ board' \in {"running", "halted", "wild"}
    <3>1. ASSUME Idle
          PROVE  /\ inputBuf' \in [0 .. INPUT_SIZE - 1 -> Byte]
                 /\ TxState' \in {0, 1}
                 /\ filling' \in BOOLEAN
                 /\ sending' \in {"no", "seqNumber", "usbWrite"}
                 /\ board' \in {"running", "halted", "wild"}
      BY <2>5, <3>1 DEF Idle, endpoint
    <3>2. CASE WaitingForStart1(b)
      BY <2>2, <3>1, <3>2, <2>Start1Step DEF WaitingForStart1
    <3>3. CASE WaitingForStart2(b)
      BY <2>2, <3>1, <3>3, <2>Start2Step DEF WaitingForStart2
    <3>4. CASE WaitingForHeader(b)
      BY <2>2, <3>1, <3>4, <2>HeaderStep DEF WaitingForHeader
    <3>5. CASE WaitingForData(b)
      BY <2>2, <3>1, <3>5, <2>DataStep, Zenon DEF WaitingForData
    <3>6. CASE WaitingForCrc(b)
      BY <2>2, <3>6, <2>CrcStep
    <3> QED
      BY <2>4, <3>2, <3>3, <3>4, <3>5, <3>6 DEF runCommsFSM
  <2> QED
    BY <2>2, <2>3, <2>6 DEF ParserOK, IInv, TypeOK

(* The initial state: an empty parser, stale contents in the buffer. *)
<1>InitIInv. Init => IInv
  <2> SUFFICES ASSUME Init PROVE IInv
    OBVIOUS
  <2> USE CommsConstants DEF HEADER_SIZE
  <2>1. packetBuffer \in [Index -> Byte]
    BY DEF Init, Index
  <2>2. inputBuf \in [0 .. INPUT_SIZE - 1 -> Byte]
    BY DEF Init
  <2>3. 0 \in Index
    BY DEF Index
  <2>6. filling \in BOOLEAN /\ clean \in BOOLEAN /\ waited \in BOOLEAN
    BY Zenon DEF Init
  <2>7. rest \in Seq(Byte) /\ arrived \in Seq(Byte)
    BY DEF Init
  <2>4. TypeOK
    BY <2>1, <2>2, <2>3, <2>6, <2>7 DEF Init, TypeOK, States
  <2>5. HoldsArrived /\ Progress
    BY DEF Init, HoldsArrived, Progress
  <2> QED
    BY <2>4, <2>5 DEF IInv

(* sendResponse, the IN endpoint and the host leave the parser alone. *)
<1>ElsewhereStep.
  ASSUME IInv,
         \/ sendResponse_seqNumber \/ usbWrite \/ TxFifo \/ DataIn \/ UNCHANGED vars
         \/ \E p \in Packets : HostFrame(p, TRUE)
         \/ \E n \in Noise : HostFrame(<<n>>, FALSE)
  PROVE  IInv'
  <2> USE <1>ElsewhereStep
  <2>1. UNCHANGED <<state, packetIdx, packetBuffer, arrived, inputBuf, board>>
    BY DEF sendResponse_seqNumber, usbWrite, TxFifo, DataIn, HostFrame, vars, parser
  <2>2. rest' \in Seq(Byte)
    <3>1. rest \in Seq(Byte)
      BY DEF IInv, TypeOK
    <3>2. \A p \in Packets : p \in Seq(Byte)
      BY CommsConstants
    <3>3. \A n \in Noise : <<n>> \in Seq(Byte)
      BY CommsConstants
    <3> QED
      BY <3>1, <3>2, <3>3, Zenon
      DEF sendResponse_seqNumber, usbWrite, TxFifo, DataIn, HostFrame, vars, host
  <2>3. TxState' \in {0, 1} /\ sending' \in {"no", "seqNumber", "usbWrite"}
    BY DEF IInv, TypeOK, sendResponse_seqNumber, usbWrite, TransmitPacket, TxFifo, DataIn,
           HostFrame, vars, endpoint
  <2>4. filling' \in BOOLEAN
    <3>1. filling' = filling \/ filling' = TRUE \/ filling' = FALSE
      BY Zenon DEF sendResponse_seqNumber, usbWrite, TransmitPacket, TxFifo, DataIn, HostFrame,
                   vars, endpoint
    <3> QED
      BY <3>1, Zenon DEF IInv, TypeOK
  <2>5. clean' \in BOOLEAN /\ waited' \in BOOLEAN
    <3>1. CASE \E p \in Packets : HostFrame(p, TRUE)
      BY <3>1, Zenon DEF HostFrame
    <3>2. CASE \E n \in Noise : HostFrame(<<n>>, FALSE)
      BY <3>2, Zenon DEF HostFrame
    <3>3. CASE sendResponse_seqNumber \/ usbWrite \/ TxFifo \/ DataIn \/ UNCHANGED vars
      BY <3>3, Zenon DEF IInv, TypeOK, sendResponse_seqNumber, usbWrite, TxFifo, DataIn, vars, host
    <3> QED
      BY <3>1, <3>2, <3>3, Zenon
  <2>6. TypeOK'
    BY <2>1, <2>2, <2>3, <2>4, <2>5 DEF IInv, TypeOK
  <2>7. HoldsArrived' /\ Progress'
    BY <2>1 DEF IInv, HoldsArrived, Progress
  <2> QED
    BY <2>6, <2>7 DEF IInv
<1>1. IInv /\ [Next]_vars => IInv'
  BY <1>ReceiveStep, <1>ElsewhereStep, Zenon DEF Next
<1> QED
  BY <1>InitIInv, <1>1, PTL DEF Spec

(* While a packet is assembled the buffer holds exactly the bytes received since   *)
(* its start byte, in order, and every store of runCommsFSM is inside packetBuffer,  *)
(* for every value of the length byte.                                               *)
THEOREM AssemblesArrived == Spec => [](TypeOK /\ HoldsArrived)
<1>1. IInv => TypeOK /\ HoldsArrived
  BY DEF IInv
<1> QED
  BY <1>1, Invariance, PTL

(***************************************************************************)
(* A clean packet.                                                              *)
(***************************************************************************)
(* The checksum depends on the bytes it is taken of alone. *)
CrcOfPrefix ==
  \A b1, b2 \in [Index -> Byte] : \A n \in 0 .. MAX_PACKET_SIZE :
    (\A i \in 0 .. n - 1 : b1[i] = b2[i]) => Crc8(b1, n) = Crc8(b2, n)

(* The state of the parser after k bytes of a packet of n bytes. *)
StateAfter(k, n) ==
  CASE k = 0 -> "START_1" [] k = 1 -> "START_2" [] k \in 2 .. HEADER_SIZE - 2 -> "HEADER"
    [] k = HEADER_SIZE - 1 -> "DATA"
    [] k >= HEADER_SIZE -> IF k = n - 1 THEN "CRC" ELSE "DATA"

Taken == Len(frame) - Len(rest)

(* While the bytes of a clean packet arrive the parser has exactly the ones before    *)
(* them and has run nothing yet.                                                       *)
Arriving ==
  /\ ran = <<>>
  /\ state = StateAfter(Taken, Len(frame))
  /\ Taken > 0 => packetIdx = Taken
  /\ \A i \in 1 .. Taken : packetBuffer[i - 1] = frame[i]
  /\ Taken < HEADER_SIZE => packetLen(packetBuffer) # HEADER_SIZE

ItsAnswer == [msgType |-> frame[3] + 1, seqNumber |-> frame[4]]

(* The way of the answer, when none was under way before: it is stored before the       *)
(* endpoint is told to send it and stays as it is.                                       *)
Answering ==
  IF rest # <<>> THEN TxState = 0 /\ sending = "no"
  ELSE board = "running" =>
    /\ sending # "no" =>
         /\ TxState = 0
         /\ Response(packetBuffer) = ItsAnswer
         /\ outPacket.msgType = ItsAnswer.msgType
    /\ sending # "seqNumber" => outPacket = ItsAnswer
    /\ sending = "no" => filling \/ answer = ItsAnswer

CleanInv ==
  /\ filling => TxState = 1
  /\ clean =>
       /\ frame \in Packets
       /\ Len(rest) \in 0 .. Len(frame)
       /\ \A i \in 1 .. Len(rest) : rest[i] = frame[Taken + i]
       /\ rest # <<>> => Arriving
       /\ rest = <<>> => CleanPacketRuns
       /\ waited => Answering

(* comms.c: a well-formed packet that finds the parser waiting for a start byte is run    *)
(* exactly once and with its own data, and its answer carries its type and its sequence    *)
(* number when no other was under way: for every buffer size, message table and packet,    *)
(* whatever noise came before and wherever the USB interrupts come.                        *)
THEOREM CleanPackets ==
  ASSUME CrcOfPrefix
  PROVE  Spec => [](CleanPacketRuns /\ AnswerMatches)
<1>0. ASSUME NEW p \in Packets
      PROVE  /\ Len(p) \in HEADER_SIZE + 1 .. MAX_PACKET_SIZE
             /\ p[1] = START_BYTE_1 /\ p[2] = START_BYTE_2 /\ p[5] = Len(p)
             /\ p[3] % 2 = 0 /\ p[3] \div 2 \in DOMAIN InputLen
             /\ InputLen[p[3] \div 2] \in 0 .. INPUT_SIZE
  BY PacketsWellFormed, Zenon
<1> USE CommsConstants DEF HEADER_SIZE
<1>1. ASSUME NEW p \in Packets
      PROVE  /\ p \in Seq(Byte) /\ Len(p) \in Nat /\ Len(p) >= 6 /\ Len(p) <= MAX_PACKET_SIZE
             /\ p[1] = START_BYTE_1 /\ p[2] = START_BYTE_2 /\ p[5] = Len(p)
             /\ p[3] \in Nat /\ p[3] % 2 = 0 /\ p[3] \div 2 \in DOMAIN InputLen
             /\ InputLen[p[3] \div 2] \in Nat /\ InputLen[p[3] \div 2] <= INPUT_SIZE
  <2>1. p \in Seq(Byte) /\ Len(p) \in 6 .. MAX_PACKET_SIZE
    BY <1>0
  <2>2. p[3] \in Byte
    BY <2>1
  <2>3. p[3] \in Nat
    <3>1. Byte \subseteq 0 .. 255
      BY CommsConstants, Zenon
    <3>2. \A x \in Byte : x \in Nat
      BY <3>1
    <3> QED
      BY <2>2, <3>2, Zenon
  <2>4. \A n \in 0 .. INPUT_SIZE : n \in Nat /\ n <= INPUT_SIZE
    OBVIOUS
  <2>5. Len(p) \in Nat /\ Len(p) >= 6 /\ Len(p) <= MAX_PACKET_SIZE
    BY <2>1
  <2> QED
    BY <1>0, <2>1, <2>3, <2>4, <2>5, Zenon
<1>2. Init => CleanInv
  BY DEF Init, CleanInv
<1>3. IInv /\ CleanInv /\ [Next]_vars => CleanInv'
  <2> SUFFICES ASSUME IInv, CleanInv, [Next]_vars PROVE CleanInv'
    OBVIOUS
  <2>1. CASE \E p \in Packets : HostFrame(p, TRUE)
    <3>1. PICK p \in Packets : HostFrame(p, TRUE)
      BY <2>1, Zenon
    <3>2. /\ rest' = p /\ ran' = <<>>
          /\ clean' = (state = "START_1" /\ packetLen(packetBuffer) # HEADER_SIZE)
          /\ frame' = (IF clean' THEN p ELSE <<>>)
          /\ waited' => TxState = 0 /\ sending = "no"
          /\ UNCHANGED <<state, packetIdx, packetBuffer, TxState, filling, sending>>
      BY <3>1 DEF HostFrame, parser, endpoint
    <3>3. ASSUME clean' PROVE Arriving' /\ frame' = p /\ p # <<>> /\ Taken' = 0
      <4>1. state = "START_1" /\ packetLen(packetBuffer) # HEADER_SIZE /\ frame' = p
        BY <3>2, <3>3, Zenon
      <4>2. Taken' = 0 /\ p # <<>>
        BY <1>1, <3>2, <4>1 DEF Taken
      <4>3. StateAfter(0, Len(p)) = "START_1"
        BY DEF StateAfter
      <4> QED
        BY <3>2, <4>1, <4>2, <4>3 DEF Arriving, packetLen
    <3>4. ASSUME clean', waited' PROVE Answering'
      BY <3>2, <3>3, <3>4 DEF Answering
    <3> QED
      BY <1>1, <3>2, <3>3, <3>4 DEF CleanInv
  <2>2. CASE \E n \in Noise : HostFrame(<<n>>, FALSE)
    <3>1. clean' = FALSE /\ UNCHANGED <<TxState, filling>>
      BY <2>2, Zenon DEF HostFrame, endpoint
    <3> QED
      BY <3>1 DEF CleanInv
  (* What neither the parser nor the host does leaves the packet alone. *)
  <2>a. ASSUME UNCHANGED <<state, packetIdx, packetBuffer, rest, frame, clean, waited, ran>>,
               filling' => TxState' = 1,
               clean /\ waited => Answering'
        PROVE  CleanInv'
    <3>1. CleanPacketRuns' = CleanPacketRuns /\ Taken' = Taken
      BY <2>a DEF CleanPacketRuns, Taken
    <3>2. Arriving => Arriving'
      BY <2>a, <3>1 DEF Arriving, packetLen
    <3> QED
      BY <2>a, <3>1, <3>2 DEF CleanInv
  <2>3. CASE TxFifo \/ DataIn
    <3>1. /\ UNCHANGED <<state, packetIdx, packetBuffer, board, rest, frame, clean, waited, ran>>
          /\ UNCHANGED <<outPacket, sending>> /\ filling' = FALSE
          /\ filling => answer' = outPacket
          /\ ~filling => answer' = answer
          /\ TxState = 1
      BY <2>3 DEF TxFifo, DataIn, host, parser, CleanInv
    <3>2. ItsAnswer' = ItsAnswer
      BY <3>1 DEF ItsAnswer
    <3>3. ASSUME Answering PROVE Answering'
      BY <3>1, <3>2, <3>3 DEF Answering
    <3> QED
      BY <2>a, <3>1, <3>3 DEF CleanInv
  <2>7. CASE sendResponse_seqNumber \/ usbWrite
    <3>1. /\ UNCHANGED <<state, packetIdx, packetBuffer, board, rest, frame, clean, waited, ran>>
          /\ UNCHANGED answer /\ sending # "no"
      BY <2>7 DEF sendResponse_seqNumber, usbWrite, host, parser
    <3>2. ItsAnswer' = ItsAnswer /\ Response(packetBuffer)' = Response(packetBuffer)
      BY <3>1 DEF ItsAnswer, Response, packetType, msgType, seqNumber
    <3>3. CASE sendResponse_seqNumber
      <4>1. /\ sending' = "usbWrite" /\ UNCHANGED <<TxState, filling>>
            /\ outPacket' = [msgType |-> outPacket.msgType,
                             seqNumber |-> Response(packetBuffer).seqNumber]
        BY <3>3 DEF sendResponse_seqNumber
      <4>2. ASSUME Answering PROVE Answering'
        <5>1. ASSUME board = "running"
              PROVE  /\ rest = <<>> /\ TxState = 0 /\ Response(packetBuffer) = ItsAnswer
                     /\ outPacket' = ItsAnswer
          <6>1. /\ rest = <<>> /\ TxState = 0 /\ Response(packetBuffer) = ItsAnswer
                /\ outPacket.msgType = ItsAnswer.msgType
            BY <3>1, <4>2, <5>1 DEF Answering
          <6>2. outPacket' = [msgType |-> ItsAnswer.msgType, seqNumber |-> ItsAnswer.seqNumber]
            BY <4>1, <6>1, Zenon
          <6> QED
            BY <6>1, <6>2 DEF ItsAnswer
        <5>2. rest = <<>>
          BY <3>1, <4>2 DEF Answering
        <5> QED
          BY <3>1, <3>2, <4>1, <5>1, <5>2 DEF Answering
      <4> QED
        BY <2>a, <3>1, <4>1, <4>2 DEF CleanInv
    <3>4. CASE usbWrite
      <4>1. /\ sending = "usbWrite" /\ sending' = "no" /\ TxState' = 1 /\ UNCHANGED outPacket
            /\ TxState = 0 => filling' = TRUE
        BY <3>4 DEF usbWrite, TransmitPacket
      <4>2. ASSUME Answering PROVE Answering'
        BY <3>1, <3>2, <4>1, <4>2 DEF Answering
      <4> QED
        BY <2>a, <3>1, <4>1, <4>2 DEF CleanInv
    <3> QED
      BY <2>7, <3>3, <3>4
  <2>4. CASE Receive /\ ~clean
    <3>1. clean' = FALSE
      BY <2>4 DEF Receive, IInv, TypeOK
    <3>2. filling' => TxState' = 1
      BY <2>4, Zenon DEF Receive, runCommsFSM, WaitingForStart1, WaitingForStart2, WaitingForHeader,
                  WaitingForData, WaitingForCrc, Idle, endpoint, sendResponse, CleanInv
    <3> QED
      BY <3>1, <3>2 DEF CleanInv
  <2>5. CASE Receive /\ clean
    <3>1. PICK p \in Packets, k \in Nat, b \in Byte :
            p = frame /\ k = Taken /\ b = Head(rest) /\ k < Len(p)
      <4>1. frame \in Packets /\ Len(rest) \in 0 .. Len(frame) /\ rest # <<>> /\ rest \in Seq(Byte)
        BY <2>5 DEF CleanInv, Receive, IInv, TypeOK
      <4>2. Len(rest) > 0 /\ Len(frame) \in Nat
        BY <1>1, <4>1
      <4>3. Taken \in Nat /\ Taken < Len(frame)
        BY <4>1, <4>2 DEF Taken
      <4>4. Head(rest) \in Byte
        BY <4>1
      <4> QED
        BY <4>1, <4>3, <4>4, Zenon
    <3>2. /\ runCommsFSM(b) /\ frame' = p /\ clean' = clean /\ waited' = waited
          /\ rest' = Tail(rest) /\ board = "running"
      BY <2>5, <3>1 DEF Receive
    <3>3. /\ Len(rest') = Len(rest) - 1 /\ Len(rest) = Len(p) - k /\ b = p[k + 1]
          /\ \A i \in 1 .. Len(rest') : rest'[i] = p[(k + 1) + i]
      <4>1. /\ rest \in Seq(Byte) /\ rest # <<>> /\ Len(rest) = Len(p) - k
            /\ \A i \in 1 .. Len(rest) : rest[i] = p[k + i]
        <5>1. rest \in Seq(Byte) /\ rest # <<>>
          BY <2>5 DEF Receive, IInv, TypeOK
        <5>2. Len(rest) = Len(p) - k
          BY <1>1, <3>1, <5>1 DEF Taken
        <5> QED
          BY <2>5, <3>1, <5>1, <5>2 DEF CleanInv
      <4>2. b = rest[1] /\ Len(rest) >= 1 /\ Len(rest) \in Nat
        BY <3>1, <4>1
      <4>3. /\ Tail(rest) \in Seq(Byte) /\ Len(Tail(rest)) = Len(rest) - 1
            /\ \A i \in 1 .. Len(Tail(rest)) : Tail(rest)[i] = rest[i + 1]
        BY <4>1
      <4>4. \A i \in 1 .. Len(Tail(rest)) : Tail(rest)[i] = p[(k + 1) + i]
        <5> TAKE i \in 1 .. Len(Tail(rest))
        <5>1. i \in Nat /\ i + 1 \in 1 .. Len(rest) /\ k + (i + 1) = (k + 1) + i
          BY <4>2, <4>3
        <5>2. rest[i + 1] = p[k + (i + 1)]
          BY <4>1, <5>1, Zenon
        <5> QED
          BY <4>3, <5>1, <5>2
      <4> QED
        BY <3>2, <4>1, <4>2, <4>3, <4>4
    <3>4. /\ ran = <<>> /\ (waited => TxState = 0 /\ sending = "no") /\ (filling => TxState = 1)
          /\ state = StateAfter(k, Len(p))
          /\ k > 0 => packetIdx = k
          /\ \A i \in 1 .. k : packetBuffer[i - 1] = p[i]
          /\ k < HEADER_SIZE => packetBuffer[4] # HEADER_SIZE
      <4>1. Arriving
        BY <2>5 DEF CleanInv, Receive
      <4> QED
        BY <2>5, <3>1, <4>1 DEF Arriving, packetLen, CleanInv, Answering, Receive
    <3>5. /\ Len(p) \in Nat /\ Len(p) >= 6 /\ Len(p) <= MAX_PACKET_SIZE
          /\ p[1] = START_BYTE_1 /\ p[2] = START_BYTE_2 /\ p[5] = Len(p)
      BY <1>1
    <3>6. packetBuffer \in [Index -> Byte] /\ k \in Index /\ b \in Byte
      <4>1. k \in Index
        BY <3>1, <3>5 DEF Index
      <4>2. k + 1 \in 1 .. Len(p)
        BY <3>1, <3>5
      <4>3. p[k + 1] \in Byte
        BY <1>1, <4>2
      <4> QED
        BY <3>3, <4>1, <4>3 DEF IInv, TypeOK
    (* The byte is stored behind the ones before it. *)
    <3>7. ASSUME packetBuffer' = [packetBuffer EXCEPT ![k] = b]
          PROVE  /\ \A i \in 1 .. k + 1 : packetBuffer'[i - 1] = p[i]
                 /\ k < HEADER_SIZE - 1 => packetBuffer'[4] # HEADER_SIZE
                 /\ k >= HEADER_SIZE - 1 => packetBuffer'[4] = Len(p)
      <4>0. \A i \in Index : packetBuffer'[i] = (IF i = k THEN b ELSE packetBuffer[i])
        BY <3>6, <3>7, StoreByte
      <4>1. ASSUME NEW i \in 1 .. k + 1 PROVE packetBuffer'[i - 1] = p[i]
        <5>1. i - 1 \in Index
          BY <3>6 DEF Index
        <5>2. CASE i = k + 1
          BY <3>3, <3>6, <4>0, <5>1, <5>2
        <5>3. CASE i # k + 1
          <6>1. i \in 1 .. k /\ i - 1 # k
            BY <3>1, <5>3
          <6> QED
            BY <3>4, <4>0, <5>1, <6>1
        <5> QED
          BY <5>2, <5>3
      <4>2. 4 \in Index
        BY <3>5 DEF Index
      <4>3. ASSUME k < HEADER_SIZE - 1 PROVE packetBuffer'[4] # HEADER_SIZE
        BY <3>1, <3>4, <4>0, <4>2, <4>3
      <4>4. ASSUME k >= HEADER_SIZE - 1 PROVE packetBuffer'[4] = Len(p)
        <5>1. 5 \in 1 .. k + 1 /\ 5 - 1 = 4
          BY <3>1, <4>4
        <5>2. packetBuffer'[5 - 1] = p[5]
          BY <4>1, <5>1
        <5> QED
          BY <3>5, <5>1, <5>2
      <4> QED
        BY <4>1, <4>3, <4>4
    (* The packet goes on. *)
    <3>8. ASSUME k + 1 < Len(p), packetBuffer' = [packetBuffer EXCEPT ![k] = b],
                 packetIdx' = k + 1, state' = StateAfter(k + 1, Len(p)), Idle
          PROVE  CleanInv'
      <4>1. Taken' = k + 1 /\ rest' # <<>> /\ Len(rest') \in 0 .. Len(p)
        <5>1. Len(rest') = Len(p) - (k + 1) /\ Len(rest') > 0
          BY <3>1, <3>3, <3>5, <3>8
        <5>2. Taken' = Len(p) - Len(rest')
          BY <3>2 DEF Taken
        <5>3. rest' # <<>>
          BY <5>1
        <5> QED
          BY <3>1, <3>5, <5>1, <5>2, <5>3
      <4>2. ran' = <<>> /\ UNCHANGED <<TxState, filling, sending>>
        BY <3>4, <3>8 DEF Idle, endpoint
      <4>3. Arriving'
        BY <3>1, <3>2, <3>7, <3>8, <4>1, <4>2 DEF Arriving, packetLen
      <4>4. waited' => Answering'
        BY <3>2, <3>4, <4>1, <4>2 DEF Answering
      <4> QED
        BY <3>2, <3>3, <3>4, <4>1, <4>2, <4>3, <4>4 DEF CleanInv
    <3>9. ASSUME NEW s, state = s
          PROVE  /\ s = "START_1" => WaitingForStart1(b)
                 /\ s = "START_2" => WaitingForStart2(b)
                 /\ s = "HEADER" => WaitingForHeader(b)
                 /\ s = "DATA" => WaitingForData(b)
                 /\ s = "CRC" => WaitingForCrc(b)
      BY <3>2, <3>9 DEF runCommsFSM, WaitingForStart1, WaitingForStart2, WaitingForHeader,
                        WaitingForData, WaitingForCrc
    <3>10. CASE k = 0
      <4>1. state = "START_1" /\ StateAfter(k + 1, Len(p)) = "START_2" /\ b = START_BYTE_1
        BY <3>3, <3>4, <3>5, <3>10 DEF StateAfter
      <4>2. WaitingForStart1(b)
        BY <3>9, <4>1
      <4> QED
        BY <3>5, <3>8, <3>10, <4>1, <4>2 DEF WaitingForStart1
    <3>11. CASE k = 1
      <4>1. state = "START_2" /\ StateAfter(k + 1, Len(p)) = "HEADER" /\ b = START_BYTE_2
        BY <3>3, <3>4, <3>5, <3>11 DEF StateAfter
      <4>2. WaitingForStart2(b)
        BY <3>9, <4>1
      <4> QED
        BY <3>5, <3>8, <3>11, <4>1, <4>2 DEF WaitingForStart2
    <3>12. CASE k \in {2, 3}
      <4>1. state = "HEADER" /\ packetIdx = k /\ k + 1 < Len(p)
        BY <3>4, <3>5, <3>12 DEF StateAfter
      <4>2. WaitingForHeader(b)
        BY <3>9, <4>1
      <4>3. /\ packetBuffer' = [packetBuffer EXCEPT ![k] = b] /\ packetIdx' = k + 1 /\ Idle
            /\ state' = (IF k + 1 # HEADER_SIZE - 1 THEN "HEADER"
                         ELSE IF k + 1 = packetBuffer'[4] - 1 THEN "CRC" ELSE "DATA")
        BY <4>1, <4>2 DEF WaitingForHeader, Store, HeaderStored, AtCrc, packetLen
      <4>4. packetBuffer'[4] \in Int /\ packetBuffer'[4] # HEADER_SIZE
        <5>1. packetBuffer' \in [Index -> Byte] /\ 4 \in Index
          BY <3>5, <3>6, <4>3 DEF Index
        <5>2. packetBuffer'[4] \in Byte
          BY <5>1, Zenon
        <5>3. \A x \in Byte : x \in Int
          BY CommsConstants
        <5>4. packetBuffer'[4] # HEADER_SIZE
          BY <3>7, <3>12, <4>3
        <5> QED
          BY <5>2, <5>3, <5>4, Zenon
      <4>5. state' = StateAfter(k + 1, Len(p))
        BY <3>12, <4>3, <4>4 DEF StateAfter
      <4> QED
        BY <3>8, <4>1, <4>3, <4>5
    <3>13. CASE k >= HEADER_SIZE - 1 /\ k + 1 < Len(p)
      <4>1. state = "DATA" /\ packetIdx = k
        BY <3>1, <3>4, <3>5, <3>13 DEF StateAfter
      <4>2. WaitingForData(b)
        BY <3>9, <4>1
      <4>3. /\ packetBuffer' = [packetBuffer EXCEPT ![k] = b] /\ packetIdx' = k + 1 /\ Idle
            /\ state' = (IF k + 1 = packetBuffer'[4] - 1 THEN "CRC"
                         ELSE IF k + 1 >= MAX_PACKET_SIZE - 1 THEN "START_1" ELSE "DATA")
        BY <4>1, <4>2 DEF WaitingForData, AtCrc, AtLimit, packetLen
      <4>4. packetBuffer'[4] = Len(p)
        BY <3>7, <3>13, <4>3
      <4>5. state' = StateAfter(k + 1, Len(p))
        <5>1. k \in Nat /\ k >= 4 /\ k + 1 <= Len(p) - 1 /\ Len(p) - 1 <= MAX_PACKET_SIZE - 1
          BY <3>1, <3>5, <3>13
        <5>2. CASE k + 1 = Len(p) - 1
          BY <4>3, <4>4, <5>1, <5>2 DEF StateAfter
        <5>3. CASE k + 1 # Len(p) - 1
          <6>1. ~(k + 1 >= MAX_PACKET_SIZE - 1)
            BY <3>5, <5>1, <5>3
          <6> QED
            BY <4>3, <4>4, <5>1, <5>3, <6>1 DEF StateAfter
        <5> QED
          BY <5>2, <5>3
      <4> QED
        BY <3>8, <3>13, <4>3, <4>5
    (* The checksum: the packet is run and answered. *)
    <3>14. CASE k >= HEADER_SIZE - 1 /\ k + 1 = Len(p)
      <4>1. state = "CRC" /\ packetIdx = k
        BY <3>1, <3>4, <3>5, <3>14 DEF StateAfter
      <4>2. WaitingForCrc(b)
        BY <3>9, <4>1
      <4>3. packetBuffer' = [packetBuffer EXCEPT ![k] = b]
        BY <4>1, <4>2 DEF WaitingForCrc
      <4>4. PICK buf \in [Index -> Byte] : buf = packetBuffer'
        BY <3>6, <4>3, StoreByte
      <4>5. \A i \in 1 .. Len(p) : buf[i - 1] = p[i]
        BY <3>7, <3>14, <4>3, <4>4
      <4>6. buf[2] = p[3] /\ buf[3] = p[4] /\ buf[4] = Len(p)
        <5>1. 3 \in 1 .. Len(p) /\ 4 \in 1 .. Len(p) /\ 3 - 1 = 2 /\ 4 - 1 = 3
          BY <3>5
        <5>2. buf[3 - 1] = p[3] /\ buf[4 - 1] = p[4]
          BY <4>5, <5>1
        <5> QED
          BY <3>7, <3>14, <4>3, <4>4, <5>1, <5>2
      <4>7. checkPacket(buf) = {TRUE}
        <5>1. PICK own : own = [i \in Index |-> IF i < Len(p) THEN p[i + 1] ELSE 0]
          BY Zenon
        <5>2. Crc8(own, Len(p)) = 0
          BY <5>1, PacketsWellFormed, Zenon
        <5>3. own \in [Index -> Byte]
          <6>1. 0 \in Byte
            BY CommsConstants
          <6>2. ASSUME NEW i \in Index, i < Len(p) PROVE p[i + 1] \in Byte
            <7>1. i + 1 \in 1 .. Len(p) /\ p \in Seq(Byte)
              BY <1>1, <6>2 DEF Index
            <7> QED
              BY <7>1
          <6> QED
            BY <5>1, <6>1, <6>2
        <5>4. ASSUME NEW i \in 0 .. Len(p) - 1 PROVE buf[i] = own[i]
          <6>1. i \in Index /\ i < Len(p) /\ i + 1 \in 1 .. Len(p) /\ (i + 1) - 1 = i
            BY <3>5 DEF Index
          <6>2. buf[(i + 1) - 1] = p[i + 1]
            BY <4>5, <6>1, Zenon
          <6> QED
            BY <5>1, <6>1, <6>2
        <5>5. Crc8(buf, Len(p)) = 0
          <6>1. Len(p) \in 0 .. MAX_PACKET_SIZE
            BY <3>5
          <6> QED
            BY <4>4, <5>2, <5>3, <5>4, <6>1, Zenon DEF CrcOfPrefix
        <5> QED
          BY <3>5, <4>6, <5>5, Zenon DEF checkPacket, packetLen
      <4>8. packetType(buf) = p[3] \div 2 /\ packetType(buf) \in DOMAIN InputLen
        BY <1>1, <4>6 DEF packetType, msgType
      <4>9. /\ runPacket(buf)
            /\ IF packetType(buf) \in Halting
                 THEN board' = "halted" /\ UNCHANGED endpoint
                 ELSE sendResponse(buf) /\ UNCHANGED board
        <5>1. PICK good \in checkPacket(buf) :
                \/ ~good /\ Idle
                \/ /\ good
                   /\ packetType(buf) \notin DOMAIN InputLen
                   /\ board' = "wild"
                   /\ UNCHANGED <<inputBuf, endpoint, ran>>
                \/ /\ good
                   /\ packetType(buf) \in DOMAIN InputLen
                   /\ runPacket(buf)
                   /\ IF packetType(buf) \in Halting
                        THEN board' = "halted" /\ UNCHANGED endpoint
                        ELSE sendResponse(buf) /\ UNCHANGED board
          BY <4>2, <4>4, Zenon DEF WaitingForCrc
        <5>2. good = TRUE
          BY <4>7, <5>1
        <5> QED
          BY <4>8, <5>1, <5>2, Zenon
      <4>10. rest' = <<>> /\ Len(rest') = 0 /\ Taken' = Len(p)
        <5>1. Len(rest') = 0 /\ rest' \in Seq(Byte)
          <6>1. rest' \in Seq(Byte)
            BY <2>5, <3>2 DEF Receive, IInv, TypeOK
          <6> QED
            BY <3>1, <3>3, <3>5, <3>14, <6>1
        <5> QED
          BY <3>2, <3>5, <5>1 DEF Taken
      <4>11. CleanPacketRuns'
        <5>1. PICK m \in Nat : m = InputLen[packetType(buf)] /\ m <= INPUT_SIZE
          BY <1>1, <4>8
        <5>2. PICK args : args = [i \in 1 .. m |-> inputBuf'[i - 1]]
          BY Zenon
        <5>3. PICK call : call = [msgType |-> p[3], seqNumber |-> p[4], args |-> args]
          BY Zenon
        <5>4. ran' = <<call>>
          <6>1. ran' = Append(<<>>, call)
            BY <3>4, <4>6, <4>9, <5>1, <5>2, <5>3, Zenon DEF runPacket, msgType, seqNumber
          <6> QED
            BY <6>1
        <5>5. Len(args) = m
          BY <5>2
        <5>6. ASSUME Len(p) - HEADER_SIZE - 1 >= m
              PROVE  args = SubSeq(p, HEADER_SIZE + 1, HEADER_SIZE + m)
          <6>1. bytesToCopy(buf) = m
            <7>1. buf[4] \in Byte /\ Byte \subseteq 0 .. 255
              <8>1. 4 \in Index
                BY <3>5 DEF Index
              <8> QED
                BY <4>4, <8>1
            <7>2. Len(p) <= 255
              <8>1. \A x \in Byte : x <= 255
                BY <7>1
              <8> QED
                BY <4>6, <7>1, <8>1
            <7>3. (Len(p) - HEADER_SIZE - 1) % 256 = Len(p) - HEADER_SIZE - 1
              <8>1. Len(p) - HEADER_SIZE - 1 \in Nat /\ Len(p) - HEADER_SIZE - 1 < 256
                BY <3>5, <7>2
              <8>2. ASSUME NEW d \in Nat, d < 256 PROVE d % 256 = d
                BY ONLY <8>2
              <8> QED
                BY <8>1, <8>2, Zenon
            <7>4. dataLen(buf) = Len(p) - HEADER_SIZE - 1
              BY <4>6, <7>3 DEF dataLen, packetLen
            <7> QED
              BY <3>5, <5>1, <5>6, <7>4 DEF bytesToCopy, Least
          <6>2. ASSUME NEW i \in 1 .. m PROVE args[i] = p[HEADER_SIZE + i]
            <7>1. args[i] = inputBuf'[i - 1]
              BY <5>2
            <7>2. DOMAIN inputBuf = 0 .. INPUT_SIZE - 1 /\ i - 1 \in 0 .. INPUT_SIZE - 1 /\ i - 1 < m
              BY <5>1 DEF IInv, TypeOK
            <7>3. inputBuf'[i - 1] = buf[HEADER_SIZE + (i - 1)]
              BY <4>9, <6>1, <7>2 DEF runPacket
            <7>4. HEADER_SIZE + i \in 1 .. Len(p) /\ (HEADER_SIZE + i) - 1 = HEADER_SIZE + (i - 1)
              BY <3>5, <5>6
            <7>5. buf[(HEADER_SIZE + i) - 1] = p[HEADER_SIZE + i]
              BY <4>5, <7>4, Zenon
            <7> QED
              BY <7>1, <7>3, <7>4, <7>5
          <6>3. SubSeq(p, HEADER_SIZE + 1, HEADER_SIZE + m) = [i \in 1 .. m |-> p[HEADER_SIZE + i]]
            BY <1>1
          <6> QED
            BY <5>2, <6>2, <6>3
        <5>7. /\ Len(ran') = 1 /\ ran'[1] = call /\ call.msgType = p[3] /\ call.seqNumber = p[4]
              /\ call.args = args
          BY <5>3, <5>4
        <5> QED
          BY <3>2, <5>5, <5>6, <5>7 DEF CleanPacketRuns
      <4>a. /\ frame' \in Packets /\ Len(rest') \in 0 .. Len(frame') /\ rest' = <<>>
            /\ \A i \in 1 .. Len(rest') : rest'[i] = frame'[Taken' + i]
        <5>1. 1 .. Len(rest') = {} /\ Len(rest') \in 0 .. Len(p)
          BY <3>5, <4>10
        <5> QED
          BY <3>2, <4>10, <5>1
      <4>12. ItsAnswer' = [msgType |-> p[3] + 1, seqNumber |-> p[4]]
        BY <3>2 DEF ItsAnswer
      <4>13. CASE packetType(buf) \in Halting
        <5>1. board' = "halted" /\ filling' = filling /\ TxState' = TxState
          BY <4>9, <4>13 DEF endpoint
        <5>2. Answering'
          BY <4>a, <5>1 DEF Answering
        <5> QED
          BY <3>4, <4>a, <4>11, <5>1, <5>2 DEF CleanInv
      <4>14. CASE packetType(buf) \notin Halting
        <5>1. /\ UNCHANGED <<TxState, filling>> /\ sending' = "seqNumber"
              /\ outPacket' = [msgType |-> Response(buf).msgType, seqNumber |-> outPacket.seqNumber]
          BY <4>9, <4>14 DEF sendResponse
        <5>2. Response(buf) = [msgType |-> p[3] + 1, seqNumber |-> p[4]]
          <6>1. 2 * (p[3] \div 2) + 1 = p[3] + 1
            BY <1>1
          <6> QED
            BY <4>6, <4>8, <6>1 DEF Response, seqNumber
        <5>3. Response(packetBuffer)' = ItsAnswer' /\ outPacket'.msgType = ItsAnswer'.msgType
          <6>1. Response(packetBuffer)' = Response(buf)
            BY <4>4 DEF Response, packetType, msgType, seqNumber
          <6> QED
            BY <4>12, <5>1, <5>2, <6>1
        <5>4. waited' => Answering'
          BY <3>2, <3>4, <4>a, <5>1, <5>3 DEF Answering
        <5> QED
          BY <3>4, <4>a, <4>11, <5>1, <5>4 DEF CleanInv
      <4> QED
        BY <4>13, <4>14
    <3> QED
      <4>1. k + 1 <= Len(p)
        BY <3>1, <3>5
      <4> QED
        BY <3>1, <3>5, <3>10, <3>11, <3>12, <3>13, <3>14, <4>1
  <2>6. CASE UNCHANGED vars
    <3>1. /\ UNCHANGED <<state, packetIdx, packetBuffer, outPacket, TxState, filling, sending>>
          /\ UNCHANGED <<board, rest, frame, clean, waited, ran, answer>>
      BY <2>6 DEF vars, parser, endpoint, host
    <3>2. ItsAnswer' = ItsAnswer /\ Response(packetBuffer)' = Response(packetBuffer)
      BY <3>1 DEF ItsAnswer, Response, packetType, msgType, seqNumber
    <3>3. Answering => Answering'
      BY <3>1, <3>2 DEF Answering
    <3> QED
      BY <2>a, <3>1, <3>3 DEF CleanInv
  <2> QED
    BY <2>1, <2>2, <2>3, <2>4, <2>5, <2>6, <2>7, Zenon DEF Next
<1>4. CleanInv => CleanPacketRuns /\ AnswerMatches
  <2>1. ASSUME CleanInv, clean, rest = <<>> PROVE CleanPacketRuns
    BY <2>1 DEF CleanInv
  <2>2. ASSUME CleanInv, clean, waited, rest = <<>>, board = "running", sending = "no", TxState = 0
        PROVE  answer = ItsAnswer
    BY <2>2 DEF CleanInv, Answering
  <2> QED
    BY <2>1, <2>2 DEF CleanPacketRuns, AnswerMatches, ItsAnswer
<1> QED
  BY <1>2, <1>3, <1>4, Invariance, PTL DEF Spec

=============================================================================
