------------------------------ MODULE SpiProofs ------------------------------
(***************************************************************************)
(* The SPI link runs every message once and in order and returns each answer to    *)
(* its own transaction, for all message tables, data and numbers of messages and    *)
(* whatever waits time out.                                                         *)
(***************************************************************************)
EXTENDS SpiLink, TLAPS

(***************************************************************************)
(* What the slave's queue holds.  runCommsFSM's progress is a number, its phase:    *)
(* 0 between messages, -1 when a type is due, otherwise the data bytes still due.   *)
(***************************************************************************)
Values == Types \cup {START} \cup DataBytes \cup DummyBytes
Bytes == Values \X (0 .. MaxMessages)

(* Byte b takes the parser from phase p and message m to phase q and message n. *)
Taken(p, m, b, q, n) ==
  /\ p = -1 => b[1] \in Types
  /\ q = IF p = -1 THEN RxLength[b[1]]
         ELSE IF p > 0 THEN p - 1
         ELSE IF b[1] = START THEN -1 ELSE 0
  /\ n = IF p = 0 /\ b[1] = START THEN m + 1 ELSE m
  /\ b[2] = n

(* The bytes take it from p and m to q and n, in phases ph and messages nm; message k *)
(* has type t.  A message that has ended does not go on.                              *)
FeedVia(bytes, p, m, q, n, k, t, ph, nm) ==
  /\ ph[0] = p /\ nm[0] = m /\ ph[Len(bytes)] = q /\ nm[Len(bytes)] = n
  /\ \A i \in 1 .. Len(bytes) :
       /\ Taken(ph[i - 1], nm[i - 1], bytes[i], ph[i], nm[i])
       /\ ph[i - 1] = -1 /\ nm[i] = k => bytes[i][1] = t
  /\ \A i, j \in 0 .. Len(bytes) : i <= j =>
       nm[i] <= nm[j] /\ (ph[i] = 0 /\ nm[i] = nm[j] => ph[j] = 0)

Feed(bytes, p, m, q, n, k, t) ==
  \E ph \in [0 .. Len(bytes) -> Int], nm \in [0 .. Len(bytes) -> Int] :
    FeedVia(bytes, p, m, q, n, k, t, ph, nm)

(* A restart is answered before it is run. *)
Pending ==
  \/ slave = "callback"
  \/ slave \in {"raise", "drain", "bootload"} /\ msgType[1] = BOOT_MSG

ParserPhase == IF state = "START_BYTE" THEN 0
               ELSE IF state = "MSG_TYPE" THEN -1 ELSE RxLength[msgType[1]] - Len(args)
Begun == Len(executed) + (IF state # "START_BYTE" \/ Pending THEN 1 ELSE 0)

MasterPhase == IF master = "type" THEN -1 ELSE IF master = "data" THEN RxLength[msg] - count ELSE 0
Sent == IF master = "start" THEN number - 1 ELSE number

(* The queue leads from where the slave's parser is to where the master is. *)
Queued == Feed(rx, ParserPhase, Begun, MasterPhase, Sent, number, msg)

(***************************************************************************)
(* Types.                                                                       *)
(***************************************************************************)
AnswerBytes == ({"status"} \X (0 .. MaxMessages)) \cup ({"answer"} \X (0 .. MaxMessages) \X Nat)
Numbered == Bytes \cup AnswerBytes \cup {None}

MasterOK ==
  /\ master \in {"idle", "start", "type", "data", "wait", "status", "receive", "release"}
  /\ msg \in Types
  /\ count \in Nat /\ (master \in {"start", "type"} => count = 0)
  /\ master = "data" => count < RxLength[msg]
  /\ number \in 0 .. MaxMessages /\ (master # "idle" => number > 0)
  /\ status \in Numbered /\ buff \in Seq(Numbered)
  /\ master \in {"start", "type", "data", "wait", "status"} => buff = <<>>

FlagsOK == late \in BOOLEAN /\ rested \in BOOLEAN /\ strayStart \in BOOLEAN

SlaveOK ==
  /\ rx \in Seq(Bytes) /\ tx \in Seq(AnswerBytes)
  /\ INT \in {0, 1}
  /\ slave \in {"poll", "callback", "raise", "drain", "bootload", "restart"}
  /\ state \in {"START_BYTE", "MSG_TYPE", "DATA"}
  /\ msgType \in Bytes \cup {None} /\ args \in Seq(Bytes)
  /\ executed \in Seq([type : Bytes \cup {None}, args : Seq(Bytes)])

(* The type runCommsFSM took has a callback, and its data is not complete before its end. *)
FramedOK ==
  /\ state = "DATA" \/ slave \notin {"poll", "restart"} => msgType[1] \in Types
  /\ state = "DATA" => Len(args) < RxLength[msgType[1]]
  /\ slave # "poll" => state = "START_BYTE"

Typed == MasterOK /\ FlagsOK /\ SlaveOK /\ FramedOK

(***************************************************************************)
(* The message the slave is at: its number, its type, its data.                  *)
(***************************************************************************)
ParsedType ==
  /\ slave # "poll" => state = "START_BYTE"
  /\ state = "DATA" \/ slave \notin {"poll", "restart"} => msgType[1] \in Types
  /\ slave = "bootload" => msgType[1] = BOOT_MSG
  /\ number > 0 /\ msgType[2] = number => msgType[1] = msg

ParsedNumber == msgType[2] = Len(executed) + (IF state = "DATA" \/ Pending THEN 1 ELSE 0)

ParsedArgs ==
  /\ state = "DATA" => Len(args) < RxLength[msgType[1]]
  /\ Pending => Len(args) = RxLength[msgType[1]]
  /\ state = "DATA" \/ Pending => \A i \in 1 .. Len(args) : args[i][2] = msgType[2]

Parsed == ParsedType /\ ParsedNumber /\ ParsedArgs

(***************************************************************************)
(* The answer.  Clean: no wait has timed out, or not since the slave was at rest. *)
(***************************************************************************)
Clean == ~late \/ (rested /\ master # "idle")

Silent == tx = <<>> /\ INT = 0 /\ slave \in {"poll", "callback", "bootload", "restart"}

(* What is left of the answer after k data bytes. *)
Rest(k) == [i \in 1 .. TxLength[msg] - k |-> <<"answer", number, k + i>>]
Whole == <<<<"status", number>>>> \o Rest(0)

Answering == slave = "drain" /\ INT = 1 /\ msgType[2] = number

Settled ==
  \/ Answering
  \/ INT = 0 /\ slave \in {"bootload", "restart"}
  \/ INT = 0 /\ slave = "poll" /\ Len(executed) = number

AnswerKept ==
  /\ master = "idle" => tx = <<>> /\ Settled /\ ~Answering /\ (number > 0 => Fresh)
  /\ master = "start" =>
       Silent /\ slave # "callback" /\ (slave = "poll" => Len(executed) = number - 1)
  /\ master \in {"type", "data"} =>
       Silent /\ slave # "callback" /\ (slave = "poll" => Len(executed) = number - 1)
  /\ master = "wait" =>
       \/ Silent /\ (slave \in {"poll", "callback"} => Len(executed) = number - 1)
       \/ slave = "raise" /\ INT = 0 /\ msgType[2] = number /\ tx = Whole
       \/ Answering /\ tx = Whole
  /\ master = "status" => Answering /\ tx = Whole
  /\ master = "receive" =>
       /\ Answering /\ status = <<"status", number>> /\ Len(buff) < TxLength[msg]
       /\ buff = [i \in 1 .. Len(buff) |-> <<"answer", number, i>>] /\ tx = Rest(Len(buff))
  /\ master = "release" => tx = <<>> /\ Settled /\ Fresh

(* What holds until the parser took a byte for a start byte that was none, ... *)
InStep == Typed /\ Parsed /\ Queued /\ ExecutesInOrder /\ (Clean => AnswerKept)

(* ... and the inductive invariant. *)
IInv == Typed /\ (~strayStart => InStep)

-----------------------------------------------------------------------------

(* A byte that continues the queue's last message, or begins the next, may be queued. *)
LEMMA FeedAppend ==
  ASSUME NEW bytes \in Seq(Bytes), NEW b \in Bytes,
         NEW p \in Int, NEW m \in Int, NEW q \in Int, NEW n \in Int, NEW k \in Int, NEW t,
         NEW q2 \in Int, NEW n2 \in Int,
         Feed(bytes, p, m, q, n, k, t), Taken(q, n, b, q2, n2),
         q = -1 /\ n2 = k => b[1] = t
  PROVE  Feed(Append(bytes, b), p, m, q2, n2, k, t)
<1>1. PICK ph \in [0 .. Len(bytes) -> Int], nm \in [0 .. Len(bytes) -> Int] :
        FeedVia(bytes, p, m, q, n, k, t, ph, nm)
  BY DEF Feed
<1> DEFINE L == Len(bytes)
           new == Append(bytes, b)
           ph2 == [i \in 0 .. L + 1 |-> IF i = L + 1 THEN q2 ELSE ph[i]]
           nm2 == [i \in 0 .. L + 1 |-> IF i = L + 1 THEN n2 ELSE nm[i]]
<1>2. L \in Nat /\ Len(new) = L + 1 /\ (\A i \in 1 .. L : new[i] = bytes[i]) /\ new[L + 1] = b
  OBVIOUS
<1>3. ph2 \in [0 .. Len(new) -> Int] /\ nm2 \in [0 .. Len(new) -> Int]
  BY <1>2
<1>4. n <= n2 /\ (n2 = n /\ q = 0 => q2 = 0)
  BY DEF Taken
<1>5. \A i \in 1 .. Len(new) :
        /\ Taken(ph2[i - 1], nm2[i - 1], new[i], ph2[i], nm2[i])
        /\ ph2[i - 1] = -1 /\ nm2[i] = k => new[i][1] = t
  <2> TAKE i \in 1 .. Len(new)
  <2>1. CASE i = L + 1
    <3>1. ph2[i - 1] = q /\ nm2[i - 1] = n /\ ph2[i] = q2 /\ nm2[i] = n2 /\ new[i] = b
      BY <1>1, <1>2, <2>1 DEF FeedVia
    <3> QED BY <3>1
  <2>2. CASE i \in 1 .. L
    <3>1. ph2[i - 1] = ph[i - 1] /\ nm2[i - 1] = nm[i - 1] /\ ph2[i] = ph[i] /\ nm2[i] = nm[i]
          /\ new[i] = bytes[i]
      BY <1>2, <2>2
    <3> QED BY <1>1, <2>2, <3>1 DEF FeedVia
  <2> QED BY <1>2, <2>1, <2>2
<1>6. \A i, j \in 0 .. Len(new) : i <= j =>
        nm2[i] <= nm2[j] /\ (ph2[i] = 0 /\ nm2[i] = nm2[j] => ph2[j] = 0)
  <2> SUFFICES ASSUME NEW i \in 0 .. Len(new), NEW j \in 0 .. Len(new), i <= j
               PROVE  nm2[i] <= nm2[j] /\ (ph2[i] = 0 /\ nm2[i] = nm2[j] => ph2[j] = 0)
    OBVIOUS
  <2>1. CASE j \in 0 .. L
    BY <1>1, <1>2, <2>1 DEF FeedVia
  <2>2. CASE i \in 0 .. L /\ j = L + 1
    <3>1. nm[i] <= n /\ (ph[i] = 0 /\ nm[i] = n => q = 0)
      BY <1>1, <1>2, <2>2 DEF FeedVia
    <3>2. nm2[i] = nm[i] /\ ph2[i] = ph[i] /\ nm2[j] = n2 /\ ph2[j] = q2 /\ nm[i] \in Int
      BY <1>2, <2>2
    <3> QED BY <1>4, <3>1, <3>2
  <2>3. CASE i = L + 1 /\ j = L + 1
    BY <1>2, <2>3
  <2> QED BY <1>2, <2>1, <2>2, <2>3
<1>7. ph2[0] = p /\ nm2[0] = m /\ ph2[Len(new)] = q2 /\ nm2[Len(new)] = n2
  BY <1>1, <1>2 DEF FeedVia
<1>8. FeedVia(new, p, m, q2, n2, k, t, ph2, nm2)
  <2> HIDE DEF new, ph2, nm2
  <2> QED BY <1>5, <1>6, <1>7 DEF FeedVia
<1> HIDE DEF new, ph2, nm2
<1> QED BY <1>3, <1>8, Zenon DEF Feed, new

(* The parser takes the queue's first byte and the queue leads on from there. *)
LEMMA FeedTail ==
  ASSUME NEW bytes \in Seq(Bytes), bytes # <<>>,
         NEW p \in Int, NEW m \in Int, NEW q \in Int, NEW n \in Int, NEW k \in Int, NEW t,
         Feed(bytes, p, m, q, n, k, t)
  PROVE  \E p2, m2 \in Int : /\ Taken(p, m, Head(bytes), p2, m2)
                             /\ p = -1 /\ m2 = k => Head(bytes)[1] = t
                             /\ Feed(Tail(bytes), p2, m2, q, n, k, t)
<1>1. PICK ph \in [0 .. Len(bytes) -> Int], nm \in [0 .. Len(bytes) -> Int] :
        FeedVia(bytes, p, m, q, n, k, t, ph, nm)
  BY DEF Feed
<1> DEFINE L == Len(bytes)
           new == Tail(bytes)
           ph2 == [i \in 0 .. L - 1 |-> ph[i + 1]]
           nm2 == [i \in 0 .. L - 1 |-> nm[i + 1]]
<1>2. L \in Nat \ {0} /\ Len(new) = L - 1 /\ (\A i \in 1 .. L - 1 : new[i] = bytes[i + 1])
      /\ Head(bytes) = bytes[1]
  OBVIOUS
<1>3. ph2 \in [0 .. Len(new) -> Int] /\ nm2 \in [0 .. Len(new) -> Int]
  BY <1>2
<1>4. \A i \in 0 .. L - 1 : ph2[i] = ph[i + 1] /\ nm2[i] = nm[i + 1]
  OBVIOUS
<1>5. \A i \in 1 .. Len(new) :
        /\ Taken(ph2[i - 1], nm2[i - 1], new[i], ph2[i], nm2[i])
        /\ ph2[i - 1] = -1 /\ nm2[i] = k => new[i][1] = t
  <2> TAKE i \in 1 .. Len(new)
  <2>1. ph2[i - 1] = ph[i] /\ nm2[i - 1] = nm[i] /\ ph2[i] = ph[i + 1] /\ nm2[i] = nm[i + 1]
        /\ new[i] = bytes[i + 1] /\ i + 1 \in 1 .. L /\ (i + 1) - 1 = i
    BY <1>2, <1>4
  <2> QED BY <1>1, <2>1 DEF FeedVia
<1>6. \A i, j \in 0 .. Len(new) : i <= j =>
        nm2[i] <= nm2[j] /\ (ph2[i] = 0 /\ nm2[i] = nm2[j] => ph2[j] = 0)
  <2> SUFFICES ASSUME NEW i \in 0 .. Len(new), NEW j \in 0 .. Len(new), i <= j
               PROVE  nm2[i] <= nm2[j] /\ (ph2[i] = 0 /\ nm2[i] = nm2[j] => ph2[j] = 0)
    OBVIOUS
  <2>1. i + 1 \in 0 .. L /\ j + 1 \in 0 .. L /\ i + 1 <= j + 1
    BY <1>2
  <2>2. ph2[i] = ph[i + 1] /\ nm2[i] = nm[i + 1] /\ ph2[j] = ph[j + 1] /\ nm2[j] = nm[j + 1]
    BY <1>2, <1>4
  <2> QED BY <1>1, <2>1, <2>2 DEF FeedVia
<1>7. ph2[Len(new)] = q /\ nm2[Len(new)] = n /\ ph2[0] = ph[1] /\ nm2[0] = nm[1]
      /\ ph[1] \in Int /\ nm[1] \in Int
  <2>1. L - 1 \in 0 .. L - 1 /\ (L - 1) + 1 = L /\ 0 \in 0 .. L - 1 /\ 0 + 1 = 1 /\ 1 \in 0 .. L
    BY <1>2
  <2>2. ph2[Len(new)] = ph[L] /\ nm2[Len(new)] = nm[L] /\ ph2[0] = ph[1] /\ nm2[0] = nm[1]
    BY <1>2, <1>4, <2>1
  <2>3. ph[L] = q /\ nm[L] = n
    BY <1>1 DEF FeedVia
  <2> QED BY <2>1, <2>2, <2>3
<1>8. FeedVia(new, ph[1], nm[1], q, n, k, t, ph2, nm2)
  <2> HIDE DEF new, ph2, nm2
  <2> QED BY <1>5, <1>6, <1>7 DEF FeedVia
<1>9. Taken(p, m, Head(bytes), ph[1], nm[1]) /\ (p = -1 /\ nm[1] = k => Head(bytes)[1] = t)
  <2>1. 1 \in 1 .. L /\ 1 - 1 = 0
    BY <1>2
  <2> QED BY <1>1, <1>2, <2>1 DEF FeedVia
<1> HIDE DEF new, ph2, nm2
<1>10. Feed(new, ph[1], nm[1], q, n, k, t)
  BY <1>3, <1>8 DEF Feed
<1> QED BY <1>7, <1>9, <1>10 DEF new

(* The queue never leads back: not to an earlier message, nor into one that ended; an *)
(* empty queue leads nowhere.                                                         *)
LEMMA FeedForward ==
  ASSUME NEW bytes \in Seq(Bytes),
         NEW p \in Int, NEW m \in Int, NEW q \in Int, NEW n \in Int, NEW k \in Int, NEW t,
         Feed(bytes, p, m, q, n, k, t)
  PROVE  /\ m <= n
         /\ p = 0 /\ m = n => q = 0
         /\ bytes = <<>> => p = q /\ m = n
<1>1. PICK ph \in [0 .. Len(bytes) -> Int], nm \in [0 .. Len(bytes) -> Int] :
        FeedVia(bytes, p, m, q, n, k, t, ph, nm)
  BY DEF Feed
<1>2. Len(bytes) \in Nat /\ 0 \in 0 .. Len(bytes) /\ Len(bytes) \in 0 .. Len(bytes)
      /\ (bytes = <<>> => Len(bytes) = 0)
  OBVIOUS
<1> QED BY <1>1, <1>2 DEF FeedVia

(* Where the parser and the master are, as numbers. *)
LEMMA Phases ==
  ASSUME InStep
  PROVE  /\ ParserPhase \in Int /\ Begun \in Int /\ MasterPhase \in Int /\ Sent \in Int
         /\ number \in Int /\ RxLength[msg] \in Nat /\ TxLength[msg] \in Nat
         /\ Begun <= Sent /\ (ParserPhase = 0 /\ Begun = Sent => MasterPhase = 0)
<1>1. RxLength[msg] \in Nat /\ TxLength[msg] \in Nat
  BY SpiConstants DEF InStep, Typed, MasterOK
<1>2. MasterPhase \in Int /\ Sent \in Int /\ number \in Int
  BY <1>1 DEF InStep, Typed, MasterOK, MasterPhase, Sent
<1>3. Begun \in Int
  BY DEF InStep, Typed, SlaveOK, Begun
<1>4. state = "DATA" => RxLength[msgType[1]] \in Nat /\ Len(args) \in Nat
  BY SpiConstants DEF InStep, Typed, SlaveOK, Parsed, ParsedType
<1>5. ParserPhase \in Int
  BY <1>4 DEF InStep, Typed, SlaveOK, ParserPhase
<1>6. rx \in Seq(Bytes) /\ Feed(rx, ParserPhase, Begun, MasterPhase, Sent, number, msg)
  BY DEF InStep, Typed, Queued, SlaveOK
<1>7. Begun <= Sent /\ (ParserPhase = 0 /\ Begun = Sent => MasterPhase = 0)
  BY <1>2, <1>3, <1>5, <1>6, FeedForward
<1> QED BY <1>1, <1>2, <1>3, <1>5, <1>7

(* The inductive invariant holds: the types always, and that the slave is in step with the *)
(* master until a dummy byte that HAL_SPI_Receive sends is the start byte.                  *)
THEOREM Invariance == Spec => []IInv

(* A data byte leaves one less to come, of the same message. *)
<1>TakenData.
  ASSUME NEW p \in Int, NEW m, NEW b, NEW q, NEW n, p > 0, Taken(p, m, b, q, n)
  PROVE  q = p - 1 /\ n = m /\ b[2] = m
  BY <1>TakenData DEF Taken

(* The next message's number and type are not in the queue yet. *)
<1>FeedNextMessage.
  ASSUME NEW bytes \in Seq(Bytes),
         NEW p \in Int, NEW m \in Int, NEW q \in Int, NEW n \in Int, NEW k \in Int, NEW t,
         NEW k2 \in Int, NEW t2, n < k2,
         Feed(bytes, p, m, q, n, k, t)
  PROVE  Feed(bytes, p, m, q, n, k2, t2)
  <2> USE <1>FeedNextMessage
  <2>1. PICK ph \in [0 .. Len(bytes) -> Int], nm \in [0 .. Len(bytes) -> Int] :
          FeedVia(bytes, p, m, q, n, k, t, ph, nm)
    BY DEF Feed
  <2>2. \A i \in 1 .. Len(bytes) : nm[i] # k2
    <3> TAKE i \in 1 .. Len(bytes)
    <3>1. Len(bytes) \in Nat /\ i \in 0 .. Len(bytes) /\ Len(bytes) \in 0 .. Len(bytes) /\ i <= Len(bytes)
      OBVIOUS
    <3>2. nm[i] <= nm[Len(bytes)] /\ nm[Len(bytes)] = n
      BY <2>1, <3>1 DEF FeedVia
    <3>3. nm[i] \in Int
      BY <3>1
    <3> QED BY <3>2, <3>3
  <2>3. FeedVia(bytes, p, m, q, n, k2, t2, ph, nm)
    BY <2>1, <2>2, Zenon DEF FeedVia
  <2> QED BY <2>3 DEF Feed

(* The bytes of an answer. *)
<1>AnswerTyped.
  ASSUME InStep, NEW k \in 0 .. TxLength[msg]
  PROVE  /\ Rest(k) \in Seq(AnswerBytes) /\ Len(Rest(k)) = TxLength[msg] - k
         /\ <<"status", number>> \in AnswerBytes
  <2> USE <1>AnswerTyped
  <2>1. TxLength[msg] - k \in Nat
    BY Phases
  <2>2. \A i \in 1 .. TxLength[msg] - k : <<"answer", number, k + i>> \in AnswerBytes
    BY <2>1 DEF AnswerBytes, InStep, Typed, MasterOK
  <2>3. <<"status", number>> \in AnswerBytes
    BY DEF AnswerBytes, InStep, Typed, MasterOK
  <2> QED BY <2>1, <2>2, <2>3 DEF Rest

(* The types hold whatever the dummy bytes are. *)
<1>TypedStep.
  ASSUME Typed, [Next]_vars
  PROVE  Typed'
  <2> USE <1>TypedStep
  <2>0. RxLength[msg] \in Nat /\ TxLength[msg] \in Nat
    BY SpiConstants DEF Typed, MasterOK
  <2>1. ASSUME NEW t \in Types, selectModule(t)
        PROVE  Typed'
    <3>1. SlaveOK' /\ FramedOK'
      BY <2>1 DEF Typed, SlaveOK, FramedOK, selectModule, slaveVars, parser
    <3>2. FlagsOK'
      <4>1. rested' = AtRest /\ UNCHANGED <<late, strayStart>>
        BY <2>1 DEF selectModule
      <4>2. AtRest \in BOOLEAN
        BY Zenon DEF AtRest
      <4> QED BY <4>1, <4>2, Zenon DEF Typed, FlagsOK
    <3>3. None \in Numbered /\ <<>> \in Seq(Numbered)
      BY DEF Numbered
    <3>4. MasterOK'
      BY <2>1, <3>3, SpiConstants DEF Typed, MasterOK, selectModule
    <3> QED BY <3>1, <3>2, <3>4 DEF Typed
  <2>2. ASSUME messageSubmodule
        PROVE  Typed'
    <3>1. Received \in Numbered
      BY DEF Typed, SlaveOK, Received, Numbered
    <3>2. (IF tx = <<>> THEN <<>> ELSE Tail(tx)) \in Seq(AnswerBytes)
      BY DEF Typed, SlaveOK
    <3>3. tx' \in Seq(AnswerBytes)
      BY <2>2, <3>2, Zenon DEF messageSubmodule, SendStart, SendType, SendData, WaitReady, WaitTimeout, ReceiveStatus,
         ReceiveData, deselectModule, ReleaseTimeout, ExchangeDummy, Exchange, SPI1_IRQHandler, slaveVars,
         Typed, SlaveOK
    <3>4. MasterOK'
      <4>1. CASE SendStart
        BY <4>1 DEF SendStart, Typed, MasterOK
      <4>2. CASE SendType
        <5>1. master = "type" /\ count = 0 /\ UNCHANGED <<msg, count, status, buff, number>>
              /\ master' = (IF RxLength[msg] = 0 THEN "wait" ELSE "data")
          BY <4>2 DEF SendType, Typed, MasterOK
        <5>2. RxLength[msg] # 0 => count < RxLength[msg]
          <6>1. count = 0 /\ RxLength[msg] \in Nat
            BY <2>0, <5>1, Zenon
          <6> QED BY ONLY <6>1
        <5> QED BY <5>1, <5>2 DEF Typed, MasterOK
      <4>3. CASE SendData
        <5>1. master = "data" /\ count' = count + 1 /\ UNCHANGED <<msg, status, buff, number>>
              /\ master' = (IF count' = RxLength[msg] THEN "wait" ELSE "data")
          BY <4>3 DEF SendData
        <5>2. count \in Nat /\ count < RxLength[msg]
          BY <5>1 DEF Typed, MasterOK
        <5>3. count' \in Nat /\ (count' # RxLength[msg] => count' < RxLength[msg])
          BY <2>0, <5>1, <5>2
        <5> QED BY <5>1, <5>3 DEF Typed, MasterOK
      <4>4. CASE WaitReady \/ WaitTimeout \/ deselectModule \/ ReleaseTimeout
        BY <4>4 DEF WaitReady, WaitTimeout, deselectModule, ReleaseTimeout, Typed, MasterOK
      <4>5. CASE ReceiveStatus
        BY <3>1, <4>5 DEF ReceiveStatus, Typed, MasterOK
      <4>6. CASE ReceiveData
        BY <3>1, <4>6 DEF ReceiveData, Typed, MasterOK
      <4> QED BY <2>2, <4>1, <4>2, <4>3, <4>4, <4>5, <4>6 DEF messageSubmodule
    <3>5. UNCHANGED <<INT, slave, state, msgType, args, executed, rested>>
      BY <2>2, Zenon DEF messageSubmodule, SendStart, SendType, SendData, WaitReady, WaitTimeout, ReceiveStatus,
         ReceiveData, deselectModule, ReleaseTimeout, ExchangeDummy, Exchange, slaveVars, parser
    <3>6. FlagsOK'
      <4>1. late' \in {late, TRUE}
        BY <2>2, Zenon DEF messageSubmodule, SendStart, SendType, SendData, WaitReady, WaitTimeout, ReceiveStatus,
           ReceiveData, deselectModule, ReleaseTimeout
      <4>2. strayStart' \in BOOLEAN
        BY <2>2, Zenon DEF messageSubmodule, SendStart, SendType, SendData, WaitReady, WaitTimeout, ReceiveStatus,
           ReceiveData, deselectModule, ReleaseTimeout, ExchangeDummy, Typed, FlagsOK
      <4> QED BY <3>5, <4>1, <4>2, Zenon DEF Typed, FlagsOK
    <3>7. rx' \in Seq(Bytes)
      <4>1. \A v \in Values : <<v, number>> \in Bytes
        BY DEF Bytes, Typed, MasterOK
      <4>2. \A v \in Values : Append(rx, <<v, number>>) \in Seq(Bytes)
        BY <4>1 DEF Typed, SlaveOK
      <4>3. msg \in Values /\ START \in Values
        BY DEF Values, Typed, MasterOK
      <4>4. (\E v \in Values : Exchange(v)) \/ UNCHANGED rx
        BY <2>2, <4>3, Zenon DEF messageSubmodule, SendStart, SendType, SendData, WaitReady, WaitTimeout,
           ReceiveStatus, ReceiveData, deselectModule, ReleaseTimeout, ExchangeDummy, slaveVars, Values
      <4> QED BY <4>2, <4>4, Zenon DEF Exchange, SPI1_IRQHandler, Typed, SlaveOK
    <3>8. SlaveOK' /\ FramedOK'
      BY <3>3, <3>5, <3>7 DEF Typed, SlaveOK, FramedOK
    <3> QED BY <3>4, <3>6, <3>8 DEF Typed
  <2>3. ASSUME slaveLoop
        PROVE  Typed'
    <3>1. MasterOK' /\ FlagsOK'
      <4>1. UNCHANGED masterVars
        BY <2>3 DEF slaveLoop, StartByte, MsgType, Data, readByte, Callback, BootResponse, setSPIInt,
               clearSPIInt, bootload
      <4> QED BY <4>1 DEF masterVars, Typed, MasterOK, FlagsOK
    <3>2. CASE StartByte \/ MsgType \/ Data
      <4>1. rx' \in Seq(Bytes) /\ Head(rx) \in Bytes /\ slave = "poll" /\ UNCHANGED <<tx, executed>>
        <5>1. rx # <<>> /\ rx' = Tail(rx) /\ slave = "poll" /\ UNCHANGED <<tx, executed>>
          BY <3>2, Zenon DEF StartByte, MsgType, Data, readByte
        <5>2. rx \in Seq(Bytes)
          BY DEF Typed, SlaveOK
        <5> QED BY <5>1, <5>2
      <4>2. CASE StartByte
        <5>1. SlaveOK'
          BY <4>1, <4>2 DEF StartByte, Typed, SlaveOK
        <5>2. FramedOK'
          BY <4>1, <4>2 DEF StartByte, Typed, FramedOK
        <5> QED BY <3>1, <5>1, <5>2 DEF Typed
      <4>3. CASE MsgType
        <5>1. CASE Head(rx)[1] \notin Types
          <6>1. state' = "START_BYTE" /\ UNCHANGED <<slave, msgType, args, INT>>
            BY <4>3, <5>1 DEF MsgType
          <6>2. SlaveOK' /\ FramedOK'
            BY <4>1, <6>1 DEF Typed, SlaveOK, FramedOK
          <6> QED BY <3>1, <6>2 DEF Typed
        <5>2. CASE Head(rx)[1] \in Types
          <6>1. /\ msgType' = Head(rx) /\ args' = <<>> /\ UNCHANGED INT
                /\ state' = IF RxLength[Head(rx)[1]] = 0 THEN "START_BYTE" ELSE "DATA"
                /\ slave' = IF RxLength[Head(rx)[1]] = 0 THEN "callback" ELSE "poll"
            BY <4>3, <5>2 DEF MsgType
          <6>2. RxLength[Head(rx)[1]] \in Nat /\ Len(args') = 0 /\ args' \in Seq(Bytes)
            BY <5>2, <6>1, SpiConstants
          <6>3. SlaveOK'
            BY <4>1, <6>1, <6>2 DEF Typed, SlaveOK
          <6>4. FramedOK'
            BY <5>2, <6>1, <6>2 DEF FramedOK
          <6> QED BY <3>1, <6>3, <6>4 DEF Typed
        <5> QED BY <5>1, <5>2
      <4>4. CASE Data
        <5>1. /\ args \in Seq(Bytes) /\ msgType[1] \in Types
              /\ Len(args) < RxLength[msgType[1]] /\ RxLength[msgType[1]] \in Nat
          BY <4>4, SpiConstants DEF Data, Typed, SlaveOK, FramedOK
        <5>2. /\ args' = Append(args, Head(rx)) /\ UNCHANGED <<INT, msgType>>
              /\ state' = IF Len(args') = RxLength[msgType[1]] THEN "START_BYTE" ELSE "DATA"
              /\ slave' = IF Len(args') = RxLength[msgType[1]] THEN "callback" ELSE "poll"
          BY <4>4 DEF Data, DataComplete
        <5>3. args' \in Seq(Bytes) /\ Len(args') = Len(args) + 1
          BY <4>1, <5>1, <5>2
        <5>4. Len(args') # RxLength[msgType[1]] => Len(args') < RxLength[msgType[1]]
          BY <5>1, <5>3
        <5>5. SlaveOK'
          BY <4>1, <5>2, <5>3 DEF Typed, SlaveOK
        <5>6. FramedOK'
          BY <5>1, <5>2, <5>4 DEF FramedOK
        <5> QED BY <3>1, <5>5, <5>6 DEF Typed
      <4> QED BY <3>2, <4>2, <4>3, <4>4
    <3>3. ASSUME Run PROVE executed' \in Seq([type : Bytes \cup {None}, args : Seq(Bytes)])
      <4> DEFINE new == [type |-> msgType, args |-> args]
                 Ran == [type : Bytes \cup {None}, args : Seq(Bytes)]
      <4>1. executed \in Seq(Ran) /\ new \in Ran /\ executed' = Append(executed, new)
        BY <3>3 DEF Run, Typed, SlaveOK
      <4> HIDE DEF new, Ran
      <4>2. executed' \in Seq(Ran)
        BY <4>1
      <4> QED BY <4>2 DEF Ran
    <3>4. CASE Callback \/ BootResponse
      <4> DEFINE b == <<"status", msgType[2]>>
                 answer == [i \in 1 .. TxLength[msgType[1]] |-> <<"answer", msgType[2], i>>]
      <4>1. /\ slave = "callback" /\ slave' = "raise" /\ tx' = tx \o <<b>> \o answer
            /\ UNCHANGED <<rx, INT, parser>> /\ (Run \/ UNCHANGED executed)
        BY <3>4, Zenon DEF Callback, BootResponse, writeResponse
      <4>2. /\ state = "START_BYTE" /\ msgType[1] \in Types /\ TxLength[msgType[1]] \in Nat
            /\ msgType[2] \in 0 .. MaxMessages /\ tx \in Seq(AnswerBytes)
        BY <4>1, SpiConstants DEF Typed, FramedOK, SlaveOK, Bytes, None
      <4>3. b \in AnswerBytes /\ answer \in Seq(AnswerBytes)
        <5>1. \A i \in 1 .. TxLength[msgType[1]] : <<"answer", msgType[2], i>> \in AnswerBytes
          BY <4>2 DEF AnswerBytes
        <5>2. answer \in Seq(AnswerBytes)
          <6>1. answer \in [1 .. TxLength[msgType[1]] -> AnswerBytes]
            BY <5>1
          <6> HIDE DEF answer
          <6> QED BY <4>2, <6>1
        <5>3. b \in AnswerBytes
          BY <4>2 DEF AnswerBytes
        <5> QED BY <5>2, <5>3
      <4> HIDE DEF b, answer
      <4>4. tx' \in Seq(AnswerBytes)
        BY <4>1, <4>2, <4>3
      <4>5. SlaveOK' /\ FramedOK'
        BY <3>3, <4>1, <4>4 DEF parser, Typed, SlaveOK, FramedOK
      <4> QED BY <3>1, <4>5 DEF Typed
    <3>5. CASE setSPIInt \/ clearSPIInt
      <4>1. /\ slave \notin {"poll", "restart"} /\ INT' \in {0, 1} /\ slave' \in {"drain", "bootload", "poll"}
            /\ UNCHANGED <<rx, tx, parser, executed>>
        BY <3>5 DEF setSPIInt, clearSPIInt
      <4>2. SlaveOK' /\ FramedOK'
        BY <4>1 DEF parser, Typed, SlaveOK, FramedOK
      <4> QED BY <3>1, <4>2 DEF Typed
    <3>6. CASE bootload
      <4>1. slave = "bootload" /\ slave' = "restart" /\ Run /\ UNCHANGED <<rx, tx, INT, parser>>
        BY <3>6 DEF bootload
      <4>2. SlaveOK' /\ FramedOK'
        BY <3>3, <4>1 DEF parser, Typed, SlaveOK, FramedOK
      <4> QED BY <3>1, <4>2 DEF Typed
    <3> QED BY <2>3, <3>2, <3>4, <3>5, <3>6 DEF slaveLoop
  <2>4. CASE UNCHANGED vars
    <3>1. MasterOK' /\ FlagsOK'
      BY <2>4 DEF vars, masterVars, Typed, MasterOK, FlagsOK
    <3>2. SlaveOK' /\ FramedOK'
      BY <2>4 DEF vars, slaveVars, parser, Typed, SlaveOK, FramedOK
    <3> QED BY <3>1, <3>2 DEF Typed
  <2> QED BY <2>1, <2>2, <2>3, <2>4 DEF Next

(* messageSubmodule's steps keep the two in step. *)
<1>MasterStep.
  ASSUME InStep, ~strayStart, ~strayStart', (\E t \in Types : selectModule(t)) \/ messageSubmodule
  PROVE  Parsed' /\ Queued' /\ ExecutesInOrder' /\ (Clean => AnswerKept)'
  <2> USE <1>MasterStep
  (* A byte that messageSubmodule sends continues its message, or is a dummy between two. *)
  <2>MasterSends.
    ASSUME SendStart \/ SendType \/ SendData \/ ReceiveStatus \/ ReceiveData
    PROVE  Queued'
    <3> USE <2>MasterSends
    <3>0. /\ ParserPhase \in Int /\ Begun \in Int /\ MasterPhase \in Int /\ Sent \in Int
          /\ number \in Int /\ RxLength[msg] \in Nat /\ TxLength[msg] \in Nat
          /\ Begun <= Sent /\ (ParserPhase = 0 /\ Begun = Sent => MasterPhase = 0)
      BY Phases
    <3>1. UNCHANGED <<number, msg, ParserPhase, Begun>>
      BY Zenon DEF SendStart, SendType, SendData, ReceiveStatus, ReceiveData, ExchangeDummy,
             Exchange, parser, ParserPhase, Begun, Pending
    <3>2. ASSUME NEW v \in Values, Exchange(v),
                 Taken(MasterPhase, Sent, <<v, number>>, MasterPhase', Sent'),
                 MasterPhase = -1 /\ Sent' = number => v = msg,
                 MasterPhase' \in Int, Sent' \in Int
          PROVE  Queued'
      <4>1. <<v, number>> \in Bytes /\ <<v, number>>[1] = v
        BY DEF Bytes, InStep, Typed, MasterOK
      <4>2. rx' = Append(rx, <<v, number>>) /\ rx \in Seq(Bytes)
        BY <3>2 DEF Exchange, SPI1_IRQHandler, InStep, Typed, SlaveOK
      <4>3. Feed(Append(rx, <<v, number>>), ParserPhase, Begun, MasterPhase', Sent', number, msg)
        BY <3>0, <3>2, <4>1, <4>2, FeedAppend DEF InStep, Queued
      <4> QED BY <3>1, <4>1, <4>2, <4>3 DEF Queued
    <3>3. CASE SendStart
      <4>1. MasterPhase = 0 /\ Sent = number - 1 /\ MasterPhase' = -1 /\ Sent' = number
        BY <3>3 DEF SendStart, MasterPhase, Sent
      <4>2. Taken(0, number - 1, <<START, number>>, -1, number)
        BY DEF Taken, InStep, Typed, MasterOK
      <4> QED BY <3>0, <3>2, <3>3, <4>1, <4>2 DEF SendStart, Values
    <3>4. CASE SendType
      <4>1. MasterPhase = -1 /\ Sent = number /\ Sent' = number /\ msg \in Types
        BY <3>4 DEF SendType, MasterPhase, Sent, InStep, Typed, MasterOK
      <4>2. MasterPhase' = RxLength[msg]
        BY <3>0, <3>4 DEF SendType, MasterPhase, InStep, Typed, MasterOK
      <4>3. Taken(-1, number, <<msg, number>>, RxLength[msg], number)
        BY <4>1 DEF Taken, InStep, Typed, MasterOK
      <4> QED BY <3>0, <3>2, <3>4, <4>1, <4>2, <4>3 DEF SendType, Values
    <3>5. CASE SendData
      <4>1. MasterPhase = RxLength[msg] - count /\ MasterPhase > 0 /\ Sent = number /\ Sent' = number
        BY <3>0, <3>5 DEF SendData, MasterPhase, Sent, InStep, Typed, MasterOK
      <4>2. MasterPhase' = MasterPhase - 1
        BY <3>0, <3>5, <4>1 DEF SendData, MasterPhase, InStep, Typed, MasterOK
      <4>3. PICK v \in DataBytes : Exchange(v)
        BY <3>5 DEF SendData
      <4>4. Taken(MasterPhase, number, <<v, number>>, MasterPhase - 1, number)
        BY <4>1 DEF Taken
      <4> QED BY <3>0, <3>2, <4>1, <4>2, <4>3, <4>4 DEF Values
    <3>6. CASE ReceiveStatus \/ ReceiveData
      <4>1. MasterPhase = 0 /\ Sent = number /\ Sent' = number /\ MasterPhase' = 0
        BY <3>6 DEF ReceiveStatus, ReceiveData, MasterPhase, Sent
      <4>2. PICK v \in DummyBytes : Exchange(v) /\ v # START
        BY <3>6 DEF ReceiveStatus, ReceiveData, ExchangeDummy
      <4>3. Taken(0, number, <<v, number>>, 0, number)
        BY <4>2 DEF Taken
      <4> QED BY <3>0, <3>2, <4>1, <4>2, <4>3 DEF Values
    <3> QED BY <3>3, <3>4, <3>5, <3>6
  <2>0. /\ ParserPhase \in Int /\ Begun \in Int /\ MasterPhase \in Int /\ Sent \in Int
        /\ number \in Int /\ RxLength[msg] \in Nat /\ TxLength[msg] \in Nat
        /\ Begun <= Sent /\ (ParserPhase = 0 /\ Begun = Sent => MasterPhase = 0)
    BY Phases
  <2>1. CASE \E t \in Types : selectModule(t)
    <3>1. PICK t \in Types : selectModule(t)
      BY <2>1
    <3>2. ExecutesInOrder'
      BY <3>1 DEF InStep, ExecutesInOrder, selectModule, slaveVars
    <3>3. Parsed'
      <4>1. number' = number + 1 /\ UNCHANGED <<slave, state, msgType, args, executed>> /\ Sent = number
        BY <3>1 DEF selectModule, slaveVars, parser, Sent
      <4>2. Len(executed) \in Nat /\ ParsedType /\ ParsedNumber /\ ParsedArgs
        BY DEF InStep, Typed, Parsed, SlaveOK
      <4>3. msgType[2] <= Begun /\ msgType[2] \in Int
        BY <4>2 DEF ParsedNumber, Begun
      <4>4. msgType[2] # number'
        BY <2>0, <4>1, <4>3
      <4>5. ParsedType'
        BY <4>1, <4>2, <4>4 DEF ParsedType
      <4>6. ParsedNumber' /\ ParsedArgs'
        BY <4>1, <4>2 DEF ParsedNumber, ParsedArgs, Pending
      <4> QED BY <4>5, <4>6 DEF Parsed
    <3>4. Queued'
      <4>1. Sent = number /\ MasterPhase = 0 /\ Sent' = number /\ MasterPhase' = 0
        BY <2>0, <3>1 DEF selectModule, Sent, MasterPhase
      <4>2. UNCHANGED <<rx, ParserPhase, Begun>>
        BY <3>1 DEF selectModule, slaveVars, parser, ParserPhase, Begun, Pending
      <4>3. number' \in Int /\ Sent < number'
        BY <2>0, <3>1, <4>1 DEF selectModule
      <4>4. Feed(rx, ParserPhase, Begun, MasterPhase, Sent, number', msg')
        BY <2>0, <4>3, <1>FeedNextMessage, Zenon DEF InStep, Typed, Queued, SlaveOK
      <4> QED BY <4>1, <4>2, <4>4 DEF Queued
    <3>5. (Clean => AnswerKept)'
      <4> SUFFICES ASSUME Clean' PROVE AnswerKept'
        OBVIOUS
      <4>1. master = "idle" /\ master' = "start" /\ number' = number + 1 /\ UNCHANGED slaveVars
        BY <3>1 DEF selectModule
      <4>2. CASE AtRest
        <5>1. ParserPhase = 0 /\ MasterPhase = 0 /\ Sent = number /\ Begun = Len(executed)
          BY <4>1, <4>2 DEF AtRest, ParserPhase, MasterPhase, Sent, Begun, Pending, InStep, Typed, SlaveOK
        <5>2. Len(executed) = number
          BY <2>0, <4>2, <5>1, FeedForward, Zenon DEF AtRest, InStep, Typed, Queued, SlaveOK
        <5> QED BY <4>1, <4>2, <5>2 DEF AnswerKept, AtRest, Silent, slaveVars
      <4>3. CASE ~AtRest
        <5>1. ~late
          BY <3>1, <4>1, <4>3 DEF Clean, selectModule
        <5>2. AnswerKept
          BY <5>1 DEF InStep, Clean
        <5> QED BY <4>1, <5>2 DEF AnswerKept, Settled, Answering, Silent, slaveVars
      <4> QED BY <4>2, <4>3
    <3> QED BY <3>2, <3>3, <3>4, <3>5
  <2>3. ASSUME messageSubmodule
        PROVE  UNCHANGED <<msg, number, INT, slave, state, msgType, args, executed, rested>>
    BY <2>3, Zenon DEF messageSubmodule, SendStart, SendType, SendData, WaitReady, WaitTimeout, ReceiveStatus,
         ReceiveData, deselectModule, ReleaseTimeout, ExchangeDummy, Exchange, slaveVars, parser
  <2>4. ASSUME messageSubmodule
        PROVE  Queued'
    <3>1. CASE SendStart \/ SendType \/ SendData \/ ReceiveStatus \/ ReceiveData
      BY <3>1, <2>MasterSends
    <3>2. CASE WaitReady \/ WaitTimeout \/ deselectModule \/ ReleaseTimeout
      <4>1. UNCHANGED <<rx, MasterPhase, Sent>>
        BY <3>2 DEF WaitReady, WaitTimeout, deselectModule, ReleaseTimeout, slaveVars, MasterPhase, Sent
      <4>2. UNCHANGED <<ParserPhase, Begun>>
        BY <2>3, <2>4 DEF ParserPhase, Begun, Pending
      <4> QED BY <2>3, <2>4, <4>1, <4>2 DEF Queued, InStep
    <3> QED BY <2>4, <3>1, <3>2 DEF messageSubmodule
  <2>5. ASSUME messageSubmodule
        PROVE  Parsed' /\ ExecutesInOrder'
    <3>1. Parsed'
      <4>1. UNCHANGED <<msg, number, slave, state, msgType, args, executed>> /\ Parsed
        BY <2>3, <2>5 DEF InStep
      <4>2. ParsedType'
        BY <4>1 DEF Parsed, ParsedType
      <4>3. ParsedNumber' /\ ParsedArgs'
        BY <4>1 DEF Parsed, ParsedNumber, ParsedArgs, Pending
      <4> QED BY <4>2, <4>3 DEF Parsed
    <3>2. ExecutesInOrder'
      BY <2>3, <2>5 DEF InStep, ExecutesInOrder
    <3> QED BY <3>1, <3>2
  <2>6. ASSUME messageSubmodule, Clean'
        PROVE  AnswerKept'
    <3>1. CASE SendStart \/ SendType \/ SendData
      <4>1. AnswerKept
        BY <2>6, <3>1 DEF InStep, Clean, SendStart, SendType, SendData
      <4>2. tx = <<>> => tx' = <<>>
        BY <3>1 DEF SendStart, SendType, SendData, Exchange, SPI1_IRQHandler
      <4> QED BY <2>3, <2>6, <3>1, <4>1, <4>2 DEF SendStart, SendType, SendData, AnswerKept, Silent
    <3>2. CASE WaitReady
      <4>1. AnswerKept /\ master = "wait" /\ INT = 1 /\ master' = "status" /\ UNCHANGED tx
        BY <2>6, <3>2 DEF WaitReady, Ready, slaveVars, InStep, Clean
      <4>2. Answering /\ tx = Whole
        BY <4>1 DEF AnswerKept, Silent
      <4>3. Answering' /\ Whole' = Whole
        BY <2>3, <2>6, <4>2, Zenon DEF Answering, Whole, Rest
      <4> QED BY <4>1, <4>2, <4>3 DEF AnswerKept
    <3>3. CASE WaitTimeout \/ ReleaseTimeout
      BY <2>6, <3>3 DEF WaitTimeout, ReleaseTimeout, Clean
    <3>4. CASE ReceiveStatus
      <4>1. AnswerKept /\ master = "status" /\ buff' = buff /\ status' = Received
            /\ master' = (IF TxLength[msg] = 0 THEN "release" ELSE "receive")
        BY <2>6, <3>4 DEF ReceiveStatus, InStep, Clean
      <4>2. tx' = IF tx = <<>> THEN <<>> ELSE Tail(tx)
        BY <3>4 DEF ReceiveStatus, ExchangeDummy, Exchange, SPI1_IRQHandler
      <4>3. Answering /\ tx = Whole /\ buff = <<>>
        BY <4>1 DEF AnswerKept, InStep, Typed, MasterOK
      <4>4. status' = <<"status", number>> /\ tx' = Rest(0)
        <5> DEFINE b == <<"status", number>>
        <5>1. Rest(0) \in Seq(AnswerBytes) /\ b \in AnswerBytes
          <6>1. 0 \in 0 .. TxLength[msg]
            BY <2>0
          <6> QED BY <6>1, <1>AnswerTyped
        <5> HIDE DEF b
        <5>2. <<b>> \o Rest(0) # <<>> /\ Head(<<b>> \o Rest(0)) = b /\ Tail(<<b>> \o Rest(0)) = Rest(0)
          BY <5>1
        <5> QED BY <4>1, <4>2, <4>3, <5>2 DEF Whole, Received, b
      <4>5. Answering' /\ Rest(0)' = Rest(0)
        BY <2>3, <2>6, <4>3 DEF Answering, Rest
      <4>6. CASE TxLength[msg] = 0
        <5>1. tx' = <<>> /\ buff' = [i \in 1 .. TxLength[msg] |-> <<"answer", number, i>>]
          <6>1. [i \in 1 .. 0 |-> <<"answer", number, i>>] = <<>> /\ Rest(0) = <<>>
            BY <4>6 DEF Rest
          <6> QED BY <4>1, <4>3, <4>4, <4>6, <6>1
        <5> QED BY <2>3, <2>6, <4>1, <4>4, <4>5, <4>6, <5>1 DEF AnswerKept, Settled, Fresh
      <4>7. CASE TxLength[msg] # 0
        <5>1. buff' = [i \in 1 .. Len(buff') |-> <<"answer", number, i>>] /\ Len(buff') = 0
          BY <4>1, <4>3
        <5>2. master' = "receive" /\ Len(buff') < TxLength[msg]
          BY <2>0, <4>1, <4>7, <5>1
        <5> QED BY <2>3, <2>6, <4>4, <4>5, <5>1, <5>2 DEF AnswerKept
      <4> QED BY <4>6, <4>7
    <3>5. CASE ReceiveData
      <4> DEFINE L == Len(buff)
                 new == <<"answer", number, L + 1>>
      <4>1. AnswerKept /\ master = "receive" /\ status' = status /\ buff' = Append(buff, Received)
            /\ master' = (IF Len(buff') = TxLength[msg] THEN "release" ELSE "receive")
        BY <2>6, <3>5 DEF ReceiveData, InStep, Clean
      <4>2. tx' = IF tx = <<>> THEN <<>> ELSE Tail(tx)
        BY <3>5 DEF ReceiveData, ExchangeDummy, Exchange, SPI1_IRQHandler
      <4>3. /\ Answering /\ status = <<"status", number>> /\ L < TxLength[msg] /\ L \in Nat
            /\ buff = [i \in 1 .. L |-> <<"answer", number, i>>] /\ tx = Rest(L)
        BY <4>1 DEF AnswerKept, InStep, Typed, MasterOK
      <4>4. Received = new /\ tx' = Rest(L + 1)
        <5>1. Rest(L) \in Seq(AnswerBytes) /\ Len(Rest(L)) = TxLength[msg] - L
          BY <2>0, <4>3, <1>AnswerTyped DEF InStep, Typed, MasterOK
        <5>2. Rest(L) # <<>> /\ Head(Rest(L)) = Rest(L)[1]
          BY <2>0, <4>3, <5>1
        <5>3. Rest(L)[1] = new
          BY <2>0, <4>3 DEF Rest
        <5>4. Tail(Rest(L)) = Rest(L + 1)
          <6>1. /\ Tail(Rest(L)) \in Seq(AnswerBytes) /\ Len(Tail(Rest(L))) = TxLength[msg] - (L + 1)
                /\ \A i \in 1 .. TxLength[msg] - (L + 1) : Tail(Rest(L))[i] = Rest(L)[i + 1]
            <7>1. /\ Tail(Rest(L)) \in Seq(AnswerBytes) /\ Len(Tail(Rest(L))) = Len(Rest(L)) - 1
                  /\ \A i \in 1 .. Len(Tail(Rest(L))) : Tail(Rest(L))[i] = Rest(L)[i + 1]
              BY <5>1, <5>2
            <7>2. (TxLength[msg] - L) - 1 = TxLength[msg] - (L + 1)
              BY <2>0, <4>3
            <7> QED BY <5>1, <7>1, <7>2
          <6>2. /\ Rest(L + 1) \in Seq(AnswerBytes) /\ Len(Rest(L + 1)) = TxLength[msg] - (L + 1)
            BY <2>0, <4>3, <1>AnswerTyped
          <6>3. \A i \in 1 .. TxLength[msg] - (L + 1) : Rest(L)[i + 1] = Rest(L + 1)[i]
            BY <2>0, <4>3 DEF Rest
          <6> QED BY <6>1, <6>2, <6>3
        <5> QED BY <4>2, <4>3, <5>2, <5>3, <5>4 DEF Received
      <4>5. Len(buff') = L + 1 /\ buff' = [i \in 1 .. L + 1 |-> <<"answer", number, i>>]
        <5>1. buff \in Seq(Numbered) /\ buff' = Append(buff, new)
          BY <4>1, <4>4 DEF InStep, Typed, MasterOK
        <5> QED BY <4>3, <5>1
      <4>6. Answering' /\ \A k : Rest(k)' = Rest(k)
        BY <2>3, <2>6, <4>3 DEF Answering, Rest
      <4>7. CASE L + 1 = TxLength[msg]
        <5>1. Rest(L + 1) = <<>>
          BY <4>3, <4>7 DEF Rest
        <5> QED BY <2>3, <2>6, <4>1, <4>3, <4>4, <4>5, <4>6, <4>7, <5>1 DEF AnswerKept, Settled, Fresh
      <4>8. CASE L + 1 # TxLength[msg]
        <5>1. master' = "receive" /\ L + 1 < TxLength[msg]
          BY <2>0, <4>1, <4>3, <4>5, <4>8
        <5> QED BY <2>3, <2>6, <4>1, <4>3, <4>4, <4>5, <4>6, <5>1 DEF AnswerKept
      <4> QED BY <4>7, <4>8
    <3>6. CASE deselectModule
      <4>1. master = "release" /\ INT = 0 /\ master' = "idle" /\ UNCHANGED <<tx, status, buff, late>>
        BY <3>6 DEF deselectModule, Released, slaveVars
      <4>2. AnswerKept
        BY <2>6, <4>1 DEF InStep, Clean
      <4>3. tx = <<>> /\ Settled /\ ~Answering /\ Fresh
        BY <4>1, <4>2 DEF AnswerKept, Answering
      <4>4. tx' = <<>> /\ Settled' /\ ~Answering' /\ Fresh'
        BY <2>3, <2>6, <4>1, <4>3 DEF Settled, Answering, Fresh
      <4> QED BY <4>1, <4>4 DEF AnswerKept
    <3> QED BY <2>6, <3>1, <3>2, <3>3, <3>4, <3>5, <3>6 DEF messageSubmodule
  <2> QED BY <2>1, <2>4, <2>5, <2>6

(* The slave's steps keep the two in step. *)
<1>SlaveStep.
  ASSUME InStep, ~strayStart, ~strayStart', slaveLoop
  PROVE  Parsed' /\ Queued' /\ ExecutesInOrder' /\ (Clean => AnswerKept)'
  <2> USE <1>SlaveStep
  (* A byte that runCommsFSM takes belongs to the message it is at. *)
  <2>SlaveReads.
    ASSUME StartByte \/ MsgType \/ Data
    PROVE  /\ Queued' /\ rx' \in Seq(Bytes) /\ Head(rx) \in Bytes
           /\ Taken(ParserPhase, Begun, Head(rx), ParserPhase', Begun')
           /\ state = "MSG_TYPE" => Head(rx)[1] \in Types /\ (Begun = number => Head(rx)[1] = msg)
           /\ Begun' <= Sent /\ (ParserPhase' = 0 /\ Begun' = Sent => MasterPhase = 0)
    <3> USE <2>SlaveReads
    <3>0. /\ ParserPhase \in Int /\ Begun \in Int /\ MasterPhase \in Int /\ Sent \in Int
          /\ number \in Int /\ RxLength[msg] \in Nat /\ TxLength[msg] \in Nat
          /\ Begun <= Sent /\ (ParserPhase = 0 /\ Begun = Sent => MasterPhase = 0)
      BY Phases
    <3>1. /\ rx \in Seq(Bytes) /\ rx # <<>> /\ rx' = Tail(rx) /\ slave = "poll" /\ executed' = executed
          /\ UNCHANGED masterVars
      BY DEF StartByte, MsgType, Data, readByte, InStep, Typed, SlaveOK
    <3>2. rx' \in Seq(Bytes) /\ Head(rx) \in Bytes
      BY <3>1
    <3>3. PICK p2 \in Int, m2 \in Int :
            /\ Taken(ParserPhase, Begun, Head(rx), p2, m2)
            /\ ParserPhase = -1 /\ m2 = number => Head(rx)[1] = msg
            /\ Feed(rx', p2, m2, MasterPhase, Sent, number, msg)
      BY <3>0, <3>1, FeedTail, Zenon DEF InStep, Queued
    <3>4. UNCHANGED <<number, msg, MasterPhase, Sent>>
      BY <3>1 DEF masterVars, MasterPhase, Sent
    <3>5. Begun = Len(executed) + (IF state # "START_BYTE" THEN 1 ELSE 0) /\ Len(executed) \in Nat
      BY <3>1 DEF Begun, Pending, InStep, Typed, SlaveOK
    <3>6. p2 = ParserPhase' /\ m2 = Begun'
      <4>1. CASE StartByte
        <5>1. ParserPhase = 0 /\ Begun = Len(executed) /\ slave' = "poll"
          BY <3>1, <3>5, <4>1 DEF StartByte, ParserPhase
        <5>2. CASE Head(rx)[1] = START
          <6>1. state' = "MSG_TYPE" /\ p2 = -1 /\ m2 = Len(executed) + 1
            BY <3>3, <4>1, <5>1, <5>2 DEF StartByte, Taken
          <6> QED BY <3>1, <6>1 DEF ParserPhase, Begun
        <5>3. CASE Head(rx)[1] # START
          <6>1. state' = "START_BYTE" /\ p2 = 0 /\ m2 = Len(executed)
            BY <3>3, <3>5, <4>1, <5>1, <5>3 DEF StartByte, Taken
          <6> QED BY <3>1, <3>5, <5>1, <6>1 DEF ParserPhase, Begun, Pending
        <5> QED BY <5>2, <5>3
      <4>2. CASE MsgType
        <5>1. ParserPhase = -1 /\ Begun = Len(executed) + 1
          BY <3>5, <4>2 DEF MsgType, ParserPhase
        <5>2. Head(rx)[1] \in Types /\ p2 = RxLength[Head(rx)[1]] /\ m2 = Len(executed) + 1 /\ p2 \in Nat
          BY <3>3, <5>1, SpiConstants DEF Taken
        <5>3. msgType' = Head(rx) /\ args' = <<>> /\ Len(args') = 0
          BY <4>2, <5>2 DEF MsgType
        <5>4. CASE p2 = 0
          BY <3>1, <4>2, <5>2, <5>4 DEF MsgType, ParserPhase, Begun, Pending
        <5>5. CASE p2 # 0
          BY <3>1, <4>2, <5>2, <5>3, <5>5 DEF MsgType, ParserPhase, Begun
        <5> QED BY <5>4, <5>5
      <4>3. CASE Data
        <5>1. /\ Begun = Len(executed) + 1 /\ args \in Seq(Bytes) /\ RxLength[msgType[1]] \in Nat
              /\ Len(args) < RxLength[msgType[1]] /\ ParserPhase = RxLength[msgType[1]] - Len(args)
          BY <3>5, <4>3, SpiConstants, Zenon DEF Data, ParserPhase, InStep, Typed, Parsed, ParsedType, ParsedArgs, SlaveOK
        <5>2. p2 = ParserPhase - 1 /\ m2 = Len(executed) + 1
          <6>1. ParserPhase > 0
            BY <5>1
          <6> QED BY <3>0, <3>3, <5>1, <6>1, <1>TakenData, Zenon
        <5>3. msgType' = msgType /\ Len(args') = Len(args) + 1
          BY <3>2, <4>3, <5>1 DEF Data
        <5>4. CASE Len(args') = RxLength[msgType[1]]
          BY <3>1, <4>3, <5>1, <5>2, <5>3, <5>4 DEF Data, DataComplete, ParserPhase, Begun, Pending
        <5>5. CASE Len(args') # RxLength[msgType[1]]
          <6>1. state' = "DATA"
            BY <4>3, <5>5 DEF Data, DataComplete
          <6>2. ParserPhase' = RxLength[msgType[1]] - Len(args')
            BY <5>3, <6>1 DEF ParserPhase
          <6>3. Begun' = Len(executed) + 1
            BY <3>1, <6>1 DEF Begun
          <6> QED BY <5>1, <5>2, <5>3, <6>2, <6>3
        <5> QED BY <5>4, <5>5
      <4> QED BY <4>1, <4>2, <4>3
    <3>7. Queued'
      BY <3>3, <3>4, <3>6 DEF Queued
    <3>8. state = "MSG_TYPE" => Head(rx)[1] \in Types /\ (Begun = number => Head(rx)[1] = msg)
      <4> SUFFICES ASSUME state = "MSG_TYPE" PROVE Head(rx)[1] \in Types /\ (Begun = number => Head(rx)[1] = msg)
        OBVIOUS
      <4>1. ParserPhase = -1
        BY DEF ParserPhase
      <4> QED BY <3>3, <4>1 DEF Taken
    <3>9. Begun' <= Sent /\ (ParserPhase' = 0 /\ Begun' = Sent => MasterPhase = 0)
      BY <3>0, <3>2, <3>3, <3>6, FeedForward
    <3> QED BY <3>2, <3>3, <3>6, <3>7, <3>8, <3>9

  (* The callback runs the message the parser has taken. *)
  <2>RunInOrder.
    ASSUME Pending, Run
    PROVE  Len(executed') = Len(executed) + 1 /\ ExecutesInOrder'
    <3> USE <2>RunInOrder
    <3> DEFINE new == [type |-> msgType, args |-> args]
               Ran == [type : Bytes \cup {None}, args : Seq(Bytes)]
    <3>1. executed \in Seq(Ran) /\ new \in Ran /\ executed' = Append(executed, new)
      BY DEF Run, InStep, Typed, SlaveOK
    <3>2. /\ new.type[2] = Len(executed) + 1 /\ Len(new.args) = RxLength[new.type[1]]
          /\ \A i \in DOMAIN new.args : new.args[i][2] = Len(executed) + 1
      <4>1. args \in Seq(Bytes) /\ new.type = msgType /\ new.args = args
        BY DEF InStep, Typed, SlaveOK
      <4>2. /\ msgType[2] = Len(executed) + 1 /\ Len(args) = RxLength[msgType[1]]
            /\ \A i \in 1 .. Len(args) : args[i][2] = msgType[2]
        BY DEF InStep, Parsed, ParsedNumber, ParsedArgs
      <4> HIDE DEF new
      <4> QED BY <4>1, <4>2
    <3> HIDE DEF new, Ran
    <3>3. /\ Len(executed') = Len(executed) + 1 /\ executed' \in Seq(Ran)
          /\ \A k \in DOMAIN executed' : IF k = Len(executed) + 1 THEN executed'[k] = new
                                          ELSE k \in DOMAIN executed /\ executed'[k] = executed[k]
      BY <3>1
    <3>4. ExecutesInOrder'
      BY <3>2, <3>3 DEF InStep, ExecutesInOrder
    <3> QED BY <3>3, <3>4 DEF Ran
  <2>0. /\ ParserPhase \in Int /\ Begun \in Int /\ MasterPhase \in Int /\ Sent \in Int
        /\ number \in Int /\ RxLength[msg] \in Nat /\ TxLength[msg] \in Nat
        /\ Begun <= Sent /\ (ParserPhase = 0 /\ Begun = Sent => MasterPhase = 0)
    BY Phases
  <2>1. UNCHANGED masterVars /\ (Clean => AnswerKept) /\ Clean' = Clean
    <3>1. UNCHANGED masterVars
      BY DEF slaveLoop, StartByte, MsgType, Data, readByte, Callback, BootResponse, setSPIInt,
             clearSPIInt, bootload
    <3>3. Clean' = Clean
      BY <3>1, Zenon DEF masterVars, Clean
    <3> QED BY <3>1, <3>3 DEF InStep
  <2>2. CASE StartByte \/ MsgType \/ Data
    <3>0. /\ Queued' /\ rx' \in Seq(Bytes) /\ Head(rx) \in Bytes
          /\ Taken(ParserPhase, Begun, Head(rx), ParserPhase', Begun')
          /\ state = "MSG_TYPE" => Head(rx)[1] \in Types /\ (Begun = number => Head(rx)[1] = msg)
          /\ Begun' <= Sent /\ (ParserPhase' = 0 /\ Begun' = Sent => MasterPhase = 0)
      BY <2>2, <2>SlaveReads
    <3>1. slave = "poll" /\ UNCHANGED <<tx, executed>> /\ rx # <<>>
      BY <2>2 DEF StartByte, MsgType, Data, readByte
    <3>2. ExecutesInOrder'
      BY <3>1 DEF InStep, ExecutesInOrder
    <3>4. Begun = Len(executed) + (IF state # "START_BYTE" THEN 1 ELSE 0) /\ Len(executed) \in Nat
      BY <3>1 DEF Begun, Pending, InStep, Typed, SlaveOK
    <3>5. Parsed'
      <4>0. UNCHANGED <<msg, number>> /\ ParsedType /\ ParsedNumber /\ ParsedArgs
        BY <2>1 DEF masterVars, InStep, Parsed
      <4>1. CASE StartByte
        <5>1. slave' = "poll" /\ UNCHANGED <<msgType, args>> /\ state = "START_BYTE" /\ state' # "DATA"
          BY <3>1, <4>1 DEF StartByte
        <5>2. ParsedType'
          BY <4>0, <5>1 DEF ParsedType
        <5>3. ParsedNumber' /\ ParsedArgs'
          BY <3>1, <4>0, <5>1 DEF ParsedNumber, ParsedArgs, Pending
        <5> QED BY <5>2, <5>3 DEF Parsed
      <4>2. CASE MsgType
        <5>1. state = "MSG_TYPE" /\ ParserPhase = -1 /\ Begun = Len(executed) + 1
          BY <3>4, <4>2 DEF MsgType, ParserPhase
        <5>2. Head(rx)[1] \in Types /\ RxLength[Head(rx)[1]] \in Nat
          BY <3>0, <5>1, SpiConstants
        <5>3. Head(rx)[2] = Len(executed) + 1 /\ (Len(executed) + 1 = number => Head(rx)[1] = msg)
          BY <3>0, <5>1 DEF Taken
        <5>4. /\ msgType' = Head(rx) /\ args' = <<>>
              /\ state' = IF RxLength[Head(rx)[1]] = 0 THEN "START_BYTE" ELSE "DATA"
              /\ slave' = IF RxLength[Head(rx)[1]] = 0 THEN "callback" ELSE "poll"
          BY <4>2, <5>2 DEF MsgType
        <5>5. Len(args') = 0
          BY <5>4
        <5>6. ParsedType'
          BY <3>1, <4>0, <5>2, <5>3, <5>4 DEF ParsedType
        <5>7. ParsedNumber'
          BY <3>1, <5>3, <5>4 DEF ParsedNumber, Pending
        <5>8. ParsedArgs'
          BY <5>2, <5>4, <5>5 DEF ParsedArgs, Pending
        <5> QED BY <5>6, <5>7, <5>8 DEF Parsed
      <4>3. CASE Data
        <5>1. state = "DATA" /\ args \in Seq(Bytes) /\ args' = Append(args, Head(rx))
          BY <4>3 DEF Data, InStep, Typed, SlaveOK
        <5>2. /\ Len(args) < RxLength[msgType[1]] /\ RxLength[msgType[1]] \in Nat
              /\ msgType[1] \in Types /\ \A i \in 1 .. Len(args) : args[i][2] = msgType[2]
          BY <4>0, <5>1, SpiConstants DEF ParsedType, ParsedArgs
        <5>3. msgType[2] = Len(executed) + 1 /\ Begun = Len(executed) + 1
          BY <3>4, <4>0, <5>1 DEF ParsedNumber
        <5>4. ParserPhase = RxLength[msgType[1]] - Len(args) /\ ParserPhase > 0
          BY <5>1, <5>2 DEF ParserPhase
        <5>5. Head(rx)[2] = msgType[2]
          BY <3>0, <5>3, <5>4, <1>TakenData
        <5>6. Len(args') = Len(args) + 1 /\ \A i \in 1 .. Len(args') : args'[i][2] = msgType[2]
          <6>1. /\ Len(args') = Len(args) + 1 /\ args'[Len(args) + 1] = Head(rx)
                /\ \A i \in 1 .. Len(args) : args'[i] = args[i]
            BY <3>0, <5>1
          <6>2. \A i \in 1 .. Len(args') : i = Len(args) + 1 \/ i \in 1 .. Len(args)
            BY <5>1, <6>1
          <6> QED BY <5>2, <5>5, <6>1, <6>2
        <5>7. /\ state' = IF Len(args') = RxLength[msgType[1]] THEN "START_BYTE" ELSE "DATA"
              /\ slave' = IF Len(args') = RxLength[msgType[1]] THEN "callback" ELSE "poll"
              /\ UNCHANGED msgType
          BY <4>3 DEF Data, DataComplete
        <5>8. ParsedType'
          BY <3>1, <4>0, <5>2, <5>7 DEF ParsedType
        <5>9. ParsedNumber'
          BY <3>1, <5>3, <5>7 DEF ParsedNumber, Pending
        <5>10. ParsedArgs'
          <6>1. Len(args') # RxLength[msgType[1]] => Len(args') < RxLength[msgType[1]]
            BY <5>1, <5>2, <5>6
          <6> QED BY <5>6, <5>7, <6>1 DEF ParsedArgs, Pending
        <5> QED BY <5>8, <5>9, <5>10 DEF Parsed
      <4> QED BY <2>2, <4>1, <4>2, <4>3
    <3>6. ASSUME Clean' PROVE AnswerKept'
      <4>1. AnswerKept /\ slave' \in {"poll", "callback"} /\ INT' \in {0, INT}
        BY <2>1, <2>2, <3>1, <3>6 DEF StartByte, MsgType, Data
      <4>2. CASE slave' = "poll"
        BY <2>1, <3>1, <4>1, <4>2, Zenon DEF masterVars, AnswerKept, Silent, Settled, Answering, Fresh
      <4>3. CASE slave' = "callback"
        <5>1. ParserPhase' = 0 /\ Begun' = Len(executed) + 1 /\ Begun' <= Sent
          BY <3>0, <3>1, <3>5, <4>3 DEF Parsed, ParsedType, ParserPhase, Begun, Pending
        <5>2. Len(executed) < Sent
          BY <2>0, <3>4, <5>1
        <5>3. master \notin {"idle", "start", "status", "receive", "release"}
          <6>1. master \in {"idle", "release"} => Sent = number /\ Len(executed) = number
            BY <3>1, <4>1 DEF AnswerKept, Settled, Answering, Sent
          <6>2. master = "start" => Sent = Len(executed)
            BY <3>1, <4>1 DEF AnswerKept, Sent
          <6>3. master \notin {"status", "receive"}
            BY <3>1, <4>1 DEF AnswerKept, Answering
          <6> QED BY <2>0, <3>4, <5>2, <6>1, <6>2, <6>3
        <5>4. Len(executed) = number - 1 /\ INT = 0 /\ tx = <<>> /\ Sent = number
          BY <3>1, <4>1, <5>3 DEF AnswerKept, Silent, Answering, Sent, InStep, Typed, MasterOK
        <5>5. MasterPhase = 0
          BY <2>0, <3>0, <5>1, <5>4
        <5>6. master \notin {"type", "data"}
          BY <2>0, <5>5 DEF MasterPhase, InStep, Typed, MasterOK
        <5>7. INT' = 0
          BY <4>1, <5>4
        <5> QED BY <2>1, <3>1, <4>1, <4>3, <5>3, <5>4, <5>6, <5>7 DEF masterVars, AnswerKept, Silent
      <4> QED BY <4>1, <4>2, <4>3
    <3> QED BY <3>0, <3>2, <3>5, <3>6
  <2>3. CASE Callback \/ BootResponse
    <3> DEFINE b == <<"status", msgType[2]>>
               answer == [i \in 1 .. TxLength[msgType[1]] |-> <<"answer", msgType[2], i>>]
    <3>1. /\ slave = "callback" /\ slave' = "raise" /\ tx' = tx \o <<b>> \o answer
          /\ UNCHANGED <<rx, INT, parser>>
      BY <2>3, Zenon DEF Callback, BootResponse, writeResponse
    <3>2. /\ state = "START_BYTE" /\ Pending /\ msgType[1] \in Types /\ msgType[2] = Len(executed) + 1
          /\ msgType[2] \in 0 .. MaxMessages /\ TxLength[msgType[1]] \in Nat /\ executed \in Seq([type : Bytes \cup {None}, args : Seq(Bytes)])
          /\ tx \in Seq(AnswerBytes) /\ Len(args) = RxLength[msgType[1]]
          /\ \A i \in 1 .. Len(args) : args[i][2] = msgType[2]
      <4>1. Pending /\ SlaveOK /\ ParsedType /\ ParsedNumber /\ ParsedArgs
        BY <3>1 DEF Pending, InStep, Typed, Parsed
      <4>2. state = "START_BYTE" /\ msgType[1] \in Types
        BY <3>1, <4>1 DEF ParsedType
      <4>3. msgType[2] \in 0 .. MaxMessages
        BY <4>1, SpiConstants DEF SlaveOK, Bytes, None
      <4>4. msgType[2] = Len(executed) + 1
        BY <4>1 DEF ParsedNumber
      <4>5. Len(args) = RxLength[msgType[1]] /\ \A i \in 1 .. Len(args) : args[i][2] = msgType[2]
        BY <4>1 DEF ParsedArgs
      <4>6. TxLength[msgType[1]] \in Nat
        BY <4>2, SpiConstants
      <4> QED BY <4>1, <4>2, <4>3, <4>4, <4>5, <4>6 DEF SlaveOK
    <3>3. b \in AnswerBytes /\ answer \in Seq(AnswerBytes)
      <4>1. \A i \in 1 .. TxLength[msgType[1]] : <<"answer", msgType[2], i>> \in AnswerBytes
        BY <3>2 DEF AnswerBytes
      <4>2. answer \in Seq(AnswerBytes)
        <5>1. answer \in [1 .. TxLength[msgType[1]] -> AnswerBytes]
          BY <4>1
        <5>2. TxLength[msgType[1]] \in Nat
          BY <3>2
        <5> HIDE DEF answer
        <5> QED BY <5>1, <5>2
      <4>3. b \in AnswerBytes
        BY <3>2 DEF AnswerBytes
      <4> QED BY <4>2, <4>3
    <3>4. /\ Len(executed') = Len(executed) + (IF msgType[1] = BOOT_MSG THEN 0 ELSE 1)
          /\ ExecutesInOrder'
      <4>1. CASE msgType[1] = BOOT_MSG
        <5>1. executed' = executed
          BY <2>3, <4>1 DEF Callback, BootResponse
        <5>2. ExecutesInOrder'
          BY <5>1 DEF InStep, ExecutesInOrder
        <5> QED BY <3>2, <4>1, <5>1, <5>2
      <4>2. CASE msgType[1] # BOOT_MSG
        BY <2>3, <3>2, <4>2, <2>RunInOrder DEF Callback, BootResponse
      <4> QED BY <4>1, <4>2
    <3>6. Parsed'
      <4>1. UNCHANGED <<msg, number, state, msgType, args>> /\ ParsedType /\ ParsedArgs
        BY <2>1, <3>1 DEF masterVars, parser, InStep, Parsed
      <4>2. Pending' <=> msgType[1] = BOOT_MSG
        BY <3>1, <4>1 DEF Pending
      <4>3. ParsedType'
        BY <3>1, <3>2, <4>1 DEF ParsedType
      <4>4. ParsedNumber'
        <5>1. Len(executed) \in Nat
          BY <3>2
        <5>2. Len(executed') + (IF msgType[1] = BOOT_MSG THEN 1 ELSE 0) = Len(executed) + 1
          BY <3>4, <5>1
        <5> QED BY <3>2, <4>1, <4>2, <5>2 DEF ParsedNumber
      <4>5. ParsedArgs'
        BY <3>2, <4>1, Zenon DEF ParsedArgs
      <4> QED BY <4>3, <4>4, <4>5 DEF Parsed
    <3>7. Queued'
      <4>1. ParserPhase' = ParserPhase /\ Begun' = Begun
        BY <3>1, <3>2, <3>4 DEF parser, ParserPhase, Begun, Pending
      <4>2. MasterPhase' = MasterPhase /\ Sent' = Sent
        BY <2>1 DEF masterVars, MasterPhase, Sent
      <4> QED BY <2>1, <3>1, <4>1, <4>2 DEF masterVars, InStep, Queued
    <3>8. ASSUME Clean' PROVE AnswerKept'
      <4>1. AnswerKept
        BY <2>1, <3>8
      <4>2. master = "wait" /\ tx = <<>> /\ INT = 0 /\ Len(executed) = number - 1 /\ number > 0
        BY <3>1, <4>1, Zenon DEF AnswerKept, Silent, Settled, Answering, InStep, Typed, MasterOK
      <4>3. msgType[2] = number /\ msgType[1] = msg
        <5>1. msgType[2] = number
          BY <2>0, <3>2, <4>2
        <5> QED BY <4>2, <5>1 DEF InStep, Parsed, ParsedType
      <4>4. b = <<"status", number>> /\ answer = Rest(0)
        <5>1. answer = [i \in 1 .. TxLength[msg] |-> <<"answer", number, i>>]
          BY <4>3, Zenon
        <5>2. TxLength[msg] \in Nat
          BY <2>0
        <5>3. answer = Rest(0)
          <6> HIDE DEF answer
          <6> QED BY ONLY <5>1, <5>2 DEF Rest
        <5> QED BY <4>3, <5>3, Zenon
      <4>5. tx' = Whole
        <5> HIDE DEF b, answer
        <5>1. <<>> \o <<b>> \o answer = <<b>> \o answer
          BY <3>3
        <5> QED BY <3>1, <4>2, <4>4, <5>1 DEF Whole
      <4>6. Whole' = Whole
        BY <2>1 DEF masterVars, Whole, Rest
      <4> QED BY <2>1, <3>1, <4>2, <4>3, <4>5, <4>6, Zenon DEF masterVars, parser, AnswerKept
    <3> QED BY <3>4, <3>6, <3>7, <3>8
  <2>4. CASE setSPIInt
    <3>1. slave = "raise" /\ INT' = 1 /\ slave' = "drain" /\ UNCHANGED <<rx, tx, parser, executed>>
      BY <2>4 DEF setSPIInt
    <3>2. ExecutesInOrder'
      BY <3>1 DEF InStep, ExecutesInOrder
    <3>5. Parsed'
      <4>1. UNCHANGED <<msg, number, state, msgType, args, executed>> /\ ParsedType /\ ParsedNumber /\ ParsedArgs
        BY <2>1, <3>1 DEF masterVars, parser, InStep, Parsed
      <4>2. ParsedType'
        BY <3>1, <4>1 DEF ParsedType
      <4>3. ParsedNumber' /\ ParsedArgs'
        BY <3>1, <4>1 DEF ParsedNumber, ParsedArgs, Pending
      <4> QED BY <4>2, <4>3 DEF Parsed
    <3>3. Queued'
      BY <2>1, <3>1 DEF masterVars, parser, InStep, Queued, ParserPhase, Begun, Pending, MasterPhase, Sent
    <3>4. ASSUME Clean' PROVE AnswerKept'
      <4>1. master = "wait" /\ msgType[2] = number /\ tx = Whole
        BY <2>1, <3>1, <3>4, Zenon DEF AnswerKept, Silent, Settled, Answering, InStep, Typed, MasterOK
      <4>2. Whole' = Whole
        BY <2>1 DEF masterVars, Whole, Rest
      <4> QED BY <2>1, <3>1, <4>1, <4>2 DEF masterVars, parser, AnswerKept, Answering
    <3> QED BY <3>2, <3>3, <3>4, <3>5
  <2>5. CASE clearSPIInt
    <3>1. /\ slave = "drain" /\ tx = <<>> /\ INT' = 0 /\ UNCHANGED <<rx, tx, parser, executed>>
          /\ slave' = IF msgType[1] = BOOT_MSG THEN "bootload" ELSE "poll"
      BY <2>5 DEF clearSPIInt, Drained
    <3>2. ExecutesInOrder'
      BY <3>1, Zenon DEF InStep, ExecutesInOrder
    <3>3. Parsed'
      <4>1. UNCHANGED <<msg, number, state, msgType, args, executed>> /\ ParsedType /\ ParsedNumber /\ ParsedArgs
        BY <2>1, <3>1 DEF masterVars, parser, InStep, Parsed
      <4>2. ParsedType'
        BY <3>1, <4>1 DEF ParsedType
      <4>3. ParsedNumber' /\ ParsedArgs'
        BY <3>1, <4>1 DEF ParsedNumber, ParsedArgs, Pending
      <4> QED BY <4>2, <4>3 DEF Parsed
    <3>4. Queued'
      BY <2>1, <3>1 DEF masterVars, parser, InStep, Queued, ParserPhase, Begun, Pending, MasterPhase, Sent
    <3>5. ASSUME Clean' PROVE AnswerKept'
      <4>1. AnswerKept
        BY <2>1, <3>5
      <4>2. tx # Whole
        <5> DEFINE b == <<"status", number>>
        <5>1. 0 \in 0 .. TxLength[msg]
          BY <2>0
        <5>2. Rest(0) \in Seq(AnswerBytes) /\ b \in AnswerBytes
          BY <5>1, <1>AnswerTyped
        <5> HIDE DEF b
        <5>3. <<b>> \o Rest(0) # <<>>
          BY <5>2
        <5> QED BY <3>1, <5>3, Zenon DEF Whole, b
      <4>3. master # "receive"
        <5> SUFFICES ASSUME master = "receive" PROVE FALSE
          OBVIOUS
        <5>1. Len(buff) \in 0 .. TxLength[msg] /\ Len(buff) < TxLength[msg] /\ tx = Rest(Len(buff))
          <6>1. Len(buff) \in Nat
            BY DEF InStep, Typed, MasterOK
          <6>2. Len(buff) < TxLength[msg] /\ tx = Rest(Len(buff))
            BY <4>1 DEF AnswerKept
          <6> QED BY <2>0, <6>1, <6>2
        <5>2. Len(Rest(Len(buff))) = TxLength[msg] - Len(buff)
          BY <5>1, <1>AnswerTyped
        <5> QED BY <2>0, <3>1, <5>1, <5>2
      <4>4. master = "release" /\ Answering /\ Fresh
        BY <3>1, <4>1, <4>2, <4>3, Zenon DEF AnswerKept, Silent, Settled, InStep, Typed, MasterOK
      <4>5. msgType[1] # BOOT_MSG => Len(executed) = number
        <5>1. ParsedNumber /\ Len(executed) \in Nat /\ state = "START_BYTE" /\ msgType[2] = number
          BY <3>1, <4>4 DEF Answering, InStep, Typed, Parsed, ParsedType, SlaveOK
        <5> QED BY <3>1, <5>1 DEF ParsedNumber, Pending
      <4> QED BY <2>1, <3>1, <4>4, <4>5 DEF masterVars, AnswerKept, Settled, Fresh
    <3> QED BY <3>2, <3>3, <3>4, <3>5
  <2>6. CASE bootload
    <3>1. slave = "bootload" /\ slave' = "restart" /\ Run /\ UNCHANGED <<rx, tx, INT, parser>>
      BY <2>6 DEF bootload
    <3>2. state = "START_BYTE" /\ Pending /\ msgType[2] = Len(executed) + 1
      BY <3>1 DEF Pending, InStep, Parsed, ParsedType, ParsedNumber
    <3>3. Len(executed') = Len(executed) + 1 /\ ExecutesInOrder' /\ Len(executed) \in Nat
      BY <3>1, <3>2, <2>RunInOrder DEF InStep, Typed, SlaveOK
    <3>5. Parsed'
      <4>1. UNCHANGED <<msg, number, state, msgType, args>> /\ ParsedType
        BY <2>1, <3>1 DEF masterVars, parser, InStep, Parsed
      <4>2. ~Pending' /\ state' = "START_BYTE"
        BY <3>1, <3>2, <4>1 DEF Pending
      <4>3. ParsedType'
        BY <3>1, <3>2, <4>1 DEF ParsedType
      <4>4. ParsedNumber'
        BY <3>2, <3>3, <4>1, <4>2 DEF ParsedNumber
      <4>5. ParsedArgs'
        BY <4>2 DEF ParsedArgs
      <4> QED BY <4>3, <4>4, <4>5 DEF Parsed
    <3>6. Queued'
      <4>1. ParserPhase' = ParserPhase /\ Begun' = Begun
        BY <3>1, <3>2, <3>3 DEF parser, ParserPhase, Begun, Pending
      <4>2. MasterPhase' = MasterPhase /\ Sent' = Sent
        BY <2>1 DEF masterVars, MasterPhase, Sent
      <4> QED BY <2>1, <3>1, <4>1, <4>2 DEF masterVars, InStep, Queued
    <3>7. ASSUME Clean' PROVE AnswerKept'
      <4>1. AnswerKept
        BY <2>1, <3>7
      <4> QED BY <2>1, <3>1, <4>1, Zenon DEF masterVars, AnswerKept, Silent, Settled, Answering, Fresh
    <3> QED BY <3>3, <3>5, <3>6, <3>7
  <2> QED BY <2>2, <2>3, <2>4, <2>5, <2>6 DEF slaveLoop
<1>1. Init => IInv
  <2> SUFFICES ASSUME Init PROVE IInv
    OBVIOUS
  <2>1. MasterOK /\ SlaveOK
    BY SpiConstants DEF Init, MasterOK, SlaveOK, Numbered
  <2>2. FlagsOK
    BY Zenon DEF Init, FlagsOK
  <2>3. FramedOK /\ Parsed /\ ExecutesInOrder
    BY DEF Init, FramedOK, Parsed, ParsedType, ParsedNumber, ParsedArgs, Pending, ExecutesInOrder, None
  <2>4. Queued
    <3>1. ParserPhase = 0 /\ MasterPhase = 0 /\ Begun = 0 /\ Sent = 0 /\ rx = <<>> /\ number = 0
      BY DEF Init, ParserPhase, MasterPhase, Begun, Pending, Sent
    <3> DEFINE z == [i \in 0 .. 0 |-> 0]
    <3>2. FeedVia(<<>>, 0, 0, 0, 0, 0, msg, z, z)
      BY DEF FeedVia
    <3>3. Feed(<<>>, 0, 0, 0, 0, 0, msg)
      <4>1. z \in [0 .. Len(<<>>) -> Int]
        OBVIOUS
      <4> QED BY <3>2, <4>1 DEF Feed
    <3> QED BY <3>1, <3>3 DEF Queued
  <2>5. AnswerKept
    BY DEF Init, AnswerKept, Settled, Answering
  <2> QED BY <2>1, <2>2, <2>3, <2>4, <2>5 DEF IInv, InStep, Typed
<1>2. IInv /\ [Next]_vars => IInv'
  <2> SUFFICES ASSUME IInv, [Next]_vars PROVE IInv'
    OBVIOUS
  <2>1. Typed'
    BY <1>TypedStep DEF IInv
  <2>2. ASSUME ~strayStart'
        PROVE  Parsed' /\ Queued' /\ ExecutesInOrder' /\ (Clean => AnswerKept)'
    <3>1. ~strayStart /\ InStep
      <4>1. strayStart => strayStart'
        BY Zenon DEF Next, selectModule, messageSubmodule, SendStart, SendType, SendData, WaitReady, WaitTimeout,
           ReceiveStatus, ReceiveData, deselectModule, ReleaseTimeout, ExchangeDummy, slaveLoop, StartByte,
           MsgType, Data, readByte, Callback, BootResponse, setSPIInt, clearSPIInt, bootload, vars, masterVars
      <4> QED BY <2>2, <4>1 DEF IInv
    <3>2. CASE (\E t \in Types : selectModule(t)) \/ messageSubmodule
      BY <2>2, <3>1, <3>2, <1>MasterStep
    <3>3. CASE slaveLoop
      BY <2>2, <3>1, <3>3, <1>SlaveStep
    <3>4. CASE UNCHANGED vars
      <4>1. Parsed' /\ ExecutesInOrder'
        <5>1. UNCHANGED <<msg, number, slave, state, msgType, args, executed, strayStart>>
              /\ Parsed /\ ExecutesInOrder
          BY <3>1, <3>4 DEF vars, masterVars, slaveVars, parser, InStep
        <5>2. ParsedType'
          BY <5>1 DEF Parsed, ParsedType
        <5>3. ParsedNumber' /\ ParsedArgs'
          BY <5>1 DEF Parsed, ParsedNumber, ParsedArgs, Pending
        <5> QED BY <5>1, <5>2, <5>3, Zenon DEF Parsed, ExecutesInOrder
      <4>2. Queued'
        BY <3>1, <3>4, Zenon DEF vars, masterVars, slaveVars, parser, InStep, Queued, ParserPhase, Begun, Pending,
                    MasterPhase, Sent
      <4>3. ASSUME Clean' PROVE AnswerKept'
        <5>1. AnswerKept
          BY <3>1, <3>4, <4>3 DEF vars, masterVars, InStep, Clean
        <5>2. Whole' = Whole /\ Rest(Len(buff))' = Rest(Len(buff))
          BY <3>4 DEF vars, masterVars, Whole, Rest
        <5> QED BY <3>4, <5>1, <5>2, Zenon DEF vars, masterVars, slaveVars, parser, AnswerKept, Silent,
                  Answering, Settled, Fresh
      <4> QED BY <4>1, <4>2, <4>3
    <3> QED BY <3>2, <3>3, <3>4 DEF Next
  <2> QED BY <2>1, <2>2 DEF IInv, InStep
<1> QED BY <1>1, <1>2, PTL DEF Spec

(* Each byte in a queue belongs to a transaction that was begun, and runCommsFSM leaves its *)
(* DATA state with the last byte its message takes.                                         *)
THEOREM LinkTypes == Spec => []TypeOK
<1>1. IInv => TypeOK
  <2> SUFFICES ASSUME IInv PROVE TypeOK
    OBVIOUS
  <2>1. \A b \in Numbered : ByteOK(b)
    BY SpiConstants DEF Numbered, Bytes, AnswerBytes, None, ByteOK
  <2>2. ByteOK(msgType) /\ ByteOK(status)
    BY <2>1 DEF IInv, Typed, SlaveOK, MasterOK, Numbered
  <2>3. /\ \A i \in DOMAIN rx : ByteOK(rx[i])
        /\ \A i \in DOMAIN tx : ByteOK(tx[i])
        /\ \A i \in DOMAIN args : ByteOK(args[i])
        /\ \A i \in DOMAIN buff : ByteOK(buff[i])
    BY <2>1 DEF IInv, Typed, SlaveOK, MasterOK, Numbered
  <2> QED BY <2>2, <2>3, Zenon DEF IInv, Typed, SlaveOK, MasterOK, FlagsOK, FramedOK, TypeOK
<1> QED BY <1>1, Invariance, PTL

(* The slave runs the master's messages one by one in the order they were sent, none       *)
(* skipped, none twice, each with its own data, whatever waits time out.  When              *)
(* messageSubmodule has returned and the slave is at rest, every message has run.  Both      *)
(* hold until a dummy byte that HAL_SPI_Receive sends is the start byte.                     *)
THEOREM MessagesInOrder == Spec => [](ExecutesInOrder /\ AllExecuted)
<1>1. IInv => ExecutesInOrder
  BY DEF IInv, InStep, ExecutesInOrder
<1>2. IInv => AllExecuted
  <2> SUFFICES ASSUME IInv, ~strayStart, master = "idle", AtRest PROVE Len(executed) = number
    BY DEF AllExecuted
  <2>0. InStep
    BY DEF IInv
  <2>1. Sent = number /\ Begun = Len(executed)
    BY <2>0 DEF AtRest, Sent, Begun, Pending, InStep, Typed, SlaveOK
  <2>2. rx = <<>> /\ rx \in Seq(Bytes) /\ Feed(rx, ParserPhase, Begun, MasterPhase, Sent, number, msg)
    BY <2>0 DEF AtRest, InStep, Typed, Queued, SlaveOK
  <2>3. Begun = Sent
    BY <2>0, <2>2, Phases, FeedForward, Zenon
  <2> QED BY <2>1, <2>3
<1> QED BY <1>1, <1>2, Invariance, PTL

(* Until a wait for the INT pin times out, every transaction returns its own answer, and     *)
(* after any timeouts one that is begun with the slave at rest does; both until a dummy      *)
(* byte that HAL_SPI_Receive sends is the start byte.                                        *)
THEOREM AnswersFresh == Spec => [](FreshUntilTimeout /\ (~strayStart => FreshFromRest))
<1>1. IInv => FreshUntilTimeout /\ (~strayStart => FreshFromRest)
  BY DEF IInv, InStep, Clean, AnswerKept, FreshUntilTimeout, FreshFromRest
<1> QED BY <1>1, Invariance, PTL

=============================================================================
