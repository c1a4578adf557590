------------------------------ MODULE BootProofs ------------------------------
(***************************************************************************)
(* The flasher and the boot loader of the master stay in step, whatever           *)
(* transactions time out, and so the boot loader's messages reach boot loaders      *)
(* only: for all slaves, images, chunk and flash sizes and any number of failures.  *)
(* What the flashes hold is the subject of FlashProofs.                             *)
(***************************************************************************)
EXTENDS BootChain, TLAPS

J == jobs[job]

(***************************************************************************)
(* Where the flasher and the master are, at each word of each message.             *)
(***************************************************************************)
Idle == master = "read" /\ response = ""

(* The byte count that a failed data message left behind. *)
Stray == count = 0 \/ (dataFailed /\ count \notin {0, 1})

(* The master has taken the header of the image at work. *)
Addressed == module = J.mcu /\ header = [dkey |-> Key[J.mcu], size |-> J.size, fkey |-> ERASE_FLASH_KEY]

(* And its module has been restarted into the boot loader. *)
Opened == Addressed /\ (J.mcu # OLYMPUS => slave[J.mcu].mode = "boot")

(* Two words, then one, of a header that was refused in its middle, before the words of m. *)
Junk(m) ==
  /\ dataFailed /\ master = "read" /\ count = 0
  /\ \E j \in DOMAIN jobs :
       \/ msg = DMY /\ stream = <<jobs[j].size, ERASE_FLASH_KEY>> \o m
       \/ msg = jobs[j].size /\ stream = <<ERASE_FLASH_KEY>> \o m

(* Between two messages. *)
Ready ==
  \/ /\ stage \in {"header", "jump"} /\ Idle
     /\ Junk(<<>>) \/ (stream = <<>> /\ msg = DMY /\ Stray)
  \/ stage \in {"init", "checksum"} /\ Idle /\ stream = <<>> /\ msg = DMY /\ count = 0 /\ Opened
  \/ /\ stage = "data" /\ Idle /\ stream = <<>> /\ msg = DATA /\ Opened
     /\ sentBytes \in Nat /\ sentBytes % CHUNK_SIZE = 0 /\ sentBytes < J.size /\ count = sentBytes
  \/ stage = "done" /\ stream = <<>> /\ response = "" /\ master = "app"

(* A header goes out, is taken and is answered. *)
HeaderSent ==
  Idle /\ \/ msg = DMY /\ Stray /\ stream = <<HEADER, Key[J.mcu], J.size, ERASE_FLASH_KEY>>
          \/ msg = HEADER /\ Stray /\ stream = <<Key[J.mcu], J.size, ERASE_FLASH_KEY>>
          \/ /\ msg = HEADER /\ count = 1 /\ header.dkey = Key[J.mcu]
             /\ stream = <<J.size, ERASE_FLASH_KEY>>
          \/ /\ msg = HEADER /\ count = 2 /\ header.dkey = Key[J.mcu] /\ header.size = J.size
             /\ stream = <<ERASE_FLASH_KEY>>

HeaderPassedOn ==
  /\ master \in {"status", "reboot", "restarted", "erase"} /\ response = "" /\ stream = <<>>
  /\ msg = HEADER /\ count = 0 /\ J.mcu # OLYMPUS
  /\ IF master \in {"restarted", "erase"} THEN Opened ELSE Addressed

HeaderAnswered ==
  /\ master = "read" /\ stream = <<>> /\ msg = DMY /\ count = 0
  /\ response \in {"NO_ERR", "ERR_REBOOT_FAIL", "ERR_REBOOT_START", "ERR_REBOOT_STATUS",
                   "ERR_FLASH_ERASE"}
  /\ response = "NO_ERR" => Opened

HeaderRefused ==
  /\ response = "ERR_INVALID_HEADER" /\ dataFailed
  /\ Junk(<<>>) \/ (master = "read" /\ stream = <<>> /\ msg = DMY /\ count = 0)

(* The change to data mode. *)
InitSent ==
  /\ master = "read" /\ count = 0 /\ Opened /\ sentBytes = 0
  /\ \/ msg = DMY /\ stream = <<DATA>> /\ response = ""
     \/ msg = DATA /\ stream = <<>> /\ response = "NO_ERR"

(* The words of a chunk that begins at byte cs: those not yet taken are in the stream. *)
InStream ==
  /\ stream \in Seq(Int) /\ sentBytes = count + 4 * Len(stream)
  /\ \A i \in 1 .. Len(stream) : stream[i] = Image(job)[count \div 4 + i]

ChunkAt(cs) ==
  cs % CHUNK_SIZE = 0 /\ cs < J.size /\ sentBytes = Lesser(cs + CHUNK_SIZE, J.size)

DataSent ==
  \E cs \in Nat :
    /\ ChunkAt(cs) /\ Opened
    /\ \/ /\ Idle /\ msg = DATA /\ InStream /\ stream # <<>>
          /\ count \in Nat /\ count % 4 = 0 /\ cs <= count
       \/ /\ master = "data" /\ response = "" /\ stream = <<>> /\ msg = DATA /\ count = sentBytes
          /\ J.mcu # OLYMPUS
       \/ /\ master = "read" /\ response = "NO_ERR" /\ stream = <<>>
          /\ IF sentBytes = J.size THEN msg = DMY /\ count = 0 ELSE msg = DATA /\ count = sentBytes
       \/ /\ master = "read" /\ response = "ERR_DATA_WRITE" /\ stream = <<>> /\ dataFailed
          /\ msg = DMY /\ count = sentBytes

ChecksumSent ==
  /\ count = 0
  /\ \/ Idle /\ Opened /\ msg = DMY /\ stream = <<CHECKSUM, sum>>
     \/ Idle /\ Opened /\ msg = CHECKSUM /\ stream = <<sum>>
     \/ /\ master = "checksum" /\ response = "" /\ Opened /\ msg = CHECKSUM /\ stream = <<>>
        /\ J.mcu # OLYMPUS
     \/ /\ master = "read" /\ response \in {"NO_ERR", "ERR_CHECKSUM"} /\ msg = DMY
        /\ stream = <<>>

JumpSent ==
  \/ Idle /\ msg = DMY /\ Stray /\ stream = <<JUMP>>
  \/ master = "app" /\ stream = <<>> /\ response = "NO_ERR"

Sent ==
  \/ stage = "header" /\ (HeaderSent \/ HeaderPassedOn \/ HeaderAnswered \/ HeaderRefused)
  \/ stage = "header" /\ response = ""
     /\ Junk(<<HEADER, Key[J.mcu], J.size, ERASE_FLASH_KEY>>)
  \/ stage = "init" /\ InitSent
  \/ stage = "data" /\ DataSent
  \/ stage = "checksum" /\ ChecksumSent
  \/ stage = "jump" /\ JumpSent
  \/ stage = "jump" /\ response = "" /\ Junk(<<JUMP>>)

InStep == IF waiting THEN Sent ELSE Ready

(* After the header of an empty image every word is data. *)
Stuck ==
  /\ ~NoEmptyImage /\ header.size = 0 /\ msg = DATA /\ count \in Nat
  /\ master \in {"read", "data"} /\ (master = "data" => count > 0)
  /\ response # "ERR_INVALID_HEADER"

(* After an image for Olympus that does not fit: nothing answers the flasher any more. *)
Faulted ==
  /\ master = "fault" /\ response # "ERR_INVALID_HEADER"
  /\ NoEmptyImage => response = "" /\ (J.mcu = OLYMPUS \/ stage \in {"header", "jump", "done"})

Fields == {"mode", "size", "checksum", "flashComplete", "count", "addr"}

(* A slave's statics.  Nothing is said of its checksum, which is a sum over the image. *)
IsSlave(s) == s = [f \in Fields |-> s[f]] /\ s.mode \in {"boot", "app"}

Base ==
  /\ jobs \in JobLists /\ job \in DOMAIN jobs
  /\ stage \in Stages /\ waiting \in BOOLEAN /\ (waiting => stage # "done")
  /\ count \in Nat
  /\ header = [dkey |-> header.dkey, size |-> header.size, fkey |-> header.fkey]
  /\ DOMAIN slave = Slaves /\ \A m \in Slaves : IsSlave(slave[m])

ControlInv ==
  /\ Base
  /\ InStep \/ Stuck \/ Faulted \/ (dataFailed /\ ~NoEmptyImage)
  /\ NoEmptyImage => ~misled

-----------------------------------------------------------------------------

(* The message types differ from each other, and from the size of an image. *)
LEMMA TypesDiffer ==
  /\ DATA # CHECKSUM /\ DATA # HEADER /\ DATA # JUMP /\ DATA # DMY /\ CHECKSUM # HEADER
  /\ CHECKSUM # JUMP /\ CHECKSUM # DMY /\ HEADER # JUMP /\ HEADER # DMY /\ JUMP # DMY
  /\ \A n \in Nat : n % 4 = 0 /\ n > 0 => n \notin {DATA, CHECKSUM, HEADER, JUMP, DMY}
BY DEF DATA, CHECKSUM, HEADER, JUMP, DMY

(* A job has a module and whole words. *)
LEMMA JobOK ==
  ASSUME jobs \in JobLists, NEW j \in DOMAIN jobs
  PROVE  /\ jobs[j].mcu \in Modules /\ jobs[j].size \in Nat /\ jobs[j].size % 4 = 0
         /\ Len(jobs) \in Nat /\ j \in 1 .. Len(jobs) /\ DOMAIN jobs = 1 .. Len(jobs)
<1>1. jobs \in Seq([mcu : Modules, size : Nat]) /\ jobs[j].size % 4 = 0
  BY BootConstants, Zenon
<1>2. DOMAIN jobs = 1 .. Len(jobs) /\ Len(jobs) \in Nat
  BY <1>1
<1>3. jobs[j] \in [mcu : Modules, size : Nat]
  <2>1. PICK S : S = [mcu : Modules, size : Nat]
    BY Zenon
  <2>2. jobs \in Seq(S)
    BY <1>1, <2>1, Zenon
  <2>3. jobs[j] \in S
    BY <1>2, <2>2
  <2> QED
    BY <2>1, <2>3, Zenon
<1> QED
  BY <1>1, <1>2, <1>3

(* messageSubmodule: the slave runs the message, or the transaction failed. *)
LEMMA Transacted ==
  ASSUME NEW t, NEW ws, NEW ok \in BOOLEAN, messageSubmodule(t, ws, ok)
  PROVE  /\ Run(t, ws) \/ (~ok /\ UNCHANGED <<slave, flash, misled>>)
         /\ dataFailed => dataFailed'
         /\ t = 2 /\ ~ok => dataFailed'
         /\ hidden \subseteq hidden'
         /\ ok /\ Status(t, ws) # "WR_OK" => t \in hidden'
BY Zenon DEF messageSubmodule

(* What a message does to the mode of a slave. *)
LEMMA ModeAfter ==
  ASSUME NEW s, IsSlave(s), NEW mem, NEW t \in {0, 1, 2, 3, 10}, NEW ws
  PROVE  LET r == RunMessage(s, mem, t, ws)
         IN  /\ IsSlave(r.s)
             /\ t = 0 => r.s = s
             /\ t = 10 => r.s.mode = "boot"
             /\ t \in {1, 2} /\ s.mode = "boot" => r.s.mode = "boot"
<1>1. CASE t = 0
  <2>1. RunMessage(s, mem, t, ws) = Answer(s, mem, "WR_OK")
    BY <1>1 DEF RunMessage, GET_STATUS, BOOT_MSG
  <2> QED
    BY <1>1, <2>1 DEF Answer
<1>2. CASE t = 10
  BY <1>2 DEF RunMessage, Answer, GET_STATUS, BOOT_MSG, IsSlave, FreshSlave, Fields
<1>3. CASE t \in {1, 2, 3} /\ s.mode = "app"
  BY <1>3 DEF RunMessage, Answer, GET_STATUS, BOOT_MSG
<1>4. CASE t \in {1, 2, 3} /\ s.mode = "boot"
  <2>1. CASE t = 1
    <3>1. RunMessage(s, mem, t, ws) = write_header(s, mem, ws)
      BY <1>4, <2>1 DEF RunMessage, GET_STATUS, BOOT_MSG
    <3> DEFINE u == [s EXCEPT !.size = ws[1], !.checksum = 0, !.flashComplete = FALSE]
    <3>2. IsSlave(u) /\ u.mode = s.mode
      BY Zenon DEF IsSlave, Fields
    <3> HIDE DEF u
    <3>3. write_header(s, mem, ws).s \in {s, u}
      BY DEF write_header, Answer, u
    <3> QED
      BY <1>4, <2>1, <3>1, <3>2, <3>3
  <2>2. CASE t = 2
    <3>1. RunMessage(s, mem, t, ws) = write_data(s, mem, ws)
      BY <1>4, <2>2 DEF RunMessage, GET_STATUS, BOOT_MSG
    <3> DEFINE u == [s EXCEPT !.checksum = @ + Total(ws), !.addr = @ + Len(ws),
                              !.count = @ + CHUNK_SIZE,
                              !.flashComplete = @ \/ s.count + CHUNK_SIZE >= s.size]
    <3>2. IsSlave(u) /\ u.mode = s.mode
      BY Zenon DEF IsSlave, Fields
    <3> HIDE DEF u
    <3>3. write_data(s, mem, ws).s \in {s, u}
      BY DEF write_data, Answer, u
    <3> QED
      BY <1>4, <2>2, <3>1, <3>2, <3>3
  <2>3. CASE t = 3
    <3>1. RunMessage(s, mem, t, ws) = run_checksum(s, mem, ws)
      BY <1>4, <2>3 DEF RunMessage, GET_STATUS, BOOT_MSG
    <3> QED
      BY <1>4, <2>3, <3>1 DEF run_checksum, Answer, IsSlave, Fields
  <2> QED
    BY <1>4, <2>1, <2>2, <2>3
<1> QED
  BY <1>1, <1>2, <1>3, <1>4 DEF IsSlave

(* Bytes inside the chunk that begins at byte cs. *)
LEMMA InChunk ==
  ASSUME NEW cs \in Nat, cs % CHUNK_SIZE = 0
  PROVE  /\ cs % 4 = 0 /\ (cs + CHUNK_SIZE) % CHUNK_SIZE = 0 /\ (cs + CHUNK_SIZE) % 4 = 0
         /\ \A k \in Nat : cs < k /\ k < cs + CHUNK_SIZE => k % CHUNK_SIZE = k - cs
<1> DEFINE C == CHUNK_SIZE
           q == cs \div C
<1>1. C \in Nat /\ C % 4 = 0 /\ C > 0
  BY BootConstants
<1> HIDE DEF C
<1> SUFFICES /\ cs % 4 = 0 /\ (cs + C) % C = 0 /\ (cs + C) % 4 = 0
             /\ \A k \in Nat : cs < k /\ k < cs + C => k % C = k - cs
  BY DEF C
<1>2. q \in Nat /\ cs = C * q /\ cs % C = 0
  BY <1>1 DEF C
<1> HIDE DEF q
<1>3. PICK d \in Nat : C = 4 * d
  BY <1>1
<1>4. cs % 4 = 0
  <2>1. cs = 4 * (d * q) /\ d * q \in Nat
    BY <1>2, <1>3
  <2> QED
    BY <2>1
<1>5. (cs + C) % C = 0
  BY <1>1, <1>2
<1>6. ASSUME NEW k \in Nat, cs < k, k < cs + C
      PROVE  k % C = k - cs
  <2> DEFINE x == (k \div C) - q
             r == k % C
  <2>1. k = C * (k \div C) + r /\ r \in 0 .. C - 1 /\ k \div C \in Nat
    BY <1>1
  <2>2. x \in Int /\ C * x = (k - cs) - r
    BY <1>1, <1>2, <2>1
  <2> HIDE DEF x, r
  <2>3. r \in 0 .. C - 1 /\ k - cs \in 1 .. C - 1
    BY <2>1, <1>6, <1>1
  <2>4. ~(x >= 1) /\ ~(x <= -1)
    <3>1. x >= 1 => C * x >= C
      BY <1>1, <2>2
    <3>2. x <= -1 => C * x <= -C
      BY <1>1, <2>2
    <3> QED
      BY <3>1, <3>2, <2>2, <2>3, <1>1
  <2>5. x = 0
    BY <2>2, <2>4
  <2> QED
    BY <2>2, <2>3, <2>5, <1>1 DEF r
<1> QED
  BY <1>1, <1>4, <1>5, <1>6

(* Words in front of a message. *)
LEMMA WordsBefore ==
  ASSUME NEW S, NEW m \in Seq(S), NEW a, NEW b
  PROVE  /\ <<a, b>> \o m # <<>> /\ Head(<<a, b>> \o m) = a /\ Tail(<<a, b>> \o m) = <<b>> \o m
         /\ <<b>> \o m # <<>> /\ Head(<<b>> \o m) = b /\ Tail(<<b>> \o m) = m
         /\ (<<a, b>> \o <<>>) \o m = <<a, b>> \o m /\ (<<b>> \o <<>>) \o m = <<b>> \o m
<1>1. <<a, b>> \o <<>> = <<a, b>> /\ <<b>> \o <<>> = <<b>>
  OBVIOUS
<1>2. m \in Seq(S \cup {a, b}) /\ <<a, b>> \in Seq(S \cup {a, b}) /\ <<b>> \in Seq(S \cup {a, b})
  OBVIOUS
<1>3. Len(<<a, b>> \o m) = 2 + Len(m) /\ Len(<<b>> \o m) = 1 + Len(m) /\ Len(m) \in Nat
  BY <1>2
<1>4. <<a, b>> \o m # <<>> /\ <<b>> \o m # <<>>
  BY <1>3
<1>5. Head(<<a, b>> \o m) = a /\ Head(<<b>> \o m) = b
  BY <1>2, <1>3
<1>6. Tail(<<a, b>> \o m) = <<b>> \o m
  BY <1>2, <1>3, <1>4
<1>7. Tail(<<b>> \o m) = m
  BY <1>2, <1>3, <1>4
<1> QED
  BY <1>1, <1>4, <1>5, <1>6, <1>7

(* The actions that read a word, and those that are transactions with a slave. *)
WordRead == Dmy \/ HeaderWord \/ HeaderEnd \/ DataOlympus \/ DataSlave \/ Checksum \/ Default

(* A write beyond the flash of Olympus, which nothing follows. *)
FaultWord == DataOlympusFault \/ (HeaderEnd /\ master' = "fault")

SlaveMessage ==
  PreRebootStatus \/ Reboot \/ RebootStatus \/ SlaveHeader \/ SlaveData \/ SlaveChecksum

(* A transaction is a message to the slave at work, and leaves the flasher and the words alone. *)
LEMMA MessageSent ==
  ASSUME SlaveMessage
  PROVE  /\ \E t \in {0, 1, 2, 3, 10}, ok \in BOOLEAN : \E ws : messageSubmodule(t, ws, ok)
         /\ UNCHANGED <<flasher, stream, module, header, dataAddr, checksum, commsBuff>>
         /\ count' \in {0, count}
<1>1. ASSUME NEW at, NEW t \in {0, 1, 2, 3, 10}, NEW ws, NEW next, NEW error,
             Transaction(at, t, ws, next, error)
      PROVE  /\ \E u \in {0, 1, 2, 3, 10}, ok \in BOOLEAN : \E vs : messageSubmodule(u, vs, ok)
             /\ UNCHANGED <<flasher, stream, module, header, dataAddr, checksum, commsBuff>>
             /\ count' = count
  <2>1. PICK ok \in BOOLEAN : messageSubmodule(t, ws, ok)
    BY <1>1 DEF Transaction
  <2> QED
    BY <1>1, <2>1 DEF Transaction
<1>2. CASE PreRebootStatus \/ RebootStatus
  BY <1>2, <1>1 DEF PreRebootStatus, RebootStatus, GET_STATUS
<1>3. CASE Reboot
  BY <1>3, <1>1 DEF Reboot, BOOT_MSG
<1>4. CASE SlaveHeader
  BY <1>4 DEF SlaveHeader
<1>5. CASE SlaveData
  BY <1>5 DEF SlaveData
<1>6. CASE SlaveChecksum
  BY <1>6 DEF SlaveChecksum
<1> QED
  BY <1>2, <1>3, <1>4, <1>5, <1>6 DEF SlaveMessage

(* The flasher's next step after an answer. *)
LEMMA ProceedCases ==
  ASSUME Base, waiting, NEW ok \in BOOLEAN, Proceed(ok)
  PROVE  \/ stage = "jump" /\ stage' = "done" /\ UNCHANGED <<job, verified>>
         \/ stage = "header" /\ ok /\ stage' = "init" /\ UNCHANGED <<job, verified>>
         \/ /\ stage \in {"init", "data"} /\ ok /\ UNCHANGED <<job, verified>>
            /\ stage' = IF sentBytes < jobs[job].size THEN "data" ELSE "checksum"
         \/ stage = "checksum" /\ ok /\ verified' = verified \cup {job} /\ NextJob
         \/ ~ok /\ stage # "jump" /\ NextJob /\ UNCHANGED verified
<1>1. stage \in {"header", "init", "data", "checksum", "jump"}
  BY DEF Base, Stages
<1>2. CASE stage = "jump"
  BY <1>2 DEF Proceed
<1>3. CASE stage # "jump" /\ ~ok
  BY <1>3 DEF Proceed
<1>4. CASE stage = "header" /\ ok
  BY <1>4 DEF Proceed
<1>5. CASE stage \in {"init", "data"} /\ ok
  <2>1. /\ stage' = IF sentBytes < jobs[job].size THEN "data" ELSE "checksum"
        /\ UNCHANGED <<job, verified>>
    BY <1>5, Zenon DEF Proceed
  <2> QED
    BY <1>5, <2>1
<1>6. CASE stage = "checksum" /\ ok
  BY <1>6 DEF Proceed
<1> QED
  BY <1>1, <1>2, <1>3, <1>4, <1>5, <1>6

(* The types, and what no step changes or undoes. *)
LEMMA BaseStep ==
  ASSUME Base, [Next]_vars
  PROVE  /\ Base' /\ jobs' = jobs /\ (NoEmptyImage' <=> NoEmptyImage)
         /\ dataFailed => dataFailed'
<1>1. CASE UNCHANGED vars
  BY <1>1 DEF Base, vars, flasher, statics, links, NoEmptyImage
<1>2. CASE writeMessage
  BY <1>2 DEF writeMessage, Base, statics, links, NoEmptyImage
<1>3. CASE readAnswer \/ readTimeout
  <2>1. /\ UNCHANGED <<jobs, statics, slave, links>> /\ waiting /\ waiting' = FALSE
        /\ \E ok \in BOOLEAN : Proceed(ok)
    BY <1>3, Zenon DEF readAnswer, readTimeout
  <2>2. PICK ok \in BOOLEAN : Proceed(ok)
    BY <2>1
  <2>3. Len(jobs) \in Nat /\ DOMAIN jobs = 1 .. Len(jobs) /\ job \in 1 .. Len(jobs)
    BY JobOK DEF Base
  <2>4. NextJob => job' \in DOMAIN jobs /\ stage' \in Stages
    BY <2>3 DEF NextJob, Stages
  <2>5. job' \in DOMAIN jobs /\ stage' \in Stages
    BY <2>1, <2>2, <2>4, ProceedCases DEF Base, Stages
  <2> QED
    BY <2>1, <2>5, Zenon DEF Base, statics, links, NoEmptyImage
<1>4. CASE WordRead \/ DataOlympusFault
  <2>1. UNCHANGED <<flasher, links, slave>>
    BY <1>4, Zenon DEF WordRead, Dmy, HeaderWord, HeaderEnd, DataOlympus, DataSlave, Checksum, Default, Word,
                       DataOlympusFault
  <2>3. count' \in {0, count, count + 1, count + 4}
    BY <1>4, Zenon DEF WordRead, Dmy, HeaderWord, HeaderEnd, DataOlympus, DataSlave, Checksum, Default,
                       DataOlympusFault
  <2>4. count' \in Nat
    BY <2>3 DEF Base
  <2>2. header' = [dkey |-> header'.dkey, size |-> header'.size, fkey |-> header'.fkey]
    BY <1>4, Zenon DEF WordRead, Dmy, HeaderWord, HeaderEnd, DataOlympus, DataSlave, Checksum, Default, Base,
                       DataOlympusFault
  <2> QED
    BY <2>1, <2>2, <2>4 DEF Base, flasher, links, NoEmptyImage
<1>5. CASE SlaveMessage
  <2>1. /\ UNCHANGED <<flasher, header, module>> /\ count' \in Nat
    BY <1>5, MessageSent DEF Base
  <2>2. PICK t \in {0, 1, 2, 3, 10}, ok \in BOOLEAN : \E ws : messageSubmodule(t, ws, ok)
    BY <1>5, MessageSent
  <2>3. PICK ws : messageSubmodule(t, ws, ok)
    BY <2>2
  <2>4. DOMAIN slave' = Slaves /\ \A m \in Slaves : IsSlave(slave'[m])
    <3>1. CASE UNCHANGED slave
      BY <3>1 DEF Base
    <3>2. CASE Run(t, ws)
      <4> DEFINE r == RunMessage(slave[module], flash[module], t, ws)
      <4>1. slave' = [slave EXCEPT ![module] = r.s]
        BY <3>2 DEF Run
      <4>2. module \in Slaves => IsSlave(r.s)
        BY ModeAfter DEF Base
      <4> HIDE DEF r
      <4> QED
        BY <4>1, <4>2 DEF Base
    <3> QED
      BY <2>3, Transacted, <3>1, <3>2
  <2>5. dataFailed => dataFailed'
    BY <2>3, Transacted
  <2> QED
    BY <2>1, <2>4, <2>5 DEF Base, flasher, NoEmptyImage
<1> QED
  BY <1>1, <1>2, <1>3, <1>4, <1>5 DEF Next, Boot, runBootFSM, WordRead, SlaveMessage

(* A message that is not answered yet is in the stream or in a transaction. *)
LEMMA AnswerComes ==
  Sent /\ response = "" => master # "fault" /\ (stream = <<>> => master # "read")
<1>1. <<HEADER, Key[J.mcu], J.size, ERASE_FLASH_KEY>>
        \in Seq({HEADER, Key[J.mcu], J.size, ERASE_FLASH_KEY})
  OBVIOUS
<1>2. <<JUMP>> \in Seq({JUMP})
  OBVIOUS
<1>0. Sent => master # "fault"
  BY Zenon DEF Sent, HeaderSent, HeaderPassedOn, HeaderAnswered, HeaderRefused, InitSent, DataSent,
               ChecksumSent, JumpSent, Idle, Junk
<1> SUFFICES ASSUME Sent, response = "", stream = <<>>
             PROVE  master # "read"
  BY <1>0, Zenon
<1>3. ASSUME NEW m, NEW S, m \in Seq(S)
      PROVE  ~Junk(m)
  <2>1. \A a, b : <<a, b>> \o m # <<>> /\ <<b>> \o m # <<>>
    BY <1>3, WordsBefore, Zenon
  <2> QED
    BY <2>1, Zenon DEF Junk
<1>4. ~Junk(<<HEADER, Key[J.mcu], J.size, ERASE_FLASH_KEY>>) /\ ~Junk(<<JUMP>>)
  BY <1>1, <1>2, <1>3, Zenon
<1>5. ~HeaderAnswered /\ ~HeaderRefused /\ ~HeaderSent
  BY Zenon DEF HeaderAnswered, HeaderRefused, HeaderSent
<1>6. HeaderPassedOn => master # "read"
  BY Zenon DEF HeaderPassedOn
<1>7. ~InitSent /\ ~JumpSent
  BY Zenon DEF InitSent, JumpSent
<1>8. DataSent => master # "read"
  BY Zenon DEF DataSent
<1>9. ChecksumSent => master # "read"
  BY Zenon DEF ChecksumSent
<1> QED
  BY <1>4, <1>5, <1>6, <1>7, <1>8, <1>9, Zenon DEF Sent

(* The master is at work on a message to a slave that it has addressed. *)
LEMMA SlaveAddressed ==
  ASSUME Base, InStep, SlaveMessage
  PROVE  /\ waiting
         /\ \/ stage = "header" /\ HeaderPassedOn
            \/ stage = "data" /\ master = "data" /\ DataSent
            \/ stage = "checksum" /\ master = "checksum" /\ ChecksumSent
         /\ response = "" /\ stream = <<>> /\ module = J.mcu /\ J.mcu # OLYMPUS /\ Addressed
         /\ master \notin {"status", "reboot"} => slave[module].mode = "boot"
         /\ module \in Slaves /\ DOMAIN slave = Slaves /\ IsSlave(slave[module])
<1>1. master \in {"status", "reboot", "restarted", "erase", "data", "checksum"}
  BY DEF SlaveMessage, PreRebootStatus, Reboot, RebootStatus, SlaveHeader, SlaveData, SlaveChecksum,
         Transaction
<1>2. waiting /\ Sent
  BY <1>1, Zenon DEF InStep, Ready, Idle
<1>3. \/ stage = "header" /\ HeaderPassedOn
      \/ stage = "data" /\ master = "data" /\ DataSent
      \/ stage = "checksum" /\ master = "checksum" /\ ChecksumSent
  BY <1>1, <1>2, Zenon DEF Sent, HeaderSent, HeaderAnswered, HeaderRefused, Junk, InitSent, DataSent, Idle,
                    ChecksumSent, JumpSent
<1>4. /\ response = "" /\ stream = <<>> /\ module = J.mcu /\ J.mcu # OLYMPUS /\ Addressed
      /\ master \notin {"status", "reboot"} => slave[module].mode = "boot"
  BY <1>3, Zenon DEF HeaderPassedOn, DataSent, ChecksumSent, Opened, Addressed, Idle
<1>5. module \in Slaves /\ DOMAIN slave = Slaves /\ IsSlave(slave[module])
  BY <1>4, JobOK, Zenon DEF Base, J, Modules
<1> QED
  BY <1>2, <1>3, <1>4, <1>5, Zenon

(***************************************************************************)
(* The flasher and the master are in step, up to an empty image.                   *)
(***************************************************************************)
THEOREM BootControl == Spec => []ControlInv

(* After the header of an empty image. *)
<1>StuckStep.
  ASSUME Base, Stuck, Next
  PROVE  Stuck' \/ Faulted' \/ dataFailed'
  <2> USE <1>StuckStep
  <2>1. /\ Base' /\ ~NoEmptyImage' /\ count' \in Nat /\ DATA # DMY /\ DATA # HEADER /\ DATA # CHECKSUM
        /\ count \in Nat /\ msg = DATA /\ header.size = 0
    BY BaseStep, TypesDiffer DEF Stuck, Base
  <2>2. CASE Boot
    <3>1. UNCHANGED <<statics, master>> /\ response' \in {"", response}
      BY <2>2, Zenon DEF Boot, writeMessage, readAnswer, readTimeout
    <3> QED
      BY <2>1, <3>1, Zenon DEF Stuck, statics
  <2>3. CASE WordRead
    <3>1. DataOlympus \/ DataSlave
      BY <2>1, <2>3, Zenon DEF WordRead, Dmy, HeaderWord, HeaderEnd, Checksum, Default
    <3>2. msg' = msg /\ header' = header /\ response' \in {"NO_ERR", response} /\ master = "read"
          /\ (master' = "read" \/ (master' = "data" /\ count' = count + 4))
      BY <2>1, <3>1 DEF DataOlympus, DataSlave, Word, writeResponse
    <3> QED
      BY <2>1, <3>2 DEF Stuck
  <2>4. CASE SlaveMessage
    <3>1. SlaveData
      BY <2>4, Zenon DEF Stuck, SlaveMessage, PreRebootStatus, Reboot, RebootStatus, SlaveHeader,
                  SlaveChecksum, Transaction
    <3>2. PICK ok \in BOOLEAN :
            /\ messageSubmodule(2, ZeroFilled(commsBuff), ok)
            /\ IF ok THEN /\ writeResponse("NO_ERR")
                          /\ master' = "read"
                          /\ IF count = header.size THEN count' = 0 /\ msg' = DMY
                                                    ELSE UNCHANGED <<count, msg>>
                     ELSE Finish("ERR_DATA_WRITE") /\ UNCHANGED count
      BY <3>1 DEF SlaveData
    <3>3. CASE ok
      BY <2>1, <3>1, <3>2, <3>3 DEF Stuck, SlaveData, writeResponse
    <3>4. CASE ~ok
      BY <3>2, <3>4, Transacted
    <3> QED
      BY <3>3, <3>4
  <2>5. CASE DataOlympusFault
    BY <2>1, <2>5, Zenon DEF Stuck, Faulted, DataOlympusFault, Fault
  <2> QED
    BY <2>2, <2>3, <2>4, <2>5 DEF Next, runBootFSM, WordRead, SlaveMessage

(* After a fault only the flasher goes on, and it times out. *)
<1>FaultedStep.
  ASSUME Base, Faulted, Next
  PROVE  Faulted' /\ misled' = misled
  <2> USE <1>FaultedStep
  <2>1. Boot
    BY Zenon DEF Faulted, Next, runBootFSM, Dmy, HeaderWord, HeaderEnd, DataOlympus, DataOlympusFault, DataSlave,
                 Checksum, Default, Word, PreRebootStatus, Reboot, RebootStatus, SlaveHeader, SlaveData,
                 SlaveChecksum, Transaction
  <2>2. master' = "fault" /\ misled' = misled /\ response' \in {"", response} /\ (NoEmptyImage' <=> NoEmptyImage)
    BY <2>1, BaseStep, Zenon DEF Boot, writeMessage, readAnswer, readTimeout, links, Faulted, Next
  <2>3. CASE writeMessage
    BY <2>2, <2>3, Zenon DEF writeMessage, Faulted, J
  <2>4. CASE (readAnswer \/ readTimeout) /\ NoEmptyImage
    <3>1. waiting /\ Proceed(FALSE)
      BY <2>4, Zenon DEF readAnswer, readTimeout, Faulted
    <3>2. stage' \in {"header", "jump", "done"}
      BY <3>1, ProceedCases, Zenon DEF NextJob
    <3> QED
      BY <2>2, <3>2, Zenon DEF Faulted
  <2>5. CASE (readAnswer \/ readTimeout) /\ ~NoEmptyImage
    BY <2>2, <2>5, Zenon DEF Faulted
  <2> QED
    BY <2>1, <2>2, <2>3, <2>4, <2>5, Zenon DEF Boot

(* The fault itself, on the last word of a header or on a word of the image. *)
<1>FaultStep.
  ASSUME Base, InStep, FaultWord
  PROVE  Faulted' \/ (dataFailed' /\ ~NoEmptyImage')
  <2> USE <1>FaultStep
  <2>1. /\ Word /\ master = "read" /\ stream # <<>> /\ master' = "fault" /\ UNCHANGED flasher
        /\ dataFailed' = dataFailed
        /\ msg = HEADER \/ (msg = DATA /\ module = OLYMPUS)
    BY Zenon DEF FaultWord, DataOlympusFault, HeaderEnd, Fault, Word, links
  <2>2. response' = response
    BY <2>1, Zenon DEF FaultWord, DataOlympusFault, HeaderEnd, Fault, Finish
  <2>3. J' = J /\ stage' = stage /\ (NoEmptyImage' <=> NoEmptyImage)
    BY <2>1, Zenon DEF flasher, J, NoEmptyImage
  <2>4. response = "ERR_INVALID_HEADER" => dataFailed
    BY Zenon DEF InStep, Ready, Idle, Sent, HeaderSent, HeaderPassedOn, HeaderAnswered, HeaderRefused, InitSent,
                 DataSent, ChecksumSent, JumpSent
  <2>5. ASSUME NoEmptyImage
        PROVE  response = "" /\ (J.mcu = OLYMPUS \/ stage \in {"header", "jump", "done"})
    <3>1. ASSUME NEW m, Junk(m)
          PROVE  FALSE
      <4>1. PICK j \in DOMAIN jobs : msg \in {DMY, jobs[j].size}
        BY <3>1, Zenon DEF Junk
      <4>2. jobs[j].size \notin {DATA, HEADER}
        BY <2>5, JobOK, TypesDiffer DEF Base, NoEmptyImage
      <4> QED
        BY <2>1, <4>1, <4>2, TypesDiffer, Zenon
    <3>2. waiting /\ Sent
      BY <2>1, <3>1, Zenon DEF InStep, Ready
    <3>3. CASE stage = "header"
      BY <2>1, <3>1, <3>2, <3>3, Zenon DEF Sent, HeaderSent, HeaderPassedOn, HeaderAnswered, HeaderRefused, Idle
    <3>4. CASE stage = "data"
      BY <2>1, <3>2, <3>4, TypesDiffer, Zenon DEF Sent, DataSent, Idle, Opened, Addressed
    <3>5. CASE stage \notin {"header", "data"}
      BY <2>1, <3>1, <3>2, <3>5, TypesDiffer, Zenon DEF Sent, InitSent, ChecksumSent, JumpSent
    <3> QED
      BY <3>3, <3>4, <3>5, Zenon
  <2> QED
    BY <2>1, <2>2, <2>3, <2>4, <2>5, Zenon DEF Faulted

(* The flasher sends a message. *)
<1>WriteStep.
  ASSUME Base, InStep, writeMessage
  PROVE  InStep'
  <2> USE <1>WriteStep
  <2>1. /\ ~waiting /\ Ready /\ waiting' = TRUE /\ stream' = stream \o Message /\ stage # "done"
        /\ UNCHANGED <<jobs, job, stage, response, master, msg, count, module, header, slave, dataFailed>>
    BY DEF InStep, writeMessage, statics, links
  <2> SUFFICES Sent'
    BY <2>1 DEF InStep
  <2>2. CASE stage = "header"
    <3> DEFINE m == <<HEADER, Key[J.mcu], J.size, ERASE_FLASH_KEY>>
    <3>1. Message = m /\ J' = J /\ m \in Seq({HEADER, Key[J.mcu], J.size, ERASE_FLASH_KEY})
      BY <2>1, <2>2 DEF Message, J
    <3> HIDE DEF m
    <3>2. CASE Junk(<<>>) /\ Idle
      <4>1. PICK j \in DOMAIN jobs :
              \/ msg = DMY /\ stream = <<jobs[j].size, ERASE_FLASH_KEY>> \o <<>>
              \/ msg = jobs[j].size /\ stream = <<ERASE_FLASH_KEY>> \o <<>>
        BY <3>2 DEF Junk
      <4>2. \/ msg = DMY /\ stream' = <<jobs[j].size, ERASE_FLASH_KEY>> \o m
            \/ msg = jobs[j].size /\ stream' = <<ERASE_FLASH_KEY>> \o m
        <5>1. \A a, b : (<<a, b>> \o <<>>) \o m = <<a, b>> \o m /\ (<<b>> \o <<>>) \o m = <<b>> \o m
          BY <3>1, WordsBefore, SMTT(30)
        <5> QED
          BY <2>1, <3>1, <4>1, <5>1, Zenon
      <4>3. Junk(<<HEADER, Key[J.mcu], J.size, ERASE_FLASH_KEY>>)'
        BY <2>1, <3>1, <3>2, <4>2, Zenon DEF Junk, m
      <4> QED
        BY <2>1, <2>2, <3>2, <4>3, Zenon DEF Sent, Idle
    <3>3. CASE stream = <<>> /\ msg = DMY /\ Stray /\ Idle
      <4>1. stream' = m
        BY <2>1, <3>1, <3>3
      <4>2. HeaderSent'
        BY <2>1, <3>1, <3>3, <4>1, Zenon DEF HeaderSent, Idle, Stray, m
      <4> QED
        BY <2>1, <2>2, <4>2 DEF Sent
    <3> QED
      BY <2>1, <2>2, <3>2, <3>3, Zenon DEF Ready, Idle

  <2>3. CASE stage = "jump"
    <3> DEFINE m == <<JUMP>>
    <3>1. Message = m /\ m \in Seq({JUMP})
      BY <2>3 DEF Message
    <3> HIDE DEF m
    <3>2. CASE Junk(<<>>) /\ Idle
      <4>1. PICK j \in DOMAIN jobs :
              \/ msg = DMY /\ stream = <<jobs[j].size, ERASE_FLASH_KEY>> \o <<>>
              \/ msg = jobs[j].size /\ stream = <<ERASE_FLASH_KEY>> \o <<>>
        BY <3>2 DEF Junk
      <4>2. \/ msg = DMY /\ stream' = <<jobs[j].size, ERASE_FLASH_KEY>> \o m
            \/ msg = jobs[j].size /\ stream' = <<ERASE_FLASH_KEY>> \o m
        <5>1. \A a, b : (<<a, b>> \o <<>>) \o m = <<a, b>> \o m /\ (<<b>> \o <<>>) \o m = <<b>> \o m
          BY <3>1, WordsBefore
        <5> QED
          BY <2>1, <3>1, <4>1, <5>1, Zenon
      <4>3. Junk(<<JUMP>>)'
        BY <2>1, <3>1, <3>2, <4>2, Zenon DEF Junk, m
      <4> QED
        BY <2>1, <2>3, <3>2, <4>3, Zenon DEF Sent, Idle
    <3>3. CASE stream = <<>> /\ msg = DMY /\ Stray /\ Idle
      <4>1. stream' = m
        BY <2>1, <3>1, <3>3
      <4>2. JumpSent'
        BY <2>1, <3>3, <4>1, Zenon DEF JumpSent, Idle, Stray, m
      <4> QED
        BY <2>1, <2>3, <4>2 DEF Sent
    <3> QED
      BY <2>1, <2>3, <3>2, <3>3, Zenon DEF Ready, Idle
  <2>4. CASE stage = "init"
    <3>1. Message = <<DATA>> /\ J' = J
      BY <2>1, <2>4 DEF Message, J
    <3>2. Idle /\ stream = <<>> /\ msg = DMY /\ count = 0 /\ Opened
      BY <2>1, <2>4 DEF Ready
    <3>3. stream' = <<DATA>> /\ sentBytes' = 0
      BY <2>1, <2>4, <3>1, <3>2 DEF writeMessage
    <3>4. InitSent'
      BY <2>1, <3>1, <3>2, <3>3, Zenon DEF InitSent, Idle, Opened, Addressed
    <3> QED
      BY <2>1, <2>4, <3>4 DEF Sent
  <2>5. CASE stage = "checksum"
    <3>1. Message = <<CHECKSUM, sum>> /\ J' = J
      BY <2>1, <2>5 DEF Message, J
    <3>2. Idle /\ stream = <<>> /\ msg = DMY /\ count = 0 /\ Opened
      BY <2>1, <2>5 DEF Ready
    <3>3. stream' = <<CHECKSUM, sum>> /\ sum' = sum
      BY <2>1, <2>5, <3>1, <3>2 DEF writeMessage
    <3>4. ChecksumSent'
      BY <2>1, <3>1, <3>2, <3>3, Zenon DEF ChecksumSent, Idle, Opened, Addressed
    <3> QED
      BY <2>1, <2>5, <3>4 DEF Sent
  <2>6. CASE stage = "data"
    <3> DEFINE cs == sentBytes
               e == Lesser(sentBytes + CHUNK_SIZE, J.size)
    <3>1. /\ Idle /\ stream = <<>> /\ msg = DATA /\ Opened
          /\ cs \in Nat /\ cs % CHUNK_SIZE = 0 /\ cs < J.size /\ count = cs
      BY <2>1, <2>6 DEF Ready
    <3>2. /\ J.size \in Nat /\ J.size % 4 = 0 /\ cs % 4 = 0 /\ (cs + CHUNK_SIZE) % 4 = 0
          /\ CHUNK_SIZE \in Nat /\ CHUNK_SIZE > 0
      BY <3>1, JobOK, InChunk, BootConstants DEF J, Base
    <3>3. e \in Nat /\ cs < e /\ e <= J.size /\ e % 4 = 0
      BY <3>1, <3>2 DEF Lesser
    <3>4. /\ Image(job) \in Seq(Int) /\ Len(Image(job)) = J.size \div 4
          /\ \A i \in 1 .. J.size \div 4 : Image(job)[i] \in Int
      <4>1. job \in Int
        BY JobOK DEF Base
      <4>2. J.size \div 4 \in Nat
        BY <3>2
      <4> QED
        BY <4>1, <4>2 DEF Image, J
    <3> HIDE DEF e
    <3>5. Message = Chunk /\ Chunk = SubSeq(Image(job), cs \div 4 + 1, e \div 4)
      BY <2>6, Zenon DEF Message, Chunk, e, J
    <3>6. cs \div 4 \in Nat /\ e \div 4 \in Nat /\ cs = 4 * (cs \div 4) /\ e = 4 * (e \div 4)
          /\ e \div 4 <= J.size \div 4 /\ J.size \div 4 \in Nat /\ cs \div 4 < e \div 4
      BY <3>1, <3>2, <3>3
    <3>7. /\ Chunk \in Seq(Int) /\ Len(Chunk) = e \div 4 - cs \div 4
          /\ \A i \in 1 .. Len(Chunk) : Chunk[i] = Image(job)[cs \div 4 + i]
      <4>1. Len(SubSeq(Image(job), cs \div 4 + 1, e \div 4)) = e \div 4 - cs \div 4
        BY <3>4, <3>6, SMTT(30)
      <4>2. SubSeq(Image(job), cs \div 4 + 1, e \div 4) \in Seq(Int)
        BY <3>4, <3>6
      <4>3. \A i \in 1 .. (e \div 4 - cs \div 4) :
              SubSeq(Image(job), cs \div 4 + 1, e \div 4)[i] = Image(job)[cs \div 4 + i]
        BY <3>4, <3>6, SMTT(30)
      <4> QED
        BY <3>5, <4>1, <4>2, <4>3
    <3>8. stream' = Chunk /\ sentBytes' = e
      <4>1. stream' = Chunk
        BY <2>1, <3>1, <3>5, <3>7
      <4>2. sentBytes' = cs + 4 * Len(Chunk)
        BY <2>6 DEF writeMessage
      <4> QED
        BY <4>1, <4>2, <3>6, <3>7, SMTT(30)
    <3>9. J' = J /\ Image(job)' = Image(job)
      BY <2>1 DEF J, Image
    <3>10. PICK c \in Nat : c = sentBytes
      BY <3>1
    <3>11. ChunkAt(c)'
      BY <3>1, <3>8, <3>9, <3>10 DEF ChunkAt, e
    <3>12. InStream' /\ stream' # <<>>
      <4>1. sentBytes' = count' + 4 * Len(stream')
        <5>1. count' = cs /\ Len(stream') = e \div 4 - cs \div 4 /\ sentBytes' = e
          BY <2>1, <3>1, <3>7, <3>8
        <5> QED
          BY <5>1, <3>6
      <4>2. \A i \in 1 .. Len(stream') : stream'[i] = Image(job)'[count' \div 4 + i]
        BY <2>1, <3>1, <3>7, <3>8, <3>9
      <4>3. stream' \in Seq(Int) /\ stream' # <<>>
        BY <3>6, <3>7, <3>8
      <4> QED
        BY <4>1, <4>2, <4>3 DEF InStream
    <3>13. count' \in Nat /\ count' % 4 = 0 /\ c <= count' /\ msg' = DATA /\ Idle' /\ Opened'
      <4>1. count' \in Nat /\ count' % 4 = 0 /\ c <= count'
        BY <2>1, <3>1, <3>2, <3>10
      <4>2. msg' = DATA /\ Idle'
        BY <2>1, <3>1, Zenon DEF Idle
      <4>3. Opened'
        BY <2>1, <3>1, <3>9, SMTT(30) DEF Opened, Addressed
      <4> QED
        BY <4>1, <4>2, <4>3, Zenon
    <3>14. DataSent'
      BY <3>11, <3>12, <3>13, Zenon DEF DataSent
    <3> QED
      BY <2>1, <2>6, <3>14 DEF Sent
  <2> QED
    BY <2>1, <2>2, <2>3, <2>4, <2>5, <2>6 DEF Base, Stages

(* The flasher reads an answer, or gives up waiting. *)
<1>ReadStep.
  ASSUME Base, InStep, readAnswer \/ readTimeout
  PROVE  InStep' \/ Stuck'
  <2> USE <1>ReadStep
  <2>1. readAnswer
    BY AnswerComes, Zenon DEF InStep, readTimeout
  <2>2. /\ waiting /\ Sent /\ response # "" /\ waiting' = FALSE /\ response' = ""
        /\ UNCHANGED <<jobs, sentBytes, stream, master, msg, count, module, header, slave, dataFailed>>
    BY <2>1, Zenon DEF readAnswer, InStep, statics, links
  <2> DEFINE ok == response = "NO_ERR"
  <2>3. Proceed(ok) /\ ok \in BOOLEAN
    BY <2>1, Zenon DEF readAnswer
  <2>4. ~InStep' => ~Ready'
    BY <2>2, Zenon DEF InStep
  <2>5. NextJob => stage' \in {"header", "jump"}
    BY DEF NextJob
  <2>6. ASSUME master = "read", stage' \in {"header", "jump"},
               Junk(<<>>) \/ (stream = <<>> /\ msg = DMY /\ Stray)
        PROVE  Ready'
    BY <2>2, <2>6, Zenon DEF Ready, Idle, Junk, Stray
  <2>7. CASE stage = "header"
    <3>1. HeaderAnswered \/ HeaderRefused
      BY <2>2, <2>7, Zenon DEF Sent, HeaderSent, HeaderPassedOn, Idle
    <3>2. CASE ok
      <4>1. HeaderAnswered /\ stage' = "init" /\ job' = job
        BY <2>2, <2>3, <2>7, <3>1, <3>2, ProceedCases, Zenon DEF HeaderRefused
      <4> QED
        BY <2>2, <2>4, <3>2, <4>1, Zenon DEF HeaderAnswered, Ready, Idle, Opened, Addressed, J
    <3>3. CASE ~ok
      <4>1. stage' \in {"header", "jump"}
        BY <2>2, <2>3, <2>5, <2>7, <3>3, ProceedCases, Zenon
      <4>2. master = "read" /\ (Junk(<<>>) \/ (stream = <<>> /\ msg = DMY /\ Stray))
        BY <3>1 DEF HeaderAnswered, HeaderRefused, Junk, Stray
      <4> QED
        BY <2>4, <2>6, <4>1, <4>2
    <3> QED
      BY <3>2, <3>3
  <2>8. CASE stage = "init"
    <3>1. /\ master = "read" /\ count = 0 /\ Opened /\ sentBytes = 0
          /\ msg = DATA /\ stream = <<>> /\ response = "NO_ERR"
      BY <2>2, <2>8, Zenon DEF Sent, InitSent
    <3>2. stage' = (IF sentBytes < J.size THEN "data" ELSE "checksum") /\ job' = job
      BY <2>2, <2>3, <2>8, <3>1, ProceedCases, Zenon DEF J
    <3>3. J.size \in Nat /\ CHUNK_SIZE \in Nat /\ CHUNK_SIZE > 0
      BY JobOK, BootConstants DEF Base, J
    <3>4. CASE J.size > 0
      <4>1. stage' = "data" /\ J' = J
        BY <2>2, <3>1, <3>2, <3>3, <3>4, Zenon DEF J
      <4>2. sentBytes' \in Nat /\ sentBytes' % CHUNK_SIZE = 0 /\ sentBytes' < J.size
        <5>1. 0 % CHUNK_SIZE = 0
          BY <3>3
        <5> QED
          BY <2>2, <3>1, <3>3, <3>4, <5>1, Zenon
      <4> QED
        BY <2>2, <2>4, <3>1, <4>1, <4>2, Zenon DEF Ready, Idle, Opened, Addressed
    <3>5. CASE J.size = 0
      <4>1. ~NoEmptyImage /\ header.size = 0
        BY <3>1, <3>5 DEF NoEmptyImage, J, Base, Opened, Addressed
      <4> QED
        BY <2>2, <3>1, <4>1, Zenon DEF Stuck, NoEmptyImage
    <3> QED
      BY <3>3, <3>4, <3>5
  <2>9. CASE stage = "data"
    <3>1. PICK cs \in Nat :
            /\ ChunkAt(cs) /\ Opened /\ master = "read" /\ stream = <<>>
            /\ \/ /\ response = "NO_ERR"
                  /\ IF sentBytes = J.size THEN msg = DMY /\ count = 0 ELSE msg = DATA /\ count = sentBytes
               \/ response = "ERR_DATA_WRITE" /\ dataFailed /\ msg = DMY /\ count = sentBytes
      BY <2>2, <2>9, Zenon DEF Sent, DataSent, Idle
    <3>2. /\ J.size \in Nat /\ J.size % 4 = 0 /\ CHUNK_SIZE \in Nat /\ CHUNK_SIZE > 0
          /\ (cs + CHUNK_SIZE) % CHUNK_SIZE = 0 /\ (cs + CHUNK_SIZE) % 4 = 0
      BY <3>1, JobOK, InChunk, BootConstants DEF Base, J, ChunkAt
    <3>3. /\ sentBytes \in Nat /\ sentBytes > 0 /\ sentBytes % 4 = 0 /\ sentBytes <= J.size
          /\ sentBytes < J.size => sentBytes % CHUNK_SIZE = 0
      BY <3>1, <3>2 DEF ChunkAt, Lesser
    <3>4. CASE response = "NO_ERR"
      <4>1. stage' = (IF sentBytes < J.size THEN "data" ELSE "checksum") /\ job' = job /\ J' = J
        BY <2>2, <2>3, <2>9, <3>4, ProceedCases, Zenon DEF J
      <4>2. CASE sentBytes < J.size
        <5>1. stage' = "data" /\ msg = DATA /\ count = sentBytes
          BY <3>1, <3>2, <3>3, <3>4, <4>1, <4>2
        <5> QED
          BY <2>2, <2>4, <3>1, <3>3, <4>1, <4>2, <5>1, Zenon DEF Ready, Idle, Opened, Addressed
      <4>3. CASE ~(sentBytes < J.size)
        <5>1. stage' = "checksum" /\ msg = DMY /\ count = 0
          BY <3>1, <3>2, <3>3, <3>4, <4>1, <4>3
        <5> QED
          BY <2>2, <2>4, <3>1, <4>1, <5>1, Zenon DEF Ready, Idle, Opened, Addressed
      <4> QED
        BY <4>2, <4>3
    <3>5. CASE response # "NO_ERR"
      <4>1. stage' \in {"header", "jump"}
        BY <2>2, <2>3, <2>5, <2>9, <3>5, ProceedCases, Zenon
      <4>2. Stray
        BY <3>1, <3>3, <3>5 DEF Stray
      <4> QED
        BY <2>4, <2>6, <3>1, <3>5, <4>1, <4>2
    <3> QED
      BY <3>4, <3>5
  <2>10. CASE stage = "checksum"
    <3>1. master = "read" /\ msg = DMY /\ stream = <<>> /\ Stray
      BY <2>2, <2>10, Zenon DEF Sent, ChecksumSent, Idle, Stray
    <3>2. stage' \in {"header", "jump"}
      BY <2>2, <2>3, <2>5, <2>10, ProceedCases, Zenon
    <3> QED
      BY <2>4, <2>6, <3>1, <3>2
  <2>11. CASE stage = "jump"
    <3>1. master = "app" /\ stream = <<>>
      BY <2>2, <2>11, Zenon DEF Sent, JumpSent, Idle
    <3>2. stage' = "done"
      BY <2>2, <2>3, <2>11, ProceedCases, Zenon
    <3> QED
      BY <2>2, <2>4, <3>1, <3>2, Zenon DEF Ready
  <2> QED
    BY <2>2, <2>7, <2>8, <2>9, <2>10, <2>11, Zenon DEF Base, Stages

(* The master reads a word. *)
<1>WordStep.
  ASSUME Base, InStep, WordRead, master' # "fault"
  PROVE  InStep' \/ (dataFailed' /\ ~NoEmptyImage)
  <2> USE <1>WordStep
  (* The words of a refused header are skipped: a size is no message type. *)
  <2>JunkStep.
    ASSUME Base, NEW S, NEW m \in Seq(S), Junk(m), WordRead, NoEmptyImage
    PROVE  /\ dataFailed' /\ master' = "read" /\ count' = 0 /\ response' = response
           /\ \/ \E j \in DOMAIN jobs : msg' = jobs[j].size /\ stream' = <<ERASE_FLASH_KEY>> \o m
              \/ stream' = m /\ msg' = DMY
    <3> USE <2>JunkStep
    <3>1. PICK j \in DOMAIN jobs :
            \/ msg = DMY /\ stream = <<jobs[j].size, ERASE_FLASH_KEY>> \o m
            \/ msg = jobs[j].size /\ stream = <<ERASE_FLASH_KEY>> \o m
      BY SMTT(30) DEF Junk
    <3> DEFINE n == jobs[j].size
    <3>2. n \notin {DATA, CHECKSUM, HEADER, JUMP, DMY}
      BY <3>1, JobOK, TypesDiffer DEF Base, NoEmptyImage
    <3>3. dataFailed' /\ master = "read" /\ count = 0 /\ stream' = Tail(stream)
      <4>1. Word
        BY Zenon DEF WordRead, Dmy, HeaderWord, HeaderEnd, DataOlympus, DataSlave, Checksum, Default
      <4> QED
        BY <4>1, SMTT(30) DEF Word, links, Junk
    <3> HIDE DEF n
    <3>4. CASE msg = DMY /\ stream = <<n, ERASE_FLASH_KEY>> \o m
      <4>1. Head(stream) = n /\ Tail(stream) = <<ERASE_FLASH_KEY>> \o m
        BY <3>4, WordsBefore, SMTT(30)
      <4>2. Dmy
        BY <3>4, TypesDiffer, Zenon DEF WordRead, HeaderWord, HeaderEnd, DataOlympus, DataSlave, Checksum, Default
      <4>3. msg' = n /\ response' = response /\ master' = "read" /\ count' = count
        BY <3>2, <4>1, <4>2 DEF Dmy
      <4> QED
        BY <3>3, <4>1, <4>3, SMTT(30) DEF n
    <3>5. CASE msg = n /\ stream = <<ERASE_FLASH_KEY>> \o m
      <4>1. Tail(stream) = m
        BY <3>5, WordsBefore, SMTT(30)
      <4>2. Default
        BY <3>2, <3>5, Zenon DEF WordRead, Dmy, HeaderWord, HeaderEnd, DataOlympus, DataSlave, Checksum
      <4> QED
        BY <3>3, <4>1, <4>2, SMTT(30) DEF Default
    <3> QED
      BY <3>1, <3>4, <3>5, SMTT(30) DEF n
  <2>1. <<>> \in Seq({}) /\ <<JUMP>> \in Seq({JUMP})
    OBVIOUS
  <2>2. <<HEADER, Key[J.mcu], J.size, ERASE_FLASH_KEY>>
          \in Seq({HEADER, Key[J.mcu], J.size, ERASE_FLASH_KEY})
    OBVIOUS
  <2>3. /\ master = "read" /\ stream # <<>> /\ stream' = Tail(stream) /\ J' = J
        /\ UNCHANGED <<jobs, job, stage, waiting, sentBytes, sum, dataFailed, slave>>
    <3>1. Word /\ UNCHANGED slave
      BY Zenon DEF WordRead, Dmy, HeaderWord, HeaderEnd, DataOlympus, DataSlave, Checksum, Default
    <3> QED
      BY <3>1 DEF Word, flasher, links, J
  <2> SUFFICES ASSUME ~dataFailed \/ NoEmptyImage
               PROVE  InStep'
    BY <2>3
  <2>4. ASSUME NEW m, NEW S, m \in Seq(S), Junk(m)
        PROVE  /\ dataFailed' /\ master' = "read" /\ count' = 0 /\ response' = response
               /\ \/ \E j \in DOMAIN jobs : msg' = jobs[j].size /\ stream' = <<ERASE_FLASH_KEY>> \o m
                  \/ stream' = m /\ msg' = DMY
    BY <2>4, <2>JunkStep, Zenon DEF Junk
  <2>5. CASE ~waiting
    <3>1. stage \in {"header", "jump"} /\ Idle /\ Junk(<<>>)
      BY <2>3, <2>5 DEF InStep, Ready
    <3>2. Junk(<<>>)' \/ (stream' = <<>> /\ msg' = DMY /\ Stray')
      BY <2>1, <2>3, <2>4, <3>1, Zenon DEF Junk, Stray
    <3>3. Idle'
      BY <2>1, <2>4, <3>1, Zenon DEF Idle
    <3> QED
      BY <2>3, <2>5, <3>1, <3>2, <3>3, Zenon DEF InStep, Ready
  <2>6. ASSUME waiting, Sent'
        PROVE  InStep'
    BY <2>3, <2>6 DEF InStep
  <2>7. CASE waiting /\ stage = "header"
    <3>1. CASE Junk(<<>>) /\ response = "ERR_INVALID_HEADER"
      <4>1. Junk(<<>>)' \/ (stream' = <<>> /\ msg' = DMY /\ count' = 0)
        BY <2>1, <2>3, <2>4, <3>1, Zenon DEF Junk
      <4>2. HeaderRefused'
        BY <2>1, <2>4, <3>1, <4>1, Zenon DEF HeaderRefused
      <4> QED
        BY <2>3, <2>6, <2>7, <4>2, SMTT(30) DEF Sent
    <3>2. CASE Junk(<<HEADER, Key[J.mcu], J.size, ERASE_FLASH_KEY>>) /\ response = ""
      <4> DEFINE m == <<HEADER, Key[J.mcu], J.size, ERASE_FLASH_KEY>>
      <4>1. /\ dataFailed' /\ master' = "read" /\ count' = 0 /\ response' = ""
            /\ \/ \E j \in DOMAIN jobs : msg' = jobs[j].size /\ stream' = <<ERASE_FLASH_KEY>> \o m
               \/ stream' = m /\ msg' = DMY
        BY <2>2, <2>4, <3>2, Zenon
      <4>2. CASE stream' = m /\ msg' = DMY
        <5>1. HeaderSent'
          BY <2>3, <4>1, <4>2, Zenon DEF HeaderSent, Idle, Stray
        <5> QED
          BY <2>3, <2>6, <2>7, <5>1, Zenon DEF Sent
      <4>3. CASE \E j \in DOMAIN jobs : msg' = jobs[j].size /\ stream' = <<ERASE_FLASH_KEY>> \o m
        <5>1. Junk(<<HEADER, Key[J.mcu], J.size, ERASE_FLASH_KEY>>)'
          BY <2>3, <4>1, <4>3, Zenon DEF Junk
        <5> QED
          BY <2>3, <2>6, <2>7, <4>1, <5>1, Zenon DEF Sent
      <4> QED
        BY <4>1, <4>2, <4>3, Zenon
    <3>3. CASE HeaderSent
      <4>1. response = "" /\ J.mcu \in Modules
        BY <3>3, JobOK, BootConstants, Zenon DEF HeaderSent, Idle, Base, J
      <4>2. ASSUME HeaderSent' \/ HeaderPassedOn' \/ HeaderAnswered' \/ HeaderRefused'
            PROVE  InStep'
        BY <2>3, <2>6, <2>7, <4>2, Zenon DEF Sent
      <4>3. CASE msg = DMY /\ Stray /\ stream = <<HEADER, Key[J.mcu], J.size, ERASE_FLASH_KEY>>
        <5>1. Head(stream) = HEADER /\ stream' = <<Key[J.mcu], J.size, ERASE_FLASH_KEY>>
          BY <2>3, <4>3
        <5>2. Dmy
          BY <4>3, TypesDiffer, Zenon DEF WordRead, HeaderWord, HeaderEnd, DataOlympus, DataSlave, Checksum,
                                   Default
        <5>3. msg' = HEADER /\ response' = response /\ master' = "read" /\ count' = count
          BY <5>1, <5>2, TypesDiffer, SMTT(30) DEF Dmy
        <5>4. HeaderSent'
          BY <2>3, <4>1, <4>3, <5>1, <5>3, Zenon DEF HeaderSent, Idle, Stray
        <5> QED
          BY <4>2, <5>4, SMTT(30)
      <4>4. CASE msg = HEADER /\ count = 0 /\ stream = <<Key[J.mcu], J.size, ERASE_FLASH_KEY>>
        <5>1. Head(stream) = Key[J.mcu] /\ stream' = <<J.size, ERASE_FLASH_KEY>>
          BY <2>3, <4>4
        <5>2. HeaderWord
          BY <4>4, TypesDiffer DEF WordRead, Dmy, HeaderEnd, DataOlympus, DataSlave, Checksum, Default
        <5>3. msg' = HEADER /\ response' = response /\ master' = "read" /\ count' = 1
              /\ header' = [header EXCEPT !.dkey = Key[J.mcu]]
          BY <2>3, <4>4, <5>1, <5>2 DEF HeaderWord
        <5>4. header'.dkey = Key[J.mcu]
          BY <5>3 DEF Base
        <5>5. HeaderSent'
          BY <2>3, <4>1, <5>1, <5>3, <5>4, Zenon DEF HeaderSent, Idle
        <5> QED
          BY <4>2, <5>5
      <4>5. CASE /\ msg = HEADER /\ count \notin {0, 1} /\ dataFailed
                 /\ stream = <<Key[J.mcu], J.size, ERASE_FLASH_KEY>>
        <5>1. Head(stream) = Key[J.mcu] /\ stream' = <<J.size, ERASE_FLASH_KEY>>
          BY <2>3, <4>5
        <5>2. HeaderEnd
          BY <4>5, TypesDiffer DEF WordRead, Dmy, HeaderWord, DataOlympus, DataSlave, Checksum, Default
        <5>3. ~ValidHeader(Head(stream))
          BY <4>1, <5>1, BootConstants, Zenon DEF ValidHeader
        <5>4. Finish("ERR_INVALID_HEADER") /\ count' = 0
          BY <5>2, <5>3, Zenon DEF HeaderEnd
        <5>5. stream' = <<J.size, ERASE_FLASH_KEY>> \o <<>>
          BY <5>1, SMTT(30)
        <5>6. Junk(<<>>)'
          BY <2>3, <4>5, <5>4, <5>5, SMTT(30) DEF Junk, Finish, J, Base
        <5>7. HeaderRefused'
          BY <2>3, <4>5, <5>4, <5>6 DEF HeaderRefused, Finish, writeResponse
        <5> QED
          BY <4>2, <5>7, SMTT(30)
      <4>6. CASE /\ msg = HEADER /\ count = 1 /\ header.dkey = Key[J.mcu]
                 /\ stream = <<J.size, ERASE_FLASH_KEY>>
        <5>1. Head(stream) = J.size /\ stream' = <<ERASE_FLASH_KEY>>
          BY <2>3, <4>6
        <5>2. HeaderWord
          BY <4>6, TypesDiffer DEF WordRead, Dmy, HeaderEnd, DataOlympus, DataSlave, Checksum, Default
        <5>3. msg' = HEADER /\ response' = response /\ master' = "read" /\ count' = 2
              /\ header' = [header EXCEPT !.size = J.size]
          BY <2>3, <4>6, <5>1, <5>2 DEF HeaderWord
        <5>4. header'.dkey = Key[J.mcu] /\ header'.size = J.size
          BY <4>6, <5>3 DEF Base
        <5>5. HeaderSent'
          BY <2>3, <4>1, <5>1, <5>3, <5>4, Zenon DEF HeaderSent, Idle
        <5> QED
          BY <4>2, <5>5
      <4>7. CASE /\ msg = HEADER /\ count = 2 /\ header.dkey = Key[J.mcu] /\ header.size = J.size
                 /\ stream = <<ERASE_FLASH_KEY>>
        <5>1. Head(stream) = ERASE_FLASH_KEY /\ stream' = <<>>
          BY <2>3, <4>7
        <5>2. HeaderEnd
          BY <4>7, TypesDiffer, SMTT(30) DEF WordRead, Dmy, HeaderWord, DataOlympus, DataSlave, Checksum, Default
        <5>3. Addressee = J.mcu /\ Addressee # NONE
          <6>1. J.mcu \in Modules /\ Key[J.mcu] = header.dkey
            BY <4>1, <4>7, Zenon
          <6>2. \A n \in Modules : Key[n] = header.dkey => n = J.mcu
            BY <6>1, BootConstants, SMTT(30)
          <6>3. NONE \notin Modules
            BY BootConstants
          <6> QED
            BY <6>1, <6>2, <6>3 DEF Addressee
        <5>4. ValidHeader(Head(stream))
          BY <5>1, <5>3 DEF ValidHeader
        <5>5. header' = [dkey |-> Key[J.mcu], size |-> J.size, fkey |-> ERASE_FLASH_KEY]
          <6>1. header' = [header EXCEPT !.fkey = ERASE_FLASH_KEY]
            BY <5>1, <5>2 DEF HeaderEnd
          <6> QED
            BY <4>7, <6>1 DEF Base
        <5>6. Addressed' /\ count' = 0
          BY <2>3, <5>2, <5>3, <5>5, Zenon DEF HeaderEnd, Addressed
        <5>7. CASE J.mcu = OLYMPUS
          <6>1. Finish("NO_ERR")
            BY <5>2, <5>3, <5>4, <5>7, Zenon DEF HeaderEnd, Fault
          <6>2. HeaderAnswered'
            BY <2>3, <5>1, <5>6, <5>7, <6>1, SMTT(30) DEF HeaderAnswered, Opened, Finish, writeResponse
          <6> QED
            BY <4>2, <6>2
        <5>8. CASE J.mcu # OLYMPUS
          <6>1. master' = "status" /\ UNCHANGED <<response, msg>>
            BY <5>2, <5>3, <5>4, <5>8, Zenon DEF HeaderEnd
          <6>2. HeaderPassedOn'
            BY <2>3, <4>1, <4>7, <5>1, <5>6, <5>8, <6>1, Zenon DEF HeaderPassedOn
          <6> QED
            BY <4>2, <6>2
        <5> QED
          BY <5>7, <5>8, SMTT(30)
      <4> QED
        BY <3>3, <4>3, <4>4, <4>5, <4>6, <4>7 DEF HeaderSent, Stray
    <3> QED
      BY <2>3, <2>7, <3>1, <3>2, <3>3, Zenon DEF InStep, Sent, HeaderPassedOn, HeaderAnswered, HeaderRefused
  <2>8. CASE waiting /\ stage = "jump"
    <3>1. CASE Junk(<<JUMP>>) /\ response = ""
      <4> DEFINE m == <<JUMP>>
      <4>1. /\ dataFailed' /\ master' = "read" /\ count' = 0 /\ response' = ""
            /\ \/ \E j \in DOMAIN jobs : msg' = jobs[j].size /\ stream' = <<ERASE_FLASH_KEY>> \o m
               \/ stream' = m /\ msg' = DMY
        BY <2>1, <2>4, <3>1, Zenon
      <4>2. CASE stream' = m /\ msg' = DMY
        <5>1. JumpSent'
          BY <2>3, <4>1, <4>2, Zenon DEF JumpSent, Idle, Stray
        <5> QED
          BY <2>3, <2>6, <2>8, <5>1 DEF Sent
      <4>3. CASE \E j \in DOMAIN jobs : msg' = jobs[j].size /\ stream' = <<ERASE_FLASH_KEY>> \o m
        <5>1. Junk(<<JUMP>>)'
          BY <2>3, <4>1, <4>3, Zenon DEF Junk
        <5> QED
          BY <2>3, <2>6, <2>8, <4>1, <5>1, Zenon DEF Sent
      <4> QED
        BY <4>1, <4>2, <4>3, Zenon
    <3>2. CASE JumpSent
      <4>1. msg = DMY /\ stream = <<JUMP>>
        BY <2>3, <3>2 DEF JumpSent
      <4>2. Head(stream) = JUMP /\ stream' = <<>>
        BY <2>3, <4>1
      <4>3. Dmy
        BY <4>1, TypesDiffer, Zenon DEF WordRead, HeaderWord, HeaderEnd, DataOlympus, DataSlave, Checksum, Default
      <4>4. JumpSent'
        BY <4>2, <4>3 DEF Dmy, JumpSent, writeResponse
      <4> QED
        BY <2>3, <2>6, <2>8, <4>4 DEF Sent
    <3> QED
      BY <2>8, <3>1, <3>2, Zenon DEF InStep, Sent
  <2>9. CASE waiting /\ stage = "init"
    <3>1. InitSent
      BY <2>9 DEF InStep, Sent
    <3>2. count = 0 /\ Opened /\ sentBytes = 0 /\ msg = DMY /\ stream = <<DATA>>
      BY <2>3, <3>1, Zenon DEF InitSent
    <3>3. Head(stream) = DATA /\ stream' = <<>>
      BY <2>3, <3>2
    <3>4. Dmy
      BY <3>2, TypesDiffer, SMTT(30) DEF WordRead, HeaderWord, HeaderEnd, DataOlympus, DataSlave, Checksum, Default
    <3>5. msg' = DATA /\ response' = "NO_ERR" /\ master' = "read" /\ UNCHANGED <<count, module, header>>
      BY <3>3, <3>4, TypesDiffer, SMTT(30) DEF Dmy, writeResponse
    <3>6. InitSent'
      BY <2>3, <3>2, <3>3, <3>5, SMTT(30) DEF InitSent, Opened, Addressed
    <3> QED
      BY <2>3, <2>6, <2>9, <3>6, Zenon DEF Sent
  <2>10. CASE waiting /\ stage = "checksum"
    <3>1. ChecksumSent
      BY <2>10, SMTT(30) DEF InStep, Sent
    <3>2. count = 0 /\ Opened /\ Idle
      BY <2>3, <3>1, SMTT(30) DEF ChecksumSent
    <3>3. ASSUME ChecksumSent'
          PROVE  InStep'
      BY <2>3, <2>6, <2>10, <3>3 DEF Sent
    <3>4. CASE msg = DMY /\ stream = <<CHECKSUM, sum>>
      <4>1. Head(stream) = CHECKSUM /\ stream' = <<sum>>
        BY <2>3, <3>4
      <4>2. Dmy
        BY <3>4, TypesDiffer, Zenon DEF WordRead, HeaderWord, HeaderEnd, DataOlympus, DataSlave, Checksum,
                                 Default
      <4>3. msg' = CHECKSUM /\ response' = response /\ master' = "read" /\ UNCHANGED <<count, module, header>>
        BY <4>1, <4>2, TypesDiffer, SMTT(30) DEF Dmy
      <4>4. ChecksumSent'
        BY <2>3, <3>2, <4>1, <4>3, Zenon DEF ChecksumSent, Idle, Opened, Addressed
      <4> QED
        BY <3>3, <4>4
    <3>5. CASE msg = CHECKSUM /\ stream = <<sum>>
      <4>1. stream' = <<>>
        BY <2>3, <3>5
      <4>2. Checksum
        BY <3>5, TypesDiffer, Zenon DEF WordRead, Dmy, HeaderWord, HeaderEnd, DataOlympus, DataSlave, Default
      <4>3. CASE module = OLYMPUS
        <5>1. /\ count' = count /\ msg' = DMY /\ master' = "read"
              /\ response' \in {"NO_ERR", "ERR_CHECKSUM"}
          BY <4>2, <4>3, SMTT(30) DEF Checksum, Finish, writeResponse
        <5>2. ChecksumSent'
          BY <3>2, <4>1, <5>1, SMTT(30) DEF ChecksumSent
        <5> QED
          BY <3>3, <5>2
      <4>4. CASE module # OLYMPUS
        <5>1. master' = "checksum" /\ UNCHANGED <<count, msg, response, module, header>>
          BY <4>2, <4>4 DEF Checksum
        <5>2. ChecksumSent'
          BY <2>3, <3>2, <3>5, <4>1, <4>4, <5>1, Zenon DEF ChecksumSent, Idle, Opened, Addressed
        <5> QED
          BY <3>3, <5>2
      <4> QED
        BY <4>3, <4>4
    <3> QED
      BY <2>3, <3>1, <3>4, <3>5 DEF ChecksumSent
  <2>11. CASE waiting /\ stage = "data"
    <3>1. PICK cs \in Nat :
            /\ ChunkAt(cs) /\ Opened /\ Idle /\ msg = DATA /\ InStream
            /\ count \in Nat /\ count % 4 = 0 /\ cs <= count
      BY <2>3, <2>11, SMTT(30) DEF InStep, Sent, DataSent
    <3>2. /\ J.size \in Nat /\ J.size % 4 = 0 /\ CHUNK_SIZE \in Nat /\ CHUNK_SIZE > 0
          /\ (cs + CHUNK_SIZE) % CHUNK_SIZE = 0 /\ header.size = J.size
          /\ \A k \in Nat : cs < k /\ k < cs + CHUNK_SIZE => k % CHUNK_SIZE = k - cs
      BY <3>1, JobOK, InChunk, BootConstants, Zenon DEF Base, J, ChunkAt, Opened, Addressed
    <3>3. /\ Len(stream) \in Nat /\ Len(stream) > 0 /\ sentBytes = count + 4 * Len(stream)
          /\ stream' \in Seq(Int) /\ Len(stream') = Len(stream) - 1
          /\ \A i \in 1 .. Len(stream') : stream'[i] = stream[i + 1]
      BY <2>3, <3>1, SMTT(30) DEF InStream
    <3>4. /\ sentBytes \in Nat /\ sentBytes <= cs + CHUNK_SIZE /\ sentBytes <= J.size
          /\ sentBytes \in {cs + CHUNK_SIZE, J.size} /\ count + 4 <= sentBytes
      <4>1. sentBytes = Lesser(cs + CHUNK_SIZE, J.size)
        BY <3>1 DEF ChunkAt
      <4>2. /\ sentBytes \in Nat /\ sentBytes <= cs + CHUNK_SIZE /\ sentBytes <= J.size
            /\ sentBytes \in {cs + CHUNK_SIZE, J.size}
        BY <3>2, <4>1 DEF Lesser
      <4>3. count + 4 <= sentBytes
        BY <3>1, <3>3
      <4> QED
        BY <4>2, <4>3
    <3>5. ChunkEnd(count + 4) <=> count + 4 = sentBytes
      BY <3>1, <3>2, <3>4 DEF ChunkEnd
    <3>6. stream' = <<>> <=> count + 4 = sentBytes
      BY <3>1, <3>3
    <3>7. ChunkAt(cs)'
      BY <2>3, <3>1, SMTT(30) DEF ChunkAt
    <3>8. ASSUME DataSent'
          PROVE  InStep'
      BY <2>3, <2>6, <2>11, <3>8, SMTT(30) DEF Sent
    <3>9. ASSUME count' = count + 4
          PROVE  InStream' /\ count' \in Nat /\ count' % 4 = 0 /\ cs <= count'
      <4>1. count' \in Nat /\ count' % 4 = 0 /\ cs <= count' /\ count' \div 4 = count \div 4 + 1
        BY <3>1, <3>9
      <4>2. sentBytes' = count' + 4 * Len(stream')
        BY <2>3, <3>1, <3>3, <3>9
      <4>3. \A i \in 1 .. Len(stream') : stream'[i] = Image(job)'[count' \div 4 + i]
        <5>1. Image(job)' = Image(job) /\ count \div 4 \in Nat
          BY <2>3, <3>1 DEF Image
        <5>2. ASSUME NEW i \in 1 .. Len(stream')
              PROVE  stream'[i] = Image(job)[count' \div 4 + i]
          <6>1. i + 1 \in 1 .. Len(stream) /\ count \div 4 + (i + 1) = count' \div 4 + i
            BY <3>3, <4>1, <5>1
          <6>2. stream[i + 1] = Image(job)[count \div 4 + (i + 1)]
            BY <3>1, <6>1 DEF InStream
          <6> QED
            BY <3>3, <6>1, <6>2, SMTT(30)
        <5> QED
          BY <5>1, <5>2
      <4> QED
        BY <3>3, <4>1, <4>2, <4>3, Zenon DEF InStream
    <3>10. DataOlympus \/ DataSlave
      BY <3>1, TypesDiffer, Zenon DEF WordRead, Dmy, HeaderWord, HeaderEnd, Checksum, Default
    <3>11. Opened' /\ module = J.mcu
      BY <2>3, <3>1, <3>10, Zenon DEF DataOlympus, DataSlave, Opened, Addressed
    <3>12. CASE count + 4 # sentBytes
      <4>1. UNCHANGED <<response, master, msg>> /\ count' = count + 4
        BY <2>3, <3>2, <3>4, <3>5, <3>10, <3>12 DEF DataOlympus, DataSlave
      <4>2. Idle' /\ msg' = DATA /\ stream' # <<>>
        BY <3>1, <3>6, <3>12, <4>1, Zenon DEF Idle
      <4>3. DataSent'
        BY <3>7, <3>9, <3>11, <4>1, <4>2, Zenon DEF DataSent
      <4> QED
        BY <3>8, <4>3, SMTT(30)
    <3>13. CASE count + 4 = sentBytes /\ DataOlympus
      <4>1. /\ master' = "read" /\ response' = "NO_ERR"
            /\ IF sentBytes = J.size THEN msg' = DMY /\ count' = 0 ELSE msg' = DATA /\ count' = sentBytes
        BY <2>3, <3>1, <3>2, <3>5, <3>13, SMTT(30) DEF DataOlympus, writeResponse
      <4>2. DataSent'
        BY <2>3, <3>6, <3>7, <3>11, <3>13, <4>1, SMTT(30) DEF DataSent
      <4> QED
        BY <3>8, <4>2
    <3>14. CASE count + 4 = sentBytes /\ DataSlave
      <4>1. master' = "data" /\ count' = sentBytes /\ UNCHANGED <<response, msg>> /\ module # OLYMPUS
        BY <3>5, <3>14 DEF DataSlave
      <4>2. DataSent'
        BY <2>3, <3>1, <3>6, <3>7, <3>11, <3>14, <4>1, Zenon DEF DataSent, Idle
      <4> QED
        BY <3>8, <4>2
    <3> QED
      BY <3>10, <3>12, <3>13, <3>14, SMTT(30)
  <2> QED
    BY <2>5, <2>7, <2>8, <2>9, <2>10, <2>11 DEF Base, Stages

(* A transaction with the slave at work. *)
<1>MessageStep.
  ASSUME Base, InStep, SlaveMessage
  PROVE  InStep' /\ (misled' => misled)
  <2> USE <1>MessageStep
  <2>1. /\ UNCHANGED <<jobs, job, stage, waiting, sentBytes, sum, stream, module, header>> /\ J' = J
    BY MessageSent DEF flasher, J
  <2>3. /\ waiting
        /\ \/ stage = "header" /\ HeaderPassedOn
           \/ stage = "data" /\ master = "data" /\ DataSent
           \/ stage = "checksum" /\ master = "checksum" /\ ChecksumSent
    BY SlaveAddressed, Zenon
  <2>4. ASSUME Sent'
        PROVE  InStep'
    BY <2>1, <2>3, <2>4 DEF InStep
  <2>5. /\ response = "" /\ stream = <<>> /\ module = J.mcu /\ J.mcu # OLYMPUS /\ Addressed
        /\ master \notin {"status", "reboot"} => slave[module].mode = "boot"
    BY SlaveAddressed, Zenon
  <2>6. module \in Slaves /\ DOMAIN slave = Slaves /\ IsSlave(slave[module])
    BY SlaveAddressed, Zenon
  <2>7. ASSUME NEW t \in {0, 1, 2, 3, 10}, NEW ws, NEW ok \in BOOLEAN, messageSubmodule(t, ws, ok),
               t \in {0, 10} \/ slave[module].mode = "boot"
        PROVE  /\ misled' => misled
               /\ t = 0 => slave'[module].mode = slave[module].mode
               /\ t = 10 /\ ok => slave'[module].mode = "boot"
               /\ t \in {1, 2} => slave'[module].mode = "boot"
    <3>1. CASE ~ok /\ UNCHANGED <<slave, flash, misled>>
      BY <2>7, <3>1, SMTT(30)
    <3>2. CASE Run(t, ws)
      <4> DEFINE r == RunMessage(slave[module], flash[module], t, ws)
      <4>1. slave'[module] = r.s /\ misled' = (misled \/ (t \in 1 .. 3 /\ slave[module].mode = "app"))
        BY <2>6, <3>2, SMTT(30) DEF Run
      <4>2. /\ t = 0 => r.s = slave[module]
            /\ t = 10 => r.s.mode = "boot"
            /\ t \in {1, 2} /\ slave[module].mode = "boot" => r.s.mode = "boot"
        BY <2>6, ModeAfter
      <4>3. ~(t \in 1 .. 3 /\ slave[module].mode = "app")
        BY <2>7
      <4>4. misled' => misled
        BY <4>1, <4>3, Zenon
      <4> HIDE DEF r
      <4> QED
        BY <2>7, <4>1, <4>2, <4>4, SMTT(30)
    <3> QED
      BY <2>7, <3>1, <3>2, Transacted, SMTT(30)
  <2>8. CASE stage = "header"
    <3>1. HeaderPassedOn
      BY <2>3, <2>8
    <3>2. ASSUME HeaderPassedOn' \/ HeaderAnswered'
          PROVE  InStep'
      BY <2>1, <2>4, <2>8, <3>2, Zenon DEF Sent
    <3>3. ASSUME Finish("ERR_REBOOT_FAIL") \/ Finish("ERR_REBOOT_START") \/ Finish("ERR_REBOOT_STATUS")
                   \/ Finish("ERR_FLASH_ERASE"),
                 count' = count
          PROVE  InStep'
      <4>1. HeaderAnswered'
        BY <2>1, <3>1, <3>3, Zenon DEF HeaderPassedOn, HeaderAnswered, Finish, writeResponse
      <4> QED
        BY <3>2, <4>1
    <3>4. Addressed' /\ (slave'[module].mode = "boot" => Opened')
      BY <2>1, <2>5, Zenon DEF Addressed, Opened
    <3>5. CASE PreRebootStatus
      <4>1. PICK ok \in BOOLEAN :
              /\ messageSubmodule(0, <<>>, ok) /\ count' = count
              /\ IF ok THEN master' = "reboot" /\ UNCHANGED <<response, msg>>
                       ELSE Finish("ERR_REBOOT_FAIL")
        BY <3>5 DEF PreRebootStatus, Transaction, GET_STATUS
      <4>2. ok => HeaderPassedOn'
        BY <2>1, <3>1, <3>4, <4>1, Zenon DEF HeaderPassedOn
      <4> QED
        BY <2>7, <3>2, <3>3, <4>1, <4>2
    <3>6. CASE Reboot
      <4>1. PICK ok \in BOOLEAN :
              /\ messageSubmodule(10, <<>>, ok) /\ count' = count
              /\ IF ok THEN master' = "restarted" /\ UNCHANGED <<response, msg>>
                       ELSE Finish("ERR_REBOOT_START")
        BY <3>6 DEF Reboot, Transaction, BOOT_MSG
      <4>2. ok => HeaderPassedOn'
        BY <2>1, <2>7, <3>1, <3>4, <4>1, Zenon DEF HeaderPassedOn
      <4> QED
        BY <2>7, <3>2, <3>3, <4>1, <4>2
    <3>7. CASE RebootStatus
      <4>1. PICK ok \in BOOLEAN :
              /\ messageSubmodule(0, <<>>, ok) /\ count' = count
              /\ IF ok THEN master' = "erase" /\ UNCHANGED <<response, msg>>
                       ELSE Finish("ERR_REBOOT_STATUS")
        BY <3>7 DEF RebootStatus, Transaction, GET_STATUS
      <4>2. slave[module].mode = "boot"
        BY <2>5, <3>7, Zenon DEF RebootStatus, Transaction
      <4>3. ok => HeaderPassedOn'
        BY <2>1, <2>7, <3>1, <3>4, <4>1, <4>2, Zenon DEF HeaderPassedOn
      <4> QED
        BY <2>7, <3>2, <3>3, <4>1, <4>3
    <3>8. CASE SlaveHeader
      <4>1. PICK ok \in BOOLEAN :
              /\ messageSubmodule(1, <<header.size, header.fkey>>, ok) /\ count' = count
              /\ Finish(IF ok THEN "NO_ERR" ELSE "ERR_FLASH_ERASE")
        BY <3>8 DEF SlaveHeader
      <4>2. slave[module].mode = "boot"
        BY <2>5, <3>8, Zenon DEF SlaveHeader
      <4>3. slave'[module].mode = "boot" /\ (misled' => misled)
        BY <2>7, <4>1, <4>2
      <4>4. HeaderAnswered'
        BY <2>1, <3>1, <3>4, <4>1, <4>3, Zenon DEF HeaderPassedOn, HeaderAnswered, Finish, writeResponse
      <4> QED
        BY <3>2, <4>3, <4>4
    <3> QED
      BY <3>1, <3>5, <3>6, <3>7, <3>8, Zenon DEF HeaderPassedOn, SlaveMessage, SlaveData, SlaveChecksum
  <2>9. CASE stage = "data"
    <3>1. master = "data" /\ SlaveData
      BY <2>3, <2>9, SMTT(30) DEF SlaveMessage, PreRebootStatus, Reboot, RebootStatus, SlaveHeader, SlaveChecksum,
                        Transaction, HeaderPassedOn
    <3>2. PICK ok \in BOOLEAN :
            /\ messageSubmodule(2, ZeroFilled(commsBuff), ok)
            /\ IF ok THEN /\ writeResponse("NO_ERR")
                          /\ master' = "read"
                          /\ IF count = header.size THEN count' = 0 /\ msg' = DMY
                                                    ELSE UNCHANGED <<count, msg>>
                     ELSE Finish("ERR_DATA_WRITE") /\ UNCHANGED count
      BY <3>1 DEF SlaveData
    <3>3. slave'[module].mode = "boot" /\ (misled' => misled)
      BY <2>5, <2>7, <3>1, <3>2, Zenon
    <3>4. ~ok => dataFailed'
      BY <3>2, Transacted
    <3>5. PICK cs \in Nat : ChunkAt(cs) /\ msg = DATA /\ count = sentBytes
      BY <2>3, <2>9, <3>1, Zenon DEF HeaderPassedOn, DataSent, Idle
    <3>6. ChunkAt(cs)' /\ Opened'
      BY <2>1, <2>5, <3>3, <3>5, Zenon DEF ChunkAt, Opened, Addressed
    <3>7. header.size = J.size /\ stream' = <<>>
      BY <2>1, <2>5, Zenon DEF Addressed
    <3>8. DataSent'
      <4>1. CASE ok
        BY <2>1, <3>2, <3>5, <3>6, <3>7, <4>1, SMTT(30) DEF DataSent, writeResponse
      <4>2. CASE ~ok
        BY <2>1, <3>2, <3>4, <3>5, <3>6, <3>7, <4>2 DEF DataSent, Finish, writeResponse
      <4> QED
        BY <4>1, <4>2, SMTT(30)
    <3> QED
      BY <2>1, <2>4, <2>9, <3>3, <3>8, SMTT(30) DEF Sent
  <2>10. CASE stage = "checksum"
    <3>1. master = "checksum" /\ SlaveChecksum /\ count = 0
      BY <2>3, <2>10, Zenon DEF SlaveMessage, PreRebootStatus, Reboot, RebootStatus, SlaveHeader, SlaveData,
                         Transaction, HeaderPassedOn, ChecksumSent
    <3>2. PICK ok \in BOOLEAN :
            /\ messageSubmodule(3, commsBuff, ok) /\ count' = count
            /\ Finish(IF ok THEN "NO_ERR" ELSE "ERR_CHECKSUM")
      BY <3>1 DEF SlaveChecksum
    <3>3. misled' => misled
      BY <2>5, <2>7, <3>1, <3>2, Zenon
    <3>4. ChecksumSent'
      BY <2>1, <2>5, <3>1, <3>2, Zenon DEF ChecksumSent, Finish, writeResponse
    <3> QED
      BY <2>1, <2>4, <2>10, <3>3, <3>4, Zenon DEF Sent
  <2> QED
    BY <2>3, <2>8, <2>9, <2>10, SMTT(30)
<1>1. Init => ControlInv
  <2> SUFFICES ASSUME Init
               PROVE  ControlInv
    OBVIOUS
  <2>1. jobs \in Seq([mcu : Modules, size : Nat]) /\ Len(jobs) > 0
    BY BootConstants, Zenon DEF Init
  <2>2. job \in DOMAIN jobs
    <3>1. DOMAIN jobs = 1 .. Len(jobs) /\ Len(jobs) \in Nat
      BY <2>1
    <3>2. job = 1
      BY Zenon DEF Init
    <3> QED
      BY <2>1, <3>1, <3>2
  <2>3. DOMAIN slave = Slaves /\ \A m \in Slaves : IsSlave(slave[m])
    BY Zenon DEF Init, IsSlave, FreshSlave, Fields
  <2>4. Base
    BY <2>2, <2>3, Zenon DEF Init, Base, Stages
  <2>5. Ready
    BY Zenon DEF Init, Ready, Idle, Stray
  <2> QED
    BY <2>4, <2>5, Zenon DEF Init, ControlInv, InStep
<1>2. ControlInv /\ [Next]_vars => ControlInv'
  <2> SUFFICES ASSUME ControlInv, [Next]_vars
               PROVE  ControlInv'
    OBVIOUS
  <2>1. Base /\ Base' /\ (NoEmptyImage' <=> NoEmptyImage) /\ (dataFailed => dataFailed')
    BY BaseStep DEF ControlInv
  <2>2. CASE dataFailed /\ ~NoEmptyImage
    BY <2>1, <2>2 DEF ControlInv
  <2>3. CASE UNCHANGED vars
    <3>1. InStep' <=> InStep
      <4>1. /\ jobs' = jobs /\ job' = job /\ stage' = stage /\ waiting' = waiting /\ sentBytes' = sentBytes
            /\ sum' = sum /\ stream' = stream /\ response' = response /\ master' = master /\ msg' = msg
            /\ count' = count /\ module' = module /\ header' = header /\ slave' = slave
            /\ dataFailed' = dataFailed
        BY <2>3, Zenon DEF vars, flasher, statics, links
      <4>2. (Idle' <=> Idle) /\ (Stray' <=> Stray) /\ J' = J /\ Image(job)' = Image(job)
        BY <4>1, Zenon DEF Idle, Stray, J, Image
      <4>3. (Addressed' <=> Addressed) /\ (Opened' <=> Opened)
        BY <4>1, <4>2, Zenon DEF Addressed, Opened
      <4>4. \A m : Junk(m)' <=> Junk(m)
        BY <4>1, Zenon DEF Junk
      <4>5. Ready' <=> Ready
        BY <4>1, <4>2, <4>3, <4>4, Zenon DEF Ready, Junk, J
      <4>6. (HeaderSent' <=> HeaderSent) /\ (HeaderPassedOn' <=> HeaderPassedOn)
        BY <4>1, <4>2, <4>3, Zenon DEF HeaderSent, HeaderPassedOn
      <4>7. (HeaderAnswered' <=> HeaderAnswered) /\ (HeaderRefused' <=> HeaderRefused)
        BY <4>1, <4>3, <4>4, Zenon DEF HeaderAnswered, HeaderRefused, Junk
      <4>8. (InitSent' <=> InitSent) /\ (ChecksumSent' <=> ChecksumSent) /\ (JumpSent' <=> JumpSent)
        BY <4>1, <4>2, <4>3, Zenon DEF InitSent, ChecksumSent, JumpSent
      <4>9. (InStream' <=> InStream) /\ (\A cs : ChunkAt(cs)' <=> ChunkAt(cs))
        BY <4>1, <4>2, Zenon DEF InStream, ChunkAt
      <4>10. DataSent' <=> DataSent
        BY <4>1, <4>2, <4>3, <4>9, Zenon DEF DataSent, ChunkAt
      <4>11. Sent' <=> Sent
        BY <4>1, <4>2, <4>4, <4>6, <4>7, <4>8, <4>10, Zenon DEF Sent, Junk
      <4> QED
        BY <4>1, <4>5, <4>11, Zenon DEF InStep
    <3>2. (Stuck' <=> Stuck) /\ (Faulted' <=> Faulted)
      <4>1. Stuck' <=> Stuck
        BY <2>1, <2>3, SMTT(30) DEF vars, statics, Stuck
      <4>2. Faulted' <=> Faulted
        BY <2>1, <2>3, Zenon DEF vars, flasher, Faulted, J
      <4> QED
        BY <4>1, <4>2
    <3>3. misled' = misled /\ dataFailed' = dataFailed
      BY <2>3, SMTT(30) DEF vars, links
    <3> QED
      BY <2>1, <3>1, <3>2, <3>3 DEF ControlInv
  <2>4. CASE Stuck /\ Next
    BY <2>1, <2>4, <1>StuckStep, SMTT(30) DEF ControlInv, Stuck
  <2>Faulted. CASE Faulted /\ Next
    BY <2>1, <2>Faulted, <1>FaultedStep, SMTT(30) DEF ControlInv
  <2>FaultWord. CASE InStep /\ FaultWord
    <3>1. misled' = misled
      BY <2>FaultWord, Zenon DEF FaultWord, DataOlympusFault, HeaderEnd, Word, links
    <3> QED
      BY <2>1, <2>FaultWord, <3>1, <1>FaultStep, Zenon DEF ControlInv
  <2>5. CASE InStep /\ Boot
    <3>1. misled' = misled
      BY <2>5, Zenon DEF Boot, writeMessage, readAnswer, readTimeout, links
    <3>2. InStep' \/ Stuck'
      BY <2>1, <2>5, <1>WriteStep, <1>ReadStep DEF Boot
    <3> QED
      BY <2>1, <3>1, <3>2, SMTT(30) DEF ControlInv
  <2>6. CASE InStep /\ WordRead /\ master' # "fault"
    <3>1. misled' = misled
      BY <2>6, Zenon DEF WordRead, Dmy, HeaderWord, HeaderEnd, DataOlympus, DataSlave, Checksum, Default,
                  Word, links
    <3> QED
      BY <2>1, <2>6, <3>1, <1>WordStep DEF ControlInv
  <2>7. CASE InStep /\ SlaveMessage
    BY <2>1, <2>7, <1>MessageStep, SMTT(30) DEF ControlInv
  <2> QED
    <3>1. WordRead /\ master' = "fault" => FaultWord
      BY Zenon DEF WordRead, FaultWord, Dmy, HeaderWord, DataOlympus, DataSlave, Checksum, Default, Finish, Word
    <3>2. Next => Boot \/ WordRead \/ DataOlympusFault \/ SlaveMessage
      BY Zenon DEF Next, runBootFSM, WordRead, SlaveMessage
    <3> QED
      BY <2>2, <2>3, <2>4, <2>Faulted, <2>FaultWord, <2>5, <2>6, <2>7, <3>1, <3>2, Zenon DEF ControlInv, FaultWord
<1> QED
  BY <1>1, <1>2, PTL DEF Spec

(* runBootFSM takes the flasher's headers for what they are unless a data message   *)
(* has failed, and its one answer byte is read before the next is written.  Codes 1   *)
(* to 3, which an application takes for commands to the vehicle, are only sent to a   *)
(* slave that runs its boot loader: SlaveHeader, SlaveData and SlaveChecksum come     *)
(* after a restart that was confirmed.                                                *)
THEOREM BootInStep == Spec => [](OneAnswer /\ HeaderAcceptedUnlessDataFailed /\ CommandsNoVehicle)
<1>1. ControlInv => HeaderAcceptedUnlessDataFailed
  <2> SUFFICES ASSUME ControlInv, response = "ERR_INVALID_HEADER"
               PROVE  dataFailed
    BY DEF HeaderAcceptedUnlessDataFailed
  <2>1. ~Stuck /\ ~Faulted
    BY DEF Stuck, Faulted
  <2>2. Sent => dataFailed
    BY Zenon DEF Sent, HeaderSent, HeaderPassedOn, HeaderAnswered, HeaderRefused, InitSent, DataSent,
           ChecksumSent, JumpSent, Idle
  <2>3. ~Ready
    BY DEF Ready, Idle
  <2> QED
    BY <2>1, <2>2, <2>3 DEF ControlInv, InStep
<1>2. ControlInv => OneAnswer
  <2> SUFFICES ASSUME ControlInv, NoEmptyImage, response # ""
               PROVE  master \in {"read", "app"} /\ (stream = <<>> \/ dataFailed)
    BY Zenon DEF OneAnswer
  <2>1. Sent
    BY Zenon DEF ControlInv, Stuck, Faulted, InStep, Ready, Idle
  <2> QED
    BY <2>1, Zenon DEF Sent, HeaderSent, HeaderPassedOn, HeaderAnswered, HeaderRefused, InitSent, DataSent,
                ChecksumSent, JumpSent, Idle, Junk
<1>3. ControlInv => CommandsNoVehicle
  BY DEF ControlInv, CommandsNoVehicle
<1> QED
  BY <1>1, <1>2, <1>3, BootControl, PTL
=============================================================================
