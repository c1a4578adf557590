------------------------------ MODULE BootChain ------------------------------
(***************************************************************************)
(* Flashing: the host's flasher (usbFlasher/Boot.py), the boot loader of the     *)
(* master (master_boot/drivers/boot.c), which programs itself or passes the      *)
(* image on, and the boot loader of the slaves (slave_boot/drivers/comms.c).     *)
(*                                                                              *)
(* The flasher sends a message of 32-bit words and waits for an answer of one    *)
(* byte.  The words reach runBootFSM one by one and in order (UsbReceive).  A    *)
(* message to a slave runs once or, when the slave is deaf, not at all, and its   *)
(* transaction may time out either way.  An answer that is left over from a       *)
(* transaction that timed out may end the next one early (SpiLink).               *)
(*                                                                              *)
(* Words are integers; sizes and counts are in bytes, addresses in words.         *)
(***************************************************************************)
EXTENDS Integers, Sequences

CONSTANTS
  Slaves,       \* the slave modules
  OLYMPUS,      \* the master itself
  Key,          \* the device key of each module
  ERASE_FLASH_KEY,
  CHUNK_SIZE,   \* bytes in a data message
  SectorWords,  \* words in a sector (page) of flash
  FlashWords,   \* words of flash for the application
  JobLists,     \* the command lines: sequences of [mcu, size]
  MaxFailures   \* bound: transactions that time out in one behaviour

DATA == 0
CHECKSUM == 1
HEADER == 2
JUMP == 3
DMY == 65535

Modules == Slaves \cup {OLYMPUS}
NONE == "none"
Old == 0        \* a word of the application that is being replaced
Erased == -1
Corrupt == -2   \* a word programmed without having been erased

(* Boot.py takes Olympus last; the keys differ; the flash holds whole chunks. *)
ASSUME BootConstants ==
  /\ OLYMPUS \notin Slaves /\ NONE \notin Modules
  /\ \A m, n \in Modules : Key[m] = Key[n] => m = n
  /\ \A m \in Modules : Key[m] # ERASE_FLASH_KEY
  /\ CHUNK_SIZE \in Nat /\ CHUNK_SIZE % 4 = 0 /\ CHUNK_SIZE > 0
  /\ SectorWords \in Nat /\ SectorWords > 0
  /\ FlashWords \in Nat /\ (4 * FlashWords) % CHUNK_SIZE = 0
  /\ MaxFailures \in Nat
  /\ JobLists \subseteq Seq([mcu : Modules, size : Nat])
  /\ \A list \in JobLists :
       /\ Len(list) > 0 /\ (Len(list) > 1 => list[Len(list)].mcu = OLYMPUS)
       /\ \A j \in DOMAIN list : list[j].size % 4 = 0

VARIABLES
  \* the flasher
  jobs, job,    \* its arguments; the one at work
  stage,        \* the message to send or answered next
  waiting,      \* it waits for the answer
  sentBytes,    \* bytes of the image sent
  sum,          \* its checksum
  verified,     \* the jobs it reported as installed
  \* the two directions of USB
  stream,       \* words on their way to the master
  response,     \* the answer byte, or "" when there is none
  \* the master: runBootFSM's statics
  master,       \* "read", the transaction under way, "app" after the jump, or "fault"
  msg, count, module, header, dataAddr, checksum,
  commsBuff,    \* submoduleCommsBuff, as words
  \* the slaves, and everybody's flash
  slave, flash,
  \* the links
  failures,     \* transactions that timed out
  dataFailed,   \* one of them was a data message
  misled,       \* a boot message was run by an application
  owing,        \* the slaves with an answer left over from an earlier transaction
  hidden        \* the messages that were refused or ignored, while such an answer said OK

flasher == <<jobs, job, stage, waiting, sentBytes, sum, verified>>
statics == <<msg, count, module, header, dataAddr, checksum, commsBuff>>
links == <<failures, dataFailed, misled, owing, hidden>>
vars == <<flasher, stream, response, master, statics, slave, flash, links>>

FreshSlave == [mode |-> "boot", size |-> 0, checksum |-> 0, flashComplete |-> FALSE,
               count |-> 0, addr |-> 0]

Init ==
  /\ jobs \in JobLists
  /\ job = 1
  /\ stage = "header"
  /\ waiting = FALSE
  /\ sentBytes = 0
  /\ sum = 0
  /\ verified = {}
  /\ stream = <<>>
  /\ response = ""
  /\ master = "read"
  /\ msg = DMY
  /\ count = 0
  /\ module = NONE
  /\ header = [dkey |-> 0, size |-> 0, fkey |-> 0]
  /\ dataAddr = 0
  /\ checksum = 0
  /\ commsBuff = <<>>
  /\ slave = [m \in Slaves |-> [FreshSlave EXCEPT !.mode = "app"]]
  /\ flash = [m \in Modules |-> [a \in 0 .. FlashWords - 1 |-> Old]]
  /\ failures = 0
  /\ dataFailed = FALSE
  /\ misled = FALSE
  /\ owing = {}
  /\ hidden = {}

(***************************************************************************)
(* Flash memory.                                                                *)
(***************************************************************************)
Sectors(size) == (size + 4 * SectorWords - 1) \div (4 * SectorWords)

\* Mutant of writeInit: a last sector that is not filled is not erased.
writeInit_roundDown(mem, size) ==
  [a \in DOMAIN mem |-> IF a < (size \div (4 * SectorWords)) * SectorWords
                          THEN Erased ELSE mem[a]]

writeInit(mem, size) ==
  [a \in DOMAIN mem |-> IF a < Sectors(size) * SectorWords THEN Erased ELSE mem[a]]

(* The words of ws programmed from address at on. *)
writeFlash(mem, at, ws) ==
  [a \in DOMAIN mem |->
     IF a \in at .. at + Len(ws) - 1
       THEN IF mem[a] = Erased THEN ws[a - at + 1] ELSE Corrupt
       ELSE mem[a]]

Total(ws) == LET s[i \in 0 .. Len(ws)] == IF i = 0 THEN 0 ELSE s[i - 1] + ws[i]
             IN  s[Len(ws)]

(***************************************************************************)
(* The flasher, Boot.py.                                                        *)
(***************************************************************************)
Image(j) == [i \in 1 .. jobs[j].size \div 4 |-> 100 * j + i]

Lesser(a, b) == IF a < b THEN a ELSE b

Chunk == SubSeq(Image(job), sentBytes \div 4 + 1,
                Lesser(sentBytes + CHUNK_SIZE, jobs[job].size) \div 4)

Message ==
  CASE stage = "header" -> <<HEADER, Key[jobs[job].mcu], jobs[job].size, ERASE_FLASH_KEY>>
    [] stage = "init" -> <<DATA>>
    [] stage = "data" -> Chunk
    [] stage = "checksum" -> <<CHECKSUM, sum>>
    [] stage = "jump" -> <<JUMP>>

writeMessage ==
  /\ stage # "done"
  /\ ~waiting
  /\ waiting' = TRUE
  /\ stream' = stream \o Message
  /\ sum' = IF stage = "init" THEN 0 ELSE IF stage = "data" THEN sum + Total(Chunk) ELSE sum
  /\ sentBytes' = IF stage = "init" THEN 0
                  ELSE IF stage = "data" THEN sentBytes + 4 * Len(Chunk) ELSE sentBytes
  /\ UNCHANGED <<jobs, job, stage, verified, response, master, statics, slave, flash, links>>

(* The next message after an answer: an error gives the image up. *)
NextJob == IF job < Len(jobs) THEN stage' = "header" /\ job' = job + 1
                              ELSE stage' = "jump" /\ UNCHANGED job

Proceed(ok) ==
  CASE stage = "jump" -> stage' = "done" /\ UNCHANGED <<job, verified>>
    [] stage = "header" /\ ok -> stage' = "init" /\ UNCHANGED <<job, verified>>
    [] stage \in {"init", "data"} /\ ok ->
         /\ stage' = IF sentBytes < jobs[job].size THEN "data" ELSE "checksum"
         /\ UNCHANGED <<job, verified>>
    [] stage = "checksum" /\ ok -> verified' = verified \cup {job} /\ NextJob
    [] ~ok /\ stage # "jump" -> NextJob /\ UNCHANGED verified

readAnswer ==
  /\ waiting
  /\ response # ""
  /\ waiting' = FALSE
  /\ response' = ""
  /\ Proceed(response = "NO_ERR")
  /\ UNCHANGED <<jobs, sentBytes, sum, stream, master, statics, slave, flash, links>>

(* The read's timeout is far longer than any work of the master's. *)
readTimeout ==
  /\ waiting
  /\ response = ""
  /\ master = "fault" \/ (stream = <<>> /\ master = "read")
  /\ waiting' = FALSE
  /\ Proceed(FALSE)
  /\ UNCHANGED <<jobs, sentBytes, sum, stream, response, master, statics, slave, flash, links>>

(***************************************************************************)
(* A slave's answer to message t with data ws: its new state and flash, and     *)
(* the status it returns, "" when it does not answer.                            *)
(***************************************************************************)
Answer(s, mem, status) == [s |-> s, mem |-> mem, status |-> status]

\* Mutant of write_header: an image larger than the flash is accepted.
write_header_noLimit(s, mem, ws) ==
  IF ws[2] # ERASE_FLASH_KEY
    THEN Answer(s, mem, "WR_ERR")
    ELSE Answer([s EXCEPT !.size = ws[1], !.checksum = 0, !.flashComplete = FALSE],
                writeInit(mem, ws[1]), "WR_OK")

\* Mutant of write_header: the flash is not erased.
write_header_noErase(s, mem, ws) ==
  IF ws[2] # ERASE_FLASH_KEY \/ ws[1] > 4 * FlashWords
    THEN Answer(s, mem, "WR_ERR")
    ELSE Answer([s EXCEPT !.size = ws[1], !.checksum = 0, !.flashComplete = FALSE],
                mem, "WR_OK")

write_header(s, mem, ws) ==
  IF ws[2] # ERASE_FLASH_KEY \/ ws[1] > 4 * FlashWords
    THEN Answer(s, mem, "WR_ERR")
    ELSE Answer([s EXCEPT !.size = ws[1], !.checksum = 0, !.flashComplete = FALSE],
                writeInit(mem, ws[1]), "WR_OK")

write_data(s, mem, ws) ==
  IF s.size = 0
    THEN Answer(s, mem, "WR_ERR")
    ELSE Answer([s EXCEPT !.checksum = @ + Total(ws), !.addr = @ + Len(ws),
                          !.count = @ + CHUNK_SIZE,
                          !.flashComplete = @ \/ s.count + CHUNK_SIZE >= s.size],
                writeFlash(mem, s.addr, ws), "WR_OK")

run_checksum(s, mem, ws) ==
  IF ~s.flashComplete \/ ws[1] # s.checksum
    THEN Answer(s, mem, "WR_ERR")
    ELSE Answer([s EXCEPT !.mode = "app"], mem, "WR_OK")

GET_STATUS == 0
BOOT_MSG == 10

(* The boot loader has no callback for BOOT_MSG; codes 1 to 3 are other          *)
(* commands to an application.                                                   *)
RunMessage(s, mem, t, ws) ==
  CASE t = GET_STATUS -> Answer(s, mem, "WR_OK")
    [] t = BOOT_MSG /\ s.mode = "app" -> Answer(FreshSlave, mem, "WR_OK")
    [] t = BOOT_MSG /\ s.mode = "boot" -> Answer(s, mem, "")
    [] t \in 1 .. 3 /\ s.mode = "app" -> Answer(s, mem, "WR_OK")
    [] t = 1 /\ s.mode = "boot" -> write_header(s, mem, ws)
    [] t = 2 /\ s.mode = "boot" -> write_data(s, mem, ws)
    [] t = 3 /\ s.mode = "boot" -> run_checksum(s, mem, ws)

(***************************************************************************)
(* messageSubmodule: the message runs and its status comes back; or an answer    *)
(* left over ends the wait, with a status that is the old one or noise, and the   *)
(* message runs and leaves its own answer; or the transaction times out, the      *)
(* message run or not.                                                            *)
(***************************************************************************)
Run(t, ws) ==
  LET r == RunMessage(slave[module], flash[module], t, ws)
  IN  /\ slave' = [slave EXCEPT ![module] = r.s]
      /\ flash' = [flash EXCEPT ![module] = r.mem]
      /\ misled' = (misled \/ (t \in 1 .. 3 /\ slave[module].mode = "app"))

Status(t, ws) == RunMessage(slave[module], flash[module], t, ws).status

LeavesAnswer(t, ws) ==
  owing' = IF Status(t, ws) = "" THEN owing \ {module} ELSE owing \cup {module}

messageSubmodule(t, ws, ok) ==
  /\ \/ /\ Run(t, ws)
        /\ ok = (Status(t, ws) = "WR_OK")
        /\ owing' = owing \ {module}
        /\ UNCHANGED failures
     \/ /\ module \in owing
        /\ Run(t, ws)
        /\ LeavesAnswer(t, ws)
        /\ UNCHANGED failures
     \/ /\ failures < MaxFailures
        /\ ~ok
        /\ failures' = failures + 1
        /\ \/ Run(t, ws) /\ LeavesAnswer(t, ws)
           \/ UNCHANGED <<slave, flash, misled, owing>>
  /\ dataFailed' = (dataFailed \/ (t = 2 /\ ~ok))
  /\ hidden' = IF ok /\ Status(t, ws) # "WR_OK" THEN hidden \cup {t} ELSE hidden

writeResponse(r) == response' = r

(* The end of a message: the answer is sent and the next word is a type. *)
Finish(r) == writeResponse(r) /\ msg' = DMY /\ master' = "read"

(***************************************************************************)
(* runBootFSM on one word, a case per message type.                             *)
(***************************************************************************)
Word ==
  /\ master = "read"
  /\ stream # <<>>
  /\ stream' = Tail(stream)
  /\ UNCHANGED <<flasher, links>>

\* Mutant of Dmy: every message type is answered, not only DATA and JUMP.
Dmy_answersAll ==
  /\ Word
  /\ msg = DMY
  /\ msg' = Head(stream)
  /\ writeResponse("NO_ERR")
  /\ master' = IF Head(stream) = JUMP THEN "app" ELSE "read"
  /\ UNCHANGED <<count, module, header, dataAddr, checksum, commsBuff, slave, flash>>

(* The word is a message type.  JUMP leaves for the application. *)
Dmy ==
  /\ Word
  /\ msg = DMY
  /\ msg' = Head(stream)
  /\ IF Head(stream) \in {DATA, JUMP} THEN writeResponse("NO_ERR") ELSE UNCHANGED response
  /\ master' = IF Head(stream) = JUMP THEN "app" ELSE "read"
  /\ UNCHANGED <<count, module, header, dataAddr, checksum, commsBuff, slave, flash>>

HeaderWord ==
  /\ Word
  /\ msg = HEADER
  /\ count \in {0, 1}
  /\ header' = IF count = 0 THEN [header EXCEPT !.dkey = Head(stream)]
                            ELSE [header EXCEPT !.size = Head(stream)]
  /\ count' = count + 1
  /\ UNCHANGED <<response, master, msg, module, dataAddr, checksum, commsBuff, slave, flash>>

Addressee == IF \E m \in Modules : Key[m] = header.dkey
               THEN CHOOSE m \in Modules : Key[m] = header.dkey
               ELSE NONE

ValidHeader(fkey) == fkey = ERASE_FLASH_KEY /\ Addressee # NONE

(* Nothing checks the size of the image for Olympus.  Beyond its flash there are no  *)
(* sectors and no memory, and from sector 16 on eraseSector's four bits name those    *)
(* of the boot loader: the access has no effect, or the processor faults for good.    *)
Fault == master' = "fault" /\ UNCHANGED <<response, msg>>

HeaderEnd ==
  /\ Word
  /\ msg = HEADER
  /\ count \notin {0, 1}
  /\ header' = [header EXCEPT !.fkey = Head(stream)]
  /\ count' = 0
  /\ module' = Addressee
  /\ CASE ~ValidHeader(Head(stream)) ->
            Finish("ERR_INVALID_HEADER") /\ UNCHANGED <<checksum, flash>>
       [] ValidHeader(Head(stream)) /\ Addressee = OLYMPUS ->
            /\ checksum' = 0
            /\ flash' = [flash EXCEPT ![OLYMPUS] = writeInit(@, header.size)]
            /\ Finish("NO_ERR") \/ (header.size > 4 * FlashWords /\ Fault)
       [] ValidHeader(Head(stream)) /\ Addressee # OLYMPUS ->
            /\ master' = "status"
            /\ UNCHANGED <<response, msg, checksum, flash>>
  /\ UNCHANGED <<dataAddr, commsBuff, slave>>

\* Mutant of ChunkEnd: the last chunk counts only when it is full.
ChunkEnd_full(n) == n % CHUNK_SIZE = 0

(* The image ends, or a chunk of it. *)
ChunkEnd(n) == n % CHUNK_SIZE = 0 \/ n = header.size

DataOlympus ==
  /\ Word
  /\ msg = DATA
  /\ module = OLYMPUS
  /\ flash' = [flash EXCEPT ![OLYMPUS] = writeFlash(@, dataAddr, <<Head(stream)>>)]
  /\ dataAddr' = dataAddr + 1
  /\ checksum' = checksum + Head(stream)
  /\ IF ChunkEnd(count + 4) THEN writeResponse("NO_ERR") ELSE UNCHANGED response
  /\ IF count + 4 = header.size THEN count' = 0 /\ msg' = DMY
                                ELSE count' = count + 4 /\ UNCHANGED msg
  /\ UNCHANGED <<master, module, header, commsBuff, slave>>

DataOlympusFault ==
  /\ Word
  /\ msg = DATA
  /\ module = OLYMPUS
  /\ dataAddr >= FlashWords
  /\ Fault
  /\ UNCHANGED <<count, module, header, dataAddr, checksum, commsBuff, slave, flash>>

ZeroFilled(ws) == [i \in 1 .. CHUNK_SIZE \div 4 |-> IF i <= Len(ws) THEN ws[i] ELSE 0]

DataSlave ==
  /\ Word
  /\ msg = DATA
  /\ module # OLYMPUS
  /\ commsBuff' = Append(SubSeq(commsBuff, 1, (count % CHUNK_SIZE) \div 4), Head(stream))
  /\ count' = count + 4
  /\ master' = IF ChunkEnd(count + 4) THEN "data" ELSE "read"
  /\ UNCHANGED <<response, msg, module, header, dataAddr, checksum, slave, flash>>

Checksum ==
  /\ Word
  /\ msg = CHECKSUM
  /\ IF module = OLYMPUS
       THEN /\ Finish(IF Head(stream) = checksum THEN "NO_ERR" ELSE "ERR_CHECKSUM")
            /\ UNCHANGED commsBuff
       ELSE /\ commsBuff' = <<Head(stream)>>
            /\ master' = "checksum"
            /\ UNCHANGED <<response, msg>>
  /\ UNCHANGED <<count, module, header, dataAddr, checksum, slave, flash>>

(* An unknown message type takes one word along. *)
Default ==
  /\ Word
  /\ msg \notin {DATA, CHECKSUM, HEADER, JUMP, DMY}
  /\ msg' = DMY
  /\ UNCHANGED <<response, master, count, module, header, dataAddr, checksum,
                 commsBuff, slave, flash>>

(***************************************************************************)
(* The transactions with the slave inside runBootFSM.                           *)
(***************************************************************************)
Transaction(at, t, ws, next, error) ==
  /\ master = at
  /\ \E ok \in BOOLEAN :
       /\ messageSubmodule(t, ws, ok)
       /\ IF ok THEN master' = next /\ UNCHANGED <<response, msg>> ELSE Finish(error)
  /\ UNCHANGED <<flasher, stream, count, module, header, dataAddr, checksum, commsBuff>>

PreRebootStatus == Transaction("status", GET_STATUS, <<>>, "reboot", "ERR_REBOOT_FAIL")

\* Mutant of Reboot: goes on although the slave did not confirm the restart.
Reboot_unconfirmed ==
  Transaction("reboot", BOOT_MSG, <<>>, "restarted", "ERR_REBOOT_START")
  \/ /\ master = "reboot" /\ master' = "restarted"
     /\ UNCHANGED <<flasher, stream, response, statics, slave, flash, links>>

Reboot == Transaction("reboot", BOOT_MSG, <<>>, "restarted", "ERR_REBOOT_START")

RebootStatus == Transaction("restarted", GET_STATUS, <<>>, "erase", "ERR_REBOOT_STATUS")

SlaveHeader ==
  /\ master = "erase"
  /\ \E ok \in BOOLEAN :
       /\ messageSubmodule(1, <<header.size, header.fkey>>, ok)
       /\ Finish(IF ok THEN "NO_ERR" ELSE "ERR_FLASH_ERASE")
  /\ UNCHANGED <<flasher, stream, count, module, header, dataAddr, checksum, commsBuff>>

\* Mutant of SlaveData: count is not reset at the end of the image either.
SlaveData_keepsCount ==
  /\ master = "data"
  /\ \E ok \in BOOLEAN :
       /\ messageSubmodule(2, ZeroFilled(commsBuff), ok)
       /\ IF ok THEN /\ writeResponse("NO_ERR")
                     /\ master' = "read"
                     /\ msg' = IF count = header.size THEN DMY ELSE msg
                ELSE Finish("ERR_DATA_WRITE")
  /\ UNCHANGED <<flasher, stream, count, module, header, dataAddr, checksum, commsBuff>>

(* On an error count keeps its value. *)
SlaveData ==
  /\ master = "data"
  /\ \E ok \in BOOLEAN :
       /\ messageSubmodule(2, ZeroFilled(commsBuff), ok)
       /\ IF ok THEN /\ writeResponse("NO_ERR")
                     /\ master' = "read"
                     /\ IF count = header.size THEN count' = 0 /\ msg' = DMY
                                               ELSE UNCHANGED <<count, msg>>
                ELSE Finish("ERR_DATA_WRITE") /\ UNCHANGED count
  /\ UNCHANGED <<flasher, stream, module, header, dataAddr, checksum, commsBuff>>

SlaveChecksum ==
  /\ master = "checksum"
  /\ \E ok \in BOOLEAN :
       /\ messageSubmodule(3, commsBuff, ok)
       /\ Finish(IF ok THEN "NO_ERR" ELSE "ERR_CHECKSUM")
  /\ UNCHANGED <<flasher, stream, count, module, header, dataAddr, checksum, commsBuff>>

runBootFSM ==
  \/ Dmy \/ HeaderWord \/ HeaderEnd \/ DataOlympus \/ DataOlympusFault \/ DataSlave
  \/ Checksum \/ Default
  \/ PreRebootStatus \/ Reboot \/ RebootStatus \/ SlaveHeader \/ SlaveData \/ SlaveChecksum

Boot == writeMessage \/ readAnswer \/ readTimeout

Next == Boot \/ runBootFSM

Spec == Init /\ [][Next]_vars

(* The flasher and the boot loader keep running. *)
FairSpec == Spec /\ WF_vars(Boot) /\ WF_vars(runBootFSM)
-----------------------------------------------------------------------------

Stages == {"header", "init", "data", "checksum", "jump", "done"}

(* Sessions with an empty image are left out below: runBootFSM waits for           *)
(* count == header.size and takes the flasher's next messages for data.             *)
NoEmptyImage == \A j \in DOMAIN jobs : jobs[j].size > 0

(* A left-over answer was taken for that to a restart request: the boot loader of  *)
(* the slave did not restart and goes on at its old write address.                  *)
FalseRestart == BOOT_MSG \in hidden

(* Boot.py takes any number of images for Olympus, and runBootFSM never goes back    *)
(* to the first address.                                                             *)
OlympusOnce == \A j \in DOMAIN jobs : jobs[j].mcu = OLYMPUS => j = Len(jobs)

(* runBootFSM accepts an image for Olympus that is larger than the flash. *)
TooLarge(j) == jobs[j].mcu = OLYMPUS /\ jobs[j].size > 4 * FlashWords

OlympusFits == \A j \in DOMAIN jobs : ~TooLarge(j)

(* write_data's address stays inside the application's flash, unless a slave goes on *)
(* without its restart; so does runBootFSM's, when Olympus gets one image and that    *)
(* fits, which nothing checks; and a chunk stays inside submoduleCommsBuff.           *)
TypeOK ==
  /\ job \in DOMAIN jobs
  /\ stage \in Stages
  /\ waiting \in BOOLEAN
  /\ verified \subseteq DOMAIN jobs
  /\ master \in {"read", "status", "reboot", "restarted", "erase", "data", "checksum", "app",
                "fault"}
  /\ module \in Modules \cup {NONE}
  /\ Len(commsBuff) <= CHUNK_SIZE \div 4
  /\ failures \in 0 .. MaxFailures
  /\ NoEmptyImage =>
       /\ owing \subseteq Slaves
       /\ OlympusOnce /\ OlympusFits => dataAddr \in 0 .. FlashWords
       /\ ~FalseRestart => \A m \in Slaves : slave[m].addr \in 0 .. FlashWords

Holds(m, j) ==
  /\ jobs[j].mcu = m /\ jobs[j].size <= 4 * FlashWords
  /\ \A i \in DOMAIN Image(j) : flash[m][i - 1] = Image(j)[i]

Untouched(m) == \A a \in DOMAIN flash[m] : flash[m][a] = Old

(* BootSerial.py:98 calls the checksum the check of the "validity of              *)
(* application on MCU": what the flasher reports as installed is in the flash of   *)
(* its module, word for word, whatever transactions failed before.  The exceptions  *)
(* are an image too large for the flash of Olympus, and a session in which a         *)
(* left-over answer hid that a message was refused or ignored.                       *)
VerifiedIsInstalled ==
  NoEmptyImage /\ hidden = {} =>
    \A j \in verified :
      ~TooLarge(j) /\ (\A k \in DOMAIN jobs : k > j /\ k <= job => jobs[k].mcu # jobs[j].mcu)
        => Holds(jobs[j].mcu, j)

(* No processor starts a program that is partly written: an application that      *)
(* runs is the one from before or a whole image, unless a restart was acknowledged  *)
(* by a left-over answer.  Olympus itself must get at most one image, and one that   *)
(* fits: JUMP asks for neither.                                                      *)
StartsWholeProgram ==
  NoEmptyImage =>
    /\ ~FalseRestart => \A m \in Slaves : slave[m].mode = "app" =>
         Untouched(m) \/ \E j \in DOMAIN jobs : Holds(m, j)
    /\ OlympusOnce /\ OlympusFits /\ master = "app" =>
         Untouched(OLYMPUS) \/ \E j \in DOMAIN jobs : Holds(OLYMPUS, j)

(* The boot loader's messages reach boot loaders only: to an application the same  *)
(* codes are commands to the vehicle (1 sets the steering of Hephaestus).           *)
CommandsNoVehicle == NoEmptyImage => ~misled

(* The master takes the flasher's headers for what they are, unless a data          *)
(* message has failed before: its byte count then starts the next header in the     *)
(* middle.                                                                          *)
HeaderAcceptedUnlessDataFailed == response = "ERR_INVALID_HEADER" => dataFailed

(* responseData is a static byte that USB sends later: while an answer is unread   *)
(* the master is at rest with no word left to read, so that no second answer        *)
(* replaces it.  After a failed data message the rest of a misread header may be    *)
(* left, and is not answered.                                                       *)
OneAnswer ==
  NoEmptyImage /\ response # "" =>
    master \in {"read", "app"} /\ (stream = <<>> \/ dataFailed)

(* The flasher comes to its end and the master runs its application again, unless    *)
(* an image is empty, or too large for Olympus and the master has faulted on it.      *)
Completes ==
  <>(stage = "done" /\ \/ master = "app"
                       \/ master = "fault" /\ ~OlympusFits
                       \/ ~NoEmptyImage)

=============================================================================
