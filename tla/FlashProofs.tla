----------------------------- MODULE FlashProofs -----------------------------
(***************************************************************************)
(* What is in the flash memories: what the flasher reports as installed is          *)
(* installed, no processor starts a program that is partly written, and no write    *)
(* leaves the application's flash, whatever transactions time out, as long as         *)
(* Olympus gets at most one image, and one that fits.  For all slaves, images, chunk  *)
(* and flash sizes and any number of failures; on top of BootProofs, where the         *)
(* flasher and the boot loader of the master stay in step.                             *)
(***************************************************************************)
EXTENDS BootProofs

(***************************************************************************)
(* What is in the flash.                                                         *)
(***************************************************************************)
(* The first words of the image at work, and erased flash for the others. *)
Part(m, words) ==
  \A a \in 0 .. J.size \div 4 - 1 :
    flash[m][a] = IF a < words THEN Image(job)[a + 1] ELSE Erased

(* write_data has run on n bytes of the image, or on none because its header was refused. *)
Loaded(n) ==
  \/ slave[J.mcu].size = 0 /\ ~slave[J.mcu].flashComplete /\ hidden # {}
  \/ /\ slave[J.mcu].size = J.size /\ J.size <= 4 * FlashWords
     /\ slave[J.mcu].count = n /\ slave[J.mcu].addr \in Nat /\ 4 * slave[J.mcu].addr = n
     /\ slave[J.mcu].flashComplete => J.size <= n
     /\ Part(J.mcu, slave[J.mcu].addr)

(* submoduleCommsBuff has the words from byte n to the last one taken. *)
Gathered(n) ==
  count > n =>
    /\ commsBuff \in Seq(Int) /\ 4 * Len(commsBuff) = count - n
    /\ \A i \in 1 .. Len(commsBuff) : commsBuff[i] = Image(job)[n \div 4 + i]

DataLoads(n) ==
  \/ ~waiting /\ n = sentBytes /\ Loaded(n)
  \/ waiting /\ response = "" /\ ChunkAt(n) /\ n <= count /\ Gathered(n) /\ Loaded(n)
  \/ /\ waiting /\ response = "NO_ERR" /\ sentBytes <= n /\ (sentBytes < J.size => n = sentBytes)
     /\ Loaded(n)
  \/ waiting /\ response = "ERR_DATA_WRITE"

SlaveLoads ==
  /\ stage = "header" /\ master \in {"restarted", "erase"} => slave[J.mcu] = FreshSlave
  /\ stage = "header" /\ response = "NO_ERR" => Loaded(0)
  /\ stage = "init" => Loaded(0)
  /\ stage = "data" => \E n \in Nat : n % CHUNK_SIZE = 0 /\ DataLoads(n)
  /\ stage = "checksum" /\ response = "" => \E n \in Nat : J.size <= n /\ Loaded(n)
  /\ stage = "checksum" /\ response = "NO_ERR" /\ hidden = {} => Holds(J.mcu, job)

(* What a slave's flash holds when its application runs. *)
Whole(m) == Untouched(m) \/ \E j \in DOMAIN jobs : Holds(m, j)

SlaveOK(m) ==
  /\ slave[m].size \in Nat /\ slave[m].count \in Nat /\ slave[m].flashComplete \in BOOLEAN
  /\ slave[m].addr \in 0 .. FlashWords
  /\ slave[m].mode = "app" => Whole(m)

(* The jobs reported as installed are over, and in the flash if no later one replaced them. *)
VerifiedInv ==
  /\ \A j \in verified : j \in DOMAIN jobs /\ (IF stage \in {"jump", "done"} THEN j <= job ELSE j < job)
  /\ OlympusOnce => VerifiedIsInstalled

(* Olympus: one image, which fits its flash. *)
OneFits == OlympusOnce /\ OlympusFits

Blank == dataAddr = 0 /\ Untouched(OLYMPUS)

Taken(n) == dataAddr \in Nat /\ 4 * dataAddr = n /\ Part(OLYMPUS, dataAddr)

OlympusLoads ==
  IF J.mcu # OLYMPUS THEN Blank
  ELSE /\ stage = "header" => IF response = "NO_ERR" THEN Taken(0) ELSE Blank
       /\ stage = "init" => Taken(0)
       /\ stage = "data" => Taken(IF msg = DATA THEN count ELSE J.size)
       /\ stage = "checksum" => Taken(J.size)
       /\ stage \in {"jump", "done"} => Blank \/ Taken(J.size)

FlashInv ==
  NoEmptyImage =>
    /\ DOMAIN flash = Modules /\ \A m \in Modules : DOMAIN flash[m] = 0 .. FlashWords - 1
    /\ owing \subseteq Slaves
    /\ ~FalseRestart => \A m \in Slaves : SlaveOK(m)
    /\ ~FalseRestart /\ J.mcu # OLYMPUS => SlaveLoads
    /\ OneFits => OlympusLoads /\ master # "fault"
    /\ VerifiedInv

-----------------------------------------------------------------------------

(* writeInit erases whole sectors, and so every word of the image. *)
LEMMA ErasesImage ==
  ASSUME NEW mem, DOMAIN mem = 0 .. FlashWords - 1,
         NEW size \in Nat, size % 4 = 0, size <= 4 * FlashWords
  PROVE  /\ DOMAIN writeInit(mem, size) = 0 .. FlashWords - 1
         /\ \A a \in 0 .. size \div 4 - 1 : writeInit(mem, size)[a] = Erased
<1> DEFINE W == SectorWords
           q == (size + 4 * W - 1) \div (4 * W)
<1>1. W \in Nat /\ W > 0 /\ FlashWords \in Nat
  BY BootConstants
<1> HIDE DEF W
<1>2. q \in Nat /\ size <= 4 * W * q
  <2> DEFINE d == 4 * W
             x == size + d - 1
  <2>1. d \in Nat /\ d > 0 /\ x \in Nat
    BY <1>1
  <2> HIDE DEF d, x
  <2>2. x = d * (x \div d) + (x % d) /\ x % d \in 0 .. d - 1 /\ x \div d \in Nat
    BY <2>1
  <2>3. size <= d * (x \div d)
    <3>1. x = size + d - 1
      BY DEF x
    <3>2. d * (x \div d) \in Nat
      BY <2>1, <2>2
    <3> QED
      BY <2>1, <2>2, <3>1, <3>2
  <2>4. q = x \div d
    BY DEF x, d
  <2> QED
    BY <2>2, <2>3, <2>4 DEF d
<1>3. Sectors(size) = q
  BY DEF Sectors, W
<1> HIDE DEF q
<1>4. 4 * W * q = 4 * (q * W) /\ q * W \in Nat
  BY <1>1, <1>2
<1>5. \A a \in 0 .. size \div 4 - 1 : a < q * W /\ a \in 0 .. FlashWords - 1
  BY <1>1, <1>2, <1>4
<1> QED
  BY <1>3, <1>5 DEF writeInit, W

(* The words of the image at work. *)
LEMMA ImageWords ==
  ASSUME Base
  PROVE  /\ J.size \in Nat /\ J.size % 4 = 0 /\ J.size \div 4 \in Nat /\ J.size = 4 * (J.size \div 4)
         /\ J.mcu \in Modules
         /\ DOMAIN Image(job) = 1 .. J.size \div 4
         /\ \A i \in 1 .. J.size \div 4 : Image(job)[i] \in Int
<1>1. J.size \in Nat /\ J.size % 4 = 0 /\ J.mcu \in Modules /\ job \in Int
  BY JobOK DEF Base, J
<1>2. J.size \div 4 \in Nat /\ J.size = 4 * (J.size \div 4)
  BY <1>1
<1>3. DOMAIN Image(job) = 1 .. J.size \div 4
  BY DEF Image, J
<1>4. \A i \in 1 .. J.size \div 4 : Image(job)[i] \in Int
  BY <1>1 DEF Image, J
<1> QED
  BY <1>1, <1>2, <1>3, <1>4

(* A whole image is one that the flash holds. *)
LEMMA WholeImage ==
  ASSUME Base, NEW words \in Nat, J.size <= 4 * words, J.size <= 4 * FlashWords, Part(J.mcu, words)
  PROVE  Holds(J.mcu, job)
<1>1. \A i \in 1 .. J.size \div 4 : flash[J.mcu][i - 1] = Image(job)[i]
  <2> SUFFICES ASSUME NEW i \in 1 .. J.size \div 4
               PROVE  flash[J.mcu][i - 1] = Image(job)[i]
    OBVIOUS
  <2>1. i - 1 \in 0 .. J.size \div 4 - 1 /\ i - 1 < words /\ (i - 1) + 1 = i
    BY ImageWords
  <2> QED
    BY <2>1 DEF Part
<1> QED
  BY <1>1, ImageWords DEF Holds, J

(* Programming the next words of the image. *)
LEMMA ProgramsPart ==
  ASSUME Base, NEW mem, DOMAIN mem = 0 .. FlashWords - 1, J.size <= 4 * FlashWords,
         NEW at \in Nat, NEW ws \in Seq(Int), NEW k \in Nat,
         \A a \in 0 .. J.size \div 4 - 1 :
           mem[a] = IF a < at THEN Image(job)[a + 1] ELSE Erased,
         k <= Len(ws), at + k <= J.size \div 4, k = Len(ws) \/ at + k = J.size \div 4,
         \A i \in 1 .. k : ws[i] = Image(job)[at + i]
  PROVE  /\ DOMAIN writeFlash(mem, at, ws) = 0 .. FlashWords - 1
         /\ \A a \in 0 .. J.size \div 4 - 1 :
              writeFlash(mem, at, ws)[a] = IF a < at + Len(ws) THEN Image(job)[a + 1] ELSE Erased
<1>1. DOMAIN writeFlash(mem, at, ws) = 0 .. FlashWords - 1
  BY DEF writeFlash
<1>2. FlashWords \in Nat /\ Len(ws) \in Nat /\ J.size \div 4 \in Nat /\ J.size = 4 * (J.size \div 4)
  BY BootConstants, ImageWords
<1>3. ASSUME NEW a \in 0 .. J.size \div 4 - 1
      PROVE  writeFlash(mem, at, ws)[a] = IF a < at + Len(ws) THEN Image(job)[a + 1] ELSE Erased
  <2>1. a \in 0 .. FlashWords - 1
    BY <1>2
  <2>2. writeFlash(mem, at, ws)[a] =
          IF a \in at .. at + Len(ws) - 1
            THEN IF mem[a] = Erased THEN ws[a - at + 1] ELSE Corrupt
            ELSE mem[a]
    BY <2>1 DEF writeFlash
  <2>3. CASE a < at
    BY <1>2, <2>2, <2>3
  <2>4. CASE a >= at + Len(ws)
    BY <1>2, <2>2, <2>4
  <2>5. CASE at <= a /\ a < at + Len(ws)
    <3>1. a - at + 1 \in 1 .. k /\ at + (a - at + 1) = a + 1
      BY <1>2, <2>5, SMTT(30)
    <3>2. ws[a - at + 1] = Image(job)[a + 1]
      BY <3>1
    <3> QED
      BY <1>2, <2>2, <2>5, <3>2, SMTT(30)
  <2> QED
    BY <1>2, <2>3, <2>4, <2>5
<1> QED
  BY <1>1, <1>3

(* The inductive invariant of the flash memories.  Its part on the flash of Olympus is for   *)
(* sessions with one image for it, one that fits: nothing checks the size of that image,    *)
(* and dataAddr is never reset.                                                              *)
THEOREM FlashControl == Spec => []FlashInv

(* A slave that has just started. *)
<1>Fresh.
  /\ FreshSlave.size = 0 /\ FreshSlave.count = 0 /\ FreshSlave.addr = 0 /\ FreshSlave.mode = "boot"
  /\ FreshSlave.flashComplete = FALSE
  BY Zenon DEF FreshSlave
<1>Zero. 0 \in Nat /\ 4 * 0 = 0
  BY SMT
(* What the image at work has loaded is a matter of its slave and its flash. *)
<1>LoadedFrame.
  ASSUME UNCHANGED <<jobs, job, hidden>>, slave'[J.mcu] = slave[J.mcu], flash'[J.mcu] = flash[J.mcu],
         NEW n, Loaded(n)
  PROVE  Loaded(n)'
  <2> USE <1>LoadedFrame
  <2>1. J' = J /\ Image(job)' = Image(job)
    BY DEF J, Image
  <2> QED
    BY <2>1 DEF Loaded, Part

(* The one image for Olympus. *)
<1>Fits.
  ASSUME Base, OneFits, J.mcu = OLYMPUS
  PROVE  J.size <= 4 * FlashWords
  <2> USE <1>Fits
  <2>1. ~(J.size > 4 * FlashWords)
    BY Zenon DEF OneFits, OlympusFits, TooLarge, Base, J
  <2>2. J.size \in Nat /\ FlashWords \in Nat
    BY ImageWords, BootConstants
  <2> QED
    BY <2>1, <2>2

(* The image at work is programmed into its own module only. *)
<1>VerifiedFrame.
  ASSUME Base, NoEmptyImage, VerifiedInv, UNCHANGED flasher, hidden \subseteq hidden',
         \A m \in Modules : m # J.mcu => flash'[m] = flash[m],
         stage \in {"jump", "done"} => flash' = flash
  PROVE  VerifiedInv'
  <2> USE <1>VerifiedFrame
  <2>1. UNCHANGED <<jobs, job, stage, verified>> /\ (\A j : Image(j)' = Image(j))
        /\ (OlympusOnce' <=> OlympusOnce) /\ (\A j : TooLarge(j)' <=> TooLarge(j))
    BY Zenon DEF flasher, Image, OlympusOnce, TooLarge
  <2>2. \A j \in verified' : j \in DOMAIN jobs' /\ (IF stage' \in {"jump", "done"} THEN j <= job' ELSE j < job')
    BY <2>1 DEF VerifiedInv
  <2>3. ASSUME OlympusOnce
        PROVE  VerifiedIsInstalled'
    <3> SUFFICES ASSUME hidden = {}, NEW j \in verified, ~TooLarge(j),
                        \A k \in DOMAIN jobs : k > j /\ k <= job => jobs[k].mcu # jobs[j].mcu
                 PROVE  Holds(jobs[j].mcu, j)'
      BY <2>1 DEF VerifiedIsInstalled
    <3>1. Holds(jobs[j].mcu, j)
      BY <2>3 DEF VerifiedInv, VerifiedIsInstalled
    <3>2. flash'[jobs[j].mcu] = flash[jobs[j].mcu]
      <4>1. CASE stage \in {"jump", "done"}
        BY <4>1
      <4>2. CASE stage \notin {"jump", "done"}
        <5>1. j \in DOMAIN jobs /\ j < job
          BY <4>2 DEF VerifiedInv
        <5>2. /\ Len(jobs) \in Nat /\ DOMAIN jobs = 1 .. Len(jobs) /\ job \in 1 .. Len(jobs)
              /\ jobs[j].mcu \in Modules
          BY <5>1, JobOK DEF Base
        <5>3. job > j /\ job <= job
          BY <5>1, <5>2
        <5>4. jobs[job].mcu # jobs[j].mcu
          BY <5>3 DEF Base
        <5> QED
          BY <5>2, <5>4 DEF J
      <4> QED
        BY <4>1, <4>2
    <3> QED
      BY <2>1, <3>1, <3>2 DEF Holds
  <2> QED
    BY <2>1, <2>2, <2>3 DEF VerifiedInv

(* The flasher's steps leave the flash alone. *)
<1>FlasherFlash.
  ASSUME ControlInv, ControlInv', NoEmptyImage, FlashInv, Boot, master # "fault"
  PROVE  FlashInv'
  <2> USE <1>FlasherFlash
  <2>1. /\ Base /\ InStep /\ Base' /\ InStep' /\ NoEmptyImage' /\ master' # "fault"
        /\ (OneFits' <=> OneFits) /\ (OlympusOnce' <=> OlympusOnce)
    <3>1. NoEmptyImage' /\ jobs' = jobs
      BY BaseStep DEF ControlInv, Next
    <3>2. master # "fault" /\ master' # "fault"
      BY Zenon DEF Boot, writeMessage, readAnswer, readTimeout
    <3>3. (OneFits' <=> OneFits) /\ (OlympusOnce' <=> OlympusOnce)
      BY <3>1, Zenon DEF OneFits, OlympusOnce, OlympusFits, TooLarge
    <3> QED
      BY <3>1, <3>2, <3>3, Zenon DEF ControlInv, Stuck, Faulted
  <2>2. UNCHANGED <<jobs, master, msg, count, module, header, dataAddr, commsBuff, slave, flash, hidden, owing>>
    BY Zenon DEF Boot, writeMessage, readAnswer, readTimeout, statics, links
  <2>3. \A j : Image(j)' = Image(j)
    BY <2>2 DEF Image
  <2>4. /\ DOMAIN flash' = Modules /\ (\A m \in Modules : DOMAIN flash'[m] = 0 .. FlashWords - 1)
        /\ owing' \subseteq Slaves /\ (FalseRestart' <=> FalseRestart)
    BY <2>1, <2>2 DEF FlashInv, FalseRestart
  <2>5. ~FalseRestart => \A m \in Slaves : SlaveOK(m)'
    BY <2>1, <2>2, <2>3 DEF FlashInv, SlaveOK, Whole, Untouched, Holds
  <2>6. \A m, j : Holds(m, j)' <=> Holds(m, j)
    BY <2>2, <2>3 DEF Holds
  <2>7. (OneFits => OlympusLoads) /\ VerifiedInv /\ (~FalseRestart /\ J.mcu # OLYMPUS => SlaveLoads)
    BY <2>1 DEF FlashInv
  <2> SUFFICES (~FalseRestart /\ J'.mcu # OLYMPUS => SlaveLoads') /\ (OneFits => OlympusLoads') /\ VerifiedInv'
    BY <2>1, <2>4, <2>5 DEF FlashInv
  <2>8. Blank' <=> Blank
    BY <2>2 DEF Blank, Untouched
  <2>9. ASSUME job' = job
        PROVE  /\ J' = J
               /\ \A n : Loaded(n) => Loaded(n)'
               /\ \A n : Taken(n)' <=> Taken(n)
    <3>1. J' = J
      BY <2>2, <2>9 DEF J
    <3>2. \A n : Loaded(n) => Loaded(n)'
      BY <2>2, <2>9, <1>LoadedFrame
    <3>3. \A n : Taken(n)' <=> Taken(n)
      BY <2>2, <2>3, <2>9, <3>1 DEF Taken, Part
    <3> QED
      BY <3>1, <3>2, <3>3
  <2>10. CASE writeMessage
    <3>1. /\ UNCHANGED <<job, stage, response, verified>> /\ waiting' = TRUE /\ ~waiting /\ J' = J
          /\ stage # "done"
      BY <2>2, <2>10 DEF writeMessage, J
    <3>2. response = "" /\ master = "read"
      BY <2>1, <3>1, Zenon DEF InStep, Ready, Idle
    <3>3. ASSUME ~FalseRestart, J.mcu # OLYMPUS, stage = "data"
          PROVE  \E n \in Nat : n % CHUNK_SIZE = 0 /\ DataLoads(n)'
      <4>1. PICK n \in Nat : n % CHUNK_SIZE = 0 /\ n = sentBytes /\ Loaded(n)
        BY <2>7, <3>1, <3>3, Zenon DEF SlaveLoads, DataLoads
      <4>2. count = n
        BY <2>1, <3>1, <3>3, <4>1 DEF InStep, Ready
      <4>3. PICK cs \in Nat : ChunkAt(cs)' /\ InStream' /\ stream' # <<>> /\ cs <= count'
        BY <2>1, <2>2, <3>1, <3>2, <3>3, Zenon DEF InStep, Sent, DataSent
      <4>4. cs = n
        <5>1. CHUNK_SIZE \in Nat /\ J.size \in Nat /\ cs % CHUNK_SIZE = 0
          BY <2>1, <4>3, ImageWords, BootConstants DEF ChunkAt
        <5>2. sentBytes' = count' + 4 * Len(stream') /\ Len(stream') \in Nat /\ Len(stream') > 0
          BY <4>3 DEF InStream
        <5>3. sentBytes' = Lesser(cs + CHUNK_SIZE, J.size)
          BY <3>1, <4>3 DEF ChunkAt
        <5>4. n < cs + CHUNK_SIZE
          BY <2>2, <4>2, <5>1, <5>2, <5>3 DEF Lesser
        <5>5. cs < n => n % CHUNK_SIZE = n - cs
          BY <5>1, <5>4, InChunk, Zenon
        <5>6. cs <= n
          BY <2>2, <4>2, <4>3
        <5> QED
          BY <4>1, <5>5, <5>6
      <4>5. Gathered(n)'
        BY <2>2, <4>2 DEF Gathered
      <4>6. DataLoads(n)'
        BY <2>2, <2>9, <3>1, <3>2, <4>1, <4>2, <4>3, <4>4, <4>5, Zenon DEF DataLoads
      <4> QED
        BY <4>1, <4>6
    <3>4. ASSUME ~FalseRestart, J.mcu # OLYMPUS
          PROVE  SlaveLoads'
      <4>1. SlaveLoads
        BY <2>7, <3>4
      <4>2. stage = "checksum" => \E n \in Nat : J'.size <= n /\ Loaded(n)'
        BY <2>9, <3>1, <3>2, <4>1, Zenon DEF SlaveLoads
      <4>3. stage = "init" => Loaded(0)'
        BY <2>9, <3>1, <4>1 DEF SlaveLoads
      <4> QED
        BY <2>2, <3>1, <3>2, <3>3, <3>4, <4>2, <4>3, Zenon DEF SlaveLoads
    <3>5. OneFits => OlympusLoads'
      BY <2>2, <2>7, <2>8, <2>9, <3>1 DEF OlympusLoads
    <3>6. VerifiedInv'
      BY <2>1, <2>2, <2>6, <2>7, <3>1 DEF VerifiedInv, VerifiedIsInstalled, NoEmptyImage, TooLarge
    <3> QED
      BY <3>1, <3>4, <3>5, <3>6
  <2>11. CASE readAnswer \/ readTimeout
    <3>1. readAnswer
      BY <2>1, <2>11, AnswerComes, Zenon DEF InStep, readTimeout
    <3>2. /\ waiting /\ Sent /\ response # "" /\ waiting' = FALSE /\ response' = "" /\ sentBytes' = sentBytes
          /\ Proceed(response = "NO_ERR") /\ stage # "done" /\ Ready'
      BY <2>1, <3>1, Zenon DEF readAnswer, InStep, Base
    <3>3. ASSUME stage' \in {"header", "jump", "done"}
          PROVE  SlaveLoads'
      BY <3>2, <3>3, Zenon DEF SlaveLoads, Ready, Idle
    <3>4. /\ Len(jobs) \in Nat /\ DOMAIN jobs = 1 .. Len(jobs) /\ job \in 1 .. Len(jobs)
          /\ jobs' = jobs
      BY <2>1, <2>2, JobOK DEF Base
    <3>12. /\ OlympusOnce /\ J.mcu = OLYMPUS => job = Len(jobs)
           /\ OneFits /\ job < Len(jobs) => J.mcu # OLYMPUS
      <4>1. Len(jobs) \in Nat /\ DOMAIN jobs = 1 .. Len(jobs) /\ job \in 1 .. Len(jobs)
        BY <2>1, JobOK DEF Base
      <4>2. OlympusOnce /\ J.mcu = OLYMPUS => job = Len(jobs)
        BY <4>1, Zenon DEF OlympusOnce, J
      <4>3. job < Len(jobs) => job # Len(jobs)
        <5>1. \A a, b \in Int : a < b => a # b
          OBVIOUS
        <5>2. job \in Int /\ Len(jobs) \in Int
          BY <4>1
        <5> QED
          BY <5>1, <5>2, Zenon
      <4> QED
        BY <4>2, <4>3, Zenon DEF OneFits
    <3>5. ASSUME NextJob, stage # "jump",
                 OneFits /\ J.mcu = OLYMPUS => Blank \/ Taken(J.size),
                 \/ verified' = verified
                 \/ /\ verified' = verified \cup {job}
                    /\ OlympusOnce /\ hidden = {} /\ ~TooLarge(job) => Holds(J.mcu, job)
          PROVE  SlaveLoads' /\ (OneFits => OlympusLoads') /\ VerifiedInv'
      <4>1. /\ stage' \in {"header", "jump"} /\ (stage' = "jump" => job' = job)
            /\ stage' = "header" => job' = job + 1 /\ job < Len(jobs)
        BY <3>5 DEF NextJob
      <4>2. OneFits => OlympusLoads'
        <5>1. CASE stage' = "header"
          BY <2>7, <2>8, <3>2, <3>12, <4>1, <5>1, Zenon DEF OlympusLoads
        <5>2. CASE stage' = "jump"
          BY <2>7, <2>8, <2>9, <3>5, <4>1, <5>2 DEF OlympusLoads
        <5> QED
          BY <4>1, <5>1, <5>2
      <4>3. \A j \in verified : j \in DOMAIN jobs /\ j < job
        BY <2>7, <3>2, <3>5, Zenon DEF VerifiedInv
      <4>4. \A j \in verified' : j \in DOMAIN jobs' /\ (IF stage' \in {"jump", "done"} THEN j <= job' ELSE j < job')
        <5>1. \A j \in verified' : j \in 1 .. Len(jobs) /\ j <= job
          BY <3>4, <3>5, <4>3
        <5> QED
          BY <3>4, <4>1, <5>1
      <4>5. ASSUME OlympusOnce
            PROVE  VerifiedIsInstalled'
        <5> SUFFICES ASSUME hidden = {}, NEW j \in verified', ~TooLarge(j),
                            \A k \in DOMAIN jobs : k > j /\ k <= job' => jobs[k].mcu # jobs[j].mcu
                     PROVE  Holds(jobs[j].mcu, j)
          BY <2>2, <2>6 DEF VerifiedIsInstalled, TooLarge
        <5>1. CASE j \in verified
          <6>1. \A k \in DOMAIN jobs : k > j /\ k <= job => jobs[k].mcu # jobs[j].mcu
            BY <3>4, <4>1
          <6> QED
            BY <2>1, <2>7, <4>5, <5>1, <6>1 DEF VerifiedInv, VerifiedIsInstalled
        <5>2. CASE j = job
          BY <3>5, <4>5, <5>1, <5>2, SMTT(30) DEF J
        <5> QED
          BY <3>5, <5>1, <5>2
      <4> QED
        BY <2>1, <3>3, <4>1, <4>2, <4>4, <4>5 DEF VerifiedInv
    <3>6. ASSUME UNCHANGED <<job, verified>>, stage' \in {"jump", "done"} <=> stage \in {"jump", "done"}
          PROVE  VerifiedInv'
      BY <2>1, <2>2, <2>6, <2>7, <3>6 DEF VerifiedInv, VerifiedIsInstalled, NoEmptyImage, TooLarge
    <3>7. CASE stage = "jump"
      <4>1. stage' = "done" /\ UNCHANGED <<job, verified>>
        BY <2>1, <3>2, <3>7, ProceedCases, Zenon
      <4>2. OneFits => OlympusLoads'
        BY <2>7, <2>8, <2>9, <3>7, <4>1 DEF OlympusLoads
      <4> QED
        BY <3>3, <3>6, <3>7, <4>1, <4>2
    <3>8. CASE stage = "header"
      <4>1. CASE response = "NO_ERR"
        <5>1. stage' = "init" /\ UNCHANGED <<job, verified>>
          BY <2>1, <3>2, <3>8, <4>1, ProceedCases, Zenon
        <5>2. ~FalseRestart /\ J'.mcu # OLYMPUS => Loaded(0)'
          BY <2>7, <2>9, <3>8, <4>1, <5>1 DEF SlaveLoads
        <5>3. ~FalseRestart /\ J'.mcu # OLYMPUS => SlaveLoads'
          BY <5>1, <5>2 DEF SlaveLoads
        <5>4. OneFits => OlympusLoads'
          BY <2>7, <2>8, <2>9, <3>8, <4>1, <5>1 DEF OlympusLoads
        <5> QED
          BY <3>6, <3>8, <5>1, <5>3, <5>4
      <4>2. CASE response # "NO_ERR"
        <5>1. NextJob /\ verified' = verified
          BY <2>1, <3>2, <3>8, <4>2, ProceedCases, Zenon
        <5>2. OneFits /\ J.mcu = OLYMPUS => Blank
          BY <2>7, <3>8, <4>2 DEF OlympusLoads
        <5> QED
          BY <3>5, <3>8, <5>1, <5>2
      <4> QED
        BY <4>1, <4>2
    <3>9. CASE stage = "init"
      <4>1. response = "NO_ERR" /\ sentBytes = 0 /\ count = 0 /\ msg = DATA
        BY <3>2, <3>9, Zenon DEF Sent, InitSent
      <4>2. stage' = "data" /\ UNCHANGED <<job, verified>>
        <5>1. J.size > 0
          BY <2>1 DEF NoEmptyImage, Base, J
        <5>2. stage' = (IF sentBytes < J.size THEN "data" ELSE "checksum") /\ UNCHANGED <<job, verified>>
          BY <2>1, <3>2, <3>9, <4>1, ProceedCases, Zenon DEF J
        <5> QED
          BY <4>1, <5>1, <5>2
      <4>3. ASSUME ~FalseRestart, J'.mcu # OLYMPUS
            PROVE  SlaveLoads'
        <5>1. Loaded(0)'
          BY <2>7, <2>9, <3>9, <4>2, <4>3 DEF SlaveLoads
        <5>2. 0 % CHUNK_SIZE = 0
          BY BootConstants
        <5>3. DataLoads(0)'
          BY <3>2, <4>1, <5>1, Zenon DEF DataLoads
        <5>4. \E n \in Nat : n % CHUNK_SIZE = 0 /\ DataLoads(n)'
          BY <5>2, <5>3
        <5> QED
          BY <4>2, <5>4 DEF SlaveLoads
      <4>4. OneFits => OlympusLoads'
        BY <2>2, <2>7, <2>8, <2>9, <3>9, <4>1, <4>2 DEF OlympusLoads
      <4> QED
        BY <3>6, <3>9, <4>2, <4>3, <4>4
    <3>10. CASE stage = "data"
      <4>1. PICK cs \in Nat :
              /\ ChunkAt(cs)
              /\ \/ /\ response = "NO_ERR"
                    /\ IF sentBytes = J.size THEN msg = DMY ELSE msg = DATA
                 \/ response = "ERR_DATA_WRITE" /\ msg = DMY
        BY <3>2, <3>10, Zenon DEF Sent, DataSent, Idle
      <4>2. J.size \in Nat /\ CHUNK_SIZE \in Nat
        BY <2>1, ImageWords, BootConstants
      <4>3. sentBytes \in Nat /\ sentBytes <= J.size
        BY <4>1, <4>2 DEF ChunkAt, Lesser
      <4>4. CASE response = "NO_ERR" /\ sentBytes < J.size
        <5>1. stage' = "data" /\ UNCHANGED <<job, verified>>
          BY <2>1, <3>2, <3>10, <4>4, ProceedCases, Zenon DEF J
        <5>2. ASSUME ~FalseRestart, J'.mcu # OLYMPUS
              PROVE  SlaveLoads'
          <6>1. PICK n \in Nat : n % CHUNK_SIZE = 0 /\ n = sentBytes /\ Loaded(n)
            BY <2>7, <2>9, <3>2, <3>10, <4>4, <5>1, <5>2, Zenon DEF SlaveLoads, DataLoads
          <6>2. DataLoads(n)'
            BY <2>9, <3>2, <5>1, <6>1, Zenon DEF DataLoads
          <6>3. \E k \in Nat : k % CHUNK_SIZE = 0 /\ DataLoads(k)'
            BY <6>1, <6>2
          <6> QED
            BY <5>1, <6>3 DEF SlaveLoads
        <5>3. OneFits => OlympusLoads'
          BY <2>2, <2>7, <2>8, <2>9, <3>10, <5>1 DEF OlympusLoads
        <5> QED
          BY <3>6, <3>10, <5>1, <5>2, <5>3
      <4>5. CASE response = "NO_ERR" /\ ~(sentBytes < J.size)
        <5>1. stage' = "checksum" /\ UNCHANGED <<job, verified>>
          BY <2>1, <3>2, <3>10, <4>5, ProceedCases, Zenon DEF J
        <5>2. sentBytes = J.size /\ msg = DMY
          BY <4>1, <4>2, <4>3, <4>5
        <5>3. ASSUME ~FalseRestart, J'.mcu # OLYMPUS
              PROVE  SlaveLoads'
          <6>1. PICK n \in Nat : sentBytes <= n /\ Loaded(n)
            BY <2>7, <2>9, <3>2, <3>10, <4>5, <5>1, <5>3, Zenon DEF SlaveLoads, DataLoads
          <6>2. \E k \in Nat : J'.size <= k /\ Loaded(k)'
            BY <2>9, <5>1, <5>2, <6>1, SMTT(30)
          <6> QED
            BY <3>2, <5>1, <6>2, Zenon DEF SlaveLoads
        <5>4. OneFits => OlympusLoads'
          BY <2>2, <2>7, <2>8, <2>9, <3>10, <5>1, <5>2, TypesDiffer DEF OlympusLoads
        <5> QED
          BY <3>6, <3>10, <5>1, <5>3, <5>4
      <4>6. CASE response # "NO_ERR"
        <5>1. NextJob /\ verified' = verified
          BY <2>1, <3>2, <3>10, <4>6, ProceedCases, Zenon
        <5>2. OneFits /\ J.mcu = OLYMPUS => Taken(J.size)
          BY <2>7, <3>10, <4>1, <4>6, TypesDiffer DEF OlympusLoads
        <5> QED
          BY <3>5, <3>10, <5>1, <5>2
      <4> QED
        BY <4>4, <4>5, <4>6
    <3>11. CASE stage = "checksum"
      <4>1. OneFits /\ J.mcu = OLYMPUS => Taken(J.size)
        BY <2>7, <3>11 DEF OlympusLoads
      <4>2. CASE response # "NO_ERR"
        <5>1. NextJob /\ verified' = verified
          BY <2>1, <3>2, <3>11, <4>2, ProceedCases, Zenon
        <5> QED
          BY <3>5, <3>11, <4>1, <5>1
      <4>3. CASE response = "NO_ERR"
        <5>1. NextJob /\ verified' = verified \cup {job}
          BY <2>1, <3>2, <3>11, <4>3, ProceedCases, Zenon
        <5>2. ASSUME OlympusOnce, hidden = {}, ~TooLarge(job)
              PROVE  Holds(J.mcu, job)
          <6>1. CASE J.mcu = OLYMPUS
            <7>1. OneFits
              BY <3>12, <5>2, <6>1, Zenon DEF OneFits, OlympusOnce, OlympusFits, TooLarge
            <7>2. dataAddr \in Nat /\ 4 * dataAddr = J.size /\ Part(J.mcu, dataAddr)
              BY <4>1, <6>1, <7>1 DEF Taken
            <7>3. J.size <= 4 * dataAddr /\ J.size <= 4 * FlashWords
              BY <2>1, <5>2, <6>1, <7>2, ImageWords, BootConstants DEF TooLarge, J
            <7> QED
              BY <2>1, <7>2, <7>3, WholeImage
          <6>2. CASE J.mcu # OLYMPUS
            BY <2>7, <3>11, <4>3, <5>2, <6>2 DEF SlaveLoads, FalseRestart
          <6> QED
            BY <6>1, <6>2
        <5> QED
          BY <3>5, <3>11, <4>1, <5>1, <5>2
      <4> QED
        BY <4>2, <4>3
    <3> QED
      BY <2>1, <3>2, <3>7, <3>8, <3>9, <3>10, <3>11, Zenon DEF Base, Stages
  <2> QED
    BY <2>10, <2>11 DEF Boot

(* The words that the master reads. *)
<1>WordFlash.
  ASSUME ControlInv, ControlInv', NoEmptyImage, FlashInv, WordRead, master' # "fault"
  PROVE  FlashInv'
  <2> USE <1>WordFlash
  <2>1. /\ Base /\ InStep /\ Base' /\ InStep' /\ NoEmptyImage' /\ master' # "fault"
        /\ (OneFits' <=> OneFits) /\ (OlympusOnce' <=> OlympusOnce)
    <3>1. NoEmptyImage' /\ jobs' = jobs
      BY BaseStep DEF ControlInv, Next, runBootFSM, WordRead
    <3>2. master # "fault" /\ master' # "fault"
      BY Zenon DEF WordRead, Dmy, HeaderWord, HeaderEnd, DataOlympus, DataSlave, Checksum, Default, Word
    <3>3. (OneFits' <=> OneFits) /\ (OlympusOnce' <=> OlympusOnce)
      BY <3>1, Zenon DEF OneFits, OlympusOnce, OlympusFits, TooLarge
    <3> QED
      BY <3>1, <3>2, <3>3, Zenon DEF ControlInv, Stuck, Faulted
  <2>2. /\ Word /\ UNCHANGED slave /\ master = "read" /\ stream # <<>> /\ stream' = Tail(stream)
        /\ UNCHANGED flasher /\ UNCHANGED <<jobs, job, stage, waiting, sentBytes, owing, hidden>>
    <3>1. Word /\ UNCHANGED slave
      BY Zenon DEF WordRead, Dmy, HeaderWord, HeaderEnd, DataOlympus, DataSlave, Checksum, Default
    <3> QED
      BY <3>1 DEF Word, flasher, links
  <2>3. J' = J /\ (\A j : Image(j)' = Image(j)) /\ (FalseRestart' <=> FalseRestart)
    BY <2>2 DEF J, Image, FalseRestart
  <2>4. /\ (OneFits => OlympusLoads) /\ VerifiedInv /\ (~FalseRestart /\ J.mcu # OLYMPUS => SlaveLoads)
        /\ DOMAIN flash = Modules /\ (\A m \in Modules : DOMAIN flash[m] = 0 .. FlashWords - 1)
        /\ ~FalseRestart => \A m \in Slaves : SlaveOK(m)
        /\ owing \subseteq Slaves /\ OLYMPUS \notin Slaves /\ OLYMPUS \in Modules /\ Slaves \subseteq Modules
    BY <2>1, BootConstants, SMTT(30) DEF FlashInv, Modules
  <2>5. /\ response \in {"", "ERR_INVALID_HEADER"} /\ (stage # "header" => response = "")
        /\ stage \in {"header", "jump"} => msg \notin {DATA, CHECKSUM}
        /\ stage = "init" => msg = DMY
        /\ stage = "data" => msg = DATA /\ waiting /\ Opened
        /\ stage = "checksum" => msg \in {DMY, CHECKSUM} /\ Opened
        /\ stage # "done"
    <3>1. ASSUME NEW m, Junk(m)
          PROVE  msg \notin {DATA, CHECKSUM}
      <4>1. PICK j \in DOMAIN jobs : msg \in {DMY, jobs[j].size}
        BY <3>1, SMTT(30) DEF Junk
      <4>2. jobs[j].size \notin {DATA, CHECKSUM}
        BY <2>1, JobOK, TypesDiffer DEF Base, NoEmptyImage
      <4> QED
        BY <4>1, <4>2, TypesDiffer
    <3>2. CASE ~waiting
      BY <2>1, <2>2, <3>1, <3>2, TypesDiffer, Zenon DEF InStep, Ready, Idle
    <3>3. CASE waiting
      <4>1. Sent /\ stage # "done"
        BY <2>1, <3>3 DEF InStep, Base
      <4>2. CASE stage = "header"
        BY <2>2, <3>1, <4>1, <4>2, TypesDiffer, Zenon DEF Sent, HeaderSent, HeaderPassedOn, HeaderAnswered,
                                                   HeaderRefused, Idle
      <4>3. CASE stage = "jump"
        BY <2>2, <3>1, <4>1, <4>3, TypesDiffer, Zenon DEF Sent, JumpSent, Idle
      <4>4. CASE stage \in {"init", "data", "checksum"}
        BY <2>2, <3>3, <4>1, <4>4, Zenon DEF Sent, InitSent, DataSent, ChecksumSent, Idle
      <4> QED
        BY <2>1, <4>1, <4>2, <4>3, <4>4, Zenon DEF Base, Stages
    <3> QED
      BY <3>2, <3>3, Zenon
  <2>6. ASSUME \A m \in Modules : m # OLYMPUS => flash'[m] = flash[m],
               DOMAIN flash' = Modules, DOMAIN flash'[OLYMPUS] = 0 .. FlashWords - 1
        PROVE  /\ DOMAIN flash' = Modules /\ (\A m \in Modules : DOMAIN flash'[m] = 0 .. FlashWords - 1)
               /\ owing' \subseteq Slaves
               /\ ~FalseRestart => \A m \in Slaves : SlaveOK(m)'
               /\ J.mcu # OLYMPUS => \A n : Loaded(n) => Loaded(n)'
    <3>1. \A m \in Slaves : flash'[m] = flash[m]
      BY <2>4, <2>6, SMTT(30)
    <3>2. ~FalseRestart => \A m \in Slaves : SlaveOK(m)'
      BY <2>2, <2>3, <2>4, <3>1, SMTT(30) DEF SlaveOK, Whole, Untouched, Holds
    <3>3. J.mcu # OLYMPUS => \A n : Loaded(n) => Loaded(n)'
      BY <2>1, <2>2, <2>6, <1>LoadedFrame, ImageWords, Zenon
    <3> QED
      BY <2>2, <2>4, <2>6, <3>2, <3>3, Zenon
  <2>7. ASSUME UNCHANGED <<flash, dataAddr>>, stage # "data",
               stage = "header" => response' # "NO_ERR" /\ master' \notin {"restarted", "erase"},
               stage = "checksum" /\ J.mcu # OLYMPUS => response' # "NO_ERR"
        PROVE  FlashInv'
    <3>1. VerifiedInv'
      BY <2>1, <2>2, <2>4, <2>7, <1>VerifiedFrame
    <3>2. OneFits => OlympusLoads'
      <4>1. (Blank' <=> Blank) /\ \A n : Taken(n)' <=> Taken(n)
        BY <2>2, <2>3, <2>7 DEF Blank, Untouched, Taken, Part
      <4> QED
        BY <2>2, <2>3, <2>4, <2>5, <2>7, <4>1, Zenon DEF OlympusLoads
    <3>3. ~FalseRestart /\ J.mcu # OLYMPUS => SlaveLoads'
      <4> SUFFICES ASSUME ~FalseRestart, J.mcu # OLYMPUS
                   PROVE  SlaveLoads'
        BY SMTT(30)
      <4>1. SlaveLoads /\ \A n : Loaded(n) => Loaded(n)'
        BY <2>4, <2>6, <2>7, SMTT(30)
      <4>2. stage = "init" => Loaded(0)'
        BY <4>1 DEF SlaveLoads
      <4>3. stage = "checksum" => \E n \in Nat : J'.size <= n /\ Loaded(n)'
        BY <2>3, <2>5, <4>1, Zenon DEF SlaveLoads
      <4> QED
        BY <2>2, <2>7, <4>2, <4>3, Zenon DEF SlaveLoads
    <3> QED
      BY <2>1, <2>3, <2>4, <2>6, <2>7, <3>1, <3>2, <3>3, SMTT(30) DEF FlashInv
  <2>8. ASSUME response' = "NO_ERR"
        PROVE  /\ stage = "header" => msg' = DMY /\ Addressed'
               /\ stage = "checksum" => msg' = DMY
               /\ stage = "jump" => master' = "app"
    <3>1. Sent'
      BY <2>1, <2>8, Zenon DEF InStep, Ready, Idle
    <3>2. stage = "header" => HeaderAnswered'
      BY <2>2, <2>8, <3>1 DEF Sent, HeaderSent, HeaderPassedOn, HeaderRefused, Idle
    <3> QED
      BY <2>2, <2>8, <3>1, <3>2, Zenon DEF HeaderAnswered, Opened, Sent, ChecksumSent, JumpSent, Idle
  <2>9. CASE Dmy
    <3>1. /\ UNCHANGED <<flash, dataAddr>> /\ stage # "data" /\ master' \in {"read", "app"}
          /\ response' = "NO_ERR" => msg' \in {DATA, JUMP} \/ response = "NO_ERR"
      BY <2>5, <2>9, TypesDiffer, Zenon DEF Dmy, writeResponse
    <3> QED
      BY <2>5, <2>7, <2>8, <3>1, TypesDiffer, Zenon
  <2>10. CASE HeaderWord \/ Default
    <3>1. UNCHANGED <<flash, dataAddr, response, master>> /\ stage # "data"
      BY <2>5, <2>10, TypesDiffer, Zenon DEF HeaderWord, Default
    <3> QED
      BY <2>2, <2>5, <2>7, <3>1, Zenon
  <2>11. CASE HeaderEnd
    <3>1. dataAddr' = dataAddr /\ stage \in {"header", "jump"}
      BY <2>1, <2>5, <2>11, TypesDiffer, Zenon DEF HeaderEnd, Base, Stages
    <3>2. CASE ~ValidHeader(Head(stream))
      <4>1. response' = "ERR_INVALID_HEADER" /\ master' = "read" /\ flash' = flash
        BY <2>11, <3>2, Zenon DEF HeaderEnd, Finish, writeResponse
      <4> QED
        BY <2>7, <3>1, <4>1
    <3>3. CASE ValidHeader(Head(stream)) /\ Addressee # OLYMPUS
      <4>1. response' = response /\ master' = "status" /\ flash' = flash
        BY <2>11, <3>3, SMTT(30) DEF HeaderEnd
      <4> QED
        BY <2>5, <2>7, <3>1, <4>1, Zenon
    <3>4. CASE ValidHeader(Head(stream)) /\ Addressee = OLYMPUS
      <4>1. /\ flash' = [flash EXCEPT ![OLYMPUS] = writeInit(@, header.size)]
            /\ response' = "NO_ERR" /\ master' = "read" /\ module' = OLYMPUS
            /\ header' = [header EXCEPT !.fkey = Head(stream)]
        BY <2>11, <3>4, Zenon DEF HeaderEnd, Finish, Fault, writeResponse
      <4>2. stage = "header" /\ Addressed'
        BY <2>8, <3>1, <4>1
      <4>3. J.mcu = OLYMPUS /\ header.size = J.size
        BY <2>1, <2>3, <4>1, <4>2, SMTT(30) DEF Addressed, Base
      <4>4. J.size \in Nat /\ J.size % 4 = 0
        BY <2>1, ImageWords
      <4>5. /\ flash'[OLYMPUS] = writeInit(flash[OLYMPUS], J.size) /\ DOMAIN flash' = Modules
            /\ DOMAIN flash'[OLYMPUS] = 0 .. FlashWords - 1
            /\ \A m \in Modules : m # OLYMPUS => flash'[m] = flash[m]
        <5>1. flash'[OLYMPUS] = writeInit(flash[OLYMPUS], J.size) /\ DOMAIN flash' = Modules
          BY <2>4, <4>1, <4>3
        <5>2. \A m \in Modules : m # OLYMPUS => flash'[m] = flash[m]
          BY <2>4, <4>1, SMTT(30)
        <5> QED
          BY <2>4, <5>1, <5>2 DEF writeInit
      <4>6. VerifiedInv'
        BY <2>1, <2>2, <2>4, <4>2, <4>3, <4>5, <1>VerifiedFrame
      <4>7. ASSUME OneFits
            PROVE  OlympusLoads'
        <5>1. dataAddr = 0
          BY <2>4, <2>5, <4>2, <4>3, <4>7, Zenon DEF OlympusLoads, Blank
        <5>2. J.size <= 4 * FlashWords
          BY <2>1, <4>3, <4>7, <1>Fits, Zenon
        <5>3. \A a \in 0 .. J.size \div 4 - 1 : flash'[OLYMPUS][a] = Erased
          BY <2>4, <4>4, <4>5, <5>2, ErasesImage, SMTT(30)
        <5>4. Taken(0)'
          BY <2>3, <3>1, <5>1, <5>3 DEF Taken, Part
        <5> QED
          BY <2>2, <2>3, <4>1, <4>2, <4>3, <5>4 DEF OlympusLoads
      <4> QED
        BY <2>1, <2>3, <2>6, <4>3, <4>5, <4>6, <4>7 DEF FlashInv
    <3> QED
      BY <3>2, <3>3, <3>4
  <2>12. CASE Checksum
    <3>1. UNCHANGED <<flash, dataAddr>> /\ stage = "checksum"
      BY <2>1, <2>5, <2>12, TypesDiffer, Zenon DEF Checksum, Base, Stages
    <3>2. module = J.mcu
      BY <2>5, <3>1, Zenon DEF Opened, Addressed
    <3>3. module # OLYMPUS => response' = response
      BY <2>12 DEF Checksum
    <3> QED
      BY <2>5, <2>7, <3>1, <3>2, <3>3, Zenon
  <2>13. CASE DataOlympus \/ DataSlave
    <3>1. stage = "data" /\ msg = DATA /\ waiting /\ Opened /\ response = ""
      BY <2>1, <2>5, <2>13, TypesDiffer, Zenon DEF DataOlympus, DataSlave, Base, Stages
    <3>2. module = J.mcu /\ header.size = J.size
      BY <3>1, Zenon DEF Opened, Addressed
    <3>3. PICK cs \in Nat : /\ ChunkAt(cs) /\ InStream
                            /\ count \in Nat /\ count % 4 = 0 /\ cs <= count
      BY <2>1, <2>2, <3>1, Zenon DEF InStep, Sent, DataSent
    <3>4. J.size \in Nat /\ J.size \div 4 \in Nat /\ J.size = 4 * (J.size \div 4) /\ CHUNK_SIZE \in Nat
      BY <2>1, ImageWords, BootConstants
    <3>5. /\ Len(stream) \in Nat /\ Len(stream) > 0 /\ sentBytes = count + 4 * Len(stream)
          /\ Head(stream) = stream[1] /\ stream[1] \in Int
      BY <2>2, <3>3 DEF InStream
    <3>6. sentBytes \in Nat /\ sentBytes <= J.size
      <4>1. sentBytes = Lesser(cs + CHUNK_SIZE, J.size)
        BY <3>3 DEF ChunkAt
      <4> QED
        BY <3>4, <4>1 DEF Lesser
    <3>7. count + 4 <= sentBytes /\ count \div 4 \in Nat /\ count = 4 * (count \div 4)
          /\ count \div 4 + 1 <= J.size \div 4
      BY <3>3, <3>4, <3>5, <3>6
    <3>8. Head(stream) = Image(job)[count \div 4 + 1]
      BY <3>3, <3>5, SMTT(30) DEF InStream
    <3>9. CASE DataOlympus
      <4>1. /\ flash' = [flash EXCEPT ![OLYMPUS] = writeFlash(@, dataAddr, <<Head(stream)>>)]
            /\ dataAddr' = dataAddr + 1 /\ J.mcu = OLYMPUS
            /\ IF count + 4 = J.size THEN count' = 0 /\ msg' = DMY ELSE count' = count + 4 /\ msg' = msg
        BY <3>2, <3>9 DEF DataOlympus
      <4> DEFINE ws == <<Head(stream)>>
                 mem == flash[OLYMPUS]
      <4>2. /\ flash'[OLYMPUS] = writeFlash(mem, dataAddr, ws) /\ DOMAIN flash' = Modules
            /\ DOMAIN mem = 0 .. FlashWords - 1
        BY <2>4, <4>1, SMTT(30)
      <4>3. DOMAIN flash'[OLYMPUS] = 0 .. FlashWords - 1
        BY <4>2 DEF writeFlash
      <4>4. \A m \in Modules : m # OLYMPUS => flash'[m] = flash[m]
        BY <2>4, <4>1
      <4>5. VerifiedInv'
        BY <2>1, <2>2, <2>4, <3>1, <4>1, <4>4, <1>VerifiedFrame, Zenon
      <4>6. ASSUME OneFits
            PROVE  OlympusLoads'
        <5>1. Taken(count)
          BY <2>4, <3>1, <4>1, <4>6, Zenon DEF OlympusLoads
        <5>2. dataAddr = count \div 4
          BY <3>7, <5>1, SMTT(30) DEF Taken
        <5>3. J.size <= 4 * FlashWords
          BY <2>1, <4>1, <4>6, <1>Fits, Zenon
        <5>4. ws \in Seq(Int) /\ Len(ws) = 1 /\ ws[1] = Image(job)[dataAddr + 1]
          BY <3>5, <3>8, <5>2, SMTT(30)
        <5>5. dataAddr \in Nat /\ dataAddr + 1 <= J.size \div 4
          BY <3>7, <5>2, SMTT(30)
        <5>6. \A a \in 0 .. J.size \div 4 - 1 : mem[a] = IF a < dataAddr THEN Image(job)[a + 1] ELSE Erased
          BY <5>1 DEF Taken, Part
        <5> HIDE DEF ws, mem
        <5>7. \A a \in 0 .. J.size \div 4 - 1 :
                writeFlash(mem, dataAddr, ws)[a] =
                  IF a < dataAddr + Len(ws) THEN Image(job)[a + 1] ELSE Erased
          <6>1. \A i \in 1 .. 1 : ws[i] = Image(job)[dataAddr + i]
            BY <5>4
          <6>2. 1 \in Nat /\ 1 <= Len(ws) /\ 1 = Len(ws)
            BY <5>4
          <6> QED
            BY <2>1, <4>2, <5>3, <5>4, <5>5, <5>6, <6>1, <6>2, ProgramsPart, Zenon
        <5>8. Part(OLYMPUS, dataAddr)'
          <6>1. Image(job)' = Image(job) /\ dataAddr' = dataAddr + Len(ws)
            BY <2>2, <4>1, <5>4, SMTT(30) DEF Image
          <6>2. \A a \in 0 .. J.size \div 4 - 1 :
                  flash'[OLYMPUS][a] = IF a < dataAddr' THEN Image(job)[a + 1] ELSE Erased
            BY <4>2, <5>7, <6>1
          <6> QED
            BY <2>3, <6>1, <6>2, SMTT(30) DEF Part
        <5>9. dataAddr' \in Nat /\ 4 * dataAddr' = count + 4
          BY <3>7, <4>1, <5>2, <5>5
        <5>10. (IF msg' = DATA THEN count' ELSE J'.size) = count + 4
          BY <2>3, <3>1, <4>1, TypesDiffer, Zenon
        <5> QED
          BY <2>2, <2>3, <3>1, <4>1, <5>8, <5>9, <5>10, Zenon DEF OlympusLoads, Taken
      <4> HIDE DEF ws, mem
      <4> QED
        BY <2>1, <2>3, <2>6, <4>1, <4>2, <4>3, <4>4, <4>5, <4>6, SMTT(30) DEF FlashInv
    <3>10. CASE DataSlave
      <4>1. /\ commsBuff' = Append(SubSeq(commsBuff, 1, (count % CHUNK_SIZE) \div 4), Head(stream))
            /\ count' = count + 4 /\ UNCHANGED <<response, dataAddr, flash>> /\ J.mcu # OLYMPUS
        BY <3>2, <3>10 DEF DataSlave
      <4>2. VerifiedInv'
        BY <2>1, <2>2, <2>4, <4>1, <1>VerifiedFrame, Zenon
      <4>3. OneFits => OlympusLoads'
        BY <2>3, <2>4, <4>1, Zenon DEF OlympusLoads, Blank, Untouched
      <4>4. ASSUME ~FalseRestart
            PROVE  SlaveLoads'
        <5>1. PICK n \in Nat : n % CHUNK_SIZE = 0 /\ ChunkAt(n) /\ n <= count /\ Gathered(n) /\ Loaded(n)
          BY <2>4, <3>1, <4>1, <4>4, Zenon DEF SlaveLoads, DataLoads
        <5>2. Loaded(n)' /\ ChunkAt(n)'
          BY <2>2, <2>3, <2>4, <2>6, <4>1, <5>1, Zenon DEF ChunkAt
        <5>3. count < n + CHUNK_SIZE
          <6>1. sentBytes = Lesser(n + CHUNK_SIZE, J.size)
            BY <5>1 DEF ChunkAt
          <6> QED
            BY <3>3, <3>4, <3>6, <3>7, <6>1 DEF Lesser
        <5>4. n \div 4 \in Nat /\ n = 4 * (n \div 4)
          BY <5>1, InChunk, SMTT(30)
        <5> DEFINE old == SubSeq(commsBuff, 1, (count % CHUNK_SIZE) \div 4)
        <5>5. /\ old \in Seq(Int) /\ 4 * Len(old) = count - n
              /\ \A i \in 1 .. Len(old) : old[i] = Image(job)[n \div 4 + i]
          <6>1. CASE count = n
            <7>1. (count % CHUNK_SIZE) \div 4 = 0
              BY <5>1, <6>1
            <7>2. SubSeq(commsBuff, 1, 0) = <<>>
              OBVIOUS
            <7>3. old = <<>> /\ count - n = 0
              BY <3>3, <6>1, <7>1, <7>2, SMTT(30)
            <7> HIDE DEF old
            <7> QED
              BY <7>3
          <6>2. CASE count > n
            <7>1. count % CHUNK_SIZE = count - n
              BY <3>3, <5>1, <5>3, <6>2, InChunk
            <7>2. /\ commsBuff \in Seq(Int) /\ 4 * Len(commsBuff) = count - n
                  /\ \A i \in 1 .. Len(commsBuff) : commsBuff[i] = Image(job)[n \div 4 + i]
              BY <5>1, <6>2, SMTT(30) DEF Gathered
            <7>3. Len(commsBuff) \in Nat
              BY <7>2, SMTT(30)
            <7>4. (count % CHUNK_SIZE) \div 4 = Len(commsBuff)
              <8>1. \A l \in Nat, x \in Int : 4 * l = x => x \div 4 = l
                OBVIOUS
              <8>2. count - n \in Int
                BY <3>3, SMTT(30)
              <8> QED
                BY <7>1, <7>2, <7>3, <8>1, <8>2
            <7>5. old = commsBuff
              BY <7>2, <7>3, <7>4, SMTT(30)
            <7> QED
              BY <7>2, <7>5, Zenon
          <6> QED
            BY <3>3, <5>1, <6>1, <6>2
        <5> HIDE DEF old
        <5>6. commsBuff' = Append(old, Head(stream)) /\ Len(old) \in Nat
          BY <4>1, <5>5, SMTT(30) DEF old
        <5>7. commsBuff' \in Seq(Int) /\ Len(commsBuff') = Len(old) + 1
          BY <3>5, <5>5, <5>6, SMTT(30)
        <5>8. ASSUME NEW i \in 1 .. Len(commsBuff')
              PROVE  commsBuff'[i] = Image(job)[n \div 4 + i]
          <6>1. CASE i \in 1 .. Len(old)
            BY <5>5, <5>6, <6>1, SMTT(30)
          <6>2. CASE i = Len(old) + 1
            <7>1. n \div 4 + i = count \div 4 + 1
              <8>1. \A a, b, l \in Nat : 4 * l = 4 * a - 4 * b => b + (l + 1) = a + 1
                OBVIOUS
              <8>2. 4 * Len(old) = 4 * (count \div 4) - 4 * (n \div 4)
                BY <3>7, <5>4, <5>5, SMTT(30)
              <8> QED
                BY <3>7, <5>4, <5>6, <6>2, <8>1, <8>2, Zenon
            <7>2. commsBuff'[i] = Head(stream)
              BY <5>5, <5>6, <6>2, SMTT(30)
            <7> QED
              BY <3>8, <7>1, <7>2, SMTT(30)
          <6> QED
            BY <5>6, <5>7, <6>1, <6>2, SMTT(30)
        <5>9. Gathered(n)'
          <6>1. Image(job)' = Image(job)
            BY <2>2 DEF Image
          <6>2. 4 * Len(commsBuff') = count' - n
            <7>1. 4 * Len(old) = count - n /\ Len(commsBuff') = Len(old) + 1 /\ count' = count + 4
              BY <4>1, <5>5, <5>7
            <7>2. count \in Nat /\ Len(old) \in Nat
              BY <3>3, <5>6, SMTT(30)
            <7> QED
              BY <7>1, <7>2, SMTT(30)
          <6> QED
            BY <5>7, <5>8, <6>1, <6>2, SMTT(30) DEF Gathered
        <5>10. n <= count'
          BY <3>3, <4>1, <5>1
        <5>11. DataLoads(n)'
          BY <2>2, <3>1, <4>1, <5>2, <5>9, <5>10, Zenon DEF DataLoads
        <5>12. \E k \in Nat : k % CHUNK_SIZE = 0 /\ DataLoads(k)'
          BY <5>1, <5>11
        <5> QED
          BY <2>2, <3>1, <5>12, Zenon DEF SlaveLoads
      <4> QED
        BY <2>1, <2>3, <2>4, <2>6, <4>1, <4>2, <4>3, <4>4, Zenon DEF FlashInv
    <3> QED
      BY <2>13, <3>9, <3>10
  <2> QED
    BY <2>9, <2>10, <2>11, <2>12, <2>13 DEF WordRead

(* The transactions with a slave. *)
<1>MessageFlash.
  ASSUME ControlInv, ControlInv', NoEmptyImage, FlashInv, SlaveMessage
  PROVE  FlashInv'
  <2> USE <1>MessageFlash
  <2>1. /\ Base /\ InStep /\ Base' /\ InStep' /\ NoEmptyImage' /\ master' # "fault"
        /\ (OneFits' <=> OneFits) /\ (OlympusOnce' <=> OlympusOnce)
    <3>1. NoEmptyImage' /\ jobs' = jobs
      BY BaseStep, SMTT(30) DEF ControlInv, Next, runBootFSM, SlaveMessage
    <3>2. master # "fault" /\ master' # "fault"
      BY Zenon DEF SlaveMessage, PreRebootStatus, Reboot, RebootStatus, SlaveHeader, SlaveData, SlaveChecksum,
                   Transaction, Finish
    <3>3. (OneFits' <=> OneFits) /\ (OlympusOnce' <=> OlympusOnce)
      BY <3>1, Zenon DEF OneFits, OlympusOnce, OlympusFits, TooLarge
    <3> QED
      BY <3>1, <3>2, <3>3, Zenon DEF ControlInv, Stuck, Faulted
  <2>2. /\ UNCHANGED flasher /\ UNCHANGED <<jobs, job, stage, waiting, sentBytes, dataAddr, commsBuff>>
        /\ J' = J /\ (\A j : Image(j)' = Image(j))
    BY MessageSent DEF flasher, J, Image
  <2>3. /\ (OneFits => OlympusLoads) /\ VerifiedInv /\ (~FalseRestart /\ J.mcu # OLYMPUS => SlaveLoads)
        /\ DOMAIN flash = Modules /\ (\A m \in Modules : DOMAIN flash[m] = 0 .. FlashWords - 1)
        /\ ~FalseRestart => \A m \in Slaves : SlaveOK(m)
        /\ owing \subseteq Slaves /\ OLYMPUS \notin Slaves /\ OLYMPUS \in Modules /\ Slaves \subseteq Modules
    BY <2>1, BootConstants DEF FlashInv, Modules
  <2>4. /\ waiting
        /\ \/ stage = "header" /\ HeaderPassedOn
           \/ stage = "data" /\ master = "data" /\ DataSent
           \/ stage = "checksum" /\ master = "checksum" /\ ChecksumSent
        /\ response = "" /\ stream = <<>> /\ module = J.mcu /\ J.mcu # OLYMPUS /\ Addressed
        /\ master \notin {"status", "reboot"} => slave[module].mode = "boot"
        /\ module \in Slaves /\ DOMAIN slave = Slaves /\ IsSlave(slave[module])
    BY <2>1, SlaveAddressed, Zenon
  <2> DEFINE s == slave[J.mcu]
             mem == flash[J.mcu]
             r(t, ws) == RunMessage(s, mem, t, ws)
  <2>5. ASSUME NEW t \in {0, 1, 2, 3, 10}, NEW ws, NEW ok \in BOOLEAN, messageSubmodule(t, ws, ok)
        PROVE  /\ \/ slave'[J.mcu] = r(t, ws).s /\ flash'[J.mcu] = r(t, ws).mem
                  \/ ~ok /\ slave'[J.mcu] = s /\ flash'[J.mcu] = mem
               /\ DOMAIN slave' = Slaves /\ (\A m \in Slaves : m # J.mcu => slave'[m] = slave[m])
               /\ DOMAIN flash' = Modules /\ (\A m \in Modules : m # J.mcu => flash'[m] = flash[m])
               /\ owing' \subseteq Slaves /\ hidden \subseteq hidden'
               /\ ok /\ r(t, ws).status # "WR_OK" => t \in hidden'
    <3>1. hidden \subseteq hidden' /\ (ok /\ r(t, ws).status # "WR_OK" => t \in hidden')
      BY <2>4, <2>5, Transacted, Zenon DEF Status
    <3>2. owing' \subseteq owing \cup {module}
      BY <2>5, Zenon DEF messageSubmodule, LeavesAnswer
    <3>3. CASE ~ok /\ UNCHANGED <<slave, flash, misled>>
      BY <2>3, <2>4, <3>1, <3>2, <3>3, Zenon
    <3>4. CASE Run(t, ws)
      <4>1. slave' = [slave EXCEPT ![J.mcu] = r(t, ws).s] /\ flash' = [flash EXCEPT ![J.mcu] = r(t, ws).mem]
        BY <2>4, <3>4, Zenon DEF Run
      <4> HIDE DEF r
      <4> QED
        BY <2>3, <2>4, <3>1, <3>2, <4>1, Zenon
    <3> QED
      BY <2>5, <3>3, <3>4, Transacted, Zenon
  <2>6. ASSUME NEW t \in {0, 1, 2, 3, 10}, NEW ws, NEW ok \in BOOLEAN, messageSubmodule(t, ws, ok),
               ~FalseRestart' => SlaveOK(J.mcu)' /\ SlaveLoads'
        PROVE  FlashInv'
    <3>1. DOMAIN r(t, ws).mem = DOMAIN mem
      <4>1. s.mode \in {"boot", "app"}
        BY <2>4, Zenon DEF IsSlave
      <4>2. CASE t = 0
        BY <4>2 DEF RunMessage, Answer, GET_STATUS, BOOT_MSG
      <4>3. CASE t = 10
        BY <4>1, <4>3 DEF RunMessage, Answer, GET_STATUS, BOOT_MSG
      <4>4. CASE t \in {1, 2, 3} /\ s.mode = "app"
        BY <4>4 DEF RunMessage, Answer, GET_STATUS, BOOT_MSG
      <4>5. CASE t = 1 /\ s.mode = "boot"
        BY <4>5 DEF RunMessage, GET_STATUS, BOOT_MSG, write_header, Answer, writeInit
      <4>6. CASE t = 2 /\ s.mode = "boot"
        BY <4>6 DEF RunMessage, GET_STATUS, BOOT_MSG, write_data, Answer, writeFlash
      <4>7. CASE t = 3 /\ s.mode = "boot"
        BY <4>7, SMTT(30) DEF RunMessage, GET_STATUS, BOOT_MSG, run_checksum, Answer
      <4> QED
        BY <2>6, <4>1, <4>2, <4>3, <4>4, <4>5, <4>6, <4>7, Zenon
    <3> HIDE DEF r
    <3>2. \A m \in Modules : DOMAIN flash'[m] = 0 .. FlashWords - 1
      <4>1. DOMAIN flash'[J.mcu] = DOMAIN mem
        <5>1. flash'[J.mcu] = r(t, ws).mem \/ flash'[J.mcu] = mem
          BY <2>5, <2>6, Zenon
        <5> QED
          BY <3>1, <5>1, Zenon
      <4>2. DOMAIN mem = 0 .. FlashWords - 1
        BY <2>3, <2>4, Zenon
      <4>3. \A m \in Modules : m # J.mcu => flash'[m] = flash[m]
        BY <2>5, <2>6, Zenon
      <4> QED
        BY <2>3, <4>1, <4>2, <4>3
    <3>3. FalseRestart => FalseRestart'
      BY <2>5, <2>6 DEF FalseRestart
    <3>4. ~FalseRestart' => \A m \in Slaves : SlaveOK(m)'
      <4> SUFFICES ASSUME ~FalseRestart', NEW m \in Slaves, m # J.mcu
                   PROVE  SlaveOK(m)'
        BY <2>2, <2>6, SMTT(30)
      <4>1. slave'[m] = slave[m] /\ flash'[m] = flash[m] /\ SlaveOK(m)
        BY <2>3, <2>5, <2>6, <3>3, Zenon
      <4> QED
        BY <2>2, <4>1, Zenon DEF SlaveOK, Whole, Untouched, Holds
    <3>5. stage \notin {"jump", "done"}
      BY <2>4, Zenon
    <3>6. VerifiedInv'
      BY <2>1, <2>2, <2>3, <2>5, <2>6, <3>5, <1>VerifiedFrame, Zenon
    <3>7. ASSUME OneFits
          PROVE  OlympusLoads'
      <4>1. Blank /\ flash'[OLYMPUS] = flash[OLYMPUS]
        BY <2>3, <2>4, <2>5, <2>6, <3>7, Zenon DEF OlympusLoads
      <4> QED
        BY <2>2, <2>4, <4>1, Zenon DEF OlympusLoads, Blank, Untouched
    <3> QED
      BY <2>1, <2>5, <2>6, <3>2, <3>4, <3>6, <3>7, Zenon DEF FlashInv
  <2>7. ~FalseRestart' => ~FalseRestart /\ SlaveOK(J.mcu) /\ SlaveLoads
    <3>1. \E t \in {0, 1, 2, 3, 10}, ok \in BOOLEAN : \E ws : messageSubmodule(t, ws, ok)
      BY MessageSent
    <3>2. hidden \subseteq hidden'
      BY <2>5, <3>1, Zenon
    <3> QED
      BY <2>3, <2>4, <3>2, Zenon DEF FalseRestart
  <2>8. ASSUME slave'[J.mcu] = s, flash'[J.mcu] = mem, SlaveOK(J.mcu)
        PROVE  SlaveOK(J.mcu)'
    BY <2>2, <2>8, Zenon DEF SlaveOK, Whole, Untouched, Holds
  <2>9. CASE stage = "header"
    <3>1. HeaderPassedOn
      BY <2>4, <2>9, Zenon
    <3>2. CASE PreRebootStatus
      <4>1. PICK ok \in BOOLEAN :
              /\ messageSubmodule(0, <<>>, ok)
              /\ IF ok THEN master' = "reboot" /\ response' = response ELSE Finish("ERR_REBOOT_FAIL")
        BY <3>2 DEF PreRebootStatus, Transaction, GET_STATUS
      <4>2. r(0, <<>>).s = s /\ r(0, <<>>).mem = mem
        BY DEF RunMessage, Answer, GET_STATUS, BOOT_MSG
      <4> HIDE DEF r
      <4>3. slave'[J.mcu] = s /\ flash'[J.mcu] = mem
        BY <2>5, <4>1, <4>2, Zenon
      <4>4. SlaveLoads'
        BY <2>2, <2>4, <2>9, <4>1, Zenon DEF SlaveLoads, Finish, writeResponse
      <4> QED
        BY <2>6, <2>7, <2>8, <4>1, <4>3, <4>4, Zenon
    <3>3. CASE Reboot
      <4>1. PICK ok \in BOOLEAN :
              /\ messageSubmodule(10, <<>>, ok)
              /\ IF ok THEN master' = "restarted" /\ response' = response ELSE Finish("ERR_REBOOT_START")
        BY <3>3 DEF Reboot, Transaction, BOOT_MSG
      <4>2. /\ r(10, <<>>).mem = mem
            /\ s.mode = "app" => r(10, <<>>).s = FreshSlave
            /\ s.mode = "boot" => r(10, <<>>).s = s /\ r(10, <<>>).status # "WR_OK"
            /\ s.mode \in {"app", "boot"}
        <5>1. s.mode \in {"app", "boot"}
          BY <2>4, Zenon DEF IsSlave
        <5>2. CASE s.mode = "app"
          <6>1. r(10, <<>>) = Answer(FreshSlave, mem, "WR_OK")
            BY <5>2, SMTT(30) DEF RunMessage, GET_STATUS, BOOT_MSG
          <6> QED
            BY <5>2, <6>1 DEF Answer
        <5>3. CASE s.mode = "boot"
          <6>1. r(10, <<>>) = Answer(s, mem, "")
            BY <5>3 DEF RunMessage, GET_STATUS, BOOT_MSG
          <6>3. "" # "WR_OK"
            BY Zenon
          <6> HIDE DEF r
          <6>4. PICK e : e # "WR_OK" /\ r(10, <<>>) = Answer(s, mem, e)
            BY <6>1, <6>3, Zenon
          <6>5. s.mode # "app"
            BY <5>3, SMTT(30)
          <6> QED
            BY <5>1, <6>4, <6>5 DEF Answer
        <5> QED
          BY <5>1, <5>2, <5>3, Zenon
      <4> HIDE DEF r
      <4>3. flash'[J.mcu] = mem /\ slave'[J.mcu] \in {s, FreshSlave}
        BY <2>5, <4>1, <4>2
      <4>4. ok /\ ~FalseRestart' => slave'[J.mcu] = FreshSlave
        BY <2>5, <4>1, <4>2, Zenon DEF FalseRestart, BOOT_MSG
      <4>5. ~FalseRestart' => SlaveLoads'
        BY <2>2, <2>4, <2>9, <4>1, <4>4, Zenon DEF SlaveLoads, Finish, writeResponse
      <4>6. ~FalseRestart' => SlaveOK(J.mcu)'
        <5>1. CASE slave'[J.mcu] = s
          BY <2>7, <2>8, <4>3, <5>1
        <5>2. CASE slave'[J.mcu] = FreshSlave
          <6>1. FreshSlave.addr \in 0 .. FlashWords
            BY BootConstants DEF FreshSlave
          <6> QED
            BY <2>2, <5>2, <6>1, <1>Fresh, <1>Zero, Zenon DEF SlaveOK
        <5> QED
          BY <4>3, <5>1, <5>2, SMTT(30)
      <4> QED
        BY <2>6, <4>1, <4>5, <4>6, SMTT(30)
    <3>4. CASE RebootStatus
      <4>1. PICK ok \in BOOLEAN :
              /\ messageSubmodule(0, <<>>, ok)
              /\ IF ok THEN master' = "erase" /\ response' = response ELSE Finish("ERR_REBOOT_STATUS")
        BY <3>4 DEF RebootStatus, Transaction, GET_STATUS
      <4>2. r(0, <<>>).s = s /\ r(0, <<>>).mem = mem
        BY DEF RunMessage, Answer, GET_STATUS, BOOT_MSG
      <4> HIDE DEF r
      <4>3. slave'[J.mcu] = s /\ flash'[J.mcu] = mem
        BY <2>5, <4>1, <4>2, Zenon
      <4>4. ~FalseRestart' => s = FreshSlave
        BY <2>7, <2>9, <3>4, Zenon DEF SlaveLoads, RebootStatus, Transaction
      <4>5. ~FalseRestart' => SlaveLoads'
        BY <2>2, <2>4, <2>9, <4>1, <4>3, <4>4, Zenon DEF SlaveLoads, Finish, writeResponse
      <4> QED
        BY <2>6, <2>7, <2>8, <4>1, <4>3, <4>5, Zenon
    <3>5. CASE SlaveHeader
      <4> DEFINE ws == <<J.size, ERASE_FLASH_KEY>>
      <4>1. PICK ok \in BOOLEAN :
              messageSubmodule(1, ws, ok) /\ Finish(IF ok THEN "NO_ERR" ELSE "ERR_FLASH_ERASE")
        <5>1. <<header.size, header.fkey>> = ws
          BY <2>4, Zenon DEF Addressed
        <5> QED
          BY <3>5, <5>1 DEF SlaveHeader
      <4>2. /\ response' = (IF ok THEN "NO_ERR" ELSE "ERR_FLASH_ERASE") /\ master' = "read"
            /\ s.mode = "boot" /\ (~FalseRestart' => s = FreshSlave)
        BY <2>4, <2>7, <2>9, <3>5, <4>1, Zenon DEF Finish, writeResponse, SlaveHeader, SlaveLoads
      <4>3. r(1, ws) = write_header(s, mem, ws)
        BY <4>2, SMTT(30) DEF RunMessage, GET_STATUS, BOOT_MSG
      <4>4. J.size \in Nat /\ J.size % 4 = 0 /\ FlashWords \in Nat /\ ws[1] = J.size /\ ws[2] = ERASE_FLASH_KEY
        BY <2>1, ImageWords, BootConstants, SMTT(30)
      <4>5. ASSUME ~FalseRestart', ok => Loaded(0)'
            PROVE  SlaveLoads'
        BY <2>2, <2>9, <4>2, <4>5, SMTT(30) DEF SlaveLoads
      <4>6. CASE J.size > 4 * FlashWords
        <5>1. r(1, ws) = Answer(s, mem, "WR_ERR")
          BY <4>3, <4>4, <4>6 DEF write_header
        <5>2. r(1, ws).s = s /\ r(1, ws).mem = mem /\ r(1, ws).status = "WR_ERR"
          <6> HIDE DEF r, ws
          <6>1. Answer(s, mem, "WR_ERR").s = s /\ Answer(s, mem, "WR_ERR").mem = mem
                /\ Answer(s, mem, "WR_ERR").status = "WR_ERR"
            BY Zenon DEF Answer
          <6> QED
            BY <5>1, <6>1, Zenon
        <5> HIDE DEF r, ws
        <5>3. slave'[J.mcu] = s /\ flash'[J.mcu] = mem /\ (ok => hidden' # {})
          BY <2>5, <4>1, <5>2, Zenon
        <5>4. ~FalseRestart' /\ ok => Loaded(0)'
          BY <2>2, <4>2, <5>3, <1>Fresh, <1>Zero, Zenon DEF Loaded
        <5> QED
          BY <2>6, <2>7, <2>8, <4>1, <4>5, <5>3, <5>4, Zenon
      <4>7. CASE J.size <= 4 * FlashWords
        <5> DEFINE u == [s EXCEPT !.size = ws[1], !.checksum = 0, !.flashComplete = FALSE]
        <5>1. r(1, ws) = Answer(u, writeInit(mem, J.size), "WR_OK")
          BY <4>3, <4>4, <4>7 DEF write_header
        <5>2. r(1, ws).s = u /\ r(1, ws).mem = writeInit(mem, J.size)
          <6> HIDE DEF r, ws, u
          <6>1. Answer(u, writeInit(mem, J.size), "WR_OK").s = u /\ Answer(u, writeInit(mem, J.size), "WR_OK").mem = writeInit(mem, J.size)
                /\ Answer(u, writeInit(mem, J.size), "WR_OK").status = "WR_OK"
            BY Zenon DEF Answer
          <6> QED
            BY <5>1, <6>1, Zenon
        <5>3. s = FreshSlave => /\ u.size = J.size /\ u.count = 0 /\ u.addr = 0 /\ u.mode = "boot"
                                /\ u.flashComplete = FALSE
          BY <4>4, SMTT(30) DEF FreshSlave
        <5>4. \A a \in 0 .. J.size \div 4 - 1 : writeInit(mem, J.size)[a] = Erased
          <6>1. DOMAIN mem = 0 .. FlashWords - 1
            BY <2>3, <2>4, Zenon
          <6> HIDE DEF mem
          <6> QED
            BY <4>4, <4>7, <6>1, ErasesImage
        <5> HIDE DEF r, ws, u
        <5>5. CASE slave'[J.mcu] = u /\ flash'[J.mcu] = writeInit(mem, J.size)
          <6> SUFFICES ASSUME ~FalseRestart'
                       PROVE  SlaveOK(J.mcu)' /\ SlaveLoads'
            BY <2>6, <4>1, SMTT(30)
          <6>1. SlaveOK(J.mcu)'
            <7>1. 0 \in 0 .. FlashWords /\ 0 \in Nat
              BY <4>4, SMTT(30)
            <7>2. slave'[J'.mcu] = u
              BY <2>2, <5>5, SMTT(30)
            <7>3. u.size \in Nat /\ u.count \in Nat /\ u.addr \in 0 .. FlashWords /\ u.mode # "app"
              BY <4>2, <4>4, <5>3, <7>1
            <7>4. u.flashComplete \in BOOLEAN
              BY <4>2, <5>3, Zenon
            <7> QED
              BY <7>2, <7>3, <7>4 DEF SlaveOK
          <6>2. \A a \in 0 .. J'.size \div 4 - 1 : flash'[J'.mcu][a] = Erased
            BY <2>2, <5>4, <5>5, SMTT(30)
          <6>3. Part(J.mcu, slave[J.mcu].addr)'
            BY <2>2, <4>2, <5>3, <5>5, <6>2 DEF Part
          <6>4. Loaded(0)'
            BY <2>2, <4>2, <4>7, <5>3, <5>5, <6>3, <1>Fresh, <1>Zero, Zenon DEF Loaded
          <6> QED
            BY <4>5, <6>1, <6>4
        <5>6. CASE ~ok /\ slave'[J.mcu] = s /\ flash'[J.mcu] = mem
          BY <2>6, <2>7, <2>8, <4>1, <4>5, <5>6
        <5> QED
          BY <2>5, <4>1, <5>2, <5>5, <5>6, Zenon
      <4> QED
        BY <4>4, <4>6, <4>7, SMTT(30)
    <3> QED
      BY <3>1, <3>2, <3>3, <3>4, <3>5, Zenon DEF HeaderPassedOn, SlaveMessage, SlaveData, SlaveChecksum
  <2>10. CASE stage = "data"
    <3> DEFINE C == CHUNK_SIZE
               ws == ZeroFilled(commsBuff)
    <3>1. PICK ok \in BOOLEAN :
            /\ messageSubmodule(2, ws, ok)
            /\ response' = (IF ok THEN "NO_ERR" ELSE "ERR_DATA_WRITE")
      <4>1. SlaveData
        BY <2>4, <2>10, Zenon DEF SlaveMessage, PreRebootStatus, Reboot, RebootStatus, SlaveHeader,
                           SlaveChecksum, Transaction
      <4> QED
        BY <4>1 DEF SlaveData, Finish, writeResponse
    <3> HIDE DEF ws
    <3> SUFFICES ASSUME ~FalseRestart'
                 PROVE  SlaveOK(J.mcu)' /\ SlaveLoads'
      BY <2>6, <3>1
    <3>2. PICK n \in Nat : n % C = 0 /\ ChunkAt(n) /\ Gathered(n) /\ Loaded(n)
      BY <2>4, <2>7, <2>10, Zenon DEF SlaveLoads, DataLoads
    <3>3. s.mode = "boot" /\ count = sentBytes
      BY <2>4, <2>10, Zenon DEF DataSent, Idle
    <3>4. r(2, ws) = write_data(s, mem, ws)
      BY <3>3, SMTT(30) DEF RunMessage, GET_STATUS, BOOT_MSG
    <3> DEFINE size == J.size
               bytes == sentBytes
               words == size \div 4
    <3>5. /\ C \in Nat /\ C % 4 = 0 /\ C > 0 /\ FlashWords \in Nat /\ size \in Nat
          /\ words \in Nat /\ size = 4 * words /\ n % 4 = 0 /\ (n + C) % C = 0
      BY <2>1, <3>2, BootConstants, ImageWords, InChunk, SMTT(30)
    <3>6. /\ bytes \in Nat /\ n < size /\ n < bytes /\ bytes <= n + C /\ bytes <= size
          /\ bytes = n + C \/ bytes = size
      BY <3>2, <3>5 DEF ChunkAt, Lesser
    <3>7. n + C <= 4 * FlashWords \/ size > 4 * FlashWords
      <4> DEFINE F == 4 * FlashWords
      <4>1. F \in Nat /\ F % C = 0
        BY BootConstants, SMTT(30)
      <4>2. \A k \in Nat : n < k /\ k < n + C => k % C = k - n
        BY <3>2, InChunk
      <4> HIDE DEF F, C, size
      <4>3. F < n + C /\ n < F => F % C = F - n
        BY <4>1, <4>2, SMTT(30)
      <4>4. n + C <= F \/ size > F
        BY <3>5, <3>6, <4>1, <4>3, SMTT(30)
      <4> QED
        BY <4>4, SMTT(30) DEF F
    <3>8. ASSUME ok => Loaded(n + C)'
          PROVE  SlaveLoads'
      <4>1. bytes < size => n + C = bytes
        BY <3>5, <3>6, SMTT(30)
      <4>2. n + C \in Nat /\ bytes <= n + C
        BY <3>5, <3>6
      <4>3. DataLoads(n + C)'
        BY <2>2, <2>4, <3>1, <3>8, <4>1, <4>2, Zenon DEF DataLoads
      <4> QED
        BY <2>2, <2>10, <3>5, <4>2, <4>3, SMTT(30) DEF SlaveLoads
    <3>9. CASE ~ok /\ slave'[J.mcu] = s /\ flash'[J.mcu] = mem
      BY <2>7, <2>8, <3>8, <3>9
    <3>10. CASE s.size = 0 /\ slave'[J.mcu] = r(2, ws).s /\ flash'[J.mcu] = r(2, ws).mem
      <4>1. r(2, ws).s = s /\ r(2, ws).mem = mem /\ r(2, ws).status = "WR_ERR"
        BY <3>4, <3>10, SMTT(30) DEF write_data, Answer
      <4> HIDE DEF r
      <4>2. ok => hidden' # {}
        BY <2>5, <3>1, <4>1, Zenon
      <4>3. size # 0
        BY <3>5, <3>6, SMTT(30)
      <4>4. ~s.flashComplete
        BY <3>2, <3>10, <4>3, Zenon DEF Loaded
      <4>5. ok => Loaded(n + C)'
        BY <2>2, <3>10, <4>1, <4>2, <4>4, Zenon DEF Loaded
      <4> QED
        BY <2>7, <2>8, <3>8, <3>10, <4>1, <4>5, Zenon
    <3>11. CASE s.size # 0 /\ slave'[J.mcu] = r(2, ws).s /\ flash'[J.mcu] = r(2, ws).mem
      <4> DEFINE u == [s EXCEPT !.checksum = @ + Total(ws), !.addr = @ + Len(ws),
                                !.count = @ + C,
                                !.flashComplete = @ \/ s.count + C >= s.size]
                 at == s.addr
                 after == writeFlash(mem, at, ws)
      <4>1. r(2, ws).s = u /\ r(2, ws).mem = after
        BY <3>4, <3>11 DEF write_data, Answer
      <4>2. /\ s.size = size /\ size <= 4 * FlashWords /\ s.count = n /\ at \in Nat /\ 4 * at = n
            /\ s.flashComplete => size <= n
            /\ Part(J.mcu, at)
        BY <3>2, <3>11, Zenon DEF Loaded
      <4>3. /\ u.size = s.size /\ u.mode = s.mode /\ u.addr = at + Len(ws) /\ u.count = s.count + C
            /\ u.flashComplete = (s.flashComplete \/ s.count + C >= s.size)
        BY <2>4, Zenon DEF IsSlave, Fields
      <4> HIDE DEF r, u, after
      <4>4. /\ ws \in Seq(Int) /\ Len(ws) = C \div 4
            /\ \A i \in 1 .. C \div 4 : i <= Len(commsBuff) => ws[i] = commsBuff[i]
        <5>1. commsBuff \in Seq(Int)
          BY <3>2, <3>3, <3>6, SMTT(30) DEF Gathered
        <5>2. C \div 4 \in Nat
          BY <3>5
        <5>3. ws = [i \in 1 .. C \div 4 |-> IF i <= Len(commsBuff) THEN commsBuff[i] ELSE 0]
          BY DEF ws, ZeroFilled
        <5> DEFINE W == C \div 4
        <5> HIDE DEF W
        <5>4. \A i \in 1 .. W : (IF i <= Len(commsBuff) THEN commsBuff[i] ELSE 0) \in Int
          BY <5>1, <5>2 DEF W
        <5>5. ws \in Seq(Int) /\ Len(ws) = W
          BY <5>2, <5>3, <5>4, SMTT(30) DEF W
        <5> QED
          BY <5>3, <5>5, Zenon DEF W
      <4>5. Len(commsBuff) \in Nat /\ 4 * Len(commsBuff) = bytes - n
        BY <3>2, <3>3, <3>6, SMTT(30) DEF Gathered
      <4>6. C \div 4 \in Nat /\ C = 4 * (C \div 4) /\ n \div 4 = at
        BY <3>5, <4>2
      <4>7. /\ DOMAIN after = 0 .. FlashWords - 1
            /\ \A a \in 0 .. words - 1 : after[a] = IF a < at + Len(ws) THEN Image(job)[a + 1] ELSE Erased
        <5> DEFINE k == Len(commsBuff)
        <5>1. k \in Nat /\ 4 * k = bytes - n
          BY <4>5
        <5>2. DOMAIN mem = 0 .. FlashWords - 1 /\ (\A a \in 0 .. words - 1 : mem[a] = IF a < at THEN Image(job)[a + 1] ELSE Erased)
          BY <2>3, <2>4, <4>2, Zenon DEF Part
        <5>3. k <= Len(ws) /\ at + k <= words /\ (k = Len(ws) \/ at + k = words)
          <6> DEFINE W == C \div 4
          <6>1. W \in Nat /\ C = 4 * W /\ Len(ws) = W
            BY <4>4, <4>6, SMTT(30)
          <6> HIDE DEF k, W, size, bytes, words, at, C
          <6>2. /\ n \in Nat /\ bytes \in Nat /\ words \in Nat /\ size = 4 * words /\ at \in Nat /\ 4 * at = n
                /\ bytes <= n + C /\ bytes <= size /\ (bytes = n + C \/ bytes = size)
            BY <3>5, <3>6, <4>2
          <6> QED
            BY <5>1, <6>1, <6>2, SMTT(30)
        <5>4. \A i \in 1 .. k : ws[i] = Image(job)[at + i]
          <6> SUFFICES ASSUME NEW i \in 1 .. k PROVE ws[i] = Image(job)[at + i]
            BY SMTT(30)
          <6>1. i \in 1 .. C \div 4
            BY <4>4, <5>1, <5>3, SMTT(30)
          <6>2. commsBuff[i] = Image(job)[n \div 4 + i]
            BY <3>2, <3>3, <3>6 DEF Gathered
          <6>3. i <= Len(commsBuff)
            BY <4>5, SMTT(30)
          <6> QED
            BY <4>4, <4>6, <6>1, <6>2, <6>3, Zenon
        <5> HIDE DEF mem, k, at
        <5> QED
          BY <2>1, <4>2, <4>4, <5>1, <5>2, <5>3, <5>4, ProgramsPart, Zenon DEF after
      <4>8. 4 * (at + Len(ws)) = n + C /\ at + Len(ws) \in 0 .. FlashWords /\ n + C \in Nat
        <5> DEFINE W == C \div 4
        <5>1. W \in Nat /\ C = 4 * W /\ Len(ws) = W
          BY <4>4, <4>6
        <5> HIDE DEF W, size, at, C
        <5> QED
          BY <3>5, <3>7, <4>2, <5>1
      <4>9. slave'[J'.mcu] = u /\ flash'[J'.mcu] = after
        BY <2>2, <3>11, <4>1, Zenon
      <4>10. SlaveOK(J.mcu)'
        <5>1. s.flashComplete \in BOOLEAN
          BY <2>7 DEF SlaveOK
        <5>2. u.flashComplete \in BOOLEAN
          BY <4>3, <5>1, Zenon
        <5>3. u.size \in Nat /\ u.count \in Nat /\ u.addr \in 0 .. FlashWords /\ u.mode # "app"
          BY <3>3, <3>5, <4>2, <4>3, <4>8, Zenon
        <5> QED
          BY <4>9, <5>2, <5>3, Zenon DEF SlaveOK
      <4>11. Part(J.mcu, slave[J.mcu].addr)'
        <5>1. \A a \in 0 .. J'.size \div 4 - 1 : flash'[J'.mcu][a] = IF a < u.addr THEN Image(job)'[a + 1] ELSE Erased
          BY <2>2, <4>3, <4>7, <4>9, Zenon
        <5>2. u.addr = slave'[J'.mcu].addr
          BY <4>9, SMTT(30)
        <5> HIDE DEF C
        <5> QED
          BY <5>1, <5>2 DEF Part
      <4>12. u.flashComplete => J.size <= n + C
        <5>1. u.flashComplete => s.flashComplete \/ s.count + C >= s.size
          BY <4>3, Zenon
        <5>2. ~(size <= n)
          BY <3>5, <3>6
        <5>3. u.flashComplete => n + C >= J.size
          BY <4>2, <5>1, <5>2, Zenon
        <5>4. n + C \in Nat
          BY <3>5, SMTT(30)
        <5> QED
          BY <3>5, <5>3, <5>4
      <4>13. u.size = J.size /\ J.size <= 4 * FlashWords /\ u.count = n + C /\ u.addr \in Nat /\ 4 * u.addr = n + C
        BY <3>5, <4>2, <4>3, <4>8, SMTT(30)
      <4>14. Loaded(n + C)'
        BY <2>2, <4>9, <4>11, <4>12, <4>13, Zenon DEF Loaded
      <4> QED
        BY <3>8, <4>10, <4>14
    <3> QED
      BY <2>5, <3>1, <3>9, <3>10, <3>11, Zenon
  <2>11. CASE stage = "checksum"
    <3>1. PICK ok \in BOOLEAN :
            messageSubmodule(3, commsBuff, ok) /\ response' = (IF ok THEN "NO_ERR" ELSE "ERR_CHECKSUM")
      <4>1. SlaveChecksum
        BY <2>4, <2>11, Zenon DEF SlaveMessage, PreRebootStatus, Reboot, RebootStatus, SlaveHeader,
                           SlaveData, Transaction
      <4> QED
        BY <4>1, SMTT(30) DEF SlaveChecksum, Finish, writeResponse
    <3> SUFFICES ASSUME ~FalseRestart'
                 PROVE  SlaveOK(J.mcu)' /\ SlaveLoads'
      BY <2>6, <3>1
    <3>2. PICK n \in Nat : J.size <= n /\ Loaded(n)
      BY <2>4, <2>7, <2>11, Zenon DEF SlaveLoads
    <3>3. s.mode = "boot"
      BY <2>4, <2>11, Zenon
    <3>4. r(3, commsBuff) = run_checksum(s, mem, commsBuff)
      BY <3>3, SMTT(30) DEF RunMessage, GET_STATUS, BOOT_MSG
    <3>5. ASSUME ok /\ hidden' = {} => Holds(J.mcu, job)'
          PROVE  SlaveLoads'
      BY <2>2, <2>11, <3>1, <3>5 DEF SlaveLoads
    <3>6. CASE ~ok /\ slave'[J.mcu] = s /\ flash'[J.mcu] = mem
      BY <2>7, <2>8, <3>5, <3>6, Zenon
    <3>7. CASE /\ ~s.flashComplete \/ commsBuff[1] # s.checksum
               /\ slave'[J.mcu] = r(3, commsBuff).s /\ flash'[J.mcu] = r(3, commsBuff).mem
      <4>1. r(3, commsBuff) = Answer(s, mem, "WR_ERR")
        BY <3>4, <3>7 DEF run_checksum
      <4>2. r(3, commsBuff).s = s /\ r(3, commsBuff).mem = mem /\ r(3, commsBuff).status = "WR_ERR"
        <5> HIDE DEF r
        <5>1. Answer(s, mem, "WR_ERR").s = s /\ Answer(s, mem, "WR_ERR").mem = mem
              /\ Answer(s, mem, "WR_ERR").status = "WR_ERR"
          BY Zenon DEF Answer
        <5> QED
          BY <4>1, <5>1, Zenon
      <4> HIDE DEF r
      <4>3. ok => hidden' # {}
        BY <2>5, <3>1, <4>2, Zenon
      <4> QED
        BY <2>7, <2>8, <3>5, <3>7, <4>2, <4>3, Zenon
    <3>8. CASE /\ s.flashComplete /\ commsBuff[1] = s.checksum
               /\ slave'[J.mcu] = r(3, commsBuff).s /\ flash'[J.mcu] = r(3, commsBuff).mem
      <4> DEFINE u == [s EXCEPT !.mode = "app"]
      <4>1. r(3, commsBuff).s = u /\ r(3, commsBuff).mem = mem
        BY <3>4, <3>8 DEF run_checksum, Answer
      <4>2. u.size = s.size /\ u.count = s.count /\ u.addr = s.addr /\ u.flashComplete = s.flashComplete
        BY <2>4, Zenon DEF IsSlave, Fields
      <4> HIDE DEF r, u
      <4>3. Holds(J.mcu, job)
        <5>1. s.addr \in Nat /\ 4 * s.addr = n /\ Part(J.mcu, s.addr)
          BY <3>2, <3>8, Zenon DEF Loaded
        <5>2. J.size <= 4 * FlashWords
          BY <3>2, <3>8, Zenon DEF Loaded
        <5> QED
          BY <2>1, <3>2, <5>1, <5>2, WholeImage, Zenon
      <4>4. slave'[J'.mcu] = u /\ flash'[J'.mcu] = flash[J.mcu]
        BY <2>2, <3>8, <4>1, Zenon
      <4>5. Holds(J.mcu, job)'
        BY <2>2, <4>3, <4>4, SMTT(30) DEF Holds
      <4>6. job \in DOMAIN jobs'
        BY <2>1, <2>2 DEF Base
      <4>7. SlaveOK(J.mcu)'
        BY <2>2, <2>7, <4>2, <4>4, <4>5, <4>6, Zenon DEF SlaveOK, Whole
      <4> QED
        BY <3>5, <4>5, <4>7
    <3> QED
      BY <2>5, <3>1, <3>6, <3>7, <3>8, Zenon
  <2> QED
    BY <2>4, <2>9, <2>10, <2>11, Zenon
(* A fault comes from an image for Olympus that does not fit, or from a second one. *)
<1>FaultFlash.
  ASSUME ControlInv, ControlInv', NoEmptyImage, FlashInv, InStep, FaultWord
  PROVE  FlashInv'
  <2> USE <1>FaultFlash
  <2>1. /\ Base /\ Word /\ master = "read" /\ stream # <<>> /\ master' = "fault" /\ UNCHANGED slave
        /\ UNCHANGED flasher /\ UNCHANGED <<jobs, job, stage, waiting, owing, hidden>>
        /\ \A m \in Modules : m # OLYMPUS => flash'[m] = flash[m]
    <3>1. /\ Base /\ Word /\ master' = "fault" /\ UNCHANGED slave
          /\ flash' = flash \/ flash' = [flash EXCEPT ![OLYMPUS] = writeInit(@, header.size)]
      BY Zenon DEF FaultWord, DataOlympusFault, HeaderEnd, Fault, ControlInv
    <3>2. \A m \in Modules : m # OLYMPUS => flash'[m] = flash[m]
      BY <3>1, Zenon DEF FlashInv
    <3> QED
      BY <3>1, <3>2, Zenon DEF Word, flasher, links
  <2>2. /\ NoEmptyImage' /\ (OneFits' <=> OneFits) /\ (FalseRestart' <=> FalseRestart) /\ J' = J
        /\ \A j : Image(j)' = Image(j)
    BY <2>1, Zenon DEF NoEmptyImage, OneFits, OlympusOnce, OlympusFits, TooLarge, FalseRestart, J, Image
  <2>4. /\ (OneFits => OlympusLoads) /\ VerifiedInv
        /\ DOMAIN flash = Modules /\ (\A m \in Modules : DOMAIN flash[m] = 0 .. FlashWords - 1)
        /\ ~FalseRestart => \A m \in Slaves : SlaveOK(m)
        /\ owing \subseteq Slaves /\ OLYMPUS \notin Slaves /\ OLYMPUS \in Modules /\ Slaves \subseteq Modules
    BY BootConstants, SMTT(30) DEF FlashInv, Modules
  <2>5. ASSUME NEW m, Junk(m)
        PROVE  msg \notin {DATA, HEADER}
    <3>1. PICK j \in DOMAIN jobs : msg \in {DMY, jobs[j].size}
      BY <2>5, Zenon DEF Junk
    <3>2. jobs[j].size \notin {DATA, HEADER}
      BY <2>1, JobOK, TypesDiffer DEF Base, NoEmptyImage
    <3> QED
      BY <3>1, <3>2, TypesDiffer, Zenon
  <2>6. waiting /\ Sent /\ msg \in {DATA, HEADER}
    <3>1. msg \in {DATA, HEADER}
      BY Zenon DEF FaultWord, DataOlympusFault, HeaderEnd
    <3> QED
      BY <2>1, <2>5, <3>1, Zenon DEF InStep, Ready
  <2>7. ASSUME DataOlympusFault
        PROVE  J.mcu = OLYMPUS /\ ~OneFits /\ stage \notin {"jump", "done"}
    <3>1. stage = "data" /\ msg = DATA /\ module = OLYMPUS /\ dataAddr >= FlashWords /\ DataSent /\ flash' = flash
      BY <2>1, <2>5, <2>6, <2>7, TypesDiffer, Zenon DEF DataOlympusFault, Sent, HeaderSent, HeaderPassedOn,
                  HeaderAnswered, HeaderRefused, InitSent, ChecksumSent, JumpSent
    <3>2. PICK cs \in Nat : ChunkAt(cs) /\ Opened /\ InStream
      BY <2>1, <3>1, Zenon DEF DataSent
    <3>3. J.mcu = OLYMPUS
      BY <3>1, <3>2, Zenon DEF Opened, Addressed
    <3>4. ~OneFits
      <4> SUFFICES ASSUME OneFits
                   PROVE  FALSE
        OBVIOUS
      <4>1. dataAddr \in Nat /\ 4 * dataAddr = count
        BY <2>4, <3>1, <3>3, Zenon DEF OlympusLoads, Taken
      <4>2. J.size \in Nat /\ CHUNK_SIZE \in Nat /\ FlashWords \in Nat
        BY <2>1, ImageWords, BootConstants
      <4>3. J.size <= 4 * FlashWords
        BY <2>1, <3>3, <1>Fits, Zenon
      <4>4. Len(stream) \in Nat /\ Len(stream) > 0 /\ sentBytes = count + 4 * Len(stream)
        BY <2>1, <3>2 DEF InStream
      <4>5. sentBytes = Lesser(cs + CHUNK_SIZE, J.size)
        BY <3>2 DEF ChunkAt
      <4>6. sentBytes \in Nat /\ sentBytes <= J.size
        BY <4>2, <4>5 DEF Lesser
      <4> QED
        BY <3>1, <4>1, <4>2, <4>3, <4>4, <4>6
    <3> QED
      BY <3>1, <3>3, <3>4, Zenon
  <2>8. ASSUME HeaderEnd
        PROVE  J.mcu = OLYMPUS /\ ~OneFits /\ stage \notin {"jump", "done"}
    <3>1. /\ msg = HEADER /\ count \notin {0, 1} /\ ValidHeader(Head(stream)) /\ Addressee = OLYMPUS
          /\ header.size > 4 * FlashWords
          /\ flash' = [flash EXCEPT ![OLYMPUS] = writeInit(@, header.size)]
      BY <2>1, <2>8, Zenon DEF HeaderEnd, Finish, Fault
    <3>2. stage = "header" /\ HeaderSent
      BY <2>1, <2>5, <2>6, <3>1, TypesDiffer, Zenon DEF Sent, HeaderPassedOn, HeaderAnswered, HeaderRefused,
                  InitSent, DataSent, ChecksumSent, JumpSent
    <3>3. Head(stream) = ERASE_FLASH_KEY
      BY <3>1, Zenon DEF ValidHeader
    <3>4. J.mcu \in Modules /\ Key[J.mcu] # ERASE_FLASH_KEY
      BY <2>1, ImageWords, BootConstants
    <3>5. header.dkey = Key[J.mcu] /\ header.size = J.size
      <4>1. ASSUME stream = <<Key[J.mcu], J.size, ERASE_FLASH_KEY>>
            PROVE  FALSE
        BY <3>3, <3>4, <4>1
      <4> QED
        BY <3>1, <3>2, <4>1, TypesDiffer, Zenon DEF HeaderSent
    <3>6. J.mcu = OLYMPUS
      <4>1. \E m \in Modules : Key[m] = header.dkey
        BY <3>4, <3>5, Zenon
      <4>2. \A m \in Modules : Key[m] = header.dkey => m = J.mcu
        BY <3>4, <3>5, BootConstants, Zenon
      <4> QED
        BY <3>1, <4>1, <4>2 DEF Addressee
    <3>7. ~OneFits
      BY <2>1, <3>1, <3>5, <3>6, Zenon DEF OneFits, OlympusFits, TooLarge, Base, J
    <3> QED
      BY <3>2, <3>6, <3>7, Zenon
  <2>9. J.mcu = OLYMPUS /\ ~OneFits /\ stage \notin {"jump", "done"}
    BY <2>7, <2>8, Zenon DEF FaultWord
  <2>10. DOMAIN flash' = Modules /\ \A m \in Modules : DOMAIN flash'[m] = 0 .. FlashWords - 1
    <3>1. flash' = flash \/ flash' = [flash EXCEPT ![OLYMPUS] = writeInit(@, header.size)]
      BY Zenon DEF FaultWord, DataOlympusFault, HeaderEnd, Fault
    <3>2. DOMAIN flash' = Modules /\ flash'[OLYMPUS] \in {flash[OLYMPUS], writeInit(flash[OLYMPUS], header.size)}
      BY <2>4, <3>1, Zenon
    <3>3. DOMAIN flash'[OLYMPUS] = 0 .. FlashWords - 1
      BY <2>4, <3>2 DEF writeInit
    <3> QED
      BY <2>1, <2>4, <3>2, <3>3, Zenon
  <2>11. VerifiedInv'
    BY <2>1, <2>4, <2>9, <1>VerifiedFrame, Zenon
  <2>12. ~FalseRestart => \A m \in Slaves : SlaveOK(m)'
    <3>1. \A m \in Slaves : flash'[m] = flash[m]
      BY <2>1, <2>4, Zenon
    <3>2. \A m \in Slaves : (Untouched(m)' <=> Untouched(m)) /\ \A j : Holds(m, j)' <=> Holds(m, j)
      BY <2>1, <2>2, <3>1, Zenon DEF Untouched, Holds
    <3>3. \A m \in Slaves : Whole(m)' <=> Whole(m)
      BY <2>1, <3>2, Zenon DEF Whole
    <3> QED
      BY <2>1, <2>4, <3>3, Zenon DEF SlaveOK
  <2> QED
    BY <2>1, <2>2, <2>4, <2>9, <2>10, <2>11, <2>12, Zenon DEF FlashInv

(* After a fault only the flasher goes on, and it gives its images up. *)
<1>FaultedFlash.
  ASSUME ControlInv, ControlInv', NoEmptyImage, FlashInv, Faulted, Boot
  PROVE  FlashInv'
  <2> USE <1>FaultedFlash
  <2>1. Base /\ Base' /\ NoEmptyImage' /\ jobs' = jobs /\ ~OneFits
    BY BaseStep, Zenon DEF ControlInv, Next, FlashInv, Faulted
  <2>2. UNCHANGED <<jobs, master, dataAddr, slave, flash, hidden, owing>>
    BY Zenon DEF Boot, writeMessage, readAnswer, readTimeout, statics, links
  <2>3. /\ \A j : Image(j)' = Image(j)
        /\ (FalseRestart' <=> FalseRestart) /\ ~OneFits' /\ (OlympusOnce' <=> OlympusOnce)
        /\ \A j : TooLarge(j)' <=> TooLarge(j)
    BY <2>1, <2>2, Zenon DEF Image, FalseRestart, OneFits, OlympusOnce, OlympusFits, TooLarge
  <2>4. (\A m, j : Holds(m, j)' <=> Holds(m, j)) /\ (\A m : Untouched(m)' <=> Untouched(m))
    BY <2>2, <2>3, Zenon DEF Holds, Untouched
  <2>5. ~FalseRestart => \A m \in Slaves : SlaveOK(m)'
    BY <2>2, <2>4, Zenon DEF FlashInv, SlaveOK, Whole
  <2>6. J'.mcu # OLYMPUS => SlaveLoads'
    <3>1. Faulted'
      BY <2>1, <2>2, Zenon DEF Faulted, ControlInv, InStep, Ready, Idle, Sent, HeaderSent, HeaderPassedOn,
                  HeaderAnswered, HeaderRefused, InitSent, DataSent, ChecksumSent, JumpSent, Junk, Stuck
    <3> QED
      BY <2>1, <3>1, Zenon DEF Faulted, SlaveLoads
  <2>7. VerifiedInv'
    <3>1. /\ Len(jobs) \in Nat /\ DOMAIN jobs = 1 .. Len(jobs) /\ job \in 1 .. Len(jobs) /\ VerifiedInv
      BY <2>1, JobOK DEF Base, FlashInv
    <3>2. verified' = verified /\ job' \in Nat /\ job <= job'
          /\ IF stage \in {"jump", "done"} THEN stage' \in {"jump", "done"} ELSE stage' \in {"jump", "done"} \/ job' = job \/ job' = job + 1
      <4>1. CASE writeMessage
        BY <3>1, <4>1 DEF writeMessage
      <4>2. CASE readAnswer \/ readTimeout
        <5>1. waiting /\ Proceed(FALSE)
          BY <4>2, Zenon DEF readAnswer, readTimeout, Faulted
        <5>2. stage \notin {"done"}
          BY <2>1, <5>1 DEF Base
        <5>3. verified' = verified /\ ((stage = "jump" /\ stage' = "done" /\ job' = job) \/ (stage # "jump" /\ NextJob))
          BY <2>1, <5>1, ProceedCases, Zenon
        <5> QED
          BY <3>1, <5>2, <5>3 DEF NextJob
      <4> QED
        BY <4>1, <4>2 DEF Boot
    <3>3. \A j \in verified' : j \in DOMAIN jobs' /\ (IF stage' \in {"jump", "done"} THEN j <= job' ELSE j < job')
      BY <2>1, <3>1, <3>2 DEF VerifiedInv
    <3>4. ASSUME OlympusOnce
          PROVE  VerifiedIsInstalled'
      <4> SUFFICES ASSUME hidden = {}, NEW j \in verified, ~TooLarge(j),
                          \A k \in DOMAIN jobs : k > j /\ k <= job' => jobs[k].mcu # jobs[j].mcu
                   PROVE  Holds(jobs[j].mcu, j)
        BY <2>1, <2>2, <2>3, <2>4, <3>2 DEF VerifiedIsInstalled
      <4>1. \A k \in DOMAIN jobs : k > j /\ k <= job => jobs[k].mcu # jobs[j].mcu
        BY <3>1, <3>2
      <4> QED
        BY <3>1, <3>4, <4>1 DEF VerifiedInv, VerifiedIsInstalled
    <3> QED
      BY <2>3, <3>3, <3>4, Zenon DEF VerifiedInv
  <2>8. /\ DOMAIN flash' = Modules /\ (\A m \in Modules : DOMAIN flash'[m] = 0 .. FlashWords - 1)
        /\ owing' \subseteq Slaves
    BY <2>2, Zenon DEF FlashInv
  <2> QED
    BY <2>1, <2>3, <2>5, <2>6, <2>7, <2>8, Zenon DEF FlashInv

<1>1. Init => FlashInv
  <2> SUFFICES ASSUME Init
               PROVE  FlashInv
    OBVIOUS
  <2>1. DOMAIN flash = Modules /\ (\A m \in Modules : DOMAIN flash[m] = 0 .. FlashWords - 1)
    BY Zenon DEF Init
  <2>2. \A m \in Modules : Untouched(m)
    BY Zenon DEF Init, Untouched
  <2>3. OLYMPUS \in Modules /\ Slaves \subseteq Modules
    BY DEF Modules
  <2>4. \A m \in Slaves : SlaveOK(m)
    <3> SUFFICES ASSUME NEW m \in Slaves
                 PROVE  SlaveOK(m)
      BY Zenon
    <3>1. slave[m] = [FreshSlave EXCEPT !.mode = "app"]
      BY Zenon DEF Init
    <3>2. 0 \in 0 .. FlashWords
      BY BootConstants
    <3> QED
      BY <2>2, <2>3, <3>1, <3>2 DEF SlaveOK, FreshSlave, Whole
  <2>5. SlaveLoads
    BY Zenon DEF Init, SlaveLoads
  <2>6. OlympusLoads
    BY <2>2, <2>3, Zenon DEF Init, OlympusLoads, Blank
  <2>7. VerifiedInv
    BY Zenon DEF Init, VerifiedInv, VerifiedIsInstalled
  <2> QED
    BY <2>1, <2>4, <2>5, <2>6, <2>7, Zenon DEF Init, FlashInv
<1>2. ControlInv /\ ControlInv' /\ FlashInv /\ [Next]_vars => FlashInv'
  <2> SUFFICES ASSUME ControlInv, ControlInv', FlashInv, [Next]_vars
               PROVE  FlashInv'
    OBVIOUS
  <2>1. CASE ~NoEmptyImage
    BY <2>1, BaseStep, Zenon DEF ControlInv, FlashInv
  <2>2. CASE UNCHANGED vars
    <3>1. /\ UNCHANGED <<jobs, job, stage, waiting, sentBytes, verified, response, master, msg, count>>
          /\ UNCHANGED <<dataAddr, commsBuff, slave, flash, owing, hidden>>
      BY <2>2, SMTT(30) DEF vars, flasher, statics, links
    <3>2. J' = J /\ (\A j : Image(j)' = Image(j))
      BY <3>1, Zenon DEF J, Image
    <3>3. /\ \A m : Untouched(m)' <=> Untouched(m)
          /\ \A m, j : Holds(m, j)' <=> Holds(m, j)
          /\ \A m, n : Part(m, n)' <=> Part(m, n)
      BY <3>1, <3>2, Zenon DEF Untouched, Holds, Part
    <3>4. \A n : Loaded(n)' <=> Loaded(n)
      BY <3>1, <3>2, <3>3, Zenon DEF Loaded
    <3>5. \A n : DataLoads(n)' <=> DataLoads(n)
      BY <3>1, <3>2, <3>4, Zenon DEF DataLoads, ChunkAt, Gathered
    <3>6. SlaveLoads' <=> SlaveLoads
      BY <3>1, <3>2, <3>3, <3>4, <3>5, Zenon DEF SlaveLoads
    <3>7. \A m : SlaveOK(m)' <=> SlaveOK(m)
      BY <3>1, <3>3, Zenon DEF SlaveOK, Whole
    <3>8. OlympusLoads' <=> OlympusLoads
      BY <3>1, <3>2, <3>3, Zenon DEF OlympusLoads, Blank, Taken
    <3>9. /\ (NoEmptyImage' <=> NoEmptyImage) /\ (FalseRestart' <=> FalseRestart) /\ (OneFits' <=> OneFits)
          /\ (OlympusOnce' <=> OlympusOnce) /\ \A j : TooLarge(j)' <=> TooLarge(j)
      BY <3>1, Zenon DEF NoEmptyImage, FalseRestart, OneFits, OlympusOnce, OlympusFits, TooLarge
    <3>10. VerifiedInv' <=> VerifiedInv
      BY <3>1, <3>3, <3>9 DEF VerifiedInv, VerifiedIsInstalled
    <3> QED
      BY <3>1, <3>2, <3>6, <3>7, <3>8, <3>9, <3>10, Zenon DEF FlashInv
  <2>3. CASE NoEmptyImage /\ Next
    <3>1. WordRead /\ master' = "fault" => FaultWord
      BY Zenon DEF WordRead, FaultWord, Dmy, HeaderWord, DataOlympus, DataSlave, Checksum, Default, Finish, Word
    <3>2. Boot \/ WordRead \/ DataOlympusFault \/ SlaveMessage
      BY <2>3, Zenon DEF Next, runBootFSM, WordRead, SlaveMessage
    <3>3. InStep \/ Faulted
      BY <2>3, Zenon DEF ControlInv, Stuck
    <3>4. FaultWord => InStep /\ master = "read"
      BY <3>3, Zenon DEF FaultWord, DataOlympusFault, HeaderEnd, Word, Faulted
    <3>9. InStep => master # "fault"
      BY Zenon DEF InStep, Ready, Idle, Sent, HeaderSent, HeaderPassedOn, HeaderAnswered, HeaderRefused, InitSent,
                   DataSent, ChecksumSent, JumpSent, Junk
    <3>5. CASE Boot
      BY <2>3, <3>3, <3>5, <3>9, <1>FlasherFlash, <1>FaultedFlash, Zenon DEF Faulted
    <3>6. CASE DataOlympusFault \/ (WordRead /\ master' = "fault")
      BY <2>3, <3>1, <3>4, <3>6, <1>FaultFlash, Zenon DEF FaultWord
    <3>7. CASE WordRead /\ master' # "fault"
      BY <2>3, <3>7, <1>WordFlash, Zenon
    <3>8. CASE SlaveMessage
      BY <2>3, <3>8, <1>MessageFlash, Zenon
    <3> QED
      BY <3>2, <3>5, <3>6, <3>7, <3>8, Zenon
  <2> QED
    BY <2>1, <2>2, <2>3
<1> QED
  BY <1>1, <1>2, BootControl, PTL DEF Spec

(* What the flasher reports as installed is in the flash of its module, if Olympus gets at  *)
(* most one image, and no processor starts a program that is partly written, whatever        *)
(* transactions failed.  The exceptions are those of the two properties: an empty image,      *)
(* one too large for Olympus, and left-over answers that hide a refusal or a restart.         *)
THEOREM InstalledWhole == Spec => []((OlympusOnce => VerifiedIsInstalled) /\ StartsWholeProgram)
<1>1. FlashInv => (OlympusOnce => VerifiedIsInstalled)
  BY SMTT(30) DEF FlashInv, VerifiedInv, VerifiedIsInstalled
<1>2. ControlInv /\ FlashInv => StartsWholeProgram
  <2> SUFFICES ASSUME ControlInv, FlashInv, NoEmptyImage
               PROVE  StartsWholeProgram
    BY SMTT(30) DEF StartsWholeProgram
  <2>1. ~FalseRestart => \A m \in Slaves : slave[m].mode = "app" =>
          Untouched(m) \/ \E j \in DOMAIN jobs : Holds(m, j)
    BY Zenon DEF FlashInv, SlaveOK, Whole
  <2>2. ASSUME OneFits, master = "app"
        PROVE  Untouched(OLYMPUS) \/ \E j \in DOMAIN jobs : Holds(OLYMPUS, j)
    <3>1. Base /\ InStep /\ OlympusLoads
      BY <2>2 DEF ControlInv, Stuck, Faulted, FlashInv
    <3>2. stage \in {"jump", "done"}
      BY <2>2, <3>1, Zenon DEF InStep, Sent, Ready, Idle, Junk, HeaderSent, HeaderPassedOn, HeaderAnswered,
                        HeaderRefused, InitSent, DataSent, ChecksumSent
    <3>3. CASE Blank
      BY <3>3, SMTT(30) DEF Blank
    <3>4. CASE ~Blank
      <4>1. J.mcu = OLYMPUS /\ Taken(J.size)
        BY <3>1, <3>2, <3>4, SMTT(30) DEF OlympusLoads
      <4>2. dataAddr \in Nat /\ J.size <= 4 * dataAddr /\ Part(J.mcu, dataAddr)
        BY <3>1, <4>1, ImageWords DEF Taken
      <4>3. J.size <= 4 * FlashWords
        <5>1. ~(J.size > 4 * FlashWords)
          BY <2>2, <3>1, <4>1, Zenon DEF OneFits, OlympusFits, TooLarge, Base, J
        <5> QED
          BY <3>1, <5>1, ImageWords, BootConstants
      <4>4. Holds(J.mcu, job)
        BY <3>1, <4>2, <4>3, WholeImage
      <4> QED
        BY <3>1, <4>1, <4>4, SMTT(30) DEF Base
    <3> QED
      BY <3>3, <3>4, SMTT(30)
  <2> QED
    BY <2>1, <2>2, SMTT(30) DEF StartsWholeProgram, OneFits
<1> QED
  BY <1>1, <1>2, BootControl, FlashControl, PTL

(* write_data writes inside the application's flash, runBootFSM does when Olympus gets one *)
(* image and that fits, and a chunk stays inside submoduleCommsBuff.                        *)
THEOREM BootTypes == Spec => []TypeOK
<1> DEFINE Room == CHUNK_SIZE \div 4
           Types ==
             /\ verified \subseteq DOMAIN jobs
             /\ master \in {"read", "status", "reboot", "restarted", "erase", "data", "checksum", "app",
                           "fault"}
             /\ module \in Modules \cup {NONE}
             /\ Len(commsBuff) \in 0 .. Room
             /\ failures \in 0 .. MaxFailures
<1>1. Room \in Nat /\ Room >= 1 /\ CHUNK_SIZE = 4 * Room /\ MaxFailures \in Nat
  BY BootConstants, SMTT(30)
<1>2. Init => Types
  <2> SUFFICES ASSUME Init
               PROVE  Types
    OBVIOUS
  <2>1. Len(commsBuff) = 0
    BY Zenon DEF Init
  <2> HIDE DEF Room
  <2>2. Len(commsBuff) \in 0 .. Room /\ 0 \in 0 .. MaxFailures
    BY <1>1, <2>1
  <2>3. failures = 0 /\ master = "read" /\ verified = {} /\ module = NONE
    BY Zenon DEF Init
  <2> QED
    BY <2>2, <2>3, SMTT(30)
<1>3. Base /\ Types /\ [Next]_vars => Types'
  <2> SUFFICES ASSUME Base, Types, [Next]_vars
               PROVE  Types'
    BY SMTT(30)
  <2> HIDE DEF Room
  <2>1. CASE UNCHANGED vars
    BY <2>1, SMTT(30) DEF vars, flasher, statics, links
  <2>2. CASE Boot
    <3>1. UNCHANGED <<jobs, master, module, commsBuff, failures>>
      BY <2>2, Zenon DEF Boot, writeMessage, readAnswer, readTimeout, statics, links
    <3>2. verified' \subseteq verified \cup {job}
      BY <2>2, ProceedCases, Zenon DEF Boot, writeMessage, readAnswer, readTimeout
    <3> QED
      BY <3>1, <3>2 DEF Base
  <2>5. CASE DataOlympusFault
    BY <2>5, Zenon DEF DataOlympusFault, Fault, Word, flasher, links
  <2>3. CASE WordRead
    <3>1. UNCHANGED <<jobs, verified, failures>>
      BY <2>3, Zenon DEF WordRead, Dmy, HeaderWord, HeaderEnd, DataOlympus, DataSlave, Checksum, Default, Word,
                  flasher, links
    <3>2. master' \in {"read", "status", "data", "checksum", "app", "fault"}
      BY <2>3, Zenon DEF WordRead, Dmy, HeaderWord, HeaderEnd, DataOlympus, DataSlave, Checksum, Default, Word,
                  Finish, Fault
    <3>3. module' \in Modules \cup {NONE}
      <4>1. Addressee \in Modules \cup {NONE}
        BY SMTT(30) DEF Addressee
      <4> QED
        BY <2>3, <4>1, Zenon DEF WordRead, Dmy, HeaderWord, HeaderEnd, DataOlympus, DataSlave, Checksum, Default
    <3>4. Len(commsBuff') \in 0 .. Room
      <4>1. CASE DataSlave
        <5> DEFINE k == (count % CHUNK_SIZE) \div 4
        <5>1. k \in Nat /\ k + 1 <= Room
          <6>1. count % CHUNK_SIZE \in 0 .. CHUNK_SIZE - 1
            BY <1>1, SMTT(30) DEF Base
          <6> QED
            BY <1>1, <6>1, SMTT(30)
        <5> HIDE DEF k
        <5>2. commsBuff' = Append(SubSeq(commsBuff, 1, k), Head(stream))
          BY <4>1 DEF DataSlave, k
        <5>3. Len(commsBuff') = k + 1
          BY <5>1, <5>2
        <5> QED
          BY <1>1, <5>1, <5>3, SMTT(30)
      <4>2. CASE Checksum /\ commsBuff' = <<Head(stream)>>
        BY <1>1, <4>2, SMTT(30)
      <4> QED
        BY <2>3, <4>1, <4>2, Zenon DEF WordRead, Dmy, HeaderWord, HeaderEnd, DataOlympus, Checksum, Default
    <3> QED
      BY <3>1, <3>2, <3>3, <3>4, SMTT(30)
  <2>4. CASE SlaveMessage
    <3>1. UNCHANGED <<jobs, verified, module, commsBuff>>
      BY <2>4, MessageSent DEF flasher
    <3>2. master' \in {"read", "reboot", "restarted", "erase"}
      BY <2>4, Zenon DEF SlaveMessage, PreRebootStatus, Reboot, RebootStatus, SlaveHeader, SlaveData,
                  SlaveChecksum, Transaction, Finish
    <3>3. failures' \in 0 .. MaxFailures
      <4>1. PICK t \in {0, 1, 2, 3, 10}, ok \in BOOLEAN : \E ws : messageSubmodule(t, ws, ok)
        BY <2>4, MessageSent, SMTT(30)
      <4>2. failures' = failures \/ (failures < MaxFailures /\ failures' = failures + 1)
        BY <4>1, SMTT(30) DEF messageSubmodule
      <4> QED
        BY <1>1, <4>2, SMTT(30)
    <3> QED
      BY <3>1, <3>2, <3>3, SMTT(30)
  <2> QED
    BY <2>1, <2>2, <2>3, <2>4, <2>5, SMTT(30) DEF Next, runBootFSM, WordRead, SlaveMessage
<1>4. ControlInv /\ FlashInv /\ Types => TypeOK
  <2> SUFFICES ASSUME ControlInv, FlashInv, Types
               PROVE  TypeOK
    OBVIOUS
  <2>1. Base
    BY DEF ControlInv
  <2>2. ASSUME NoEmptyImage, OneFits
        PROVE  dataAddr \in 0 .. FlashWords
    <3>1. OlympusLoads /\ InStep
      BY <2>2, Zenon DEF ControlInv, Stuck, Faulted, FlashInv
    <3>2. J.size \in Nat /\ FlashWords \in Nat /\ count \in Nat
      BY <2>1, ImageWords, BootConstants DEF Base
    <3>3. CASE Blank
      BY <3>2, <3>3 DEF Blank
    <3>4. CASE ~Blank
      <4>1. J.mcu = OLYMPUS /\ stage \in Stages
        BY <2>1, <3>1, <3>4, SMTT(30) DEF OlympusLoads, Base
      <4>2. J.size <= 4 * FlashWords
        <5>1. ~(J.size > 4 * FlashWords)
          BY <2>1, <2>2, <4>1, Zenon DEF OneFits, OlympusFits, TooLarge, Base, J
        <5> QED
          BY <3>2, <5>1
      <4>3. stage = "data" /\ msg = DATA => count <= J.size
        <5> SUFFICES ASSUME stage = "data", msg = DATA
                     PROVE  count <= J.size
          OBVIOUS
        <5>1. CASE ~waiting
          <6>1. sentBytes \in Nat /\ sentBytes < J.size /\ count = sentBytes
            BY <3>1, <5>1 DEF InStep, Ready
          <6> QED
            BY <3>2, <6>1, SMTT(30)
        <5>2. CASE waiting
          <6>1. PICK cs \in Nat :
                  /\ sentBytes = Lesser(cs + CHUNK_SIZE, J.size)
                  /\ \/ count = sentBytes \/ count = 0
                     \/ stream \in Seq(Int) /\ sentBytes = count + 4 * Len(stream)
            BY <3>1, <5>2, Zenon DEF InStep, Sent, DataSent, ChunkAt, InStream
          <6>2. CHUNK_SIZE \in Nat
            BY BootConstants, SMTT(30)
          <6>3. sentBytes \in Nat /\ sentBytes <= J.size
            BY <3>2, <6>1, <6>2, SMTT(30) DEF Lesser
          <6>4. count <= sentBytes
            <7>1. stream \in Seq(Int) => Len(stream) \in Nat
              BY SMTT(30)
            <7> QED
              BY <3>2, <6>1, <6>3, <7>1
          <6> QED
            BY <3>2, <6>3, <6>4
        <5> QED
          BY <5>1, <5>2
      <4>4. PICK n \in Nat : n <= J.size /\ Taken(n)
        BY <3>1, <3>2, <3>4, <4>1, <4>3 DEF OlympusLoads, Stages
      <4> QED
        BY <3>2, <4>2, <4>4, SMTT(30) DEF Taken
    <3> QED
      BY <3>3, <3>4, SMTT(30)
  <2>3. NoEmptyImage => owing \subseteq Slaves /\ (~FalseRestart => \A m \in Slaves : slave[m].addr \in 0 .. FlashWords)
    BY Zenon DEF FlashInv, SlaveOK
  <2>4. Len(commsBuff) <= Room
    BY <1>1
  <2> HIDE DEF Room
  <2> QED
    BY <2>1, <2>2, <2>3, <2>4, SMTT(30) DEF Base, TypeOK, Room, OneFits
<1>5. ControlInv => Base
  BY DEF ControlInv
<1> QED
  BY <1>2, <1>3, <1>4, <1>5, BootControl, FlashControl, PTL DEF Spec

=============================================================================
