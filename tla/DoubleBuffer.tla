----------------------------- MODULE DoubleBuffer -----------------------------
(***************************************************************************)
(* doubleBuffer.c (the same file in olympus/utils and master_boot/utils):    *)
(* the USB interrupt writes whole packets into the active half, the main      *)
(* loop reads from the inactive half and swaps the halves when it has read     *)
(* everything.  There is no lock.  The writer runs in an interrupt handler     *)
(* and is atomic; the reader may be interrupted between any two of its loads   *)
(* and stores of the shared fields, and each store is a step here, with the     *)
(* loads that no interrupt can tell from it.                                    *)
(*                                                                             *)
(* A byte is identified by its position in the stream of accepted bytes.       *)
(***************************************************************************)
EXTENDS Integers

CONSTANTS
  BufferSize,  \* bufferSize: half of the memory given to doubleBuffer_init
  WriteLens,   \* lengths passed to doubleBuffer_write
  ReadLens,    \* lengths passed to doubleBuffer_read
  IdxRange,    \* how many values a uint32_t has
  MaxBytes     \* bound: bytes accepted in one behaviour

ASSUME DoubleBufferConstants ==
  /\ BufferSize \in Nat
  /\ WriteLens \subseteq Nat
  /\ ReadLens \subseteq Nat \ {0}
  /\ IdxRange \in Nat
  /\ 2 * BufferSize < IdxRange
  /\ MaxBytes \in Nat

Halves == {0, 1}
Slots == 0 .. BufferSize - 1
NoData == [i \in {} |-> 0]

VARIABLES
  buffers,        \* contents, by half and slot; 0 is a byte never written
  bufferLengths,
  readIdx,
  activeBuffer,
  readPc,         \* the reader's next step; "idle" between calls
  drained,        \* the half switchActive is to empty
  want,           \* doubleBuffer_read's len
  avail,          \* len of getReadLength, bytesAvailable of read
  data,           \* the bytes the last memcpy handed to the caller
  accepted,       \* bytes written so far
  consumed        \* how many of them have been read

shared == <<buffers, bufferLengths, readIdx, activeBuffer>>
locals == <<drained, want, avail, data>>
vars == <<shared, readPc, locals, accepted, consumed>>

Least(a, b) == IF a < b THEN a ELSE b

(* Arithmetic of uint32_t. *)
Minus(a, b) == IF b <= a THEN a - b ELSE a + IdxRange - b
Plus(a, b) == IF a + b < IdxRange THEN a + b ELSE a + b - IdxRange

(* doubleBuffer_init *)
Init ==
  /\ buffers = [h \in Halves |-> [i \in Slots |-> 0]]
  /\ bufferLengths = [h \in Halves |-> 0]
  /\ readIdx = 0
  /\ activeBuffer = 0
  /\ readPc = "idle"
  /\ drained = 1
  /\ want = 0
  /\ avail = 0
  /\ data = NoData
  /\ accepted = 0
  /\ consumed = 0

(***************************************************************************)
(* doubleBuffer_write, called from the USB interrupt.                         *)
(***************************************************************************)
\* Mutant of Fits: the length already in the half is not taken into account.
Fits_wholeHalf(len) == len <= BufferSize

Fits(len) == len <= BufferSize - bufferLengths[activeBuffer]

(* A half after len bytes of src are copied to it from slot at on. *)
Stored(half, at, len, src) ==
  [i \in Slots |-> IF i \in at .. at + len - 1 THEN src[i - at] ELSE half[i]]

(* The write of len bytes src, into halves whose contents are mem. *)
doubleBuffer_write(mem, len, src) ==
  LET at == bufferLengths[activeBuffer]
  IN  /\ Fits(len)
      /\ buffers' = [mem EXCEPT ![activeBuffer] = Stored(@, at, len, src)]
      /\ bufferLengths' = [bufferLengths EXCEPT ![activeBuffer] = at + len]

Write(len) ==
  /\ accepted + len <= MaxBytes
  /\ doubleBuffer_write(buffers, len, [i \in 0 .. len - 1 |-> accepted + 1 + i])
  /\ accepted' = accepted + len
  /\ UNCHANGED <<readIdx, activeBuffer, readPc, locals, consumed>>

(* The write that returns false. *)
WriteRefused(len) == ~Fits(len) /\ UNCHANGED vars

(***************************************************************************)
(* doubleBuffer_read, with doubleBuffer_getReadLength and                      *)
(* doubleBuffer_switchActive, called from the main loop.                       *)
(***************************************************************************)
getInactive == IF activeBuffer = 0 THEN 1 ELSE 0

\* Mutant of ReadBegin: an empty inactive half ends the read.
ReadBegin_noSwitch(len) ==
  /\ readPc = "idle"
  /\ want' = len
  /\ avail' = Minus(bufferLengths[getInactive], readIdx)
  /\ readPc' = IF avail' = 0 THEN "idle" ELSE "copy"
  /\ UNCHANGED <<shared, drained, data, accepted, consumed>>

ReadBegin(len) ==
  /\ readPc = "idle"
  /\ want' = len
  /\ avail' = Minus(bufferLengths[getInactive], readIdx)
  /\ readPc' = IF avail' = 0 THEN "test" ELSE "copy"
  /\ UNCHANGED <<shared, drained, data, accepted, consumed>>

(* switchActive: the half that is not active is emptied, then made active, and    *)
(* readIdx reset.                                                                 *)
SwitchTest ==
  /\ readPc = "test"
  /\ drained' = getInactive
  /\ readPc' = "clear"
  /\ UNCHANGED <<shared, want, avail, data, accepted, consumed>>

\* Mutant of SwitchClear: empties the half that is still active.
SwitchClear_active ==
  /\ readPc = "clear"
  /\ bufferLengths' = [bufferLengths EXCEPT ![activeBuffer] = 0]
  /\ readPc' = "flip"
  /\ UNCHANGED <<buffers, readIdx, activeBuffer, locals, accepted, consumed>>

SwitchClear ==
  /\ readPc = "clear"
  /\ bufferLengths' = [bufferLengths EXCEPT ![drained] = 0]
  /\ readPc' = "flip"
  /\ UNCHANGED <<buffers, readIdx, activeBuffer, locals, accepted, consumed>>

\* Mutant of SwitchFlip: the active half is counted up and does not wrap.
SwitchFlip_noWrap ==
  /\ readPc = "flip"
  /\ activeBuffer' = activeBuffer + 1
  /\ readPc' = "reset"
  /\ UNCHANGED <<buffers, bufferLengths, readIdx, locals, accepted, consumed>>

SwitchFlip ==
  /\ readPc = "flip"
  /\ activeBuffer' = drained
  /\ readPc' = "reset"
  /\ UNCHANGED <<buffers, bufferLengths, readIdx, locals, accepted, consumed>>

\* Mutant of SwitchReset: readIdx keeps its place in the old half.
SwitchReset_missing ==
  /\ readPc = "reset"
  /\ readPc' = "measure"
  /\ UNCHANGED <<shared, locals, accepted, consumed>>

SwitchReset ==
  /\ readPc = "reset"
  /\ readIdx' = 0
  /\ readPc' = "measure"
  /\ UNCHANGED <<buffers, bufferLengths, activeBuffer, locals, accepted, consumed>>

ReadMeasure ==
  /\ readPc = "measure"
  /\ avail' = Minus(bufferLengths[getInactive], readIdx)
  /\ readPc' = IF avail' = 0 THEN "idle" ELSE "copy"
  /\ UNCHANGED <<shared, drained, want, data, accepted, consumed>>

numBytesToRead == Least(want, avail)

(* The byte i places after the start of half h: half 1 follows half 0 in memory,   *)
(* and what follows half 1 are no bytes of the stream.                              *)
ByteAt(h, i) ==
  IF i \in Slots THEN buffers[h][i]
  ELSE IF h = 0 /\ i - BufferSize \in Slots THEN buffers[1][i - BufferSize]
  ELSE 0

ReadCopy ==
  /\ readPc = "copy"
  /\ data' = [i \in 0 .. numBytesToRead - 1 |-> ByteAt(getInactive, readIdx + i)]
  /\ readPc' = "advance"
  /\ UNCHANGED <<shared, drained, want, avail, accepted, consumed>>

(* No more bytes are counted as read than there are in the stream. *)
Counted == Least(consumed + numBytesToRead, accepted)

\* Mutant of ReadAdvance: steps over everything that was available.
ReadAdvance_all ==
  /\ readPc = "advance"
  /\ readIdx' = Plus(readIdx, avail)
  /\ consumed' = Counted
  /\ readPc' = "idle"
  /\ UNCHANGED <<buffers, bufferLengths, activeBuffer, locals, accepted>>

ReadAdvance ==
  /\ readPc = "advance"
  /\ readIdx' = Plus(readIdx, numBytesToRead)
  /\ consumed' = Counted
  /\ readPc' = "idle"
  /\ UNCHANGED <<buffers, bufferLengths, activeBuffer, locals, accepted>>

Read ==
  \/ \E len \in ReadLens : ReadBegin(len)
  \/ SwitchTest
  \/ SwitchClear
  \/ SwitchFlip
  \/ SwitchReset
  \/ ReadMeasure
  \/ ReadCopy
  \/ ReadAdvance

Next ==
  \/ \E len \in WriteLens : Write(len) \/ WriteRefused(len)
  \/ Read

Spec == Init /\ [][Next]_vars

(* The main loop calls doubleBuffer_read in every pass (olympus/main.c:123). *)
FairSpec == Spec /\ WF_vars(Read)
-----------------------------------------------------------------------------

(* The active half is one of the two and no half holds more than bufferSize:      *)
(* what doubleBuffer_write and switchActive keep true.                             *)
TypeOK ==
  /\ buffers \in [Halves -> [Slots -> Nat]]
  /\ bufferLengths \in [Halves -> 0 .. BufferSize]
  /\ readIdx \in 0 .. IdxRange - 1
  /\ activeBuffer \in Halves
  /\ readPc \in {"idle", "test", "clear", "flip", "reset", "measure", "copy", "advance"}
  /\ drained \in Halves
  /\ want \in Nat
  /\ avail \in 0 .. IdxRange - 1
  /\ accepted \in Nat
  /\ consumed \in Nat

(* The read position in the inactive half: between the emptying of the old    *)
(* half and the reset of readIdx, readIdx is stale and the position is 0.      *)
ReadPosition == IF readPc \in {"flip", "reset"} THEN 0 ELSE readIdx

Unread == bufferLengths[getInactive] - ReadPosition

(* Every accepted byte is consumed, or unread in the inactive half, or in the  *)
(* active half, at every point where the interrupt may write: the unlocked     *)
(* swap loses none and counts none twice.  In particular a reader that has     *)
(* consumed everything leaves the active half empty.                           *)
Accounting ==
  accepted = consumed + Unread + bufferLengths[activeBuffer]

(* What a read hands to its caller is the next bytes of the stream, whatever   *)
(* writes interrupted it.                                                       *)
DeliveredInOrder ==
  readPc = "advance" => data = [i \in 0 .. numBytesToRead - 1 |-> consumed + 1 + i]

(* The inductive invariant behind these: where each unread byte lies, and what  *)
(* the reader knows at each of its steps.                                        *)
Placement ==
  /\ Unread >= 0
  /\ \A i \in 0 .. Unread - 1 :
       buffers[getInactive][ReadPosition + i] = consumed + 1 + i
  /\ \A i \in 0 .. bufferLengths[activeBuffer] - 1 :
       buffers[activeBuffer][i] = consumed + Unread + 1 + i

ReaderFacts ==
  /\ readPc \in {"test", "clear"} => readIdx = bufferLengths[getInactive]
  /\ readPc = "clear" => drained = getInactive
  /\ readPc = "flip" => bufferLengths[getInactive] = 0
  /\ readPc = "measure" => readIdx = 0
  /\ readPc # "idle" => want > 0
  /\ readPc \in {"copy", "advance"} =>
       avail > 0 /\ avail = bufferLengths[getInactive] - readIdx

IInv == TypeOK /\ Accounting /\ Placement /\ ReaderFacts /\ DeliveredInOrder

(* The two unlocked halves implement one stream of bytes (ByteStream) of        *)
(* capacity 2 * bufferSize; a read takes effect when it copies.                 *)
Stream == INSTANCE ByteStream WITH
  Capacity <- 2 * BufferSize,
  put <- accepted,
  got <- IF readPc = "advance" THEN consumed + numBytesToRead ELSE consumed,
  out <- data

StreamSpec == Stream!Spec

(* A main loop that keeps reading gets every byte that was accepted: bytes      *)
(* never stay behind in the active half.                                         *)
EventuallyDelivered ==
  \A n \in 1 .. MaxBytes : (accepted >= n) ~> (consumed >= n)

=============================================================================
