-------------------------- MODULE DoubleBufferProofs --------------------------
(***************************************************************************)
(* DoubleBuffer loses, repeats and reorders nothing, for every buffer size    *)
(* and every set of write and read lengths; and a host that waits for its      *)
(* answers loses nothing on the USB receive path above it, although every       *)
(* packet lands in the memory of the double buffer first, for any number of     *)
(* configurations of the device, up to one that cuts a read.                    *)
(***************************************************************************)
EXTENDS UsbReceive, TLAPS

(* getInactive() names the half that is not active, and there is no third
   one. *)
LEMMA InactiveIsOther ==
  ASSUME TypeOK
  PROVE  /\ getInactive \in Halves
         /\ getInactive # activeBuffer
         /\ Halves = {getInactive, activeBuffer}
  BY DEF TypeOK, Halves, getInactive

(***************************************************************************)
(* Writes: the interrupt appends to the active half.                          *)
(***************************************************************************)
(* doubleBuffer_write keeps the invariant: it only extends the active half,
   wherever the reader stands, and refuses what does not fit. *)
LEMMA WriteStep ==
  ASSUME IInv, NEW len \in WriteLens, Write(len)
  PROVE  IInv'
<1> USE DoubleBufferConstants
<1> DEFINE at == bufferLengths[activeBuffer]
           src == [i \in 0 .. len - 1 |-> accepted + 1 + i]
<1>1. /\ len \in Nat /\ at \in 0 .. BufferSize /\ at + len <= BufferSize
      /\ TypeOK /\ accepted \in Nat /\ activeBuffer \in Halves
  BY DEF IInv, TypeOK, Write, doubleBuffer_write, Fits
<1>2. /\ buffers' = [buffers EXCEPT ![activeBuffer] = Stored(buffers[activeBuffer], at, len, src)]
      /\ bufferLengths' = [bufferLengths EXCEPT ![activeBuffer] = at + len]
      /\ accepted' = accepted + len
      /\ UNCHANGED <<readIdx, activeBuffer, readPc, drained, want, avail, data, consumed>>
  BY DEF Write, doubleBuffer_write, locals
<1>3. getInactive' = getInactive /\ ReadPosition' = ReadPosition /\ numBytesToRead' = numBytesToRead
  BY <1>2 DEF getInactive, ReadPosition, numBytesToRead, Least
<1>4. getInactive \in Halves /\ getInactive # activeBuffer
  BY <1>1, InactiveIsOther
<1>5. /\ bufferLengths'[getInactive] = bufferLengths[getInactive]
      /\ bufferLengths'[activeBuffer] = at + len
      /\ buffers'[getInactive] = buffers[getInactive]
  BY <1>1, <1>2, <1>4 DEF TypeOK
<1>6. ASSUME NEW i \in Slots
      PROVE  buffers'[activeBuffer][i] =
               IF i \in at .. at + len - 1 THEN accepted + 1 + (i - at)
                                           ELSE buffers[activeBuffer][i]
  <2>1. buffers'[activeBuffer] = Stored(buffers[activeBuffer], at, len, src)
    BY <1>1, <1>2 DEF TypeOK
  <2>2. CASE i \in at .. at + len - 1
    <3>1. i - at \in 0 .. len - 1
      BY <1>1, <2>2
    <3> QED
      BY <2>1, <2>2, <3>1, <1>1 DEF Stored, Slots
  <2>3. CASE i \notin at .. at + len - 1
    BY <2>1, <2>3 DEF Stored, Slots
  <2> QED
    BY <2>2, <2>3
<1>7. TypeOK'
  <2>1. Stored(buffers[activeBuffer], at, len, src) \in [Slots -> Nat]
    <3> SUFFICES ASSUME NEW i \in Slots
                 PROVE  Stored(buffers[activeBuffer], at, len, src)[i] \in Nat
      BY DEF Stored
    <3>1. buffers[activeBuffer][i] \in Nat /\ i \in Int
      BY <1>1 DEF TypeOK, Slots
    <3>2. buffers'[activeBuffer] = Stored(buffers[activeBuffer], at, len, src)
      BY <1>1, <1>2 DEF TypeOK
    <3> QED
      BY <1>1, <1>6, <3>1, <3>2
  <2>2. buffers' \in [Halves -> [Slots -> Nat]]
    BY <1>1, <1>2, <2>1 DEF TypeOK
  <2> QED
    BY <1>1, <1>2, <2>2 DEF TypeOK
<1>8. Unread' = Unread /\ Unread \in Nat /\ consumed + Unread + at = accepted
  BY <1>1, <1>2, <1>3, <1>4, <1>5 DEF IInv, Placement, Accounting, TypeOK, ReadPosition, Unread
<1>9. Placement'
  <2>0. activeBuffer' = activeBuffer /\ consumed' = consumed
    BY <1>2
  <2>1. \A i \in 0 .. Unread - 1 :
           buffers'[getInactive][ReadPosition + i] = consumed + 1 + i
    BY <1>5 DEF IInv, Placement
  <2>2. ASSUME NEW i \in 0 .. at + len - 1
        PROVE  buffers'[activeBuffer][i] = consumed + Unread + 1 + i
    <3>1. i \in Slots /\ i \in Int
      BY <1>1 DEF Slots
    <3>2. CASE i < at
      <4>1. buffers[activeBuffer][i] = consumed + Unread + 1 + i
        BY <1>1, <3>2 DEF IInv, Placement
      <4> QED
        BY <1>1, <3>1, <3>2, <4>1, <1>6
    <3>3. CASE i >= at
      <4>1. buffers'[activeBuffer][i] = accepted + 1 + (i - at)
        BY <1>1, <3>1, <3>3, <1>6
      <4>2. consumed \in Nat
        BY <1>1 DEF TypeOK
      <4> HIDE DEF at
      <4> QED
        BY <1>1, <1>8, <3>1, <4>1, <4>2
    <3> QED
      BY <1>1, <3>2, <3>3
  <2>3. /\ Unread' >= 0
        /\ \A i \in 0 .. Unread' - 1 :
             buffers'[getInactive'][ReadPosition' + i] = consumed' + 1 + i
    BY <1>3, <1>8, <2>0, <2>1
  <2>4. \A i \in 0 .. bufferLengths'[activeBuffer'] - 1 :
             buffers'[activeBuffer'][i] = consumed' + Unread' + 1 + i
    <3>1. bufferLengths'[activeBuffer'] = at + len
      BY <1>5, <2>0
    <3> TAKE i \in 0 .. bufferLengths'[activeBuffer'] - 1
    <3>2. i \in 0 .. at + len - 1
      BY <1>1, <3>1
    <3>3. buffers'[activeBuffer][i] = consumed + Unread + 1 + i
      BY <2>2, <3>2
    <3> QED
      BY <1>8, <2>0, <3>3
  <2> QED
    BY <2>3, <2>4 DEF Placement
<1>10. Accounting'
  BY <1>1, <1>2, <1>5, <1>8 DEF IInv, Accounting, TypeOK
<1>11. ReaderFacts'
  BY <1>1, <1>2, <1>3, <1>4, <1>5 DEF IInv, ReaderFacts
<1>12. DeliveredInOrder'
  BY <1>2, <1>3 DEF IInv, DeliveredInOrder
<1> QED
  BY <1>7, <1>9, <1>10, <1>11, <1>12 DEF IInv

(* The number of bytes a read copies is positive and within both the
   caller's request and the unread part of the half. *)
LEMMA CountRange ==
  ASSUME IInv, readPc \in {"copy", "advance"}
  PROVE  /\ numBytesToRead \in Nat /\ 0 < numBytesToRead
         /\ numBytesToRead <= want /\ numBytesToRead <= Unread
         /\ Unread = avail /\ ReadPosition = readIdx
<1>1. want \in Nat /\ avail \in Nat /\ want > 0 /\ avail > 0
  BY DoubleBufferConstants DEF IInv, TypeOK, ReaderFacts
<1>2. ReadPosition = readIdx
  BY DEF ReadPosition
<1>3. Unread = avail
  BY <1>2 DEF IInv, ReaderFacts, Unread
<1> QED
  BY <1>1, <1>2, <1>3 DEF numBytesToRead, Least

(* The memcpy of a read keeps the invariant, and what it copies are the
   next bytes of the stream. *)
LEMMA ReadCopyStep ==
  ASSUME IInv, ReadCopy
  PROVE  IInv' /\ data' = [i \in 0 .. numBytesToRead - 1 |-> consumed + 1 + i]
<1>1. /\ TypeOK /\ readPc = "copy" /\ readPc' = "advance"
      /\ data' = [i \in 0 .. numBytesToRead - 1 |-> ByteAt(getInactive, readIdx + i)]
      /\ UNCHANGED <<buffers, bufferLengths, readIdx, activeBuffer, drained, want, avail, accepted, consumed>>
  BY DEF IInv, ReadCopy, shared
<1>2. /\ getInactive' = getInactive /\ ReadPosition' = ReadPosition /\ Unread' = Unread
      /\ numBytesToRead' = numBytesToRead
  BY <1>1 DEF getInactive, ReadPosition, Unread, numBytesToRead
<1>3. /\ numBytesToRead \in Nat /\ numBytesToRead <= Unread
      /\ Unread = avail /\ avail \in Nat /\ ReadPosition = readIdx
  BY <1>1, CountRange, DoubleBufferConstants DEF TypeOK
<1>4. ASSUME NEW i \in 0 .. numBytesToRead - 1
      PROVE  ByteAt(getInactive, readIdx + i) = consumed + 1 + i
  <2>1. buffers[getInactive][readIdx + i] = consumed + 1 + i
    BY <1>3 DEF IInv, Placement
  <2>2. bufferLengths[getInactive] \in 0 .. BufferSize /\ readIdx \in Nat
    BY <1>1, InactiveIsOther, DoubleBufferConstants DEF TypeOK
  <2>3. readIdx + i \in Slots
    BY <1>3, <2>2, DoubleBufferConstants DEF Unread, Slots
  <2> QED
    BY <2>1, <2>3 DEF ByteAt
<1>5. data' = [i \in 0 .. numBytesToRead - 1 |-> consumed + 1 + i]
  BY <1>1, <1>4
<1>6. TypeOK'
  BY <1>1 DEF TypeOK
<1>7. Accounting' /\ Placement'
  BY <1>1, <1>2 DEF IInv, Accounting, Placement
<1>8. ReaderFacts'
  BY <1>1, <1>2 DEF IInv, ReaderFacts
<1>9. DeliveredInOrder'
  BY <1>1, <1>2, <1>5 DEF DeliveredInOrder
<1> QED
  BY <1>5, <1>6, <1>7, <1>8, <1>9 DEF IInv

(* Every step of the interrupt or of the reader preserves the invariant. *)
LEMMA NextIInv == IInv /\ [Next]_vars => IInv'
(* The entry of doubleBuffer_read keeps the invariant: it decides to switch
   only when the inactive half has been read to its end. *)
<1>ReadBeginStep.
  ASSUME IInv, NEW len \in ReadLens, ReadBegin(len)
  PROVE  IInv'
  <2> USE <1>ReadBeginStep
  <2> USE DoubleBufferConstants
  <2>1. /\ TypeOK /\ len \in Nat /\ len > 0 /\ readPc = "idle"
        /\ want' = len
        /\ avail' = Minus(bufferLengths[getInactive], readIdx)
        /\ readPc' = IF avail' = 0 THEN "test" ELSE "copy"
        /\ UNCHANGED <<buffers, bufferLengths, readIdx, activeBuffer, drained, data, accepted, consumed>>
    BY DEF IInv, ReadBegin, shared
  <2>0. bufferLengths[getInactive] \in 0 .. BufferSize /\ readIdx \in 0 .. IdxRange - 1
    BY <2>1, InactiveIsOther DEF TypeOK
  <2>2. /\ getInactive' = getInactive /\ ReadPosition' = ReadPosition /\ ReadPosition = readIdx
        /\ Unread' = Unread /\ Unread = bufferLengths[getInactive] - readIdx /\ Unread >= 0
    BY <2>1 DEF IInv, Placement, getInactive, ReadPosition, Unread
  <2>3. avail' = Unread /\ avail' \in 0 .. IdxRange - 1
    BY <2>0, <2>1, <2>2 DEF Minus
  <2>4. TypeOK'
    BY <2>1, <2>3 DEF TypeOK
  <2>5. Accounting' /\ Placement'
    BY <2>1, <2>2 DEF IInv, Accounting, Placement
  <2>6. ReaderFacts'
    BY <2>0, <2>1, <2>2, <2>3 DEF ReaderFacts
  <2>7. DeliveredInOrder'
    BY <2>1 DEF DeliveredInOrder
  <2> QED
    BY <2>4, <2>5, <2>6, <2>7 DEF IInv

(* The entry of switchActive keeps the invariant: the half it will empty is
   the inactive one. *)
<1>SwitchTestStep.
  ASSUME IInv, SwitchTest
  PROVE  IInv'
  <2> USE <1>SwitchTestStep
  <2>1. /\ TypeOK /\ readPc = "test" /\ readPc' = "clear"
        /\ drained' = getInactive
        /\ UNCHANGED <<buffers, bufferLengths, readIdx, activeBuffer, want, avail, data, accepted, consumed>>
    BY DEF IInv, SwitchTest, shared
  <2>2. /\ getInactive' = getInactive /\ ReadPosition' = ReadPosition /\ Unread' = Unread
    BY <2>1 DEF getInactive, ReadPosition, Unread
  <2>3. TypeOK'
    BY <2>1, InactiveIsOther DEF TypeOK
  <2>4. Accounting' /\ Placement'
    BY <2>1, <2>2 DEF IInv, Accounting, Placement
  <2>5. ReaderFacts' /\ DeliveredInOrder'
    BY <2>1, <2>2 DEF IInv, ReaderFacts, DeliveredInOrder
  <2> QED
    BY <2>3, <2>4, <2>5 DEF IInv

(* Clearing the inactive half's length drops no unread byte, for it has
   been read to its end. *)
<1>SwitchClearStep.
  ASSUME IInv, SwitchClear
  PROVE  IInv'
  <2> USE <1>SwitchClearStep
  <2> USE DoubleBufferConstants
  <2>1. /\ TypeOK /\ readPc = "clear" /\ readPc' = "flip"
        /\ bufferLengths' = [bufferLengths EXCEPT ![getInactive] = 0]
        /\ UNCHANGED <<buffers, readIdx, activeBuffer, drained, want, avail, data, accepted, consumed>>
    BY DEF IInv, SwitchClear, ReaderFacts, locals
  <2>2. getInactive \in Halves /\ getInactive # activeBuffer /\ activeBuffer \in Halves
    BY <2>1, InactiveIsOther DEF TypeOK
  <2>3. /\ bufferLengths'[getInactive] = 0
        /\ bufferLengths'[activeBuffer] = bufferLengths[activeBuffer]
    BY <2>1, <2>2 DEF TypeOK
  <2>4. getInactive' = getInactive /\ ReadPosition' = 0 /\ Unread = 0 /\ Unread' = 0
    BY <2>1, <2>2, <2>3 DEF IInv, TypeOK, ReaderFacts, getInactive, ReadPosition, Unread
  <2>5. TypeOK'
    BY <2>1, <2>2 DEF TypeOK
  <2>6. Accounting' /\ Placement'
    BY <2>1, <2>3, <2>4 DEF IInv, Accounting, Placement
  <2>7. ReaderFacts' /\ DeliveredInOrder'
    BY <2>1, <2>3, <2>4 DEF IInv, ReaderFacts, DeliveredInOrder
  <2> QED
    BY <2>5, <2>6, <2>7 DEF IInv

(* Making the drained half active keeps the bytes in order: the half written
   last becomes the one to be read.  A half that is active already, as it may
   be when CDC_Init has reset the buffer, stays so. *)
<1>SwitchFlipStep.
  ASSUME IInv, SwitchFlip
  PROVE  IInv'
  <2> USE <1>SwitchFlipStep
  <2> USE DoubleBufferConstants
  <2>1. /\ TypeOK /\ readPc = "flip" /\ readPc' = "reset"
        /\ activeBuffer' = drained /\ bufferLengths[getInactive] = 0
        /\ UNCHANGED <<buffers, bufferLengths, readIdx, drained, want, avail, data, accepted, consumed>>
    BY DEF IInv, SwitchFlip, ReaderFacts, locals
  <2>2. /\ activeBuffer \in Halves /\ getInactive \in Halves /\ drained \in {activeBuffer, getInactive}
        /\ bufferLengths[activeBuffer] \in Nat /\ consumed \in Nat
    BY <2>1, InactiveIsOther DEF TypeOK
  <2>3. ReadPosition = 0 /\ ReadPosition' = 0 /\ Unread = 0
    BY <2>1 DEF ReadPosition, Unread
  <2>4. TypeOK'
    BY <2>1 DEF TypeOK
  <2>5. ReaderFacts' /\ DeliveredInOrder'
    BY <2>1 DEF IInv, ReaderFacts, DeliveredInOrder
  <2>6. CASE drained = getInactive
    <3>1. getInactive' = activeBuffer
      BY <2>1, <2>6 DEF TypeOK, Halves, getInactive
    <3>2. Unread' = bufferLengths[activeBuffer]
      BY <2>1, <2>2, <2>3, <3>1 DEF Unread
    <3>3. Accounting'
      BY <2>1, <2>2, <2>3, <2>6, <3>2 DEF IInv, Accounting
    <3>4. ASSUME NEW i \in 0 .. bufferLengths[activeBuffer] - 1
          PROVE  buffers[activeBuffer][0 + i] = consumed + 1 + i
      BY <2>2, <2>3 DEF IInv, Placement
    <3>5. Placement'
      BY <2>1, <2>2, <2>3, <2>6, <3>1, <3>2, <3>4 DEF Placement
    <3> QED
      BY <2>4, <2>5, <3>3, <3>5 DEF IInv
  <2>7. CASE drained = activeBuffer
    <3>1. getInactive' = getInactive /\ activeBuffer' = activeBuffer
      BY <2>1, <2>7 DEF getInactive
    <3>2. Unread' = 0
      BY <2>1, <2>3, <3>1 DEF Unread
    <3>3. Accounting' /\ Placement'
      BY <2>1, <2>3, <3>1, <3>2 DEF IInv, Accounting, Placement
    <3> QED
      BY <2>4, <2>5, <3>3 DEF IInv
  <2> QED
    BY <2>2, <2>6, <2>7

(* Resetting readIdx after the flip keeps the invariant: the new inactive
   half is read from its start. *)
<1>SwitchResetStep.
  ASSUME IInv, SwitchReset
  PROVE  IInv'
  <2> USE <1>SwitchResetStep
  <2>1. /\ TypeOK /\ readPc = "reset" /\ readPc' = "measure" /\ readIdx' = 0
        /\ UNCHANGED <<buffers, bufferLengths, activeBuffer, drained, want, avail, data, accepted, consumed>>
    BY DEF IInv, SwitchReset, locals
  <2>2. /\ getInactive' = getInactive /\ ReadPosition' = ReadPosition /\ Unread' = Unread
    BY <2>1 DEF getInactive, ReadPosition, Unread
  <2>3. TypeOK'
    BY <2>1, DoubleBufferConstants DEF TypeOK
  <2>4. Accounting' /\ Placement'
    BY <2>1, <2>2 DEF IInv, Accounting, Placement
  <2>5. ReaderFacts' /\ DeliveredInOrder'
    BY <2>1 DEF IInv, ReaderFacts, DeliveredInOrder
  <2> QED
    BY <2>3, <2>4, <2>5 DEF IInv

(* Taking the number of bytes available keeps the invariant; with none the
   read returns. *)
<1>ReadMeasureStep.
  ASSUME IInv, ReadMeasure
  PROVE  IInv'
  <2> USE <1>ReadMeasureStep
  <2> USE DoubleBufferConstants
  <2>1. /\ TypeOK /\ readPc = "measure"
        /\ avail' = Minus(bufferLengths[getInactive], readIdx)
        /\ readPc' = IF avail' = 0 THEN "idle" ELSE "copy"
        /\ UNCHANGED <<buffers, bufferLengths, readIdx, activeBuffer, drained, want, data, accepted, consumed>>
    BY DEF IInv, ReadMeasure, shared
  <2>0. bufferLengths[getInactive] \in 0 .. BufferSize /\ readIdx \in 0 .. IdxRange - 1
    BY <2>1, InactiveIsOther DEF TypeOK
  <2>2. /\ getInactive' = getInactive /\ ReadPosition' = ReadPosition /\ ReadPosition = readIdx
        /\ Unread' = Unread /\ Unread = bufferLengths[getInactive] - readIdx /\ Unread >= 0
    BY <2>1 DEF IInv, Placement, getInactive, ReadPosition, Unread
  <2>3. avail' = Unread /\ avail' \in 0 .. IdxRange - 1
    BY <2>0, <2>1, <2>2 DEF Minus
  <2>4. TypeOK'
    BY <2>1, <2>3 DEF TypeOK
  <2>5. Accounting' /\ Placement'
    BY <2>1, <2>2 DEF IInv, Accounting, Placement
  <2>6. ReaderFacts'
    BY <2>0, <2>1, <2>2, <2>3 DEF IInv, ReaderFacts
  <2>7. DeliveredInOrder'
    BY <2>1 DEF DeliveredInOrder
  <2> QED
    BY <2>4, <2>5, <2>6, <2>7 DEF IInv

(* Advancing readIdx by the bytes copied keeps the invariant. *)
<1>ReadAdvanceStep.
  ASSUME IInv, ReadAdvance
  PROVE  IInv'
  <2> USE <1>ReadAdvanceStep
  <2> USE DoubleBufferConstants
  <2> DEFINE n == numBytesToRead
  <2>0. /\ TypeOK /\ readPc = "advance" /\ readPc' = "idle"
        /\ readIdx' = Plus(readIdx, n) /\ consumed' = Counted
        /\ UNCHANGED <<buffers, bufferLengths, activeBuffer, drained, want, avail, data, accepted>>
    BY DEF IInv, ReadAdvance, locals
  <2>2. /\ n \in Nat /\ n <= Unread /\ Unread = avail /\ avail \in Int
        /\ ReadPosition = readIdx /\ readIdx \in Nat /\ consumed \in Nat
    BY <2>0, CountRange DEF TypeOK
  <2>3. activeBuffer \in Halves /\ getInactive \in Halves
    BY <2>0, InactiveIsOther DEF TypeOK
  <2>4. /\ bufferLengths[activeBuffer] \in Nat /\ bufferLengths[getInactive] \in Nat
        /\ bufferLengths[getInactive] <= BufferSize
    BY <2>0, <2>3 DEF TypeOK
  <2>1. /\ TypeOK /\ readPc = "advance" /\ readPc' = "idle"
        /\ readIdx' = readIdx + n /\ consumed' = consumed + n /\ readIdx' <= BufferSize
        /\ UNCHANGED <<buffers, bufferLengths, activeBuffer, drained, want, avail, data, accepted>>
    <3>1. Unread = bufferLengths[getInactive] - readIdx
      BY <2>2 DEF Unread
    <3>2. accepted = consumed + Unread + bufferLengths[activeBuffer]
      BY DEF IInv, Accounting
    <3>3. Counted = IF consumed + n < accepted THEN consumed + n ELSE accepted
      BY DEF Counted, Least
    <3> HIDE DEF n
    <3>4. readIdx + n <= BufferSize /\ consumed + n <= accepted
      BY <2>2, <2>4, <3>1, <3>2
    <3>5. Counted = consumed + n
      BY <2>2, <2>4, <3>1, <3>2, <3>3, <3>4
    <3>6. Plus(readIdx, n) = readIdx + n
      BY <2>2, <3>4 DEF Plus
    <3> QED
      BY <2>0, <3>4, <3>5, <3>6
  <2>5. getInactive' = getInactive /\ ReadPosition' = readIdx + n
    BY <2>1 DEF getInactive, ReadPosition
  <2> HIDE DEF n
  <2>6. Unread' = Unread - n /\ Unread \in Nat
    BY <2>1, <2>2, <2>4, <2>5 DEF Unread
  <2>7. TypeOK'
    <3>1. readIdx' \in 0 .. IdxRange - 1 /\ consumed' \in Nat
      BY <2>1, <2>2
    <3> QED
      BY <2>1, <3>1 DEF TypeOK
  <2>8. Accounting'
    <3>1. accepted = consumed + Unread + bufferLengths[activeBuffer]
      BY DEF IInv, Accounting
    <3> QED
      BY <2>1, <2>2, <2>4, <2>6, <3>1 DEF Accounting
  <2>9. Placement'
    <3>1. ASSUME NEW i \in 0 .. Unread - n - 1
          PROVE  buffers[getInactive][readIdx + n + i] = consumed + n + 1 + i
      <4>1. n + i \in 0 .. Unread - 1 /\ i \in Int
        BY <2>2, <2>6
      <4>2. buffers[getInactive][readIdx + (n + i)] = consumed + 1 + (n + i)
        BY <2>2, <4>1 DEF IInv, Placement
      <4>3. readIdx + (n + i) = readIdx + n + i /\ consumed + 1 + (n + i) = consumed + n + 1 + i
        BY <2>2, <4>1
      <4> QED
        BY <4>2, <4>3
    <3>2. ASSUME NEW i \in 0 .. bufferLengths[activeBuffer] - 1
          PROVE  buffers[activeBuffer][i] = (consumed + n) + (Unread - n) + 1 + i
      <4>1. buffers[activeBuffer][i] = consumed + Unread + 1 + i
        BY DEF IInv, Placement
      <4> QED
        BY <2>2, <2>4, <2>6, <4>1
    <3>3. Unread - n >= 0
      BY <2>2, <2>6
    <3> QED
      BY <2>1, <2>5, <2>6, <3>1, <3>2, <3>3 DEF Placement
  <2>10. ReaderFacts' /\ DeliveredInOrder'
    BY <2>1 DEF ReaderFacts, DeliveredInOrder
  <2> QED
    BY <2>7, <2>8, <2>9, <2>10 DEF IInv

(* The invariant depends on nothing but the module's variables. *)
<1>StutterStep.
  ASSUME IInv, UNCHANGED vars
  PROVE  IInv'
  <2> USE <1>StutterStep
  <2>1. UNCHANGED <<buffers, bufferLengths, readIdx, activeBuffer, readPc, drained, want, avail, data, accepted, consumed>>
    BY DEF vars, shared, locals
  <2>2. UNCHANGED <<getInactive, ReadPosition, Unread, numBytesToRead>>
    BY <2>1 DEF getInactive, ReadPosition, Unread, numBytesToRead
  <2> QED
    BY <2>1, <2>2 DEF IInv, TypeOK, Accounting, Placement, ReaderFacts, DeliveredInOrder
<1> SUFFICES ASSUME IInv, [Next]_vars PROVE IInv'
  OBVIOUS
<1>1. ASSUME NEW len \in WriteLens, Write(len) PROVE IInv'
  BY <1>1, WriteStep
<1>2. ASSUME NEW len \in WriteLens, WriteRefused(len) PROVE IInv'
  BY <1>2, <1>StutterStep DEF WriteRefused
<1>3. ASSUME NEW len \in ReadLens, ReadBegin(len) PROVE IInv'
  BY <1>3, <1>ReadBeginStep
<1>4. CASE SwitchClear
  BY <1>4, <1>SwitchClearStep
<1>4a. CASE SwitchTest
  BY <1>4a, <1>SwitchTestStep
<1>5. CASE SwitchFlip
  BY <1>5, <1>SwitchFlipStep
<1>6. CASE SwitchReset
  BY <1>6, <1>SwitchResetStep
<1>7. CASE ReadMeasure
  BY <1>7, <1>ReadMeasureStep
<1>8. CASE ReadCopy
  BY <1>8, ReadCopyStep
<1>9. CASE ReadAdvance
  BY <1>9, <1>ReadAdvanceStep
<1>10. CASE UNCHANGED vars
  BY <1>10, <1>StutterStep
<1> QED
  BY <1>1, <1>2, <1>3, <1>4, <1>4a, <1>5, <1>6, <1>7, <1>8, <1>9, <1>10 DEF Next, Read

(* doubleBuffer_init establishes the invariant. *)
LEMMA InitIInv == Init => IInv
<1> SUFFICES ASSUME Init PROVE IInv
  OBVIOUS
<1> USE DoubleBufferConstants
<1>1. TypeOK
  BY DEF Init, TypeOK, Halves, Slots
<1>2. getInactive = 1 /\ ReadPosition = 0 /\ Unread = 0
  BY DEF Init, getInactive, ReadPosition, Unread, Halves
<1>3. Accounting /\ Placement
  BY <1>2 DEF Init, Accounting, Placement, Halves
<1>4. ReaderFacts /\ DeliveredInOrder
  BY <1>2 DEF Init, ReaderFacts, DeliveredInOrder, Halves
<1> QED
  BY <1>1, <1>3, <1>4 DEF IInv

(* The inductive invariant holds in every state of every behaviour of the
   double buffer, for every buffer size and every set of packet and read
   lengths. *)
THEOREM Invariance == Spec => []IInv
  BY InitIInv, NextIInv, PTL DEF Spec

(* The bytes accepted by doubleBuffer_write are those already read and
   those still in the two halves: no interleaving of the interrupt with a
   switch loses or duplicates one.  What doubleBuffer_read hands out is the
   accepted stream, in order and without gaps, and no write or read leaves
   the buffers. *)
THEOREM NothingLost == Spec => [](TypeOK /\ Accounting /\ DeliveredInOrder)
<1>1. IInv => TypeOK /\ Accounting /\ DeliveredInOrder
  BY DEF IInv
<1> QED
  BY <1>1, Invariance, PTL

(***************************************************************************)
(* The refinement of ByteStream.                                               *)
(***************************************************************************)
Delivered == IF readPc = "advance" THEN consumed + numBytesToRead ELSE consumed

(* The double buffer implements the bounded stream of bytes of ByteStream:
   interrupted at any point, its read and its write look atomic. *)
THEOREM Refinement == Spec => StreamSpec
(* An accepted write is a write of the abstract stream. *)
<1>WriteRefines.
  ASSUME IInv, NEW len \in WriteLens, Write(len)
  PROVE  Stream!Write
  <2> USE <1>WriteRefines
  <2> USE DoubleBufferConstants
  <2>1. /\ accepted' = accepted + len /\ len \in Nat /\ accepted \in Nat
        /\ UNCHANGED <<readIdx, activeBuffer, readPc, want, avail, data, consumed>>
    BY DEF IInv, TypeOK, Write, locals
  <2>2. IInv'
    BY WriteStep
  <2>3. accepted' = consumed' + Unread' + bufferLengths'[activeBuffer']
    BY <2>2 DEF IInv, Accounting
  <2>4. /\ bufferLengths'[activeBuffer'] \in 0 .. BufferSize
        /\ bufferLengths'[getInactive'] \in 0 .. BufferSize
        /\ readIdx' \in Nat /\ consumed' \in Nat
    BY <2>2 DEF IInv, TypeOK, getInactive, Halves
  <2>5. ReadPosition' \in Nat
    BY <2>4 DEF ReadPosition
  <2>6. Unread' \in Int /\ Unread' <= BufferSize
    BY <2>4, <2>5 DEF Unread
  <2>7. accepted' <= consumed + 2 * BufferSize
    BY <2>1, <2>3, <2>4, <2>6
  <2>8. Delivered' = Delivered
    BY <2>1 DEF Delivered, numBytesToRead
  <2>9. Delivered \in Nat /\ Delivered >= consumed /\ consumed \in Nat
    BY CountRange DEF Delivered, IInv, TypeOK
  <2>10. accepted' \in accepted .. Delivered + 2 * BufferSize
    BY <2>1, <2>7, <2>9
  <2> QED
    BY <2>1, <2>8, <2>10 DEF Stream!Write, Delivered

(* The memcpy of a read is a read of the abstract stream. *)
<1>CopyRefines.
  ASSUME IInv, ReadCopy
  PROVE  Stream!Read
  <2> USE <1>CopyRefines
  <2> DEFINE n == numBytesToRead
  <2>1. /\ readPc = "copy" /\ readPc' = "advance"
        /\ UNCHANGED <<want, avail, accepted, consumed>>
    BY DEF ReadCopy
  <2>2. data' = [i \in 0 .. n - 1 |-> consumed + 1 + i]
    BY ReadCopyStep
  <2>3. n \in Nat /\ 0 < n /\ n <= Unread /\ Unread = avail
    BY <2>1, CountRange
  <2>4. /\ accepted = consumed + Unread + bufferLengths[activeBuffer]
        /\ consumed \in Nat /\ avail \in Int /\ bufferLengths[activeBuffer] \in Nat
    BY DoubleBufferConstants DEF IInv, Accounting, TypeOK
  <2>5. n \in 1 .. accepted - Delivered /\ Delivered = consumed
    <3>1. Delivered = consumed
      BY <2>1 DEF Delivered
    <3> HIDE DEF n
    <3> QED
      BY <2>3, <2>4, <3>1
  <2>6. Delivered' = Delivered + n
    <3>1. n' = n
      BY <2>1 DEF numBytesToRead
    <3> QED
      BY <2>1, <3>1 DEF Delivered
  <2>7. /\ Delivered' = Delivered + n
        /\ data' = [i \in 0 .. n - 1 |-> Delivered + 1 + i]
        /\ UNCHANGED accepted
    BY <2>1, <2>2, <2>5, <2>6
  <2> HIDE DEF n
  <2> QED
    BY <2>5, <2>7 DEF Stream!Read, Delivered

(* The other steps of the reader, among them the four of the switch,
   change nothing the abstract stream knows of. *)
<1>OthersStutter.
  ASSUME IInv,
         \/ \E len \in ReadLens : ReadBegin(len)
         \/ SwitchTest \/ SwitchClear \/ SwitchFlip \/ SwitchReset \/ ReadMeasure
         \/ ReadAdvance
         \/ UNCHANGED vars
  PROVE  UNCHANGED Stream!vars
  <2> USE <1>OthersStutter
  <2>1. UNCHANGED <<accepted, data>>
    BY DEF ReadBegin, SwitchTest, SwitchClear, SwitchFlip, SwitchReset, ReadMeasure, ReadAdvance,
           vars, shared, locals
  <2>2. Delivered' = Delivered
    <3>1. CASE ReadAdvance
      <4>1. readPc = "advance" /\ readPc' = "idle" /\ consumed' = Counted
        BY <3>1 DEF ReadAdvance
      <4>2. /\ numBytesToRead \in Nat /\ numBytesToRead <= Unread /\ Unread \in Int
            /\ accepted = consumed + Unread + bufferLengths[activeBuffer]
            /\ consumed \in Nat /\ bufferLengths[activeBuffer] \in Nat
        BY <4>1, CountRange, DoubleBufferConstants DEF IInv, Accounting, TypeOK
      <4>3. Counted = IF consumed + numBytesToRead < accepted THEN consumed + numBytesToRead
                                                              ELSE accepted
        BY DEF Counted, Least
      <4>4. Counted = consumed + numBytesToRead
        BY <4>2, <4>3
      <4> QED
        BY <4>1, <4>4 DEF Delivered
    <3>2. CASE UNCHANGED vars
      BY <3>2 DEF vars, locals, Delivered, numBytesToRead
    <3>3. CASE SwitchTest \/ SwitchClear \/ SwitchFlip \/ SwitchReset
      BY <3>3 DEF SwitchTest, SwitchClear, SwitchFlip, SwitchReset, Delivered
    <3>4. CASE (\E len \in ReadLens : ReadBegin(len)) \/ ReadMeasure
      <4>1. readPc # "advance" /\ readPc' # "advance" /\ consumed' = consumed
        BY <3>4 DEF ReadBegin, ReadMeasure
      <4> QED
        BY <4>1 DEF Delivered
    <3> QED
      BY <3>1, <3>2, <3>3, <3>4
  <2> QED
    BY <2>1, <2>2 DEF Stream!vars, Delivered
<1>1. Init => Stream!Init
  BY DEF Init, Stream!Init, NoData
<1>2. IInv /\ [Next]_vars => [Stream!Next]_(Stream!vars)
  <2> SUFFICES ASSUME IInv, [Next]_vars PROVE [Stream!Next]_(Stream!vars)
    OBVIOUS
  <2>1. CASE \E len \in WriteLens : Write(len)
    BY <2>1, <1>WriteRefines DEF Stream!Next
  <2>2. CASE ReadCopy
    BY <2>2, <1>CopyRefines DEF Stream!Next
  <2>3. CASE \/ \E len \in ReadLens : ReadBegin(len)
             \/ SwitchTest \/ SwitchClear \/ SwitchFlip \/ SwitchReset \/ ReadMeasure
         \/ ReadAdvance
             \/ UNCHANGED vars
    BY <2>3, <1>OthersStutter
  <2> QED
    BY <2>1, <2>2, <2>3 DEF Next, Read, WriteRefused
<1> QED
  BY <1>1, <1>2, Invariance, PTL DEF Spec, StreamSpec, Stream!Spec

(***************************************************************************)
(* The USB receive path: packets arrive in the memory of the double buffer.    *)
(***************************************************************************)
(* What a packet in RxBuffer finds: a buffer with nothing unread, so that the
   slots it lies in are those that doubleBuffer_write copies from. *)
PacketWaits ==
  transferred =>
    /\ accepted = consumed
    /\ rxSize \in WriteLens
    /\ accepted + rxSize <= MaxBytes
    /\ \A i \in 0 .. rxSize - 1 : buffers[0][i] = accepted + 1 + i

(* Before the first CDC_Init the endpoint is closed and no read was cut. *)
Unconfigured == configs = 0 => accepted = 0 /\ ~armed /\ ~transferred /\ ~cut

(* A read that a configuration has cut keeps its types; all else holds again
   from the next configuration that cuts none. *)
UsbIInv ==
  /\ UsbTypeOK
  /\ readPc # "idle" => want > 0
  /\ Unconfigured
  /\ ~cut => IInv /\ PacketWaits /\ NeverDeaf

(* With a host that sends a packet when the last was read, as BootSerial.py does,
   the invariant holds on every reachable state: initially, over the two
   interrupts, every step of the main loop's read and every configuration,
   wherever in a read it comes. *)
THEOREM UsbInvariance ==
  ASSUME Lockstep
  PROVE  UsbSpec => []UsbIInv

(* When every accepted byte has been consumed both halves have nothing to be
   read, and no read is copying. *)
<1>NothingUnread.
  ASSUME IInv, accepted = consumed
  PROVE  /\ Unread = 0 /\ bufferLengths[activeBuffer] = 0
         /\ readPc \notin {"copy", "advance"}
  <2> USE <1>NothingUnread
  <2> USE DoubleBufferConstants
  <2>1. /\ accepted \in Nat /\ consumed \in Nat /\ bufferLengths[activeBuffer] \in Nat
        /\ bufferLengths[getInactive] \in Nat /\ readIdx \in Nat
    BY InactiveIsOther DEF IInv, TypeOK
  <2>2. Unread \in Int /\ Unread >= 0 /\ accepted = consumed + Unread + bufferLengths[activeBuffer]
    BY <2>1 DEF IInv, Placement, Accounting, Unread, ReadPosition
  <2>3. Unread = 0 /\ bufferLengths[activeBuffer] = 0
    BY <2>1, <2>2
  <2>4. readPc \in {"copy", "advance"} => Unread > 0
    BY CountRange, <2>2
  <2> QED
    BY <2>3, <2>4
(* Every step of the reader keeps the types, also of a read that has lost its
   place: the differences and sums of uint32_t wrap. *)
<1>ReadTypes.
  ASSUME TypeOK, readPc # "idle" => want > 0, Read
  PROVE  TypeOK' /\ (readPc' # "idle" => want' > 0)
  <2> USE <1>ReadTypes
  <2> USE DoubleBufferConstants
  <2>1. /\ getInactive \in Halves /\ bufferLengths[getInactive] \in 0 .. BufferSize
        /\ readIdx \in 0 .. IdxRange - 1 /\ avail \in 0 .. IdxRange - 1
        /\ want \in Nat /\ consumed \in Nat /\ accepted \in Nat /\ drained \in Halves
    BY InactiveIsOther DEF TypeOK
  <2>2. Minus(bufferLengths[getInactive], readIdx) \in 0 .. IdxRange - 1
    BY <2>1 DEF Minus
  <2>3. numBytesToRead \in 0 .. IdxRange - 1
    BY <2>1 DEF numBytesToRead, Least
  <2>4. Plus(readIdx, numBytesToRead) \in 0 .. IdxRange - 1 /\ Counted \in Nat
    <3> HIDE DEF numBytesToRead
    <3> QED
      BY <2>1, <2>3 DEF Plus, Counted, Least
  <2>5. ASSUME NEW len \in ReadLens, ReadBegin(len)
        PROVE  TypeOK' /\ (readPc' # "idle" => want' > 0)
    BY <2>2, <2>5 DEF ReadBegin, TypeOK, shared
  <2>6. CASE SwitchTest
    BY <2>1, <2>6 DEF SwitchTest, TypeOK, shared
  <2>7. CASE SwitchClear
    <3>1. bufferLengths' \in [Halves -> 0 .. BufferSize]
      BY <2>7 DEF SwitchClear, TypeOK
    <3> QED
      BY <2>7, <3>1 DEF SwitchClear, TypeOK, locals
  <2>8. CASE SwitchFlip
    BY <2>8 DEF SwitchFlip, TypeOK, locals
  <2>9. CASE SwitchReset
    BY <2>9 DEF SwitchReset, TypeOK, locals
  <2>10. CASE ReadMeasure
    BY <2>2, <2>10 DEF ReadMeasure, TypeOK, shared
  <2>11. CASE ReadCopy
    BY <2>11 DEF ReadCopy, TypeOK, shared
  <2>12. CASE ReadAdvance
    BY <2>4, <2>12 DEF ReadAdvance, TypeOK, locals
  <2> QED
    BY <2>5, <2>6, <2>7, <2>8, <2>9, <2>10, <2>11, <2>12 DEF Read

(* The main loop's read keeps the invariant: with a packet waiting there is
   nothing it could consume. *)
<1>UsbReadStep.
  ASSUME UsbIInv, UsbRead
  PROVE  UsbIInv'
  <2> USE <1>UsbReadStep
  <2>1. UNCHANGED <<configs, armed, transferred, rxSize, cut>>
    BY DEF UsbRead, usb
  <2>2. UNCHANGED <<buffers, accepted>>
    BY DEF UsbRead, Read, ReadBegin, SwitchTest, SwitchClear, SwitchFlip, SwitchReset,
           ReadMeasure, ReadCopy, ReadAdvance, shared
  <2>3. TypeOK' /\ (readPc' # "idle" => want' > 0)
    BY <1>ReadTypes DEF UsbIInv, UsbTypeOK, UsbRead
  <2>4. UsbTypeOK'
    BY <2>1, <2>3, Zenon DEF UsbIInv, UsbTypeOK
  <2>5. Unconfigured'
    BY <2>1, <2>2, Zenon DEF UsbIInv, Unconfigured
  <2>6. ASSUME ~cut
        PROVE  IInv' /\ PacketWaits' /\ NeverDeaf'
    <3>1. IInv /\ PacketWaits /\ NeverDeaf
      BY <2>6 DEF UsbIInv
    <3>2. IInv'
      BY <3>1, NextIInv DEF UsbRead, Next
    <3>3. transferred => consumed' = consumed
      <4>1. transferred => ~ReadAdvance
        BY <3>1, <1>NothingUnread DEF PacketWaits, ReadAdvance
      <4> QED
        BY <4>1 DEF UsbRead, Read, ReadBegin, SwitchTest, SwitchClear, SwitchFlip, SwitchReset,
                    ReadMeasure, ReadCopy
    <3>4. PacketWaits'
      BY <2>1, <2>2, <3>1, <3>3 DEF PacketWaits
    <3>5. NeverDeaf'
      BY <2>1, <3>1, Zenon DEF NeverDeaf
    <3> QED
      BY <3>2, <3>4, <3>5
  <2> QED
    BY <2>1, <2>3, <2>4, <2>5, <2>6 DEF UsbIInv

(* The copy of a packet out of the FIFO keeps the invariant: it overwrites no
   byte that is still to be read. *)
<1>RxFifoStep.
  ASSUME Lockstep, UsbIInv, NEW len \in WriteLens, RxFifo(len)
  PROVE  UsbIInv'
  <2> USE <1>RxFifoStep
  <2> USE DoubleBufferConstants
  <2> DEFINE src == [i \in 0 .. len - 1 |-> accepted + 1 + i]
  <2>1. /\ TypeOK /\ len \in Nat /\ len <= BufferSize /\ accepted \in Nat
        /\ accepted = consumed /\ accepted + len <= MaxBytes /\ armed
    BY UsbConstants DEF UsbIInv, UsbTypeOK, TypeOK, RxFifo, HostSends
  <2>2. /\ buffers' = [buffers EXCEPT ![0] = Stored(buffers[0], 0, len, src)]
        /\ armed' = FALSE /\ transferred' = TRUE /\ rxSize' = len
        /\ UNCHANGED <<bufferLengths, readIdx, activeBuffer, readPc, drained, want, avail, data,
                       accepted, consumed, configs, cut>>
    BY DEF RxFifo, locals
  <2>4. Stored(buffers[0], 0, len, src) \in [Slots -> Nat]
    <3> SUFFICES ASSUME NEW i \in Slots
                 PROVE  Stored(buffers[0], 0, len, src)[i] \in Nat
      BY Zenon DEF Stored
    <3>1. buffers[0][i] \in Nat /\ i \in Nat
      BY <2>1 DEF TypeOK, Halves, Slots
    <3>2. i \in 0 .. len - 1 => src[i - 0] \in Nat
      BY <2>1, <3>1
    <3>3. Stored(buffers[0], 0, len, src)[i]
            = IF i \in 0 .. 0 + len - 1 THEN src[i - 0] ELSE buffers[0][i]
      BY DEF Stored
    <3> HIDE DEF src
    <3> QED
      BY <2>1, <3>1, <3>2, <3>3
  <2>5. buffers' \in [Halves -> [Slots -> Nat]] /\ buffers'[0] = Stored(buffers[0], 0, len, src)
    BY <2>1, <2>2, <2>4 DEF TypeOK, Halves
  <2>6. ASSUME NEW i \in 0 .. len - 1
        PROVE  buffers'[0][i] = accepted + 1 + i
    <3>1. i \in Slots /\ i \in 0 .. 0 + len - 1 /\ i - 0 = i
      BY <2>1 DEF Slots
    <3> QED
      BY <2>5, <3>1 DEF Stored
  <2>7. TypeOK'
    BY <2>1, <2>2, <2>5 DEF TypeOK
  <2>8. UsbTypeOK'
    BY <2>2, <2>7, Zenon DEF UsbIInv, UsbTypeOK
  <2>9. getInactive' = getInactive /\ ReadPosition' = ReadPosition /\ Unread' = Unread
    BY <2>2 DEF getInactive, ReadPosition, Unread
  <2>10. ASSUME ~cut
         PROVE  IInv' /\ PacketWaits' /\ NeverDeaf'
    <3>1. IInv
      BY <2>10 DEF UsbIInv
    <3>2. /\ Unread = 0 /\ bufferLengths[activeBuffer] = 0
          /\ readPc \notin {"copy", "advance"}
      BY <2>1, <3>1, <1>NothingUnread
    <3>3. Accounting' /\ ReaderFacts'
      BY <2>2, <2>9, <3>1 DEF IInv, Accounting, ReaderFacts
    <3>4. Placement'
      BY <2>2, <2>9, <3>2 DEF Placement
    <3>5. DeliveredInOrder'
      BY <2>2, <3>2 DEF DeliveredInOrder
    <3>6. \A i \in 0 .. rxSize' - 1 : buffers'[0][i] = accepted' + 1 + i
      BY <2>2, <2>6
    <3>7. PacketWaits'
      BY <2>1, <2>2, <3>6, Zenon DEF PacketWaits
    <3>8. NeverDeaf'
      BY <2>2 DEF NeverDeaf
    <3> QED
      BY <2>7, <3>3, <3>4, <3>5, <3>7, <3>8 DEF IInv
  <2>11. Unconfigured'
    BY <2>1, <2>2 DEF UsbIInv, Unconfigured
  <2> QED
    BY <2>2, <2>8, <2>10, <2>11 DEF UsbIInv

(* The end-of-transfer interrupt keeps the invariant: the packet fits, source
   and destination of the copy do not overlap in part, and what is stored is
   what a write of the double buffer would store. *)
<1>DataOutStep.
  ASSUME UsbIInv, DataOut
  PROVE  UsbIInv'
  <2> USE <1>DataOutStep
  <2> USE DoubleBufferConstants
  <2>1. /\ TypeOK /\ transferred /\ rxSize \in Nat /\ rxSize <= BufferSize
    BY UsbConstants DEF UsbIInv, UsbTypeOK, DataOut
  <2>2. /\ transferred' = FALSE
        /\ UNCHANGED <<readIdx, activeBuffer, readPc, drained, want, avail, data, consumed, configs,
                       rxSize, cut>>
    BY DEF DataOut, locals
  <2>3. configs # 0
    BY <2>1 DEF UsbIInv, Unconfigured
  <2>4. TypeOK' /\ armed' \in BOOLEAN
    <3>1. CASE Fits(rxSize)
      <4> DEFINE at == bufferLengths[activeBuffer]
                 src == RxData(rxSize)
      <4>1. /\ buffers' = [buffers EXCEPT ![activeBuffer] = Stored(buffers[activeBuffer], at, rxSize, src)]
            /\ bufferLengths' = [bufferLengths EXCEPT ![activeBuffer] = at + rxSize]
            /\ accepted' = accepted + rxSize /\ armed' = TRUE
        BY <3>1 DEF DataOut, CDC_Receive, GetRxDataSize, ReceivePacket, doubleBuffer_write
      <4>2. /\ at \in 0 .. BufferSize /\ at + rxSize \in 0 .. BufferSize /\ accepted \in Nat
            /\ activeBuffer \in Halves
        BY <2>1, <3>1 DEF TypeOK, Fits
      <4>3. ASSUME NEW k \in 0 .. rxSize - 1
            PROVE  src[k] \in Nat
        <5>1. k \in Slots
          BY <2>1 DEF Slots
        <5>2. buffers[0][k] \in Nat
          BY <2>1, <5>1 DEF TypeOK, Halves
        <5> QED
          BY <5>2 DEF RxData, Unknown
      <4> HIDE DEF src, at
      <4>4. Stored(buffers[activeBuffer], at, rxSize, src) \in [Slots -> Nat]
        <5> SUFFICES ASSUME NEW i \in Slots
                     PROVE  Stored(buffers[activeBuffer], at, rxSize, src)[i] \in Nat
          BY Zenon DEF Stored
        <5>1. buffers[activeBuffer][i] \in Nat /\ i \in Nat
          BY <2>1, <4>2 DEF TypeOK, Slots
        <5>2. i \in at .. at + rxSize - 1 => i - at \in 0 .. rxSize - 1
          BY <2>1, <4>2, <5>1
        <5>3. i \in at .. at + rxSize - 1 => src[i - at] \in Nat
          BY <4>3, <5>2
        <5>4. Stored(buffers[activeBuffer], at, rxSize, src)[i]
                = IF i \in at .. at + rxSize - 1 THEN src[i - at] ELSE buffers[activeBuffer][i]
          BY Zenon DEF Stored
        <5> QED
          BY <5>1, <5>3, <5>4, Zenon
      <4>5. /\ buffers' \in [Halves -> [Slots -> Nat]]
            /\ bufferLengths' \in [Halves -> 0 .. BufferSize]
        BY <2>1, <4>1, <4>2, <4>4 DEF TypeOK
      <4>6. accepted' \in Nat
        BY <2>1, <4>1, <4>2
      <4> QED
        BY <2>1, <2>2, <4>1, <4>5, <4>6, Zenon DEF TypeOK
    <3>2. CASE ~Fits(rxSize)
      <4>1. UNCHANGED <<buffers, bufferLengths, accepted, armed>>
        BY <3>2 DEF DataOut, CDC_Receive, GetRxDataSize
      <4> QED
        BY <2>1, <2>2, <4>1, Zenon DEF TypeOK, UsbIInv, UsbTypeOK
    <3> QED
      BY <3>1, <3>2
  <2>5. UsbTypeOK'
    BY <2>2, <2>4, Zenon DEF UsbIInv, UsbTypeOK
  <2>6. Unconfigured'
    BY <2>2, <2>3, Zenon DEF Unconfigured
  <2>7. ASSUME ~cut
        PROVE  IInv' /\ PacketWaits' /\ NeverDeaf'
    <3>1. /\ IInv /\ accepted = consumed /\ rxSize \in WriteLens
          /\ accepted + rxSize <= MaxBytes
          /\ \A i \in 0 .. rxSize - 1 : buffers[0][i] = accepted + 1 + i
      BY <2>1, <2>7 DEF UsbIInv, PacketWaits
    <3>2. bufferLengths[activeBuffer] = 0
      BY <3>1, <1>NothingUnread
    <3>3. Fits(rxSize)
      BY <2>1, <3>2 DEF Fits
    <3>4. RxData(rxSize) = [i \in 0 .. rxSize - 1 |-> accepted + 1 + i]
      BY <3>1, <3>2 DEF RxData
    <3>5. Write(rxSize)
      BY <3>1, <3>3, <3>4 DEF Write, DataOut, CDC_Receive, GetRxDataSize
    <3>6. IInv'
      BY <3>1, <3>5, WriteStep
    <3>7. armed' = TRUE
      BY <3>3 DEF DataOut, CDC_Receive, GetRxDataSize, ReceivePacket
    <3> QED
      BY <2>2, <3>6, <3>7, Zenon DEF PacketWaits, NeverDeaf
  <2> QED
    BY <2>2, <2>5, <2>6, <2>7 DEF UsbIInv

(* A configuration keeps the invariant: it empties both halves, and a reader in
   the middle of a switch goes on with an empty buffer. *)
<1>ConfigureStep.
  ASSUME UsbIInv, CDC_Init
  PROVE  UsbIInv'
  <2> USE <1>ConfigureStep
  <2> USE DoubleBufferConstants
  <2>1. /\ TypeOK
        /\ bufferLengths' = [h \in Halves |-> 0] /\ readIdx' = 0 /\ activeBuffer' = 0
        /\ configs' = configs + 1 /\ armed' = TRUE /\ transferred' = FALSE /\ consumed' = accepted
        /\ configs \in 0 .. MaxConfigs /\ configs < MaxConfigs
        /\ UNCHANGED <<buffers, readPc, drained, want, avail, data, accepted, rxSize>>
    BY DEF UsbIInv, UsbTypeOK, CDC_Init, initBuffer, locals
  <2>2. cut' = (readPc \in {"clear", "copy", "advance"})
    BY DEF CDC_Init, MidRead
  <2>3. /\ getInactive' = 1 /\ ReadPosition' = 0 /\ Unread' = 0
        /\ bufferLengths'[activeBuffer'] = 0 /\ bufferLengths'[getInactive'] = 0
    BY <2>1 DEF getInactive, ReadPosition, Unread, Halves
  <2>4. TypeOK'
    BY <2>1 DEF TypeOK, Halves
  <2>5. Accounting' /\ Placement'
    BY <2>1, <2>3, <2>4 DEF TypeOK, Accounting, Placement
  <2>6. ASSUME ~cut'
        PROVE  ReaderFacts' /\ DeliveredInOrder'
    <3>1. readPc' \notin {"clear", "copy", "advance"}
      BY <2>1, <2>2, <2>6, Zenon
    <3>2. readPc' # "idle" => want' > 0
      BY <2>1 DEF UsbIInv
    <3> QED
      BY <2>1, <2>3, <3>1, <3>2 DEF ReaderFacts, DeliveredInOrder
  <2>7. UsbTypeOK'
    <3>1. configs' \in 0 .. MaxConfigs /\ cut' \in BOOLEAN
      BY <2>1, <2>2, UsbConstants
    <3> QED
      BY <2>1, <2>4, <3>1, Zenon DEF UsbIInv, UsbTypeOK
  <2>8. configs' # 0
    BY <2>1
  <2>9. PacketWaits' /\ Unconfigured' /\ NeverDeaf'
    BY <2>1, <2>8, Zenon DEF PacketWaits, Unconfigured, NeverDeaf
  <2>10. readPc' # "idle" => want' > 0
    BY <2>1 DEF UsbIInv
  <2> QED
    BY <2>4, <2>5, <2>6, <2>7, <2>9, <2>10 DEF UsbIInv, IInv
<1>1. UsbInit => UsbIInv
  <2> SUFFICES ASSUME UsbInit PROVE UsbIInv
    OBVIOUS
  <2>1. IInv
    BY InitIInv DEF UsbInit
  <2>2. /\ configs = 0 /\ 0 \in 0 .. MaxConfigs /\ armed = FALSE /\ transferred = FALSE
        /\ rxSize = 0 /\ cut = FALSE /\ readPc = "idle"
    BY UsbConstants DEF UsbInit, Init
  <2>3. UsbTypeOK
    BY <2>1, <2>2, Zenon DEF IInv, UsbTypeOK
  <2>4. Unconfigured /\ PacketWaits
    BY <2>2 DEF UsbInit, Init, Unconfigured, PacketWaits
  <2>5. NeverDeaf
    BY <2>2 DEF NeverDeaf
  <2> QED
    BY <2>1, <2>2, <2>3, <2>4, <2>5 DEF UsbIInv
<1>2. UsbIInv /\ [UsbNext]_usbVars => UsbIInv'
  <2> SUFFICES ASSUME UsbIInv, [UsbNext]_usbVars PROVE UsbIInv'
    OBVIOUS
  <2>1. CASE UsbRead
    BY <2>1, <1>UsbReadStep
  <2>2. ASSUME NEW len \in WriteLens, RxFifo(len) PROVE UsbIInv'
    BY <2>2, <1>RxFifoStep
  <2>3. CASE DataOut
    BY <2>3, <1>DataOutStep
  <2>4. CASE CDC_Init
    BY <2>4, <1>ConfigureStep
  <2>5. CASE UNCHANGED usbVars
    <3>1. UNCHANGED vars /\ UNCHANGED <<configs, armed, transferred, rxSize, cut>>
      BY <2>5 DEF usbVars, usb
    <3>2. ~cut => IInv'
      BY <3>1, NextIInv DEF UsbIInv
    <3>3. UNCHANGED <<buffers, bufferLengths, readIdx, activeBuffer, readPc, drained, want, avail,
                      accepted, consumed>>
      BY <3>1 DEF vars, shared, locals
    <3>4. UsbTypeOK' /\ Unconfigured'
      BY <3>1, <3>3, Zenon DEF UsbIInv, UsbTypeOK, TypeOK, Unconfigured
    <3>5. ~cut => PacketWaits' /\ NeverDeaf'
      BY <3>1, <3>3, Zenon DEF UsbIInv, PacketWaits, NeverDeaf
    <3> QED
      BY <3>1, <3>2, <3>3, <3>4, <3>5 DEF UsbIInv
  <2> QED
    BY <2>1, <2>2, <2>3, <2>4, <2>5 DEF UsbNext
<1> QED
  BY <1>1, <1>2, PTL DEF UsbSpec

(* The sizes CDC_Receive is given and the double buffer's own types stay in
   range across packets and configurations, wherever in a read these come.  And a
   configured endpoint accepts a packet or has one to be processed, CDC_Receive
   never leaving it unprepared, unless the last configuration cut a read. *)
THEOREM EndpointListens ==
  ASSUME Lockstep
  PROVE  UsbSpec => [](UsbTypeOK /\ NeverDeaf)
<1>1. UsbIInv => UsbTypeOK /\ NeverDeaf
  BY DEF UsbIInv, NeverDeaf
<1> QED
  BY <1>1, UsbInvariance, PTL

(* Every byte of a packet that CDC_Receive accepted is read once and in order, or
   is still there; a configuration discards whole what was unread.  No packet that
   lands in the double buffer's own memory overwrites a byte that is still to be
   read.  The one exception, part of both properties, lasts from a configuration
   that cuts a read to the next that does not. *)
THEOREM PacketsIntact ==
  ASSUME Lockstep
  PROVE  UsbSpec => [](StreamIntact /\ UnreadIntact)
<1>1. UsbIInv => StreamIntact /\ UnreadIntact
  BY DEF UsbIInv, IInv, Placement, StreamIntact, UnreadIntact
<1> QED
  BY <1>1, UsbInvariance, PTL
=============================================================================
