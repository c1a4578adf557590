------------------------------ MODULE UsartProofs ------------------------------
(***************************************************************************)
(* The console transmitter sends what was accepted, each byte once and in       *)
(* order, and drops bytes only when the ring is full: for every number and       *)
(* size of buffers and all sizes of writes, whatever the DMA and its interrupt   *)
(* do between the steps of the main loop.                                        *)
(***************************************************************************)
EXTENDS UsartTx, TLAPS

(* How far a buffer is behind the one being sent, in the order of the ring. *)
Dist(b) == IF b >= dmaTxBuffer THEN b - dmaTxBuffer ELSE b - dmaTxBuffer + NumBuffers

(* The buffer handed to the DMA; an overrun may extend its length, but the DMA
   sends the count it was given. *)
Sending(b) == b = dmaTxBuffer /\ txDmaActive

Kept(b) == IF Sending(b) THEN dma.ndtr ELSE txBufferLengths[b]

Full == \A b \in Buffers \ {dmaTxBuffer} : txBufferLengths[b] = BufferSize

(* The buffers that hold bytes follow each other, full but the last. *)
Prefix ==
  \A b, c \in Buffers :
    Dist(b) < Dist(c) /\ txBufferLengths[c] > 0 => txBufferLengths[b] = BufferSize \/ Sending(b)

(* usartWrite is at the last of them or will find those in between full. *)
Ready ==
  \A b \in Buffers :
    Dist(b) < Dist(nextTxBuffer) => txBufferLengths[b] = BufferSize \/ Sending(b)

(* The rest of usartWrite after an overrun: size has wrapped around, no data is
   left, and the buffer being sent is about to be filled up with other bytes. *)
Overrunning ==
  /\ mainPc = "write" /\ dataLeft = 0
  /\ size >= BufferSize - txBufferLengths[dmaTxBuffer]
  /\ Sending(nextTxBuffer)

RingOK ==
  /\ Prefix
  /\ Ready
  /\ Sending(nextTxBuffer) => Full
  /\ Full => txBufferLengths[dmaTxBuffer] = BufferSize \/ Overrunning
  /\ mainPc = "write" => dataLeft = size \/ (Full /\ dataLeft = 0)
  /\ mainPc # "write" => dataLeft = 0

(* A completion is flagged only when the transfer has ended; serviceTxDma clears
   the flag late, so that this may fail within it. *)
Finished == txDmaActive /\ ~dma.on /\ dma.pos = dma.ndtr

DmaOK ==
  /\ txDmaActive => /\ dma.buf = dmaTxBuffer /\ dma.pos <= dma.ndtr
                    /\ dma.ndtr <= txBufferLengths[dmaTxBuffer]
  /\ dma.on => txDmaActive
  /\ tcif => Finished
  /\ shouldServiceTxDma /\ mainPc # "service" => Finished /\ ~tcif

(* The stream positions before the first byte of each buffer. *)
Based(base) ==
  /\ \A b \in Buffers : \A i \in 0 .. Kept(b) - 1 : txBuffers[b][i] = base[b] + 1 + i
  /\ \A b \in Buffers :
       Succ(b) # dmaTxBuffer /\ txBufferLengths[Succ(b)] > 0 => base[Succ(b)] = base[b] + Kept(b)
  /\ \A b \in Buffers :
       /\ txBufferLengths[b] > 0 \/ b = dmaTxBuffer
       /\ Succ(b) = dmaTxBuffer \/ txBufferLengths[Succ(b)] = 0
       => base[b] + Kept(b) = accepted
  /\ sent = base[dmaTxBuffer] + (IF txDmaActive THEN dma.pos ELSE 0)

Placed == \E base \in [Buffers -> Int] : Based(base)

IInv == TypeOK /\ RingOK /\ DmaOK /\ Placed /\ InOrder

(* The uint16_t arithmetic of size: a difference that is not negative is kept,
   and 0 - n is 2^16 - n. *)
LEMMA UINT16Mod ==
  /\ UINT16 \in Nat /\ UINT16 > 0
  /\ \A n \in 0 .. UINT16 - 1 : n % UINT16 = n
  /\ \A n \in 1 .. UINT16 - 1 : (0 - n) % UINT16 = UINT16 - n
<1>1. UINT16 \in Nat /\ UINT16 > 0
  BY SMT DEF UINT16
<1>2. ASSUME NEW n \in Int, 0 <= n, n < UINT16 PROVE n % UINT16 = n
  BY <1>1, <1>2, SMT
<1>3. ASSUME NEW n \in Int, 0 < n, n < UINT16 PROVE (0 - n) % UINT16 = UINT16 - n
  BY <1>1, <1>3, SMT
<1> QED
  BY <1>1, <1>2, <1>3

(* The ring of buffers, counted from the one being sent. *)
LEMMA RingOrder ==
  ASSUME dmaTxBuffer \in Buffers
  PROVE  /\ \A b \in Buffers : /\ Succ(b) \in Buffers /\ Succ(b) # b
                               /\ Dist(b) \in 0 .. NumBuffers - 1
                               /\ Dist(b) = 0 <=> b = dmaTxBuffer
                               /\ Dist(b) = NumBuffers - 1 <=> Succ(b) = dmaTxBuffer
                               /\ Succ(b) # dmaTxBuffer => Dist(Succ(b)) = Dist(b) + 1
         /\ \A b, c \in Buffers : Dist(b) = Dist(c) => b = c
         /\ \E b \in Buffers : Succ(b) = dmaTxBuffer
<1>0. NumBuffers \in Nat /\ NumBuffers > 1
  BY UsartConstants
<1>1. ASSUME NEW b \in Buffers
      PROVE  /\ Succ(b) \in Buffers /\ Succ(b) # b
             /\ Dist(b) \in 0 .. NumBuffers - 1
             /\ Dist(b) = 0 <=> b = dmaTxBuffer
             /\ Dist(b) = NumBuffers - 1 <=> Succ(b) = dmaTxBuffer
             /\ Succ(b) # dmaTxBuffer => Dist(Succ(b)) = Dist(b) + 1
  <2>1. b \in 0 .. NumBuffers - 1 /\ dmaTxBuffer \in 0 .. NumBuffers - 1
    BY DEF Buffers
  <2>2. Succ(b) \in Buffers /\ Succ(b) # b
    BY <1>0, <2>1 DEF Succ, Buffers
  <2>3. Dist(b) \in 0 .. NumBuffers - 1 /\ (Dist(b) = 0 <=> b = dmaTxBuffer)
    BY <1>0, <2>1 DEF Dist
  <2>4. Dist(b) = NumBuffers - 1 <=> Succ(b) = dmaTxBuffer
    BY <1>0, <2>1 DEF Dist, Succ
  <2>5. Succ(b) # dmaTxBuffer => Dist(Succ(b)) = Dist(b) + 1
    BY <1>0, <2>1 DEF Dist, Succ
  <2> QED
    BY <2>2, <2>3, <2>4, <2>5
<1>2. \A b, c \in Buffers : Dist(b) = Dist(c) => b = c
  BY <1>0 DEF Dist, Buffers
<1>3. \E b \in Buffers : Succ(b) = dmaTxBuffer
  <2>1. CASE dmaTxBuffer = 0
    <3>1. NumBuffers - 1 \in Buffers /\ Succ(NumBuffers - 1) = dmaTxBuffer
      BY <1>0, <2>1 DEF Succ, Buffers
    <3> QED
      BY <3>1
  <2>2. CASE dmaTxBuffer # 0
    <3>1. dmaTxBuffer - 1 \in Buffers /\ Succ(dmaTxBuffer - 1) = dmaTxBuffer
      BY <1>0, <2>2 DEF Succ, Buffers
    <3> QED
      BY <3>1
  <2> QED
    BY <2>1, <2>2
<1> QED
  BY <1>1, <1>2, <1>3

(* One round of usartWrite's loop keeps the invariant.  It finds the buffer full
   and goes on to the next, or appends data at the end of the stream, or, after
   an overrun, fills the buffer being sent behind what the DMA was given.  It
   drops data only when every other buffer is full. *)
LEMMA RoundStep ==
  ASSUME IInv, usartWrite_round
  PROVE  /\ IInv'
         /\ accepted' - accepted < dataLeft - dataLeft' => Full'
<1>0. PICK n, at, k, own :
        /\ n = nextTxBuffer /\ at = txBufferLengths[n]
        /\ k = Least(size, BufferSize - at) /\ own = Least(k, dataLeft)
  OBVIOUS
<1>n. n = nextTxBuffer /\ at = txBufferLengths[n]
  BY <1>0
<1> USE <1>n
<1>1. /\ mainPc = "write" /\ size > 0
      /\ txBuffers' = [txBuffers EXCEPT ![n] = Copied(txBuffers[n], at, k, own)]
      /\ txBufferLengths' = [txBufferLengths EXCEPT ![n] = at + k]
      /\ nextTxBuffer' = (IF at + k = BufferSize THEN Succ(n) ELSE n)
      /\ size' = ((IF at + k = BufferSize /\ Succ(n) = dmaTxBuffer THEN 0 ELSE size) - k) % UINT16
      /\ dataLeft' = (IF at + k = BufferSize /\ Succ(n) = dmaTxBuffer THEN 0 ELSE dataLeft - own)
      /\ accepted' = accepted + own
      /\ mainPc' = mainPc /\ UNCHANGED <<dmaTxBuffer, dma, offered, sent, lastSent>>
  BY <1>0 DEF usartWrite_round, IsFull, IsOverrun, wire
<1>2. UNCHANGED <<txDmaActive, shouldServiceTxDma, tcif>>
  BY DEF usartWrite_round
<1>3. /\ n \in Buffers /\ dmaTxBuffer \in Buffers /\ txBufferLengths \in [Buffers -> 0 .. BufferSize]
      /\ BufferSize \in Nat /\ BufferSize > 0 /\ 2 * BufferSize < UINT16 /\ UINT16 \in Nat
      /\ size \in 0 .. UINT16 - 1 /\ dataLeft \in 0 .. UINT16 - 1 /\ accepted \in Nat
      /\ txBuffers \in [Buffers -> [Slots -> Nat]]
  BY <1>0, UsartConstants, UINT16Mod DEF IInv, TypeOK
<1>4. /\ at \in 0 .. BufferSize /\ k \in 0 .. BufferSize /\ at + k <= BufferSize /\ k <= size
      /\ own \in 0 .. k /\ own <= dataLeft /\ (dataLeft = size => own = k) /\ (dataLeft = 0 => own = 0)
      /\ (at < BufferSize => k > 0) /\ (size >= BufferSize - at => at + k = BufferSize)
  BY <1>0, <1>1, <1>3 DEF Least
<1>m. /\ at \in Nat /\ k \in Nat /\ own \in Nat /\ accepted \in Nat /\ BufferSize \in Nat
      /\ at + k <= BufferSize /\ n \in Buffers
  BY <1>3, <1>4
<1>5. /\ size' \in 0 .. UINT16 - 1
      /\ (at + k = BufferSize /\ Succ(n) = dmaTxBuffer) => size' = IF k = 0 THEN 0 ELSE UINT16 - k
      /\ ~(at + k = BufferSize /\ Succ(n) = dmaTxBuffer) => size' = size - k
      /\ dataLeft' \in 0 .. UINT16 - 1
  <2>1. CASE at + k = BufferSize /\ Succ(n) = dmaTxBuffer
    <3>1. size' = (0 - k) % UINT16 /\ dataLeft' = 0 /\ k \in Nat /\ k < UINT16
      BY <1>1, <1>3, <1>4, <2>1
    <3>2. (0 - k) % UINT16 = IF k = 0 THEN 0 ELSE UINT16 - k
      <4>1. UINT16 \in Nat /\ UINT16 > 0
        BY UINT16Mod
      <4>2. k \in Int /\ 0 <= k /\ k < UINT16
        BY <3>1
      <4> QED
        BY <4>1, <4>2, SMT
    <3> QED
      BY <2>1, <3>1, <3>2, UINT16Mod
  <2>2. CASE ~(at + k = BufferSize /\ Succ(n) = dmaTxBuffer)
    <3>1. size' = (size - k) % UINT16 /\ dataLeft' = dataLeft - own /\ size - k \in 0 .. UINT16 - 1
      <4>1. size' = (size - k) % UINT16 /\ dataLeft' = dataLeft - own
        BY <1>1, <2>2, Zenon
      <4>2. size - k \in 0 .. UINT16 - 1
        BY <1>3, <1>4
      <4> QED
        BY <4>1, <4>2
    <3>2. size' = size - k
      <4>1. (size - k) % UINT16 = size - k
        BY <3>1, UINT16Mod
      <4> QED
        BY <3>1, <4>1
    <3> QED
      BY <1>3, <1>4, <2>2, <3>1, <3>2
  <2> QED
    BY <2>1, <2>2
<1>6. /\ txBufferLengths' \in [Buffers -> 0 .. BufferSize] /\ txBufferLengths'[n] = at + k
      /\ \A b \in Buffers : b # n => txBufferLengths'[b] = txBufferLengths[b] /\ txBuffers'[b] = txBuffers[b]
      /\ nextTxBuffer' \in Buffers
  BY <1>1, <1>3, <1>4, RingOrder
<1>7. /\ txBuffers'[n] = Copied(txBuffers[n], at, k, own)
      /\ \A i \in Slots : txBuffers'[n][i] =
           IF i \in at .. at + k - 1
             THEN IF i < at + own THEN accepted + 1 + (i - at) ELSE 0
             ELSE txBuffers[n][i]
  BY <1>1, <1>3 DEF Copied, Unknown
<1>8. txBuffers' \in [Buffers -> [Slots -> Nat]]
  <2>1. ASSUME NEW i \in Slots PROVE txBuffers'[n][i] \in Nat
    <3>1. txBuffers[n][i] \in Nat /\ i \in Nat
      BY <1>3 DEF Slots
    <3> QED
      BY <1>3, <1>4, <1>7, <3>1
  <2>2. Copied(txBuffers[n], at, k, own) \in [Slots -> Nat]
    <3>1. Copied(txBuffers[n], at, k, own)
            = [i \in Slots |-> Copied(txBuffers[n], at, k, own)[i]]
      BY DEF Copied
    <3> QED
      BY <1>7, <2>1, <3>1
  <2> QED
    BY <1>1, <1>3, <2>2
<1>9. TypeOK'
  <2>1. accepted' \in Nat
    BY <1>1, <1>3, <1>4
  <2>2. {offered', accepted', sent', lastSent'} \subseteq Nat
    BY <1>1, <2>1 DEF IInv, TypeOK
  <2>3. size' \in 0 .. UINT16 - 1 /\ dataLeft' \in 0 .. UINT16 - 1
    BY <1>5
  <2>4. /\ dmaTxBuffer' \in Buffers /\ mainPc' \in {"loop", "write", "service"}
        /\ dma' \in [on : BOOLEAN, buf : Buffers, ndtr : 0 .. BufferSize, pos : 0 .. BufferSize]
        /\ txDmaActive' \in BOOLEAN /\ shouldServiceTxDma' \in BOOLEAN /\ tcif' \in BOOLEAN
    BY <1>1, <1>2, Zenon DEF IInv, TypeOK
  <2> QED
    BY <1>6, <1>8, <2>2, <2>3, <2>4, Zenon DEF TypeOK
<1>10. /\ \A b : Sending(b)' <=> Sending(b)
       /\ \A b : Dist(b)' = Dist(b)
       /\ txBufferLengths[dmaTxBuffer] <= txBufferLengths'[dmaTxBuffer]
  <2>1. txBufferLengths[dmaTxBuffer] <= txBufferLengths'[dmaTxBuffer]
    BY <1>3, <1>4, <1>6
  <2> QED
    BY <1>1, <1>2, <2>1 DEF Sending, Dist
<1>11. DmaOK' /\ InOrder'
  <2>1. txDmaActive => dma.ndtr <= txBufferLengths'[dmaTxBuffer]
    <3>1. txDmaActive => dma.ndtr <= txBufferLengths[dmaTxBuffer]
      BY DEF IInv, DmaOK
    <3>2. dma.ndtr \in Int /\ txBufferLengths[dmaTxBuffer] \in Int /\ txBufferLengths'[dmaTxBuffer] \in Int
      BY <1>3, <1>6 DEF IInv, TypeOK
    <3> QED
      BY <1>10, <3>1, <3>2
  <2> QED
    BY <1>1, <1>2, <2>1, Zenon DEF IInv, DmaOK, Finished, InOrder
<1>12. /\ \A b \in Buffers : /\ Succ(b) \in Buffers /\ Succ(b) # b /\ Dist(b) \in 0 .. NumBuffers - 1
                             /\ Dist(b) = 0 <=> b = dmaTxBuffer
                             /\ Dist(b) = NumBuffers - 1 <=> Succ(b) = dmaTxBuffer
                             /\ Succ(b) # dmaTxBuffer => Dist(Succ(b)) = Dist(b) + 1
       /\ \A b, c \in Buffers : Dist(b) = Dist(c) => b = c
       /\ \E b \in Buffers : Succ(b) = dmaTxBuffer
       /\ NumBuffers \in Nat
  BY <1>3, RingOrder, UsartConstants
<1>13. /\ \A b \in Buffers : /\ txBufferLengths[b] \in 0 .. BufferSize
                             /\ txBufferLengths'[b] \in 0 .. BufferSize
                             /\ txBufferLengths[b] <= txBufferLengths'[b]
  BY <1>3, <1>4, <1>6
<1>14. (at + k = BufferSize /\ Succ(n) = dmaTxBuffer) => Full'
  <2> SUFFICES ASSUME at + k = BufferSize, Succ(n) = dmaTxBuffer,
                      NEW b \in Buffers, b # dmaTxBuffer
               PROVE  txBufferLengths'[b] = BufferSize
    BY <1>1 DEF Full
  <2>1. CASE b = n
    BY <2>1, <1>6
  <2>2. CASE b # n
    <3>1. Dist(b) < Dist(n)
      BY <1>3, <1>12, <2>2
    <3>2. txBufferLengths[b] = BufferSize
      BY <3>1 DEF IInv, RingOK, Ready, Sending
    <3> QED
      BY <1>6, <2>2, <3>2
  <2> QED
    BY <2>1, <2>2
<1>15. Full => Full'
  BY <1>1, <1>3, <1>13 DEF Full
<1>16. Prefix'
  <2> SUFFICES ASSUME NEW b \in Buffers, NEW c \in Buffers, Dist(b) < Dist(c), txBufferLengths'[c] > 0
               PROVE  txBufferLengths'[b] = BufferSize \/ Sending(b)
    BY <1>10 DEF Prefix
  <2>1. CASE txBufferLengths[c] > 0
    BY <1>13, <1>3, <2>1 DEF IInv, RingOK, Prefix
  <2>2. CASE c = n
    BY <1>13, <1>3, <2>2 DEF IInv, RingOK, Ready
  <2> QED
    BY <1>6, <1>13, <2>1, <2>2
<1>17. Ready'
  <2> SUFFICES ASSUME NEW b \in Buffers, Dist(b) < Dist(nextTxBuffer')
               PROVE  txBufferLengths'[b] = BufferSize \/ Sending(b)
    BY <1>1, <1>10 DEF Ready, Dist
  <2>1. CASE Dist(b) < Dist(n)
    BY <1>13, <1>3, <2>1 DEF IInv, RingOK, Ready
  <2>2. CASE b = n /\ at + k = BufferSize
    BY <1>6, <2>2
  <2> QED
    <3>1. nextTxBuffer' = n \/ (nextTxBuffer' = Succ(n) /\ at + k = BufferSize)
      BY <1>1
    <3>2. Dist(b) < Dist(n) \/ (b = n /\ at + k = BufferSize)
      BY <1>m, <1>12, <3>1
    <3> QED
      BY <2>1, <2>2, <3>2
<1>18. Full' => txBufferLengths'[dmaTxBuffer] = BufferSize \/ Overrunning'
  <2>1. CASE Full
    <3>1. txBufferLengths[dmaTxBuffer] = BufferSize \/ Overrunning
      BY <2>1 DEF IInv, RingOK
    <3> QED
      BY <1>3, <1>4, <1>6, <1>13, <3>1 DEF Overrunning, Sending
  <2>2. CASE ~Full /\ Full'
    <3>1. n # dmaTxBuffer /\ at < BufferSize /\ at + k = BufferSize
      BY <1>1, <1>3, <1>4, <1>6, <2>2 DEF Full
    <3>2. Succ(n) = dmaTxBuffer
      <4>1. PICK b \in Buffers : Succ(b) = dmaTxBuffer
        BY <1>12
      <4>2. b # dmaTxBuffer /\ txBufferLengths'[b] = BufferSize
        BY <1>1, <1>12, <2>2, <4>1 DEF Full
      <4>3. b # n => Dist(n) < Dist(b) /\ txBufferLengths[b] > 0
        BY <1>3, <1>6, <1>12, <4>1, <4>2
      <4> QED
        BY <1>3, <3>1, <4>1, <4>3 DEF IInv, RingOK, Prefix, Sending
    <3>3. txBufferLengths[dmaTxBuffer] = BufferSize \/ txDmaActive
      BY <1>3, <1>12, <3>1 DEF IInv, RingOK, Ready, Sending
    <3>4. CASE txBufferLengths[dmaTxBuffer] = BufferSize
      BY <1>3, <1>13, <3>4
    <3>5. CASE txDmaActive
      <4>1. dataLeft' = 0 /\ nextTxBuffer' = dmaTxBuffer /\ size' = UINT16 - k
        BY <1>1, <1>4, <1>5, <3>1, <3>2
      <4>2. size' >= BufferSize - txBufferLengths'[dmaTxBuffer]
        BY <1>3, <1>4, <1>13, <4>1
      <4> QED
        BY <1>1, <1>2, <3>5, <4>1, <4>2 DEF Overrunning, Sending
    <3> QED
      BY <3>3, <3>4, <3>5
  <2> QED
    BY <2>1, <2>2
<1>19. Sending(nextTxBuffer)' => Full'
  <2>1. CASE at + k = BufferSize
    BY <1>1, <1>2, <1>14, <2>1 DEF Sending
  <2>2. CASE at + k # BufferSize
    <3>1. Sending(nextTxBuffer)' => Sending(n)
      BY <1>1, <1>2, <2>2 DEF Sending
    <3> QED
      BY <1>15, <3>1 DEF IInv, RingOK
  <2> QED
    BY <2>1, <2>2
<1>20. mainPc' = "write" => dataLeft' = size' \/ (Full' /\ dataLeft' = 0)
  <2>1. dataLeft = size \/ (Full /\ dataLeft = 0)
    BY <1>1 DEF IInv, RingOK
  <2>2. CASE at + k = BufferSize /\ Succ(n) = dmaTxBuffer
    BY <1>1, <1>14, <2>2
  <2>3. CASE ~(at + k = BufferSize /\ Succ(n) = dmaTxBuffer)
    <3>1. dataLeft' = dataLeft - own /\ size' = size - k
      BY <1>1, <1>5, <2>3, Zenon
    <3> QED
      BY <1>3, <1>4, <1>15, <2>1, <3>1
  <2> QED
    BY <2>2, <2>3
<1>21. RingOK'
  BY <1>1, <1>16, <1>17, <1>18, <1>19, <1>20 DEF RingOK
<1>22. accepted' - accepted < dataLeft - dataLeft' => Full'
  BY <1>1, <1>3, <1>4, <1>14
<1>23. \A b \in Buffers : Kept(b)' = IF b = n /\ ~Sending(b) THEN at + k ELSE Kept(b)
  BY <1>1, <1>6, <1>10 DEF Kept
<1>24. PICK base \in [Buffers -> Int] : Based(base)
  BY DEF IInv, Placed
<1>25. Sending(n) => Kept(n) <= at /\ own = 0
  <2>1. ASSUME Sending(n) PROVE Kept(n) <= at
    BY <2>1 DEF Kept, Sending, IInv, DmaOK
  <2>2. ASSUME Sending(n) PROVE own = 0
    <3>1. txBufferLengths[dmaTxBuffer] = BufferSize \/ dataLeft = 0
      BY <2>2 DEF IInv, RingOK, Overrunning
    <3> QED
      BY <1>3, <1>4, <2>2, <3>1 DEF Sending
  <2> QED
    BY <2>1, <2>2
<1>26. \A b \in Buffers : Kept(b) \in 0 .. BufferSize /\ Succ(b) \in Buffers
  <2>1. dma.ndtr \in 0 .. BufferSize
    BY DEF IInv, TypeOK
  <2> QED
    BY <1>12, <1>13, <2>1 DEF Kept
<1>27. ASSUME Sending(n) \/ k = 0 PROVE Placed'
  <2>1. /\ accepted' = accepted
        /\ \A b \in Buffers : Kept(b)' = Kept(b)
        /\ \A b \in Buffers : b # dmaTxBuffer => txBufferLengths'[b] = txBufferLengths[b]
    <3>1. own = 0 /\ accepted' = accepted
      BY <1>1, <1>3, <1>4, <1>25, <1>27
    <3>2. \A b \in Buffers : Kept(b)' = Kept(b)
      BY <1>3, <1>4, <1>23, <1>27 DEF Kept
    <3>3. \A b \in Buffers : b # dmaTxBuffer => txBufferLengths'[b] = txBufferLengths[b]
      BY <1>3, <1>4, <1>6, <1>27 DEF Sending
    <3> QED
      BY <3>1, <3>2, <3>3
  <2>2. ASSUME NEW b \in Buffers, NEW i \in 0 .. Kept(b) - 1
        PROVE  txBuffers'[b][i] = txBuffers[b][i]
    <3>1. CASE b # n
      BY <1>6, <3>1
    <3>2. CASE b = n
      <4>1. i \in Slots /\ ~(i \in at .. at + k - 1)
        <5>1. n \in Buffers /\ Kept(n) \in 0 .. BufferSize /\ (Kept(n) <= at \/ k = 0)
          BY <1>3, <1>25, <1>26, <1>27
        <5>2. i \in Int /\ 0 <= i /\ i < Kept(n)
          BY <3>2, <5>1
        <5> QED
          BY <1>m, <5>1, <5>2 DEF Slots
      <4> QED
        BY <1>7, <3>2, <4>1
    <3> QED
      BY <3>1, <3>2
  <2>3. Based(base)'
    <3>1. \A b \in Buffers : \A i \in 0 .. Kept(b)' - 1 : txBuffers'[b][i] = base[b] + 1 + i
      BY <1>24, <2>1, <2>2 DEF Based
    <3>2. \A b \in Buffers :
            Succ(b) # dmaTxBuffer /\ txBufferLengths'[Succ(b)] > 0
              => base[Succ(b)] = base[b] + Kept(b)'
      BY <1>24, <1>26, <2>1 DEF Based
    <3>3. \A b \in Buffers :
            /\ txBufferLengths'[b] > 0 \/ b = dmaTxBuffer
            /\ Succ(b) = dmaTxBuffer \/ txBufferLengths'[Succ(b)] = 0
            => base[b] + Kept(b)' = accepted'
      BY <1>24, <1>26, <2>1 DEF Based
    <3>4. sent' = base[dmaTxBuffer'] + (IF txDmaActive' THEN dma'.pos ELSE 0)
      BY <1>1, <1>2, <1>24 DEF Based
    <3> QED
      BY <1>1, <3>1, <3>2, <3>3, <3>4 DEF Based, Succ
  <2> QED
    BY <1>24, <2>3 DEF Placed, Based
<1>28. ASSUME ~Sending(n), k > 0 PROVE Placed'
  <2>1. at < BufferSize /\ own = k /\ accepted' = accepted + k
    <3>1. at < BufferSize
      BY <1>3, <1>4, <1>28
    <3>2. ~Full
      BY <1>3, <3>1, <1>28 DEF IInv, RingOK, Full, Overrunning
    <3> QED
      BY <1>1, <1>3, <1>4, <3>1, <3>2 DEF IInv, RingOK
  <2>2. \A b \in Buffers : Dist(n) < Dist(b) => txBufferLengths[b] = 0
    BY <1>3, <1>13, <1>28, <2>1 DEF IInv, RingOK, Prefix
  <2>3. Succ(n) = dmaTxBuffer \/ txBufferLengths[Succ(n)] = 0
    BY <1>3, <1>12, <2>2
  <2>4. /\ Kept(n) = at /\ Kept(n)' = at + k
        /\ \A b \in Buffers : b # n => Kept(b)' = Kept(b)
    BY <1>3, <1>23, <1>28 DEF Kept
  <2>5. at > 0 \/ n = dmaTxBuffer => base[n] + at = accepted
    BY <1>3, <1>24, <2>3, <2>4 DEF Based
  <2>6. PICK next \in [Buffers -> Int] :
              /\ next[n] + at = accepted
              /\ \A b \in Buffers : b # n => next[b] = base[b]
    <3>1. [base EXCEPT ![n] = accepted - at] \in [Buffers -> Int]
      BY <1>3, <1>4
    <3>2. /\ [base EXCEPT ![n] = accepted - at][n] + at = accepted
          /\ \A b \in Buffers : b # n
               => [base EXCEPT ![n] = accepted - at][b] = base[b]
      BY <1>3, <1>4
    <3> QED
      BY <3>1, <3>2, Zenon
  <2>7. at > 0 \/ n = dmaTxBuffer => next[n] = base[n]
    <3>1. base[n] \in Int /\ next[n] \in Int
      BY <1>m
    <3> QED
      BY <1>m, <2>5, <2>6, <3>1
  <2>8. ASSUME NEW b \in Buffers, NEW i \in 0 .. Kept(b)' - 1
        PROVE  txBuffers'[b][i] = next[b] + 1 + i
    <3>1. CASE b # n
      <4>1. i \in 0 .. Kept(b) - 1 /\ txBuffers'[b] = txBuffers[b] /\ next[b] = base[b]
        BY <1>6, <2>4, <2>6, <3>1
      <4> QED
        BY <1>24, <4>1 DEF Based
    <3>2. CASE b = n /\ i < at
      <4>1. i \in 0 .. Kept(b) - 1 /\ next[b] = base[b] /\ i \in Slots /\ ~(i \in at .. at + k - 1)
        <5>1. i \in Int /\ 0 <= i /\ Kept(b) = at
          BY <1>m, <2>4, <3>2
        <5> QED
          BY <1>m, <2>7, <3>2, <5>1 DEF Slots
      <4>2. txBuffers[b][i] = base[b] + 1 + i
        BY <1>24, <4>1 DEF Based
      <4> QED
        BY <1>7, <3>2, <4>1, <4>2
    <3>3. CASE b = n /\ at <= i
      <4>1. i \in Slots /\ i \in at .. at + k - 1 /\ i < at + own
        <5>1. i \in Int /\ 0 <= i /\ i < at + k
          BY <1>m, <2>4, <3>3
        <5> QED
          BY <1>m, <2>1, <3>3, <5>1 DEF Slots
      <4>2. txBuffers'[b][i] = accepted + 1 + (i - at)
        BY <1>7, <3>3, <4>1
      <4>3. next[b] \in Int /\ next[b] + at = accepted /\ i \in Int
        BY <2>6, <3>3, <4>1 DEF Slots
      <4>4. accepted + 1 + (i - at) = next[b] + 1 + i
        BY <1>m, <4>3
      <4> QED
        BY <4>2, <4>4
    <3> QED
      BY <1>4, <1>26, <2>4, <3>1, <3>2, <3>3
  <2>9. ASSUME NEW b \in Buffers, Succ(b) # dmaTxBuffer, txBufferLengths'[Succ(b)] > 0
        PROVE  next[Succ(b)] = next[b] + Kept(b)'
    <3>1. b # n
      BY <1>3, <1>6, <1>12, <2>3, <2>9
    <3>2. Kept(b)' = Kept(b) /\ next[b] = base[b]
      BY <2>4, <2>6, <3>1
    <3>3. CASE txBufferLengths[Succ(b)] > 0
      <4>1. base[Succ(b)] = base[b] + Kept(b)
        BY <1>24, <2>9, <3>3 DEF Based
      <4>2. next[Succ(b)] = base[Succ(b)]
        BY <1>12, <2>6, <2>7, <3>3
      <4> QED
        BY <3>2, <4>1, <4>2
    <3>4. CASE Succ(b) = n /\ at = 0
      <4>1. Dist(b) < Dist(n)
        BY <1>12, <2>9, <3>4
      <4>2. txBufferLengths[b] > 0 \/ b = dmaTxBuffer
        BY <1>3, <4>1 DEF IInv, RingOK, Ready, Sending
      <4>3. base[b] + Kept(b) = accepted
        BY <1>24, <3>4, <4>2, Zenon DEF Based
      <4>4. next[Succ(b)] = accepted
        BY <1>3, <2>6, <3>4
      <4> QED
        BY <3>2, <4>3, <4>4
    <3> QED
      BY <1>6, <1>12, <1>13, <2>9, <3>3, <3>4
  <2>10. ASSUME NEW b \in Buffers, txBufferLengths'[b] > 0 \/ b = dmaTxBuffer,
                Succ(b) = dmaTxBuffer \/ txBufferLengths'[Succ(b)] = 0
         PROVE  b = n
    <3> SUFFICES ASSUME b # n PROVE FALSE
      OBVIOUS
    <3>1. Dist(b) < Dist(n)
      <4>1. txBufferLengths[b] > 0 \/ Dist(b) = 0
        BY <1>6, <1>12, <2>10
      <4>2. ~(Dist(n) < Dist(b))
        BY <1>3, <1>12, <2>2, <4>1
      <4> QED
        <5>1. Dist(b) \in Int /\ Dist(n) \in Int /\ Dist(b) # Dist(n)
          BY <1>m, <1>12
        <5> QED
          BY <4>2, <5>1
    <3>2. /\ Succ(b) # dmaTxBuffer /\ txBufferLengths'[Succ(b)] = 0 /\ Succ(b) \in Buffers
          /\ Dist(Succ(b)) = Dist(b) + 1
      BY <1>3, <1>12, <2>10, <3>1
    <3>3. Succ(b) # n
      BY <1>3, <1>4, <1>6, <1>28, <3>2
    <3>4. Dist(Succ(b)) < Dist(n)
      BY <1>3, <1>12, <3>1, <3>2, <3>3
    <3>5. txBufferLengths[Succ(b)] = BufferSize
      BY <3>2, <3>4 DEF IInv, RingOK, Ready, Sending
    <3> QED
      BY <1>3, <1>6, <3>2, <3>3, <3>5
  <2>11. next[n] + Kept(n)' = accepted'
    <3>1. next[n] \in Int
      BY <1>m
    <3> QED
      BY <1>m, <2>1, <2>4, <2>6, <3>1
  <2>12. sent' = next[dmaTxBuffer'] + (IF txDmaActive' THEN dma'.pos ELSE 0)
    <3>1. next[dmaTxBuffer] = base[dmaTxBuffer]
      BY <1>3, <2>6, <2>7
    <3> QED
      BY <1>1, <1>2, <1>24, <3>1 DEF Based
  <2>13. Based(next)'
    <3>1. \A b \in Buffers :
            /\ txBufferLengths'[b] > 0 \/ b = dmaTxBuffer
            /\ Succ(b) = dmaTxBuffer \/ txBufferLengths'[Succ(b)] = 0
            => next[b] + Kept(b)' = accepted'
      BY <2>10, <2>11
    <3> QED
      BY <1>1, <2>8, <2>9, <2>12, <3>1 DEF Based, Succ
  <2> QED
    BY <2>13 DEF Placed, Based
<1>29. Placed'
  BY <1>4, <1>27, <1>28
<1> QED
  BY <1>9, <1>11, <1>21, <1>22, <1>29 DEF IInv

(* The inductive invariant of the transmitter holds in every reachable state. *)
THEOREM Invariance == Spec => []IInv
(* The ring before the first usartWrite. *)
<1>InitIInv. Init => IInv
  <2> SUFFICES ASSUME Init PROVE IInv
    OBVIOUS
  <2>1. /\ txBuffers = [b \in Buffers |-> [i \in Slots |-> 0]]
        /\ txBufferLengths = [b \in Buffers |-> 0]
        /\ nextTxBuffer = 0 /\ dmaTxBuffer = 0 /\ mainPc = "loop" /\ size = 0 /\ dataLeft = 0
        /\ offered = 0 /\ accepted = 0 /\ sent = 0 /\ lastSent = 0
    BY DEF Init, Unknown
  <2>2. /\ txDmaActive = FALSE /\ shouldServiceTxDma = FALSE /\ tcif = FALSE
        /\ dma = [on |-> FALSE, buf |-> 0, ndtr |-> 0, pos |-> 0]
    BY DEF Init
  <2>3. 0 \in Buffers /\ 1 \in Buffers /\ 0 \in 0 .. BufferSize /\ BufferSize # 0
    BY UsartConstants DEF Buffers
  <2>4. TypeOK
    <3>1. dma \in [on : BOOLEAN, buf : Buffers, ndtr : 0 .. BufferSize, pos : 0 .. BufferSize]
      BY <2>2, <2>3
    <3>2. /\ txBuffers \in [Buffers -> [Slots -> Nat]]
          /\ txBufferLengths \in [Buffers -> 0 .. BufferSize]
          /\ size \in 0 .. UINT16 - 1 /\ dataLeft \in 0 .. UINT16 - 1
          /\ {offered, accepted, sent, lastSent} \subseteq Nat
      BY <2>1, <2>3 DEF UINT16
    <3> QED
      BY <2>1, <2>2, <2>3, <3>1, <3>2, Zenon DEF TypeOK
  <2>5. \A b \in Buffers : Succ(b) \in Buffers /\ ~(Dist(b) < 0) /\ Dist(b) \in Int /\ Dist(0) = 0
    BY <2>1, <2>3, RingOrder
  <2>6. RingOK
    <3>1. Prefix
      BY <2>1 DEF Prefix
    <3>2. Ready
      BY <2>1, <2>5 DEF Ready
    <3>3. ~Full
      BY <2>1, <2>3 DEF Full
    <3> QED
      BY <2>1, <2>2, <3>1, <3>2, <3>3 DEF RingOK, Sending
  <2>7. DmaOK
    BY <2>2 DEF DmaOK, Finished
  <2>8. Placed
    <3>1. [b \in Buffers |-> 0] \in [Buffers -> Int]
      OBVIOUS
    <3>2. \A b \in Buffers : Kept(b) = 0
      BY <2>1, <2>2 DEF Kept, Sending
    <3>3. Based([b \in Buffers |-> 0])
      BY <2>1, <2>2, <2>3, <2>5, <3>2 DEF Based
    <3> QED
      BY <3>1, <3>3 DEF Placed
  <2> QED
    BY <2>1, <2>4, <2>6, <2>7, <2>8 DEF IInv, InOrder

(* The end of usartWrite keeps the invariant: an idle DMA is given the buffer that
   was filled first, and usartWrite moves off it. *)
<1>ReturnStep.
  ASSUME IInv, usartWrite_return
  PROVE  IInv'
  <2> USE <1>ReturnStep
  <2>1. /\ size = 0 /\ mainPc = "write" /\ mainPc' = "loop"
        /\ UNCHANGED <<txBuffers, txBufferLengths, dmaTxBuffer, size, dataLeft, offered, accepted,
                       sent, lastSent>>
    BY DEF usartWrite_return, caller, wire
  <2>2. UNCHANGED <<shouldServiceTxDma, tcif>>
    BY DEF usartWrite_return
  <2>3. /\ nextTxBuffer \in Buffers /\ dmaTxBuffer \in Buffers
        /\ txBufferLengths[dmaTxBuffer] \in 0 .. BufferSize /\ BufferSize \in Nat
    BY UsartConstants DEF IInv, TypeOK
  <2>4. \A b \in Buffers : Dist(b)' = Dist(b)
    BY <2>1 DEF Dist
  <2>5. dataLeft = 0 /\ (Full => txBufferLengths[dmaTxBuffer] = BufferSize)
    BY <2>1, <2>3 DEF IInv, RingOK, Overrunning
  <2>6. Full' <=> Full
    BY <2>1 DEF Full
  <2>7. CASE txDmaActive
    <3>1. UNCHANGED <<dma, nextTxBuffer>> /\ txDmaActive'
      BY <2>7 DEF usartWrite_return
    <3>2. TypeOK'
      <4>1. txDmaActive' \in BOOLEAN
        BY <2>7 DEF usartWrite_return, IInv, TypeOK
      <4> QED
        BY <2>1, <2>2, <3>1, <4>1, Zenon DEF IInv, TypeOK
    <3>3. \A b : (Sending(b)' <=> Sending(b)) /\ Kept(b)' = Kept(b)
      BY <2>1, <2>7, <3>1 DEF Sending, Kept
    <3>4. Prefix' /\ Ready'
      BY <2>1, <2>3, <2>4, <3>1, <3>3 DEF IInv, RingOK, Prefix, Ready
    <3>5. Sending(nextTxBuffer)' => Full'
      BY <2>1, <2>6, <2>7, <3>1 DEF IInv, RingOK, Sending
    <3>6. RingOK'
      BY <2>1, <2>5, <2>6, <3>4, <3>5 DEF RingOK
    <3>7. DmaOK' /\ InOrder'
      BY <2>1, <2>2, <2>7, <3>1, Zenon DEF IInv, DmaOK, Finished, InOrder
    <3>8. Placed'
      BY <2>1, <2>7, <3>1, <3>3 DEF IInv, Placed, Based, Succ
    <3> QED
      BY <3>2, <3>6, <3>7, <3>8 DEF IInv
  <2>8. CASE ~txDmaActive
    <3>1. /\ dma' = [on |-> TRUE, buf |-> dmaTxBuffer, ndtr |-> txBufferLengths[dmaTxBuffer], pos |-> 0]
          /\ txDmaActive' = TRUE
          /\ nextTxBuffer' = IF nextTxBuffer = dmaTxBuffer THEN Succ(dmaTxBuffer) ELSE nextTxBuffer
      BY <2>8 DEF usartWrite_return, startTxDma
    <3>2. /\ Succ(dmaTxBuffer) \in Buffers /\ Succ(dmaTxBuffer) # dmaTxBuffer
          /\ nextTxBuffer' \in Buffers /\ nextTxBuffer' # dmaTxBuffer
      BY <2>3, <3>1, RingOrder
    <3>3. TypeOK'
      <4>1. dma' \in [on : BOOLEAN, buf : Buffers, ndtr : 0 .. BufferSize, pos : 0 .. BufferSize]
        BY <2>3, <3>1
      <4> QED
        BY <2>1, <2>2, <3>1, <3>2, <4>1, Zenon DEF IInv, TypeOK
    <3>4. /\ \A b : Sending(b)' <=> b = dmaTxBuffer
          /\ \A b : Kept(b)' = Kept(b)
      BY <2>1, <2>8, <3>1 DEF Sending, Kept
    <3>5. Prefix'
      BY <2>1, <2>4, <2>8, <3>4 DEF IInv, RingOK, Prefix, Sending
    <3>6. Ready'
      <4> SUFFICES ASSUME NEW b \in Buffers, Dist(b) < Dist(nextTxBuffer'), b # dmaTxBuffer
                   PROVE  txBufferLengths[b] = BufferSize
        BY <2>1, <2>4, <3>4 DEF Ready, Dist
      <4>1. CASE nextTxBuffer' = nextTxBuffer
        BY <2>8, <4>1 DEF IInv, RingOK, Ready, Sending
      <4>2. CASE nextTxBuffer' = Succ(dmaTxBuffer)
        <5>1. Dist(b) \in Nat /\ Dist(b) # 0 /\ Dist(Succ(dmaTxBuffer)) = 1
          BY <2>3, <3>2, RingOrder
        <5> QED
          BY <4>2, <5>1
      <4> QED
        BY <3>1, <4>1, <4>2
    <3>7. RingOK'
      <4>1. ~Sending(nextTxBuffer)'
        BY <2>1, <3>2 DEF Sending
      <4> QED
        BY <2>1, <2>5, <2>6, <3>5, <3>6, <4>1 DEF RingOK
    <3>8. DmaOK'
      <4>1. shouldServiceTxDma' = FALSE /\ tcif' = FALSE
        BY <2>1, <2>2, <2>8, Zenon DEF IInv, TypeOK, DmaOK, Finished
      <4>2. /\ dma'.buf = dmaTxBuffer' /\ dma'.pos <= dma'.ndtr
            /\ dma'.ndtr <= txBufferLengths'[dmaTxBuffer']
        BY <2>1, <2>3, <3>1
      <4> QED
        BY <3>1, <4>1, <4>2 DEF DmaOK
    <3>9. Placed'
      <4>1. PICK base \in [Buffers -> Int] : Based(base)
        BY DEF IInv, Placed
      <4>2. sent = base[dmaTxBuffer] + 0 /\ dma'.pos = 0
        BY <2>8, <3>1, <4>1 DEF Based
      <4>3. Based(base)'
        BY <2>1, <3>1, <3>4, <4>1, <4>2 DEF Based, Succ
      <4> QED
        BY <4>3 DEF Placed, Based
    <3> QED
      BY <2>1, <3>3, <3>7, <3>8, <3>9 DEF IInv, InOrder
  <2> QED
    BY <2>7, <2>8

(* serviceTxDma keeps the invariant: the buffer it empties has been sent whole, and
   the next one holds the bytes that follow. *)
<1>ServiceStep.
  ASSUME IInv, serviceTxDma
  PROVE  IInv'
  <2> USE <1>ServiceStep
  <2>0. PICK d, e : d = dmaTxBuffer /\ e = Succ(d)
    OBVIOUS
  <2>1. /\ mainPc = "loop" /\ mainPc' = "service" /\ shouldServiceTxDma
        /\ txBufferLengths' = [txBufferLengths EXCEPT ![d] = 0] /\ dmaTxBuffer' = e
        /\ UNCHANGED <<txBuffers, size, dataLeft, offered, accepted, sent, lastSent>>
    BY <2>0 DEF serviceTxDma, caller, wire
  <2>2. UNCHANGED <<shouldServiceTxDma, tcif>>
    BY DEF serviceTxDma
  <2>3. Finished /\ ~tcif
    BY <2>1 DEF IInv, DmaOK
  <2>4. /\ nextTxBuffer \in Buffers /\ d \in Buffers /\ d = dmaTxBuffer /\ e = Succ(d)
        /\ txBufferLengths \in [Buffers -> 0 .. BufferSize]
        /\ NumBuffers \in Nat /\ BufferSize \in Nat /\ BufferSize > 0
    BY <2>0, UsartConstants DEF IInv, TypeOK
  <2>5. /\ \A b \in Buffers : /\ Succ(b) \in Buffers /\ Succ(b) # b /\ Dist(b) \in 0 .. NumBuffers - 1
                              /\ Dist(b) = 0 <=> b = d
                              /\ Succ(b) # d => Dist(Succ(b)) = Dist(b) + 1
        /\ \A b, c \in Buffers : Dist(b) = Dist(c) => b = c
    BY <2>4, RingOrder
  <2>6. e \in Buffers /\ e # d /\ Dist(e) = 1
    BY <2>4, <2>5
  <2>7. /\ txBufferLengths'[d] = 0
        /\ \A b \in Buffers : b # d => txBufferLengths'[b] = txBufferLengths[b]
        /\ txBufferLengths' \in [Buffers -> 0 .. BufferSize]
    BY <2>1, <2>4
  <2>8. \A b \in Buffers : Dist(b)' = IF b = d THEN NumBuffers - 1 ELSE Dist(b) - 1
    <3>1. \A b \in Buffers : Dist(b)' = IF b >= e THEN b - e ELSE b - e + NumBuffers
      BY <2>1 DEF Dist
    <3> QED
      <4> SUFFICES ASSUME NEW b \in Buffers
                   PROVE  Dist(b)' = IF b = d THEN NumBuffers - 1 ELSE Dist(b) - 1
        OBVIOUS
      <4>1. b \in 0 .. NumBuffers - 1 /\ d \in 0 .. NumBuffers - 1
        BY <2>4 DEF Buffers
      <4>2. e = IF d + 1 = NumBuffers THEN 0 ELSE d + 1
        BY <2>4 DEF Succ
      <4>3. Dist(b) = IF b >= d THEN b - d ELSE b - d + NumBuffers
        BY <2>4 DEF Dist
      <4>4. (IF b >= e THEN b - e ELSE b - e + NumBuffers)
              = IF b = d THEN NumBuffers - 1 ELSE Dist(b) - 1
        BY <2>4, <4>1, <4>2, <4>3
      <4> QED
        BY <3>1, <4>4
  <2>9. \A b \in Buffers : Succ(b) = e <=> b = d
    BY <2>4 DEF Succ, Buffers
  <2>10. /\ txDmaActive /\ dma.buf = d /\ dma.pos = dma.ndtr
         /\ \A b : Sending(b) <=> b = d
    BY <2>3, <2>4 DEF Finished, IInv, DmaOK, Sending
  <2>11. PICK base \in [Buffers -> Int] : Based(base)
    BY DEF IInv, Placed
  <2>12. /\ base[d] + Kept(d) = sent
         /\ \A b \in Buffers : b # d => Kept(b) = txBufferLengths[b]
    <3>1. sent = base[d] + dma.pos
      BY <2>4, <2>10, <2>11 DEF Based
    <3> QED
      BY <2>10, <3>1 DEF Kept
  <2>13. ~Full'
    BY <2>1, <2>4, <2>6, <2>7 DEF Full
  <2>14. Prefix'
    <3> SUFFICES ASSUME NEW b \in Buffers, NEW c \in Buffers, Dist(b)' < Dist(c)',
                        txBufferLengths'[c] > 0
                 PROVE  txBufferLengths'[b] = BufferSize
      BY DEF Prefix
    <3>1. c # d /\ b # d /\ Dist(b) < Dist(c) /\ txBufferLengths[c] > 0
      <4>1. /\ Dist(b)' = (IF b = d THEN NumBuffers - 1 ELSE Dist(b) - 1)
            /\ Dist(c)' = (IF c = d THEN NumBuffers - 1 ELSE Dist(c) - 1)
            /\ Dist(b) \in 0 .. NumBuffers - 1 /\ Dist(c) \in 0 .. NumBuffers - 1
        BY <2>5, <2>8
      <4>2. c # d /\ txBufferLengths[c] > 0
        BY <2>7
      <4> QED
        BY <2>4, <4>1, <4>2
    <3> QED
      BY <2>7, <2>10, <3>1 DEF IInv, RingOK, Prefix
  <2>15. CASE txBufferLengths[e] > 0
    <3>1. /\ dma' = [on |-> TRUE, buf |-> e, ndtr |-> txBufferLengths[e], pos |-> 0]
          /\ txDmaActive' = TRUE
          /\ nextTxBuffer' = IF nextTxBuffer = e THEN Succ(e) ELSE nextTxBuffer
      <4>1. txBufferLengths'[dmaTxBuffer'] = txBufferLengths[e] /\ dmaTxBuffer' = e
        BY <2>1, <2>6, <2>7
      <4> QED
        BY <2>15, <4>1 DEF serviceTxDma, HasData, startTxDma
    <3>2. nextTxBuffer' \in Buffers /\ nextTxBuffer' # e /\ ~Sending(nextTxBuffer)'
      <4>1. nextTxBuffer' \in Buffers /\ nextTxBuffer' # e
        BY <2>4, <2>5, <2>6, <3>1
      <4> QED
        BY <2>1, <4>1 DEF Sending
    <3>3. TypeOK'
      <4>1. dma' \in [on : BOOLEAN, buf : Buffers, ndtr : 0 .. BufferSize, pos : 0 .. BufferSize]
        BY <2>4, <2>6, <3>1
      <4> QED
        BY <2>1, <2>2, <2>6, <2>7, <3>1, <3>2, <4>1, Zenon DEF IInv, TypeOK
    <3>4. Ready'
      <4> SUFFICES ASSUME NEW b \in Buffers, Dist(b)' < Dist(nextTxBuffer)', b # e
                   PROVE  txBufferLengths'[b] = BufferSize
        BY <2>1, <3>1 DEF Ready, Sending
      <4>1. Dist(nextTxBuffer)' = IF nextTxBuffer' = d THEN NumBuffers - 1 ELSE Dist(nextTxBuffer') - 1
        <5>1. PICK n \in Buffers : n = nextTxBuffer'
          BY <3>2
        <5>2. Dist(nextTxBuffer)' = Dist(n)'
          BY <5>1 DEF Dist
        <5> QED
          BY <2>8, <5>1, <5>2
      <4>2. b # d /\ Dist(b) # 1 /\ Dist(b) # 0
        <5>1. /\ Dist(b)' = (IF b = d THEN NumBuffers - 1 ELSE Dist(b) - 1)
              /\ Dist(b) \in 0 .. NumBuffers - 1 /\ Dist(nextTxBuffer') \in 0 .. NumBuffers - 1
              /\ (Dist(b) = 0 <=> b = d) /\ (Dist(b) = 1 => b = e)
          BY <2>5, <2>6, <2>8, <3>2
        <5> QED
          BY <2>4, <4>1, <5>1
      <4>3. txBufferLengths[b] = BufferSize
        <5>1. CASE nextTxBuffer = d
          BY <2>4, <2>10, <4>2, <5>1 DEF IInv, RingOK, Full
        <5>2. CASE nextTxBuffer # d /\ nextTxBuffer # e
          <6>1. Dist(b) < Dist(nextTxBuffer)
            BY <2>4, <2>5, <2>8, <3>1, <4>1, <4>2, <5>2
          <6> QED
            BY <2>10, <4>2, <6>1 DEF IInv, RingOK, Ready
        <5>3. CASE nextTxBuffer = e
          <6>1. nextTxBuffer' = Succ(e) /\ Succ(e) \in Buffers
            BY <2>5, <2>6, <3>1, <5>3
          <6>2. CASE Succ(e) = d
            <7>1. NumBuffers = 2
              BY <2>4, <6>2 DEF Succ, Buffers
            <7> QED
              BY <2>5, <4>2, <7>1
          <6>3. CASE Succ(e) # d
            <7>1. /\ Dist(b)' = Dist(b) - 1 /\ Dist(b) \in Nat
                  /\ Dist(nextTxBuffer)' = Dist(Succ(e)) - 1 /\ Dist(Succ(e)) = 2
              BY <2>5, <2>6, <2>8, <4>1, <4>2, <6>1, <6>3
            <7> QED
              BY <4>2, <7>1
          <6> QED
            BY <6>2, <6>3
        <5> QED
          BY <5>1, <5>2, <5>3
      <4> QED
        BY <2>7, <4>2, <4>3
    <3>5. RingOK'
      <4>1. dataLeft' = 0
        BY <2>1 DEF IInv, RingOK
      <4> QED
        BY <2>1, <2>13, <2>14, <3>2, <3>4, <4>1 DEF RingOK
    <3>6. DmaOK'
      <4>1. tcif' = FALSE /\ mainPc' = "service"
        BY <2>1, <2>2, <2>3 DEF IInv, TypeOK
      <4>2. dma'.buf = dmaTxBuffer' /\ dma'.pos <= dma'.ndtr /\ dma'.ndtr <= txBufferLengths'[dmaTxBuffer']
        BY <2>1, <2>4, <2>6, <2>7, <3>1
      <4> QED
        BY <3>1, <4>1, <4>2 DEF DmaOK
    <3>7. \A b \in Buffers : Kept(b)' = txBufferLengths'[b]
      BY <2>1, <2>6, <2>7, <3>1 DEF Kept, Sending
    <3>8. base[e] = sent
      BY <2>4, <2>6, <2>11, <2>12, <2>15 DEF Based
    <3>9. Based(base)'
      <4>1. ASSUME NEW b \in Buffers, NEW i \in 0 .. Kept(b)' - 1
            PROVE  txBuffers'[b][i] = base[b] + 1 + i
        <5>1. CASE b = d
          BY <2>7, <3>7, <5>1
        <5>2. CASE b # d
          <6>1. Kept(b)' = Kept(b)
            BY <2>7, <2>12, <3>7, <5>2
          <6> QED
            BY <2>1, <2>11, <4>1, <6>1 DEF Based
        <5> QED
          BY <5>1, <5>2
      <4>2. ASSUME NEW b \in Buffers, Succ(b) # e, txBufferLengths'[Succ(b)] > 0
            PROVE  base[Succ(b)] = base[b] + Kept(b)'
        <5>1. b # d /\ Succ(b) # d /\ Succ(b) \in Buffers
          BY <2>5, <2>7, <2>9, <4>2
        <5>2. Kept(b)' = Kept(b) /\ txBufferLengths[Succ(b)] > 0
          BY <2>7, <2>12, <3>7, <4>2, <5>1
        <5> QED
          BY <2>4, <2>11, <5>1, <5>2 DEF Based
      <4>3. ASSUME NEW b \in Buffers, txBufferLengths'[b] > 0 \/ b = e,
                   Succ(b) = e \/ txBufferLengths'[Succ(b)] = 0
            PROVE  base[b] + Kept(b)' = accepted'
        <5>1. b # d /\ txBufferLengths[b] > 0 /\ Succ(b) \in Buffers
          BY <2>5, <2>6, <2>7, <2>15, <4>3
        <5>2. Succ(b) = d \/ txBufferLengths[Succ(b)] = 0
          BY <2>7, <2>9, <4>3, <5>1
        <5>3. base[b] + Kept(b) = accepted
          BY <2>4, <2>11, <5>1, <5>2 DEF Based
        <5> QED
          BY <2>1, <2>7, <2>12, <3>7, <5>1, <5>3
      <4>4. sent' = base[dmaTxBuffer'] + (IF txDmaActive' THEN dma'.pos ELSE 0)
        <5>1. dma'.pos = 0 /\ base[e] \in Int /\ base[e] = base[e] + 0
          BY <2>6, <3>1
        <5> QED
          BY <2>1, <3>1, <3>8, <5>1
      <4> QED
        BY <2>1, <4>1, <4>2, <4>3, <4>4 DEF Based, Succ
    <3>10. Placed'
      BY <3>9 DEF Placed, Based
    <3> QED
      BY <2>1, <3>3, <3>5, <3>6, <3>10 DEF IInv, InOrder
  <2>16. CASE txBufferLengths[e] = 0
    <3>1. UNCHANGED <<dma, nextTxBuffer>> /\ txDmaActive' = FALSE
      <4>1. txBufferLengths'[dmaTxBuffer'] = 0 /\ dmaTxBuffer' = e
        BY <2>1, <2>6, <2>7, <2>16
      <4> QED
        BY <4>1 DEF serviceTxDma, HasData, txDmaDone
    <3>2. \A b \in Buffers : txBufferLengths'[b] = 0
      <4> SUFFICES ASSUME NEW b \in Buffers, b # d, b # e PROVE txBufferLengths[b] = 0
        BY <2>7, <2>16
      <4>1. Dist(e) < Dist(b)
        BY <2>5, <2>6
      <4> QED
        BY <2>4, <2>6, <2>10, <2>16, <4>1 DEF IInv, RingOK, Prefix
    <3>3. nextTxBuffer = e
      <4>1. nextTxBuffer # d
        BY <2>4, <2>6, <2>10, <2>16 DEF IInv, RingOK, Full
      <4>2. ~(Dist(e) < Dist(nextTxBuffer))
        BY <2>4, <2>6, <2>10, <2>16 DEF IInv, RingOK, Ready
      <4> QED
        BY <2>4, <2>5, <2>6, <4>1, <4>2
    <3>4. TypeOK'
      BY <2>1, <2>2, <2>6, <2>7, <3>1, Zenon DEF IInv, TypeOK
    <3>5. RingOK'
      <4>1. Ready'
        <5>1. Dist(nextTxBuffer)' = Dist(e)'
          BY <3>1, <3>3 DEF Dist
        <5>2. Dist(e)' = 0
          BY <2>6, <2>8
        <5>3. \A b \in Buffers : ~(Dist(b)' < 0)
          <6> SUFFICES ASSUME NEW b \in Buffers PROVE ~(Dist(b)' < 0)
            OBVIOUS
          <6>1. /\ Dist(b)' = (IF b = d THEN NumBuffers - 1 ELSE Dist(b) - 1)
                /\ Dist(b) \in 0 .. NumBuffers - 1 /\ (Dist(b) = 0 <=> b = d)
            BY <2>5, <2>8
          <6> QED
            BY <2>4, <6>1
        <5> QED
          BY <5>1, <5>2, <5>3 DEF Ready
      <4> QED
        <5>1. dataLeft' = 0
          BY <2>1 DEF IInv, RingOK
        <5> QED
          BY <2>1, <2>13, <2>14, <3>1, <4>1, <5>1 DEF RingOK, Sending
    <3>6. DmaOK'
      <4>1. tcif' = FALSE /\ mainPc' = "service" /\ ~dma'.on
        BY <2>1, <2>2, <2>3, <3>1 DEF IInv, TypeOK, Finished
      <4> QED
        BY <3>1, <4>1 DEF DmaOK
    <3>7. \A b \in Buffers : Kept(b)' = 0
      BY <3>1, <3>2 DEF Kept, Sending
    <3>8. sent = accepted
      BY <2>4, <2>11, <2>12, <2>16 DEF Based
    <3>9. PICK next \in [Buffers -> Int] : next[e] = sent
      <4>1. sent \in Int
        BY DEF IInv, TypeOK
      <4>2. [b \in Buffers |-> sent] \in [Buffers -> Int] /\ [b \in Buffers |-> sent][e] = sent
        BY <2>6, <4>1
      <4> QED
        BY <4>2
    <3>10. Based(next)'
      <4>1. sent' = next[dmaTxBuffer'] + 0 /\ next[e] + 0 = accepted'
        BY <2>1, <2>6, <3>8, <3>9
      <4> QED
        BY <2>1, <2>5, <2>6, <3>1, <3>2, <3>7, <4>1 DEF Based, Succ
    <3>11. Placed'
      BY <3>10 DEF Placed, Based
    <3> QED
      BY <2>1, <3>4, <3>5, <3>6, <3>11 DEF IInv, InOrder
  <2> QED
    BY <2>4, <2>6, <2>15, <2>16

(* The DMA moves the next byte of the stream to the wire, and its interrupt is
   requested when the count it was given has been sent. *)
<1>DmaByteStep.
  ASSUME IInv, DmaByte
  PROVE  IInv'
  <2> USE <1>DmaByteStep
  <2>0. PICK more, last \in BOOLEAN :
          (more <=> dma.pos + 1 < dma.ndtr) /\ (last <=> dma.pos + 1 = dma.ndtr)
    BY Zenon
  <2>1. /\ dma.on /\ dma.pos < dma.ndtr
        /\ lastSent' = txBuffers[dma.buf][dma.pos] /\ sent' = sent + 1
        /\ UNCHANGED <<txBuffers, txBufferLengths, nextTxBuffer, dmaTxBuffer, mainPc, size, dataLeft,
                       offered, accepted>>
    BY DEF DmaByte, ring, caller
  <2>2. /\ UNCHANGED <<txDmaActive, shouldServiceTxDma>> /\ tcif' = last
        /\ dma' = [dma EXCEPT !.pos = @ + 1, !.on = more]
    <3>1. more = (dma.pos + 1 < dma.ndtr) /\ last = (dma.pos + 1 = dma.ndtr)
      BY <2>0
    <3> QED
      BY <3>1, Zenon DEF DmaByte, ring
  <2>3. /\ dma \in [on : BOOLEAN, buf : Buffers, ndtr : 0 .. BufferSize, pos : 0 .. BufferSize]
        /\ sent \in Nat /\ BufferSize \in Nat
    BY UsartConstants DEF IInv, TypeOK
  <2>4. txDmaActive /\ dma.buf = dmaTxBuffer /\ dmaTxBuffer \in Buffers
    BY <2>1 DEF IInv, DmaOK, TypeOK
  <2>5. /\ dma' = [on |-> more, buf |-> dma.buf, ndtr |-> dma.ndtr, pos |-> dma.pos + 1]
        /\ dma.pos + 1 \in 0 .. BufferSize /\ dma.pos \in 0 .. dma.ndtr - 1 /\ dma.ndtr \in 0 .. BufferSize
    <3>1. dma' = [on |-> more, buf |-> dma.buf, ndtr |-> dma.ndtr, pos |-> dma.pos + 1]
      BY <2>2, <2>3, Zenon
    <3>2. dma.pos \in 0 .. BufferSize /\ dma.ndtr \in 0 .. BufferSize
      BY <2>3
    <3> QED
      BY <2>1, <2>3, <3>1, <3>2
  <2>6. /\ dma'.buf = dma.buf /\ dma'.ndtr = dma.ndtr /\ dma'.pos = dma.pos + 1
        /\ dma'.on = more
    BY <2>5
  <2>7. PICK base \in [Buffers -> Int] : Based(base)
    BY DEF IInv, Placed
  <2>8. lastSent' = sent'
    <3>1. sent = base[dmaTxBuffer] + dma.pos
      BY <2>4, <2>7 DEF Based
    <3>2. txBuffers[dmaTxBuffer][dma.pos] = base[dmaTxBuffer] + 1 + dma.pos
      <4>1. Kept(dmaTxBuffer) = dma.ndtr
        BY <2>4 DEF Kept, Sending
      <4> QED
        BY <2>4, <2>5, <2>7, <4>1 DEF Based
    <3>3. base[dmaTxBuffer] \in Int /\ dma.pos \in Int
      BY <2>4, <2>5
    <3> QED
      BY <2>1, <2>4, <3>1, <3>2, <3>3
  <2>9. TypeOK'
    <3>1. /\ tcif' \in BOOLEAN
          /\ dma' \in [on : BOOLEAN, buf : Buffers, ndtr : 0 .. BufferSize, pos : 0 .. BufferSize]
      BY <2>2, <2>3, <2>5
    <3>2. sent' \in Nat /\ lastSent' \in Nat
      BY <2>1, <2>3, <2>8
    <3>3. {offered', accepted', sent', lastSent'} \subseteq Nat
      BY <2>1, <3>2 DEF IInv, TypeOK
    <3> QED
      BY <2>1, <2>2, <3>1, <3>3, Zenon DEF IInv, TypeOK
  <2>10. /\ \A b : (Sending(b)' <=> Sending(b)) /\ Kept(b)' = Kept(b) /\ Dist(b)' = Dist(b)
         /\ Full' <=> Full
    BY <2>1, <2>2, <2>6 DEF Sending, Kept, Dist, Full
  <2>11. RingOK'
    <3>1. Prefix' /\ Ready'
      BY <2>1, <2>10 DEF IInv, RingOK, Prefix, Ready
    <3>2. (Sending(nextTxBuffer)' <=> Sending(nextTxBuffer)) /\ (Overrunning' <=> Overrunning)
      BY <2>1, <2>2 DEF Sending, Overrunning
    <3> QED
      BY <2>1, <2>10, <3>1, <3>2, Zenon DEF IInv, RingOK
  <2>12. DmaOK'
    <3>1. /\ dma'.buf = dmaTxBuffer' /\ dma'.pos <= dma'.ndtr
          /\ dma'.ndtr <= txBufferLengths'[dmaTxBuffer']
      BY <2>1, <2>4, <2>5, <2>6 DEF IInv, DmaOK
    <3>2. tcif' => ~dma'.on /\ dma'.pos = dma'.ndtr
      BY <2>0, <2>2, <2>5, <2>6
    <3>3. ~(shouldServiceTxDma' /\ mainPc' # "service")
      BY <2>1, <2>2 DEF IInv, DmaOK, Finished
    <3> QED
      BY <2>2, <2>4, <3>1, <3>2, <3>3 DEF DmaOK, Finished
  <2>13. Placed'
    <3>1. sent' = base[dmaTxBuffer'] + (IF txDmaActive' THEN dma'.pos ELSE 0)
      <4>1. sent = base[dmaTxBuffer] + dma.pos /\ base[dmaTxBuffer] \in Int /\ dma.pos \in Int
        BY <2>4, <2>5, <2>7 DEF Based
      <4> QED
        BY <2>1, <2>2, <2>4, <2>6, <4>1
    <3>2. Based(base)'
      BY <2>1, <2>7, <2>10, <3>1 DEF Based, Succ
    <3> QED
      BY <3>2 DEF Placed, Based
  <2> QED
    BY <2>8, <2>9, <2>11, <2>12, <2>13 DEF IInv, InOrder

(* The other steps leave the ring and the wire alone: the call of usartWrite, the
   interrupt, and the late clearing of its flag. *)
<1>FlagStep.
  ASSUME IInv,
         \/ \E n \in WriteSizes : usartWrite(n)
         \/ COMMS_TX_DMA_ISR
         \/ serviceTxDma_clearFlag
         \/ UNCHANGED vars
  PROVE  IInv'
  <2> USE <1>FlagStep
  <2>1. /\ UNCHANGED <<txBuffers, txBufferLengths, nextTxBuffer, dmaTxBuffer, dma, accepted, sent,
                       lastSent>>
        /\ \/ offered' = offered /\ dataLeft' = dataLeft /\ size' = size
                  /\ (mainPc' = mainPc \/ (mainPc' = "loop" /\ mainPc = "service"))
           \/ \E n \in WriteSizes : offered' = offered + n /\ dataLeft' = n /\ size' = n
                  /\ mainPc = "loop" /\ mainPc' = "write"
    <3>1. CASE \E n \in WriteSizes : usartWrite(n)
      BY <3>1 DEF usartWrite, ring, wire
    <3>2. CASE COMMS_TX_DMA_ISR
      BY <3>2 DEF COMMS_TX_DMA_ISR, ring, caller, wire
    <3>3. CASE serviceTxDma_clearFlag
      BY <3>3, Zenon DEF serviceTxDma_clearFlag, ring, caller, wire
    <3>4. CASE UNCHANGED vars
      BY <3>4 DEF vars, ring, caller, wire
    <3> QED
      BY <3>1, <3>2, <3>3, <3>4
  <2>2. /\ txDmaActive' = txDmaActive
        /\ \/ UNCHANGED <<tcif, shouldServiceTxDma>> /\ (mainPc = "service" <=> mainPc' = "service")
           \/ tcif /\ tcif' = FALSE /\ shouldServiceTxDma' = TRUE
           \/ tcif' = tcif /\ shouldServiceTxDma' = FALSE
    BY DEF usartWrite, COMMS_TX_DMA_ISR, serviceTxDma_clearFlag, vars, ring
  <2>3. TypeOK'
    <3>1. offered' \in Nat /\ dataLeft' \in 0 .. UINT16 - 1 /\ size' \in 0 .. UINT16 - 1
      <4>1. offered \in Nat /\ dataLeft \in 0 .. UINT16 - 1 /\ size \in 0 .. UINT16 - 1
        BY DEF IInv, TypeOK
      <4>2. \A n \in WriteSizes : n \in Nat /\ n \in 0 .. UINT16 - 1
        BY UsartConstants, UINT16Mod
      <4> QED
        BY <2>1, <4>1, <4>2
    <3>2. {offered', accepted', sent', lastSent'} \subseteq Nat
      BY <2>1, <3>1 DEF IInv, TypeOK
    <3>3. mainPc' \in {"loop", "write", "service"}
      BY <2>1 DEF IInv, TypeOK
    <3>4. txDmaActive' \in BOOLEAN /\ tcif' \in BOOLEAN /\ shouldServiceTxDma' \in BOOLEAN
      BY <2>2, Zenon DEF IInv, TypeOK
    <3> QED
      BY <2>1, <3>1, <3>2, <3>3, <3>4, Zenon DEF IInv, TypeOK
  <2>4. /\ \A b : (Sending(b)' <=> Sending(b)) /\ Kept(b)' = Kept(b) /\ Dist(b)' = Dist(b)
        /\ Full' <=> Full
        /\ Sending(nextTxBuffer)' <=> Sending(nextTxBuffer)
    BY <2>1, <2>2 DEF Sending, Kept, Dist, Full
  <2>5. RingOK'
    <3>1. Prefix' /\ Ready'
      BY <2>1, <2>4 DEF IInv, RingOK, Prefix, Ready
    <3>2. Full => txBufferLengths[dmaTxBuffer] = BufferSize \/ Overrunning'
      <4>1. Full => txBufferLengths[dmaTxBuffer] = BufferSize \/ Overrunning
        BY DEF IInv, RingOK
      <4>2. Overrunning => Overrunning'
        BY <2>1, <2>4 DEF Overrunning
      <4> QED
        BY <4>1, <4>2
    <3>3. mainPc' = "write" => dataLeft' = size' \/ (Full' /\ dataLeft' = 0)
      BY <2>1, <2>4 DEF IInv, RingOK
    <3> QED
      BY <2>1, <2>4, <3>1, <3>2, <3>3 DEF IInv, RingOK
  <2>6. DmaOK'
    <3>1. Finished' <=> Finished
      BY <2>1, <2>2 DEF Finished
    <3> QED
      <4>1. CASE UNCHANGED <<tcif, shouldServiceTxDma>> /\ (mainPc = "service" <=> mainPc' = "service")
        BY <2>1, <2>2, <3>1, <4>1 DEF IInv, DmaOK
      <4>2. CASE tcif /\ tcif' = FALSE /\ shouldServiceTxDma' = TRUE
        BY <2>1, <2>2, <3>1, <4>2 DEF IInv, DmaOK
      <4>3. CASE tcif' = tcif /\ shouldServiceTxDma' = FALSE
        BY <2>1, <2>2, <3>1, <4>3 DEF IInv, DmaOK
      <4> QED
        BY <2>2, <4>1, <4>2, <4>3, Zenon
  <2>7. Placed'
    BY <2>1, <2>2, <2>4 DEF IInv, Placed, Based, Succ
  <2> QED
    BY <2>1, <2>3, <2>5, <2>6, <2>7 DEF IInv, InOrder
<1>1. IInv /\ [Next]_vars => IInv'
  BY RoundStep, <1>ReturnStep, <1>ServiceStep, <1>DmaByteStep, <1>FlagStep DEF Next, serviceTxDma_nothingToDo
<1> QED
  BY <1>InitIInv, <1>1, PTL DEF Spec

(* The wire carries the bytes that usartWrite accepted, each once and in order.  The
   indices of usartWrite and serviceTxDma stay inside the ring and no length exceeds
   a buffer, although size wraps around on overrun. *)
THEOREM SentInOrder == Spec => [](TypeOK /\ InOrder)
<1>1. IInv => TypeOK /\ InOrder
  BY DEF IInv
<1> QED
  BY <1>1, Invariance, PTL

(* usartWrite drops data only when every buffer but the one being sent is full. *)
THEOREM DropsWhenFull == Spec => DropOnlyWhenFull
<1> DEFINE A == (dataLeft' < dataLeft) /\ (accepted' - accepted < dataLeft - dataLeft')
                  => \A b \in Buffers \ {dmaTxBuffer} : txBufferLengths'[b] = BufferSize
<1>1. IInv /\ [Next]_vars => [A]_vars
  <2> SUFFICES ASSUME IInv, Next, dataLeft' < dataLeft, accepted' - accepted < dataLeft - dataLeft'
               PROVE  \A b \in Buffers \ {dmaTxBuffer} : txBufferLengths'[b] = BufferSize
    OBVIOUS
  <2>1. usartWrite_round \/ dataLeft' = dataLeft \/ \E n \in WriteSizes : usartWrite(n)
    BY DEF Next, serviceTxDma, serviceTxDma_nothingToDo, serviceTxDma_clearFlag, usartWrite_return,
           DmaByte, COMMS_TX_DMA_ISR, caller, vars
  <2>2. CASE usartWrite_round
    BY <2>2, RoundStep, Zenon DEF Full, usartWrite_round
  <2>3. dataLeft' # dataLeft
    BY DEF IInv, TypeOK
  <2>4. CASE \E n \in WriteSizes : usartWrite(n)
    <3>1. PICK n \in WriteSizes : usartWrite(n)
      BY <2>4
    <3>2. dataLeft = 0 /\ dataLeft' = n
      BY <3>1 DEF usartWrite, IInv, RingOK
    <3> QED
      BY <3>2, UsartConstants, UINT16Mod
  <2> QED
    BY <2>1, <2>2, <2>3, <2>4
<1> QED
  BY <1>1, Invariance, PTL DEF Spec, DropOnlyWhenFull
=============================================================================
