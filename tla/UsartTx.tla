------------------------------- MODULE UsartTx -------------------------------
(***************************************************************************)
(* The transmit half of the console USART (olympus/peripherals/usart.c).    *)
(* The main loop fills a ring of buffers with usartWrite and, in            *)
(* serviceTxDma, hands the next buffer to the Tx DMA; the DMA moves one      *)
(* buffer to the wire and its interrupt only raises a flag.                  *)
(*                                                                           *)
(* A byte is identified by its position in the stream of accepted bytes      *)
(* (1, 2, 3, ...), so "nothing lost, repeated or reordered" reads "the byte  *)
(* put on the wire n-th is byte n".  0 stands for every other memory         *)
(* content, bytes past the end of the caller's data included.                *)
(***************************************************************************)
EXTENDS Integers

CONSTANTS
  NumBuffers,  \* COMMS_TX_NUM_BUFFERS (4)
  BufferSize,  \* COMMS_TX_BUFFER_SIZE (2048)
  WriteSizes,  \* sizes the callers pass to usartWrite
  FastBytes,   \* bytes the USART takes at once (data and shift register: 2)
  MaxOffered   \* bound: bytes offered to usartWrite in one behaviour

UINT16 == 65536

(* config.h asks for more than one buffer (usart.c:42).  size is a uint16_t, and  *)
(* two buffers hold less than it counts: after an overrun, which leaves size a     *)
(* buffer at most below 2^16, the rounds that follow fill a buffer whole.          *)
ASSUME UsartConstants ==
  /\ NumBuffers \in Nat /\ NumBuffers > 1
  /\ BufferSize \in Nat /\ BufferSize > 0 /\ 2 * BufferSize < UINT16
  /\ WriteSizes \subseteq 1 .. UINT16 - 1
  /\ FastBytes \in Nat
  /\ MaxOffered \in Nat

Unknown == 0
Buffers == 0 .. NumBuffers - 1
Slots == 0 .. BufferSize - 1

VARIABLES
  txBuffers,          \* contents, by buffer and slot
  txBufferLengths,
  nextTxBuffer,       \* the buffer usartWrite appends to
  dmaTxBuffer,        \* the buffer being transmitted
  txDmaActive,
  shouldServiceTxDma,
  dma,                \* the DMA stream: running, latched buffer and count, position
  tcif,               \* transfer complete interrupt pending
  mainPc,             \* where the main loop is: "loop", "write" or "service"
  size,               \* usartWrite's size, a uint16_t
  dataLeft,           \* bytes of the caller's data not yet accepted or dropped
  offered,            \* bytes passed to usartWrite so far
  accepted,           \* bytes copied from the callers into the ring so far
  sent,               \* bytes the DMA moved to the USART so far
  lastSent            \* the last of them

ring == <<txBuffers, txBufferLengths, nextTxBuffer, dmaTxBuffer, txDmaActive>>
caller == <<size, dataLeft, offered, accepted>>
wire == <<sent, lastSent>>
vars == <<ring, shouldServiceTxDma, dma, tcif, mainPc, caller, wire>>

Least(a, b) == IF a < b THEN a ELSE b

\* Mutant of Succ: an index that is not wrapped at the last buffer.
Succ_noWrap(b) == b + 1

Succ(b) == IF b + 1 = NumBuffers THEN 0 ELSE b + 1

HasData(len) == len > 0

\* Mutant of IsFull: one byte early.
IsFull_early(len) == len >= BufferSize - 1

IsFull(len) == len = BufferSize

(* Static storage: everything starts zero, the DMA stream disabled. *)
Init ==
  /\ txBuffers = [b \in Buffers |-> [i \in Slots |-> Unknown]]
  /\ txBufferLengths = [b \in Buffers |-> 0]
  /\ nextTxBuffer = 0
  /\ dmaTxBuffer = 0
  /\ txDmaActive = FALSE
  /\ shouldServiceTxDma = FALSE
  /\ dma = [on |-> FALSE, buf |-> 0, ndtr |-> 0, pos |-> 0]
  /\ tcif = FALSE
  /\ mainPc = "loop"
  /\ size = 0
  /\ dataLeft = 0
  /\ offered = 0
  /\ accepted = 0
  /\ sent = 0
  /\ lastSent = 0

(***************************************************************************)
(* startTxDma on buffer b, whose length is len: latch address and count,    *)
(* enable the stream, move nextTxBuffer off the buffer being sent.           *)
(***************************************************************************)
\* Mutant of startTxDma: nextTxBuffer stays on the buffer being sent.
startTxDma_keepNext(b, len) ==
  /\ dma' = [on |-> TRUE, buf |-> b, ndtr |-> len, pos |-> 0]
  /\ txDmaActive' = TRUE
  /\ UNCHANGED nextTxBuffer

startTxDma(b, len) ==
  /\ dma' = [on |-> TRUE, buf |-> b, ndtr |-> len, pos |-> 0]
  /\ txDmaActive' = TRUE
  /\ nextTxBuffer' = IF nextTxBuffer = b THEN Succ(b) ELSE nextTxBuffer

(***************************************************************************)
(* serviceTxDma, the flag found set.  The flag is cleared in a second step,  *)
(* after startTxDma: the DMA and its interrupt run in between.               *)
(***************************************************************************)
\* Mutant of txDmaDone: txDmaActive stays set when the ring is empty.
txDmaDone_staysActive == UNCHANGED <<txDmaActive, dma, nextTxBuffer>>

txDmaDone == txDmaActive' = FALSE /\ UNCHANGED <<dma, nextTxBuffer>>

serviceTxDma ==
  /\ mainPc = "loop"
  /\ shouldServiceTxDma
  /\ txBufferLengths' = [txBufferLengths EXCEPT ![dmaTxBuffer] = 0]
  /\ dmaTxBuffer' = Succ(dmaTxBuffer)
  /\ IF HasData(txBufferLengths'[dmaTxBuffer'])
       THEN startTxDma(dmaTxBuffer', txBufferLengths'[dmaTxBuffer'])
       ELSE txDmaDone
  /\ mainPc' = "service"
  /\ UNCHANGED <<txBuffers, shouldServiceTxDma, tcif, caller, wire>>

serviceTxDma_nothingToDo ==
  /\ mainPc = "loop"
  /\ ~shouldServiceTxDma
  /\ UNCHANGED vars

serviceTxDma_clearFlag ==
  /\ mainPc = "service"
  /\ shouldServiceTxDma' = FALSE
  /\ mainPc' = "loop"
  /\ UNCHANGED <<ring, dma, tcif, caller, wire>>

(***************************************************************************)
(* usartWrite(data, n): the call, one round of its while loop, the return.   *)
(***************************************************************************)
usartWrite(n) ==
  /\ mainPc = "loop"
  /\ offered + n <= MaxOffered
  /\ size' = n
  /\ dataLeft' = n
  /\ offered' = offered + n
  /\ mainPc' = "write"
  /\ UNCHANGED <<ring, shouldServiceTxDma, dma, tcif, accepted, wire>>

(* The buffer after k bytes are copied to it from slot at on, of which the   *)
(* first own are the caller's.                                                *)
Copied(buf, at, k, own) ==
  [i \in Slots |-> IF i \in at .. at + k - 1
                     THEN IF i < at + own THEN accepted + 1 + (i - at) ELSE Unknown
                     ELSE buf[i]]

\* Mutant of IsOverrun: no overrun test.
IsOverrun_never(b) == b \notin Buffers

IsOverrun(b) == b = dmaTxBuffer

(* On overrun the code sets size to 0 and then still subtracts bytesToWrite, *)
(* so the loop goes on with a size close to 2^16.                             *)
usartWrite_round ==
  LET at == txBufferLengths[nextTxBuffer]
      bytesToWrite == Least(size, BufferSize - at)
      own == Least(bytesToWrite, dataLeft)
      full == IsFull(at + bytesToWrite)
      overrun == full /\ IsOverrun(Succ(nextTxBuffer))
  IN  /\ mainPc = "write"
      /\ size > 0
      /\ txBuffers' = [txBuffers EXCEPT ![nextTxBuffer] = Copied(@, at, bytesToWrite, own)]
      /\ txBufferLengths' = [txBufferLengths EXCEPT ![nextTxBuffer] = at + bytesToWrite]
      /\ nextTxBuffer' = IF full THEN Succ(nextTxBuffer) ELSE nextTxBuffer
      /\ size' = ((IF overrun THEN 0 ELSE size) - bytesToWrite) % UINT16
      /\ dataLeft' = IF overrun THEN 0 ELSE dataLeft - own
      /\ accepted' = accepted + own
      /\ UNCHANGED <<dmaTxBuffer, txDmaActive, shouldServiceTxDma, dma, tcif,
                     mainPc, offered, wire>>

usartWrite_return ==
  /\ mainPc = "write"
  /\ size = 0
  /\ IF txDmaActive
       THEN UNCHANGED <<dma, txDmaActive, nextTxBuffer>>
       ELSE startTxDma(dmaTxBuffer, txBufferLengths[dmaTxBuffer])
  /\ mainPc' = "loop"
  /\ UNCHANGED <<txBuffers, txBufferLengths, dmaTxBuffer, shouldServiceTxDma,
                 tcif, caller, wire>>

(***************************************************************************)
(* The DMA stream moves one byte to the USART.  Inside serviceTxDma, which   *)
(* lasts far less than a byte time, it moves no more than the USART's two    *)
(* registers take.  At the end of the count the stream disables itself and   *)
(* requests the interrupt.                                                    *)
(***************************************************************************)
DmaByte ==
  /\ dma.on
  /\ dma.pos < dma.ndtr
  /\ mainPc = "service" => dma.pos < FastBytes
  /\ lastSent' = txBuffers[dma.buf][dma.pos]
  /\ sent' = sent + 1
  /\ dma' = [dma EXCEPT !.pos = @ + 1, !.on = dma.pos + 1 < dma.ndtr]
  /\ tcif' = (dma.pos + 1 = dma.ndtr)
  /\ UNCHANGED <<ring, shouldServiceTxDma, mainPc, caller>>

COMMS_TX_DMA_ISR ==
  /\ tcif
  /\ shouldServiceTxDma' = TRUE
  /\ tcif' = FALSE
  /\ UNCHANGED <<ring, dma, mainPc, caller, wire>>

Next ==
  \/ serviceTxDma
  \/ serviceTxDma_nothingToDo
  \/ serviceTxDma_clearFlag
  \/ \E n \in WriteSizes : usartWrite(n)
  \/ usartWrite_round
  \/ usartWrite_return
  \/ DmaByte
  \/ COMMS_TX_DMA_ISR

Spec == Init /\ [][Next]_vars

(* The main loop runs forever and calls serviceTxDma in every pass, usartWrite *)
(* runs to its end, the hardware moves on by itself.                           *)
Fairness ==
  /\ WF_vars(serviceTxDma)
  /\ WF_vars(serviceTxDma_clearFlag)
  /\ WF_vars(usartWrite_round)
  /\ WF_vars(usartWrite_return)
  /\ WF_vars(DmaByte)
  /\ WF_vars(COMMS_TX_DMA_ISR)

FairSpec == Spec /\ Fairness
-----------------------------------------------------------------------------

(* The indices into the ring of buffers stay inside it, and no length exceeds a   *)
(* buffer, although usartWrite's size wraps around on overrun.                     *)
TypeOK ==
  /\ txBuffers \in [Buffers -> [Slots -> Nat]]
  /\ txBufferLengths \in [Buffers -> 0 .. BufferSize]
  /\ nextTxBuffer \in Buffers
  /\ dmaTxBuffer \in Buffers
  /\ txDmaActive \in BOOLEAN
  /\ shouldServiceTxDma \in BOOLEAN
  /\ dma \in [on : BOOLEAN, buf : Buffers, ndtr : 0 .. BufferSize, pos : 0 .. BufferSize]
  /\ tcif \in BOOLEAN
  /\ mainPc \in {"loop", "write", "service"}
  /\ size \in 0 .. UINT16 - 1
  /\ dataLeft \in 0 .. UINT16 - 1
  /\ {offered, accepted, sent, lastSent} \subseteq Nat

(* The wire carries the accepted bytes, each once and in order: the ring      *)
(* discipline of usartWrite, startTxDma and serviceTxDma, and the overrun     *)
(* path that writes into the buffer being sent, never disturb a byte that     *)
(* the DMA has still to move.                                                  *)
InOrder == lastSent = sent

(* usartWrite drops bytes (usart.c:241) only when every buffer but the one    *)
(* being sent is full.                                                         *)
DropOnlyWhenFull ==
  [][(dataLeft' < dataLeft) /\ (accepted' - accepted < dataLeft - dataLeft')
       => \A b \in Buffers \ {dmaTxBuffer} : txBufferLengths'[b] = BufferSize]_vars

(* The transfer of the current buffer ended, its interrupt was taken, and the  *)
(* flag was cleared again before serviceTxDma could act on it.                 *)
CompletionLost ==
  /\ mainPc = "loop"
  /\ dma.buf = dmaTxBuffer /\ dma.ndtr > 0
  /\ txDmaActive /\ ~dma.on /\ ~tcif /\ ~shouldServiceTxDma

(* Every accepted byte reaches the wire, unless a completion is lost: no       *)
(* other interleaving of the main loop, the DMA and its interrupt stalls the   *)
(* transmitter.                                                                *)
StallsOnlyOnLostCompletion ==
  \A n \in 1 .. MaxOffered : (accepted >= n) ~> (sent >= n \/ CompletionLost)

(* usartWrite returns, although an overrun wraps its size around.              *)
WriteReturns == (mainPc = "write") ~> (mainPc = "loop")

(* usart.c:61-65: when the DMA is done the flag is set, and the next           *)
(* serviceTxDma clears the buffer and starts the next transmission.  Whenever  *)
(* the main loop is about to call serviceTxDma, a finished transfer is         *)
(* therefore flagged, or its interrupt still pending.                          *)
CompletionIsFlagged == ~CompletionLost

=============================================================================
