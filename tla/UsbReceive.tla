------------------------------ MODULE UsbReceive ------------------------------
(***************************************************************************)
(* The USB receive path of both master programs: the CDC class driver          *)
(* (master_lib/peripherals/USB/usbd_cdc.c) and its application interface        *)
(* (usb_otg.c) feed the DoubleBuffer that the main loop reads.                  *)
(*                                                                             *)
(* The endpoint receives into RxBuffer, which CDC_Init points at usbRecvData:    *)
(* the memory of the double buffer itself, so that a packet first lands in       *)
(* slots 0, 1, ... of half 0, whatever is there.  The copy out of the USB FIFO    *)
(* and the end-of-transfer interrupt are two interrupts; the main loop may run    *)
(* in between.                                                                   *)
(***************************************************************************)
EXTENDS DoubleBuffer

CONSTANTS
  Lockstep,     \* the host sends a packet only when the last one was processed
  MaxConfigs    \* bound: configurations in one behaviour

ASSUME UsbConstants ==
  /\ Lockstep \in BOOLEAN
  /\ MaxConfigs \in Nat
  /\ \A n \in WriteLens : n <= BufferSize

Unknown == 0

VARIABLES
  configs,     \* how often the host has configured the device
  armed,       \* the OUT endpoint accepts a packet; otherwise it NAKs
  transferred, \* a packet is in RxBuffer, its interrupt pending
  rxSize,      \* that packet's size, as the hardware counts it
  cut          \* history: the last configuration came in the middle of a read

usb == <<configs, armed, transferred, rxSize, cut>>
usbVars == <<vars, usb>>

(* Before the host configures the device the reader polls zeroed storage. *)
UsbInit ==
  /\ Init
  /\ configs = 0
  /\ armed = FALSE
  /\ transferred = FALSE
  /\ rxSize = 0
  /\ cut = FALSE

(***************************************************************************)
(* The host.  usbFlasher/BootSerial.py sends one message of at most one packet   *)
(* and waits for the answer, which the firmware sends from the main loop when    *)
(* it has read the message.                                                       *)
(***************************************************************************)
HostSends == Lockstep => accepted = consumed

(* The FIFO-level interrupt: the packet is copied to RxBuffer. *)
RxFifo(len) ==
  /\ armed
  /\ HostSends
  /\ accepted + len <= MaxBytes
  /\ buffers' = [buffers EXCEPT ![0] =
                   Stored(@, 0, len, [i \in 0 .. len - 1 |-> accepted + 1 + i])]
  /\ armed' = FALSE
  /\ transferred' = TRUE
  /\ rxSize' = len
  /\ UNCHANGED <<bufferLengths, readIdx, activeBuffer, readPc, locals, accepted,
                 consumed, configs, cut>>

(***************************************************************************)
(* The end-of-transfer interrupt: USBD_CDC_DataOut, which calls CDC_Receive.     *)
(***************************************************************************)
\* Mutant of GetRxDataSize: the endpoint's packet size, not the received size.
GetRxDataSize_max == CHOOSE n \in WriteLens : \A m \in WriteLens : m <= n

GetRxDataSize == rxSize

\* Mutant of ReceivePacket: the endpoint is not prepared for the next packet.
ReceivePacket_missing == UNCHANGED armed

ReceivePacket == armed' = TRUE

(* RxBuffer as the memcpy of doubleBuffer_write reads it.  Where source and      *)
(* destination overlap without being equal, the copy is undefined.               *)
RxData(len) ==
  LET at == bufferLengths[activeBuffer]
      overlap == activeBuffer = 0 /\ 0 < at /\ at < len
  IN  [i \in 0 .. len - 1 |-> IF overlap THEN Unknown ELSE buffers[0][i]]

CDC_Receive(len) ==
  IF Fits(len)
    THEN /\ doubleBuffer_write(buffers, len, RxData(len))
         /\ accepted' = accepted + len
         /\ ReceivePacket
    ELSE UNCHANGED <<buffers, bufferLengths, accepted, armed>>

DataOut ==
  /\ transferred
  /\ transferred' = FALSE
  /\ CDC_Receive(GetRxDataSize)
  /\ UNCHANGED <<readIdx, activeBuffer, readPc, locals, consumed, configs, rxSize, cut>>

(***************************************************************************)
(* SET_CONFIGURATION: USBD_CDC_Init, which calls CDC_Init.  What was in the       *)
(* buffer is discarded.  The interrupt may come at every step of the reader.      *)
(* Where it comes between a load of the reader and the store or the copy that     *)
(* relies on it, the reader goes on with what it has loaded, although the          *)
(* buffer is now another.                                                         *)
(***************************************************************************)
MidRead == readPc \in {"clear", "copy", "advance"}

\* Mutant of initBuffer: the second half keeps its length.
initBuffer_firstHalf ==
  /\ bufferLengths' = [bufferLengths EXCEPT ![0] = 0]
  /\ readIdx' = 0
  /\ activeBuffer' = 0

initBuffer ==
  /\ bufferLengths' = [h \in Halves |-> 0]
  /\ readIdx' = 0
  /\ activeBuffer' = 0

CDC_Init ==
  /\ configs < MaxConfigs
  /\ configs' = configs + 1
  /\ initBuffer
  /\ armed' = TRUE
  /\ transferred' = FALSE
  /\ consumed' = accepted
  /\ cut' = MidRead
  /\ UNCHANGED <<buffers, readPc, locals, accepted, rxSize>>

UsbRead == Read /\ UNCHANGED usb

UsbNext ==
  \/ UsbRead
  \/ \E len \in WriteLens : RxFifo(len)
  \/ DataOut
  \/ CDC_Init

UsbSpec == UsbInit /\ [][UsbNext]_usbVars

(* The main loop keeps reading; a pending interrupt is taken. *)
FairUsbSpec == UsbSpec /\ WF_usbVars(UsbRead) /\ WF_usbVars(DataOut)
-----------------------------------------------------------------------------

(* The types of DoubleBuffer survive CDC_Init at every step of the reader, also of  *)
(* a read that goes on with a buffer that is no longer the one it measured; and      *)
(* the size CDC_Receive is given is that of a packet.                                *)
UsbTypeOK ==
  /\ TypeOK
  /\ configs \in 0 .. MaxConfigs
  /\ armed \in BOOLEAN
  /\ transferred \in BOOLEAN
  /\ rxSize \in WriteLens \cup {0}
  /\ cut \in BOOLEAN

(* The double buffer's promise also holds of bytes that come in packets, and across     *)
(* CDC_Init, which discards what was unread: every byte accepted since is read once     *)
(* and in order, or still there.  Excepted is what follows a CDC_Init that came in the  *)
(* middle of a read, for doubleBuffer_read then stores a readIdx, or switchActive       *)
(* empties a half, that belongs to the buffer before; the next CDC_Init that does not   *)
(* come in the middle of a read ends that.                                              *)
StreamIntact == ~cut => Accounting /\ DeliveredInOrder

(* The bytes accepted and not yet read are in their place in the two halves:     *)
(* receiving a packet into the buffer's own memory overwrites none of them.      *)
(* The exception is that of StreamIntact.                                        *)
UnreadIntact ==
  ~cut =>
    /\ \A i \in 0 .. Unread - 1 : buffers[getInactive][ReadPosition + i] = consumed + 1 + i
    /\ \A i \in 0 .. bufferLengths[activeBuffer] - 1 :
         buffers[activeBuffer][i] = consumed + Unread + 1 + i

(* A configured endpoint that NAKs has a packet waiting for DataOut: a refused    *)
(* doubleBuffer_write, after which CDC_Receive does not prepare the endpoint      *)
(* again, does not happen to a host that waits for its answers.  The exception    *)
(* is that of StreamIntact: a reader that has lost its place never switches the   *)
(* halves, and the active one fills up.                                           *)
NeverDeaf == configs > 0 /\ ~cut => armed \/ transferred

(* usbd_cdc.c:701-702: traffic is NAKed until the end of the application's         *)
(* transfer; so a NAKing endpoint accepts packets again once the main loop has     *)
(* read what it holds.                                                             *)
NakEnds == (configs > 0 /\ ~cut /\ ~armed) ~> armed

=============================================================================
