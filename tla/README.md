# TLA+ verification of the Olympus firmware

Olympus is the master processor of an autonomous vehicle. It takes commands from
a host over USB or Ethernet, passes them over SPI to five slave processors
(Hermes, Hephaestus, Apollo, Zeus, Janus), and writes to a console. Master and
slaves each have a boot loader, which a Python program on the host drives. This
directory specifies the parts in which interrupts, processors or messages can
meet in the wrong order. TLC checks each on a small instance, and TLAPS proves the
safety properties for every value of the constants.

## The system

| Part | Source | State | Operations | Meets |
|---|---|---|---|---|
| USART transmit | `olympus/peripherals/usart.c` | ring of buffers, DMA, flag | `usartWrite`, `serviceTxDma`, Tx ISR | main loop, DMA, interrupt |
| USART receive | same | circular DMA buffer, read index | `usartGet`, `usartRead` | DMA |
| Double buffer | `*/utils/doubleBuffer.c` | two halves, lengths, active half, read index | write, read, switch, init | USB interrupt against main loop |
| USB CDC | `master_lib/peripherals/USB/usb_otg.c`, `usbd_cdc.c` | endpoint armed, receive buffer, `TxState` | `CDC_Init`, `CDC_Receive`, `DataIn`, `DataOut`, `TransmitPacket` | host, double buffer |
| Host packets | `olympus/drivers/comms.c`, `utils/crc8.c` | parser state, packet and input buffers | `runCommsFSM`, `runPacket`, `sendResponse` | USB, drivers |
| SPI link | `master_lib/drivers/submoduleComms.c`, `slave_lib/` | byte queues, INT pin, slave parser | `messageSubmodule`, `readByte`, `runCommsFSM`, `writeResponse` | master against slave |
| Boot chain | `master_boot/`, `slave_boot/`, `usbFlasher/` | statics of both boot loaders, flash, session | `runBootFSM`, `write_header`, `write_data`, `run_checksum`, `Boot.py` | host, master, slaves |
| Timer callbacks, sounds, speed DAC | `olympus/utils/timerCallback.c`, `drivers/sounds.c`, `speedDAC.c` | table of callbacks, tick flag, song index | add, service, ISR | tick interrupt |
| Submodule drivers | `olympus/drivers/{hermes,hephaestus,apollo,zeus,janus,status}.c` | copies of slave state | one transaction each | SPI link, console, host packets |
| Vehicle control | `hermes/`, `hephaestus/`, `janus/` drivers | speed capture, throttle, steering, gear | ISRs and control loops | sensors, SPI link |
| Console | `olympus/drivers/console.c` | line buffer, cursor, `errno` | `consoleProcessBytes`, commands | USART receive, submodule drivers |
| TCP server | `olympus/peripherals/ETH/tcp_server.c` | one connection and one parser per client, in lwIP's heap | lwIP callbacks | lwIP, host packets |
| I2C driver, `buffer8` | `olympus/peripherals/i2c.c`, `utils/buffer8.c` | | | not part of the build |
| Apollo lights, Zeus, LEDs, display, power ADC | their drivers | outputs and readings | | |
| Vendor and generated code | HAL, LwIP, USB core, peripheral set-up | | | |

`PROJECT.json` lists every part with its status, every definition with the lines
it models, and the hazards with the properties that cover them.

What is hard to test here: an interrupt between two stores of the main loop; one
static buffer that hardware reads later; an answer that arrives after the
timeout; a retry after half of an operation was done; statics that are never
reset; and unsigned lengths that wrap.

## Modules

| Module | Models | Notes |
|---|---|---|
| `UsartTx`, `UsartProofs` | USART transmit | The flag is cleared in a step after the next transfer is started, as in the code. `size` is a 16-bit number. |
| `ByteStream` | abstract | A bounded byte stream: what a buffer between an interrupt and the main loop promises. |
| `DoubleBuffer` | `doubleBuffer.c` | The writer, an interrupt handler, is one step. Each load and store of the reader that matters to it is a step. |
| `DoubleBufferProofs` | | Proofs for `DoubleBuffer`, its refinement of `ByteStream`, and `UsbReceive`. |
| `UsbReceive` | USB receive | Extends `DoubleBuffer`. The endpoint receives into the double buffer's own memory, so a packet lands in half 0 before it is accepted. The device may be reconfigured at every step of a read. |
| `CommsFSM` | host packets over USB | One step per received byte. The answer's static buffer is filled in steps, and the IN endpoint reads it later; the host may or may not wait for it. |
| `MCCommsFSM` | `crc8.c` | The real CRC table, which an `ASSUME` compares with the polynomial division. |
| `CommsProofs` | | Proofs for `CommsFSM`. |
| `SpiLink`, `MCSpiLink`, `SpiProofs` | SPI link | One step per byte exchanged; a timeout may fall at any moment of a wait. What the master sends while it receives may be any byte, the start byte included. |
| `BootChain`, `MCBootChain` | both boot loaders, the flasher | One step per word for the master and per transaction for a slave. An image too large for Olympus may end in a fault. |
| `BootProofs`, `FlashProofs` | | Proofs for `BootChain`: first the control, then what the flashes hold. |
| `Timers` | timer callbacks, sounds, the timer of the speed DAC | `serviceCallbackTimer` takes a step per slot, so that a tick may come between two; a song's callback changes the table in the middle of the pass. Times are counts of ticks. |
| `Vehicle` | submodule drivers, Hermes, Hephaestus, Janus | A command goes from the host or the console through the conversions of both sides to the outputs, which are written one at a time. One of the three slaves is fitted. Throttle and speed are computed as in C: widths, signs and truncation. |
| `TcpServer` | TCP server | lwIP's callbacks in the order in which lwIP may make them. A block that is handed out holds anything, and each connection's parser takes its bytes one by one. |
| `Console` | USART receive, line editor | The DMA's and the reader's positions; the line buffer key by key. Beside it runs the line as the operator sees it. |
| `VehicleProofs`, `OlympusProofs` | | Proofs for these four; `OlympusProofs` has those of `Timers`, `TcpServer` and `Console`. |
| `MCOlympus` | | Runs these four, one in each behaviour: they share no state. |

Bytes in `UsartTx`, `DoubleBuffer` and `UsbReceive` are numbered by their place
in the accepted stream, so "nothing lost, repeated or reordered" is an equation
between numbers. In `SpiLink` a byte carries the number of its transaction.
Operators named `X_something`, with a comment "Mutant of X", are wrong variants
of `X` that show that the properties can fail. They are part of no specification.

How the modules rest on each other: `UsbReceive` uses the steps of
`DoubleBuffer`. `CommsFSM` and `BootChain` take bytes and words in order, which
`UsbReceive` shows for a host that waits for its answers. In `BootChain` a
message to a slave runs once or not at all, in order. Its transaction may time
out, and an answer left over from a timeout may end the next one early. This is
what `SpiLink` and its run `spi_stale` show of the link, and `Vehicle` takes the
same link a message at a time. `TcpServer` takes a parser through
its states byte by byte; what it does with a whole packet is `CommsFSM`. `Console` ends at the
line given to `processCommand`; the commands that move the vehicle begin
`Vehicle`. These links are arguments, not proofs: no module composes the layers.

## Runs

| Run | Bounds | Shows |
|---|---|---|
| `usart_tx` | 3 buffers of 3 bytes, writes of 1 to 10, 13 bytes in all | The wire carries accepted bytes once and in order. Bytes are dropped only when all other buffers are full. `usartWrite` returns although its size wraps. The transmitter stalls only if a completion is lost. |
| `usart_tx_lost` | same | **Violated.** A transfer that ends between `startTxDma` and the clearing of the flag is forgotten, and the transmitter stops. |
| `double_buffer` | halves of 3, 9 bytes | No interleaving of the unlocked swap loses or repeats a byte. It implements `ByteStream`, and what is accepted is read in the end. |
| `usb_receive` | halves of 3, 6 bytes, 3 configurations at any step, host waits for answers | Bytes are read once and in order, unread ones stay intact and the endpoint never goes deaf, also across reconfigurations, with the exception given below. |
| `usb_pipelined` | halves of 4, packets of 2 | **Violated.** A host that does not wait overwrites unread bytes. |
| `usb_deaf` | halves of 2, packets of 2 | **Violated.** A refused packet leaves the endpoint unarmed for ever. |
| `comms_fsm` | packets of up to 8 bytes, 4 packets, 3 noise bytes, endless stream, a host that waits or not | Stores stay in the buffer, a clean packet runs once with its data, and to a host that waited the answer carries its type and number. |
| `spi_link` | 4 message types, 3 transactions, dummy bytes that are a start byte or a type | Messages run in order with their own data, none lost, until a dummy byte is taken for a start byte. Answers belong to their transaction until a timeout, and again once the slave is at rest. The master always returns. |
| `spi_stale` | same | **Violated.** After a timeout the master may receive before its message was run. |
| `boot_chain` | 2 slaves, 101 sessions, 8 words of flash, 3 timeouts and the stale answers they leave | What is reported installed is installed and no partly written program starts, with the exceptions given below. No boot code reaches an application, no answer is overwritten, and the session ends. |
| `boot_twice` | Olympus twice in a session | **Violated.** The second image is written behind the first, and its checksum passes. |
| `olympus`, timers | 6 slots, songs of 3 and 2 notes, 4 error songs | A callback runs after its number of passes or one fewer. A sounding note always has a timer that ends it, and the buzzer falls silent again and again. |
| `olympus`, vehicle | 2 commands, any timeouts, 2 pulses | The two relays of the gear, and after the first pass the two channels of the motor, are never on together. The status that comes back is true. Steering settles. With goal 0 and at most 1024 mm/s the throttle stays low. |
| `olympus`, TCP | 2 connections, 4 blocks, headers of 4 and packets of up to 6 bytes | Every open connection has its own two blocks and answers its own client, and the packets its parser completes are that client's bytes. |
| `olympus`, console | receive buffer of 3, lines of 3, 10 keys | Every closed line runs, once and as typed. |

The violated properties restate a comment or docstring of the repository;
`PROJECT.json` quotes it under "findings". Further limits are visible in
the properties themselves:

* `StreamIntact`, `UnreadIntact` and `NeverDeaf` exclude what follows a
  reconfiguration between a load of the reader and the store or copy that relies on
  it (`cut`). The read then ends with an index, or empties a half, of the buffer from
  before. The run goes on from there with the index wrapping as in C.
* `CleanPacketRuns` excludes a parser whose buffer still holds the length byte 5.
  `runCommsFSM` tests the length one byte before it arrives. `OwnHandler` has the same
  exception (`OwnPacket`): the header then ends early, and the length byte is taken
  for the checksum.
* `AnswerMatches` speaks of packets that a host sent after the answer before had
  left (`waited`). `sendResponse` fills its one static buffer while the endpoint may
  still read it, and ignores `BUSY`, so that otherwise answers mix or are lost.
* `ExecutesInOrder`, `AllExecuted` and `FreshUntilTimeout` end with a dummy byte that
  is read as a start byte (`strayStart`). `messageSubmodule` sends uninitialised
  memory while it receives the status. `FreshFromRest` does not end there: once the
  slave is at rest again, answers are right.
* `HeaderAcceptedUnlessDataFailed` excludes sessions with a failed data message.
  `runBootFSM` then keeps its byte count and refuses the next header.
* `VerifiedIsInstalled` and `StartsWholeProgram` exclude a session in which the
  answer to a transaction that timed out is taken for that to the restart request
  (`FalseRestart`). A slave already in its boot loader ignores the request. It goes
  on at its old write address, and its checksum passes. `VerifiedIsInstalled` also
  excludes a refusal of any message that such an answer hides (`hidden`): an image
  too large for the slave is then reported installed. Without the exceptions TLC
  finds both violated.
* An image too large for Olympus (`TooLarge`, `OlympusFits`) is excluded from what the
  properties say of the flash of Olympus: `runBootFSM` looks at no size, unlike
  `write_header`. `Completes` then lets the master end in a fault. `TypeOK` and
  `StartsWholeProgram` say nothing of Olympus after a second image for it, which is
  `boot_twice`.
* The properties of `BootChain` except `HeaderAcceptedUnlessDataFailed` exclude a
  session with an empty image (`NoEmptyImage`), and `Completes` asks less of it.
  `runBootFSM` waits for the equality `count == header.size`, which is then never
  true, and takes the messages that follow for data. Without the exception TLC finds
  them violated.
* `NeverBothWays` begins with the first pass of the steering loop.
  `MX_TIMER_1_INIT` starts both channels of the motor with pulses of their own.
* `CommandsAnswered` speaks of slaves at rest and of numbers that fit. It lets the
  console refuse a good value after a number that overflowed: `parseUint8` and
  `parseUint16` test `errno`, and nothing clears it. A number out of range prints
  an error and is then cut off and used (301 becomes 45). A speed above 4095 is
  answered `ok` and cut to 4095 by `set_starg_callback` (`CutOff`), although
  `console.c:80` offers targets up to 5000.
* `SteerSettles` excludes a slave left waiting in `runResponse` by a timeout. The
  motor then runs on without control until the next message.
* `StopCutsThrottle` excludes speeds above 1024 mm/s. `updateThrottle` does not
  limit its result; with the goal 0 it is then below -256, and the 12 bits for the
  DAC wrap to nearly full throttle. Nothing calls `checkTimeout`, so a speed that
  is no longer measured stays.
* `NoStuckNote` and `FallsSilent` exclude a full table. The songs ignore the result
  of `addCallbackTimer`.
* `OwnHandler` excludes what follows a failed allocation of a handler.
  `tcp_server_accept` frees the connection and then calls
  `tcp_server_connection_close`, which frees it again.
* `LineIsTyped` ends when the DMA has lapped the reader. It excuses a line that
  fills `cmdBuffer`, which has no terminator, and the line after one that was too
  long, whose characters are still there.

### Why the bounds are enough

Sizes are the smallest at which every boundary exists: a ring with a buffer that is
neither sent nor written; a write that overruns the whole ring; halves that fill, wrap and
refuse; a packet with no, part of and all its data, and, after noise, a length byte beyond
the buffer; images of less than, exactly and more than one chunk, filling a sector or not,
empty, and too large, for slaves and for Olympus. Three transactions let a timed-out
message meet the next one and leave one more to recover. `comms_fsm` has no bound on the
length of the stream. In `olympus`, six slots let four error songs fill the table while
the startup song plays. Two commands let the second meet the answer or the timeout of the
first; their values lie inside, on and outside each range. The angles are both limits and
one in between, and the steering starts where a turn each way is needed. A pulse every
12900 or 51600 counts is above or below the speed that wraps. A connection gets blocks
with arbitrary contents while the other is in the middle of a packet; the byte values are
the two start bytes and a third, which as lengths end a packet early, with the header, and
behind it. The console's keys make a line that is edited, one that fills the buffer and
one too long, all across the wrap of the receive buffer.

Assumptions made in the bounds:

* Widths and sizes are scaled down. A `uint32_t` index of the double buffer has 8
  values (`IdxRange`), enough to hold two halves, and wraps. In `TcpServer` a header
  has 4 bytes and a packet 6 (5 and 64 in the code).
* Images in `boot_chain` are whole words, and checksums do not overflow.
* The slave's 256-byte queues are not filled.
* Between two averages of the steering position the motor moves at most `PotStep`,
  the width of the dead zone. With more, bang-bang control need not settle.
* The vehicle is not faster than 32 m/s; above, the speed does not fit an `int16_t`.

### Fairness

Weak fairness only, each on code that runs without a condition outside it:

* `UsartTx`: the main loop calls `serviceTxDma` in every pass, `usartWrite` runs
  to its end, and the DMA and its interrupt proceed by themselves.
* `DoubleBuffer`, `UsbReceive`: the main loop polls for ever
  (`olympus/main.c:112-132`), and a pending interrupt is taken.
* `SpiLink`: both processors keep running. Every wait of the master has a timeout.
* `BootChain`: the flasher and the master's boot loader keep running. The
  flasher's read has a timeout of 15 s, taken here to be longer than any work of
  the master.

* `MCOlympus`: the timer interrupts and the main loop serves it; master and slave
  loop; the ADC converts continuously; a motor that is driven moves until the stop.

No fairness is assumed of callers, of the host, or of what may fail. `CommsFSM`
has safety properties only. Deadlock checking is off where a run really may
stop: the session is over, the board was halted, or the bound on transactions
is reached.

## Proofs

Each proof module has an inductive invariant (`IInv` or a name that ends in `Inv`),
a theorem that it always holds, and the properties that follow. TLC checked every
invariant on the instance of its run first. "Assumes" below names the `ASSUME` of
the module; a hypothesis is part of the theorem's statement.

| Module | Theorem | Property | Hypothesis |
|---|---|---|---|
| `UsartProofs` | `SentInOrder`, `DropsWhenFull` | `TypeOK`, `InOrder`; `DropOnlyWhenFull` | |
| `DoubleBufferProofs` | `NothingLost`, `Refinement` | `TypeOK`, `Accounting`, `DeliveredInOrder`; `StreamSpec` | |
| | `EndpointListens`, `PacketsIntact` | `UsbTypeOK`, `NeverDeaf`; `StreamIntact`, `UnreadIntact` | `Lockstep` |
| `CommsProofs` | `AssemblesArrived` | `TypeOK`, `HoldsArrived` | |
| | `CleanPackets` | `CleanPacketRuns`, `AnswerMatches` | `CrcOfPrefix` |
| `SpiProofs` | `LinkTypes`, `MessagesInOrder`, `AnswersFresh` | `TypeOK`; `ExecutesInOrder`, `AllExecuted`; `FreshUntilTimeout`, `FreshFromRest` (the latter for `~strayStart`) | |
| `BootProofs` | `BootInStep` | `OneAnswer`, `HeaderAcceptedUnlessDataFailed`, `CommandsNoVehicle` | |
| `FlashProofs` | `InstalledWhole`, `BootTypes` | `VerifiedIsInstalled` (for `OlympusOnce`), `StartsWholeProgram`; `TypeOK` | |
| `VehicleProofs` | `PinsExclusive`, `ThrottleCut`, `AnswersTrue` | `NeverBothWays`, `StopCutsThrottle`, `CommandsAnswered` | |
| `OlympusProofs` | `CallbacksOnTime`, `NotesEnd` | `TimersTypeOK`, `OnTime`; `NoStuckNote` | |
| | `ConnectionsOwnMemory`, `LinesRunAsTyped` | `OwnHandler`, `LineIsTyped` | |

**`UsartProofs`** assumes `UsartConstants`: at least two buffers, of fewer than 2^15
bytes, so that two of them do not wrap `size`. `InOrder` says only what was sent. The
invariant adds where the other bytes are:

* `RingOK`: going round from the buffer being sent, buffers are full, then at most
  one is partly filled, then all are empty; `usartWrite` stands at the last of them,
  or at the buffer being sent when all others are full;
* `Overrunning`: what is left of a `usartWrite` whose `size` has wrapped. It fills the
  buffer being sent beyond the count that the DMA was given, so these bytes do not
  reach the wire;
* `Placed`: there is a position in the stream for every buffer, from which its bytes
  follow each other, and each buffer begins where the one before it ends;
* `DmaOK`: a completion is flagged only for a transfer that has ended, except inside
  `serviceTxDma`, which clears the flag late.

`DropsWhenFull` is an action property and follows from the same invariant.

**`DoubleBufferProofs`** assumes `DoubleBufferConstants`: the sizes are natural numbers,
no read has length 0, and an index can count two halves without wrapping. `Accounting` is
not inductive, because it does not say where the unread bytes are or what the reader has
already measured. `IInv` adds

* `Placement`: unread byte *i* of each half is the right one. The read position
  counts as 0 between the emptying of the drained half and the reset of
  `readIdx`, when `readIdx` is stale;
* `ReaderFacts`: at each step of the reader, what it measured is still true. The
  interrupt only appends to the active half.

There is one lemma or step per action. `Invariance` gives `NothingLost`. `Refinement`
shows that every step is a step of `ByteStream` or a stutter; a read takes effect when it
copies.

The proofs for `UsbReceive` go on from these: the steps of the reader are those of
`DoubleBuffer`. The hypothesis `Lockstep` says that the host waits until its last
packet was read; `usb_pipelined` shows that it cannot be left out. The device may be
configured at every step. The types hold throughout. As long as no configuration fell
between a load and its use (`~cut`), the invariant of `DoubleBuffer` holds too, and
`PacketWaits` adds that a packet in the endpoint's buffer finds nothing unread; so both
halves are drained and it overwrites nothing.

**`CommsProofs`** assumes `CommsConstants`: the buffer is larger than a header
and the input data together, and the bytes in use are among 0..255. The checksum
is an arbitrary operator. `Progress`, the range of `packetIdx` in each state,
makes the invariant inductive. `AssemblesArrived` shows that every store is inside
the packet buffer for every length byte, and that a packet is exactly the bytes since
its start byte. `CleanPackets` also assumes
`PacketsWellFormed`, which says what a packet is, and has the hypothesis
`CrcOfPrefix`: the checksum of *n* bytes depends on these only, as the loop of `crc8`
shows. Its invariant `CleanInv` says that a clean packet's bytes so far are in the
buffer, in the state `StateAfter` their number; and when they have all arrived, that
the packet ran. For a host that waited it adds `Answering`: the endpoint is free while
the packet arrives, and at each step of `sendResponse` and of the transfer the static
buffer holds what was stored so far, and in the end the packet's own answer.

**`SpiProofs`** assumes `SpiConstants`. `Typed`, the ranges, holds always, and the rest of
the invariant until a dummy byte was taken for a start byte (`strayStart`). That the slave
runs messages in order rests on what its queue holds, which no property says. `Queued`
does: the bytes in the queue lead the parser from the phase and message it is in to the
phase and message the master is in. `Feed` states it with a phase and a message number for
every place in the queue, and a message whose bytes have ended does not go on; lemmas add
a byte behind (the master sends) and take one from the front (the slave reads). `Parsed`
ties the message at work to its number and type. `AnswerKept` says what is left of the
answer at each step of the master. It is asked for only while `Clean`: there was no
timeout, or none since the slave was at rest. After a timeout it does fail, which is
`spi_stale`.

**`BootProofs`** assumes `BootConstants`: the slaves, keys and sizes are what the code
takes them for, every image is whole words, and Olympus comes last in a session of
several images. `ControlInv` has three parts:

* `Base`: the ranges of the flasher's and the slaves' variables that the rest needs;
* `InStep`: for each stage of the flasher, which words of its message the master has
  taken, which are still in the stream, and where `runBootFSM` stands (`HeaderSent`,
  `HeaderPassedOn`, `DataSent`, ...). `Opened` says that a slave which is sent boot codes
  has been restarted into its boot loader. `Stray` and `Junk` describe what a failed data
  message leaves: a byte count that is not reset, and then the rest of a header that was
  refused in its middle;
* `Stuck`: what holds instead after the header of an empty image;
* `Faulted`: what holds instead after an image that is too large for Olympus. Only the
  flasher goes on, and each of its reads times out.

Each action of the flasher and each word or transaction of the master leads from one case
of `InStep` to another; the three properties are read off.

**`FlashProofs`** extends these with `FlashInv`, which holds up to the two exceptions
`NoEmptyImage` and `FalseRestart` of the properties themselves:

* `SlaveLoads`, at each stage of an image for a slave: `Loaded(n)`, the slave has written
  *n* bytes of it, its address and count agree, and behind them the flash is erased
  (`Part`); `Gathered`, the words that the master holds for the next message are those
  that follow. A data message whose transaction timed out may or may not have been run;
  the session then gives up the image, so neither case is reported as installed;
* `OlympusLoads`: the same of the master's own flash and `dataAddr`;
* `SlaveOK` and `VerifiedInv`: a slave that runs an application has the old one or a whole
  image, and the images reported as installed are where they should be.

That an image is whole follows from the byte count and `flashComplete`, not from the
checksum; so nothing about sums over sequences is needed. `OlympusLoads` is asked for only
when a session has at most one image for Olympus and that fits (`OneFits`): `runBootFSM`
checks neither. `VerifiedIsInstalled` itself has no exception for a second image, since that
is what `boot_twice` violates; so the theorem states it for `OlympusOnce`.

**`VehicleProofs`** uses no assumption about the constants: it holds for all commands,
sensors and slaves. For `NeverBothWays`, `PinInv` adds where the main loop is and what is left to
write: a pair of writes clears an output and then sets or clears the opposite one, so
that the last write finds it off. `StopCutsThrottle` is inductive; its proof is the
arithmetic of `updateThrottle` and of the 12 bits of the DAC. For `CommandsAnswered`,
`AnswerInv` follows a command to a slave at rest: the message in the queue is the value
as the driver split it, the status in the callback is the judgement of that value, and
the writes still to do complete it: the relays, the target in steps of the potentiometer
or the speed are then exactly those of the value. No message is left behind that could undo it.

**`OlympusProofs`** assumes `TcpConstants`, `ConsoleConstants` and `TimersConstants`.
`TcpIInv` adds to the types and to `OwnHandler` where each parser is: `Progress` ties its
state to the index and to the number of bytes its client has sent of the packet, whatever
the rest of the block holds. `accept` takes blocks that no connection owns and starts
their parser at 0, and a close returns exactly those of its connection. For the console, a
receive buffer of at least two bytes, a line buffer of at least one and distinct keys are
assumed. `RingInv` says that the unread keys lie between the two positions; as long as the
reader is not lapped, equal positions mean that there is none. `EditInv` says that the
line buffer holds the operator's line, with nothing behind it unless an overlong line was
left there; so the first NUL is at its end when it runs.

For the timers, at least three slots, songs of positive notes and an error song that is
the shorter one are assumed. `OnTime` needs `Counted`: an armed
timer has been counted down once in every pass completed since it was set, and once
more if the pass under way has gone past it; a timer set behind the slot at work
gains one. `NoStuckNote` needs `SongAlive`: the startup song still has its timer, or
it has ended, and the error song, which is shorter, has no note left either.
`FirstFree` is a free slot because a non-empty set of naturals has a
least element.

Only model-checked:

* every liveness property (`StallsOnlyOnLostCompletion`, `WriteReturns`,
  `EventuallyDelivered`, `MasterReturns`, `Completes`, `FallsSilent`, `SteerSettles`):
  liveness under fairness is out of the prover's reach;
* `FreshFromRest` after a stray start byte: the argument that the parser finds its way
  back needs an invariant about every misread of the queue;
* that the table of `crc8.c` computes the polynomial division: what a recursive
  definition computes for every input needs induction over data.

## Not modelled

* Vendor and generated code: the HAL and CMSIS for each of the eight programs, LwIP,
  the USB core, peripheral set-up. It is nearly all of the repository's lines; the
  firmware written for this vehicle is about one in seventy. It appears only as the
  steps its interrupts and callbacks cause.
* Code that is not compiled or not reached: `olympus/peripherals/i2c.c` and
  `buffer8.c`, the brake, the speed of the steering motor, `checkTimeout`, the ramp of
  the speed DAC, Apollo's message loop, the master's copies of slave state.
* Outputs and readings without a protocol: LEDs, displays, lights, power ADC.
* Matching and splitting of console commands. Two limits are visible in the code:
  `processCommand` looks at `commands[-1]` when no command matches, and
  `createArgv` writes one element too far at 32 arguments.
* Answers over TCP: `tcp_server_send` drops an answer that does not fit and prints so.
* The control endpoint and the descriptors of USB.
* Loss of power. At power-on both boot loaders jump to the application without
  looking at it.
* Start-up: clocks, vector tables, and the choice between boot loader and
  application.
* The main loop of Olympus as a whole. The calls it makes share the processor's time
  and the console's output, but no state of these models.

## Plan

1. Splitting and matching of console commands as operators on short lines.
2. `Vehicle` above `SpiLink`, as a refinement of its link.
