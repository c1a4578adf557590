------------------------------- MODULE Console -------------------------------
(***************************************************************************)
(* The console's input: the circular receive buffer that the DMA fills            *)
(* (olympus/peripherals/usart.c) and the line editor that reads it                 *)
(* (olympus/drivers/console.c), where "[" opens a line, "]" runs it and DEL takes   *)
(* a character back.  Echo and colours are left out, and so is which command the     *)
(* line names: the line that processCommand is given is what counts here.            *)
(*                                                                               *)
(* The last variables are the operator's view: the keys typed and not yet read, and   *)
(* the line as it would be edited without buffers.                                    *)
(***************************************************************************)
EXTENDS Integers, Sequences

CONSTANTS
  Letters,              \* what may stand in a line, "[" aside
  RxSize,               \* sizeof(rxBuffer)
  CONSOLE_MAX_CMD_LEN,
  MaxKeys               \* bound: keys typed

NUL == "NUL"
OpenKey == "["
CloseKey == "]"
DEL == "DEL"
Keys == Letters \cup {OpenKey, CloseKey, DEL}

ASSUME ConsoleConstants ==
  /\ NUL \notin Letters /\ Letters \cap {OpenKey, CloseKey, DEL} = {}
  /\ RxSize \in Nat \ {0, 1} /\ CONSOLE_MAX_CMD_LEN \in Nat \ {0} /\ MaxKeys \in Nat

VARIABLES
  rxBuffer, rxDma, rxBufferPos,       \* positions as offsets into the buffer
  state, cmdBuffer, cmdBufferIdx,
  ran,                                \* the line last run, and the parity of their number
  unread, typed, lapped,              \* keys not yet read; all; more than the buffer holds?
  opened, line,                       \* the operator's line
  spoiled,                            \* an overlong line has been left in cmdBuffer
  meant, excused                      \* as ran; was its line spoiled or overlong?

consoleVars == <<rxBuffer, rxDma, rxBufferPos, state, cmdBuffer, cmdBufferIdx, ran,
                 unread, typed, lapped, opened, line, spoiled, meant, excused>>

ConsoleInit ==
  /\ rxBuffer = [i \in 0 .. RxSize - 1 |-> NUL] /\ rxDma = 0 /\ rxBufferPos = 0
  /\ state = "START"
  /\ cmdBuffer = [i \in 0 .. CONSOLE_MAX_CMD_LEN - 1 |-> NUL] /\ cmdBufferIdx = 0
  /\ ran = <<0, <<>>>>
  /\ unread = <<>> /\ typed = 0 /\ lapped = FALSE
  /\ opened = FALSE /\ line = <<>> /\ spoiled = FALSE
  /\ meant = <<0, <<>>>> /\ excused = FALSE

NextPos(p) == IF p + 1 = RxSize THEN 0 ELSE p + 1

(* A key comes in and the DMA stores it.  Behaviours are followed until it has gone     *)
(* once round the buffer, when the keys in there are lost.                              *)
Type(k) ==
  /\ typed < MaxKeys /\ ~lapped
  /\ rxBuffer' = [rxBuffer EXCEPT ![rxDma] = k]
  /\ rxDma' = IF rxDma + 1 = RxSize THEN 0 ELSE rxDma + 1
  /\ unread' = Append(unread, k)
  /\ typed' = typed + 1
  /\ lapped' = (Len(unread) + 1 = RxSize)
  /\ UNCHANGED <<rxBufferPos, state, cmdBuffer, cmdBufferIdx, ran, opened, line, spoiled,
                 meant, excused>>

getRxBytesAvailable == IF rxBufferPos <= rxDma THEN rxDma - rxBufferPos
                                               ELSE RxSize - (rxBufferPos - rxDma)

(* usartRead(&data, 1) *)
usartRead ==
  /\ getRxBytesAvailable # 0
  /\ rxBufferPos' = NextPos(rxBufferPos)
  /\ UNCHANGED <<rxBuffer, rxDma, typed, lapped>>

data == rxBuffer[rxBufferPos]

(* The string in cmdBuffer, up to the first NUL; without one it runs on into what         *)
(* follows cmdBuffer in memory, be that a NUL or not.                                    *)
Terminated == \E n \in 0 .. CONSOLE_MAX_CMD_LEN - 1 : cmdBuffer[n] = NUL

String(n) == [i \in 1 .. n |-> cmdBuffer[i - 1]]

Strings ==
  IF Terminated
    THEN { String(n) : n \in { k \in 0 .. CONSOLE_MAX_CMD_LEN - 1 :
             cmdBuffer[k] = NUL /\ \A j \in 0 .. k - 1 : cmdBuffer[j] # NUL } }
    ELSE { String(CONSOLE_MAX_CMD_LEN), Append(String(CONSOLE_MAX_CMD_LEN), NUL) }

processCommand == \E s \in Strings : ran' = <<1 - ran[1], s>>

\* Mutant of Backspace: the index goes back, the character stays.
Backspace_keepsChar ==
  /\ data = DEL
  /\ cmdBufferIdx' = IF cmdBufferIdx > 0 THEN cmdBufferIdx - 1 ELSE 0
  /\ UNCHANGED <<state, cmdBuffer, ran>>

(* In either state. *)
Backspace ==
  /\ data = DEL
  /\ IF cmdBufferIdx > 0
       THEN /\ cmdBufferIdx' = cmdBufferIdx - 1
            /\ cmdBuffer' = [cmdBuffer EXCEPT ![cmdBufferIdx - 1] = NUL]
       ELSE UNCHANGED <<cmdBufferIdx, cmdBuffer>>
  /\ UNCHANGED <<state, ran>>

Start ==
  /\ data # DEL /\ state = "START"
  /\ IF data = OpenKey THEN state' = "READING" /\ cmdBufferIdx' = 0
                    ELSE UNCHANGED <<state, cmdBufferIdx>>
  /\ UNCHANGED <<cmdBuffer, ran>>

Run ==
  /\ data = CloseKey /\ state = "READING"
  /\ processCommand
  /\ cmdBuffer' = [i \in 0 .. CONSOLE_MAX_CMD_LEN - 1 |-> NUL]
  /\ state' = "START"
  /\ UNCHANGED cmdBufferIdx

Store ==
  /\ data \notin {DEL, CloseKey} /\ state = "READING"
  /\ IF cmdBufferIdx < CONSOLE_MAX_CMD_LEN
       THEN /\ cmdBuffer' = [cmdBuffer EXCEPT ![cmdBufferIdx] = data]
            /\ cmdBufferIdx' = cmdBufferIdx + 1
            /\ UNCHANGED state
       ELSE state' = "START" /\ UNCHANGED <<cmdBuffer, cmdBufferIdx>>
  /\ UNCHANGED ran

(* The operator's line after the key, which is the oldest one not yet read. *)
Edited(k) ==
  /\ opened' = IF opened THEN k # CloseKey /\ (k = DEL \/ Len(line) < CONSOLE_MAX_CMD_LEN)
                         ELSE k = OpenKey
  /\ line' = IF ~opened \/ k = CloseKey THEN <<>>
             ELSE IF k = DEL THEN SubSeq(line, 1, Len(line) - 1)
             ELSE Append(line, k)
  /\ spoiled' = IF opened /\ k = CloseKey THEN FALSE
                ELSE spoiled \/ (opened /\ ~opened')
  /\ meant' = IF opened /\ k = CloseKey THEN <<1 - meant[1], line>> ELSE meant
  /\ excused' = IF opened /\ k = CloseKey THEN spoiled \/ Len(line) = CONSOLE_MAX_CMD_LEN
                                       ELSE excused

consoleProcessBytes ==
  /\ usartRead
  /\ Backspace \/ Start \/ Run \/ Store
  /\ unread' = Tail(unread) /\ Edited(Head(unread))

ConsoleNext == (\E k \in Keys : Type(k)) \/ consoleProcessBytes

ConsoleSpec == ConsoleInit /\ [][ConsoleNext]_consoleVars
-----------------------------------------------------------------------------

ConsoleTypeOK ==
  /\ rxBuffer \in [0 .. RxSize - 1 -> Keys \cup {NUL}]
  /\ rxDma \in 0 .. RxSize - 1 /\ rxBufferPos \in 0 .. RxSize - 1
  /\ state \in {"START", "READING"}
  /\ cmdBuffer \in [0 .. CONSOLE_MAX_CMD_LEN - 1 -> Keys \cup {NUL}]
  /\ cmdBufferIdx \in 0 .. CONSOLE_MAX_CMD_LEN
  /\ unread \in Seq(Keys) /\ line \in Seq(Keys)
  /\ typed \in 0 .. MaxKeys
  /\ {lapped, opened, spoiled, excused} \subseteq BOOLEAN

(* Until more keys have come in than the receive buffer holds, every line that the       *)
(* operator has closed has been given to processCommand, and no other, and as it was      *)
(* typed, backspaces applied: across the wrap of the receive buffer, the reset of the      *)
(* line buffer and the keys that come in between two lines.  Excused are a line that        *)
(* fills cmdBuffer, and the first one after a line that was too long for it.               *)
LineIsTyped == excused \/ ran = meant

=============================================================================
