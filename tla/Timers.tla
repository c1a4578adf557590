------------------------------- MODULE Timers -------------------------------
(***************************************************************************)
(* The callback timers of Olympus (olympus/utils/timerCallback.c) with what uses *)
(* them: the two songs (olympus/drivers/sounds.c), the heart beat and the speed  *)
(* DAC.                                                                           *)
(*                                                                               *)
(* The tick interrupt sets a flag.  The main loop, some time later, counts every  *)
(* timer down by one and clears the flag only after the last one, so that ticks   *)
(* which arrive in between are merged.  A song's callback plays a note, adds the   *)
(* timer that ends it and gives its own slot back, all in the middle of the pass.  *)
(*                                                                               *)
(* Lengths of notes and periods are counts of ticks.                               *)
(***************************************************************************)
EXTENDS Integers, Sequences

CONSTANTS
  MAX_NUM_CALLBACK_TIMERS,
  windows, shutdown,      \* the songs: the length of each note, noteslen[numnotes]
  SpeedDacPeriod, HeartbeatPeriod,
  MaxErrors               \* bound: error songs in one behaviour

Slots == 0 .. MAX_NUM_CALLBACK_TIMERS - 1
Idle == -1                \* the main loop is not in serviceCallbackTimer
Songs == {"startup", "failure"}
Callbacks == Songs \cup {"speedDACCallback", "heartbeat"}

ASSUME TimersConstants ==
  /\ MAX_NUM_CALLBACK_TIMERS \in Nat /\ MAX_NUM_CALLBACK_TIMERS >= 3
  /\ windows \in Seq(Nat \ {0}) /\ shutdown \in Seq(Nat \ {0})
  /\ Len(shutdown) < Len(windows)
  /\ SpeedDacPeriod \in Nat \ {0} /\ HeartbeatPeriod \in Nat \ {0}
  /\ MaxErrors \in Nat

VARIABLES
  timerList,
  shouldServiceCallbackTimer,
  ndx,        \* the slot the pass is at, or Idle
  idx,        \* the next note, of either song
  sounding,   \* the buzzer plays a note
  errors,     \* error songs asked for
  age,        \* passes completed since each timer was set
  refused     \* addCallbackTimer has returned -1

timerVars == <<timerList, shouldServiceCallbackTimer, ndx, idx, sounding, errors, age, refused>>

Timer(count, callback) ==
  [currentValue |-> count, resetValue |-> count, callback |-> callback]

Armed(list, n) == list[n].resetValue # 0

Free(list) == { n \in Slots : ~Armed(list, n) }

FirstFree(list) == CHOOSE n \in Free(list) : \A m \in Free(list) : n <= m

(* main's calls: initIGVCCallbackTimer, initSpeedDAC, runStartupSong, heartbeat. *)
TimersInit ==
  /\ timerList = [n \in Slots |->
                    CASE n = 0 -> Timer(SpeedDacPeriod, "speedDACCallback")
                      [] n = 1 -> Timer(1, "startup")
                      [] n = 2 -> Timer(HeartbeatPeriod, "heartbeat")
                      [] n > 2 -> Timer(0, "heartbeat")]
  /\ shouldServiceCallbackTimer \in BOOLEAN
  /\ ndx = Idle
  /\ idx = 0
  /\ sounding = FALSE
  /\ errors = 0
  /\ age = [n \in Slots |-> 0]
  /\ refused = FALSE

(* The timer added to the list, and what else adding it changes.  *)
Added(list, count, callback) ==
  IF Free(list) = {} THEN list ELSE [list EXCEPT ![FirstFree(list)] = Timer(count, callback)]

addCallbackTimer(list) ==
  /\ refused' = (refused \/ Free(list) = {})
  /\ age' = IF Free(list) = {} THEN age ELSE [age EXCEPT ![FirstFree(list)] = 0]

CALLBACK_TIMER_ISR ==
  /\ ~shouldServiceCallbackTimer
  /\ shouldServiceCallbackTimer' = TRUE
  /\ UNCHANGED <<timerList, ndx, idx, sounding, errors, age, refused>>

runErrorSong ==
  /\ ndx = Idle
  /\ errors < MaxErrors
  /\ errors' = errors + 1
  /\ timerList' = Added(timerList, 1, "failure")
  /\ addCallbackTimer(timerList)
  /\ UNCHANGED <<shouldServiceCallbackTimer, ndx, idx, sounding>>

Notes(song) == IF song = "startup" THEN windows ELSE shutdown

\* Mutant of LastNote: the note before the last is the last.
LastNote_early(song) == idx = Len(Notes(song)) - 1

LastNote(song) == idx = Len(Notes(song))

\* Mutant of Advance: the song stays at its note.
Advance_not == UNCHANGED idx

Advance == idx' = idx + 1

(* DISABLE_TIMER: the slot is free once the callback has returned. *)
Disabled(list) == [list EXCEPT ![ndx].currentValue = 0, ![ndx].resetValue = 0]

(* The callbacks startup and failure. *)
PlaySong(song) ==
  IF idx < Len(Notes(song))
    THEN /\ sounding' = TRUE
         /\ timerList' = Disabled(Added(timerList, Notes(song)[idx + 1], song))
         /\ addCallbackTimer(timerList)
         /\ Advance
    ELSE /\ sounding' = (sounding /\ ~LastNote(song))
         /\ timerList' = Disabled(timerList)
         /\ UNCHANGED <<idx, age, refused>>

(* heartbeat and speedDACCallback: CONTINUE_TIMER. *)
Reload ==
  /\ timerList' = [timerList EXCEPT ![ndx].currentValue = timerList[ndx].resetValue]
  /\ age' = [age EXCEPT ![ndx] = 0]
  /\ UNCHANGED <<idx, sounding, refused>>

\* Mutant of Expired: the value is tested before it is counted down.
Expired_late(t) == t.currentValue = 0

Expired(t) == t.currentValue - 1 = 0

CountDown ==
  LET t == timerList[ndx] IN
  IF Armed(timerList, ndx) /\ Expired(t)
    THEN IF t.callback \in Songs THEN PlaySong(t.callback) ELSE Reload
    ELSE /\ timerList' = IF Armed(timerList, ndx)
                           THEN [timerList EXCEPT ![ndx].currentValue = @ - 1]
                           ELSE timerList
         /\ UNCHANGED <<idx, sounding, age, refused>>

(* serviceCallbackTimer, slot by slot. *)
ServiceBegin ==
  /\ ndx = Idle
  /\ shouldServiceCallbackTimer
  /\ ndx' = 0
  /\ UNCHANGED <<timerList, shouldServiceCallbackTimer, idx, sounding, errors, age, refused>>

ServiceSlot ==
  /\ ndx \in Slots
  /\ CountDown
  /\ ndx' = ndx + 1
  /\ UNCHANGED <<shouldServiceCallbackTimer, errors>>

ServiceEnd ==
  /\ ndx = MAX_NUM_CALLBACK_TIMERS
  /\ shouldServiceCallbackTimer' = FALSE
  /\ ndx' = Idle
  /\ age' = [n \in Slots |-> IF Armed(timerList, n) THEN age[n] + 1 ELSE 0]
  /\ UNCHANGED <<timerList, idx, sounding, errors, refused>>

serviceCallbackTimer == ServiceBegin \/ ServiceSlot \/ ServiceEnd

TimersNext == CALLBACK_TIMER_ISR \/ runErrorSong \/ serviceCallbackTimer

TimersSpec == TimersInit /\ [][TimersNext]_timerVars
-----------------------------------------------------------------------------

TimersTypeOK ==
  /\ timerList \in [Slots -> [currentValue : Nat, resetValue : Nat, callback : Callbacks]]
  /\ ndx \in -1 .. MAX_NUM_CALLBACK_TIMERS
  /\ idx \in 0 .. Len(windows)
  /\ age \in [Slots -> Nat]
  /\ shouldServiceCallbackTimer \in BOOLEAN
  /\ sounding \in BOOLEAN /\ refused \in BOOLEAN
  /\ errors \in 0 .. MaxErrors

(* A callback runs after the number of passes its timer was set to, or one fewer,   *)
(* never later, although timers are added and removed in the middle of a pass: one  *)
(* that is added behind the slot at work is counted down in the same pass.           *)
OnTime ==
  ndx \in Slots /\ Armed(timerList, ndx) /\ Expired(timerList[ndx])
    => age[ndx] \in {timerList[ndx].resetValue, timerList[ndx].resetValue - 1}

SongPending == \E n \in Slots : Armed(timerList, n) /\ timerList[n].callback \in Songs

(* While the buzzer plays, a timer is set that will end the note, although the      *)
(* songs share idx and add their timers without looking at the result: unless the   *)
(* table was full.                                                                  *)
NoStuckNote == sounding /\ ~refused => SongPending

(* The buzzer falls silent again and again: no note plays for ever, unless the       *)
(* table was full.                                                                   *)
FallsSilent == []<>(~sounding \/ refused)

=============================================================================
