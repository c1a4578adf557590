------------------------------- MODULE Vehicle -------------------------------
(***************************************************************************)
(* Driving: a command from the host or the console, the driver on Olympus that   *)
(* turns it into a message (olympus/drivers/janus.c, hephaestus.c, hermes.c), and *)
(* the slave that runs it in its main loop and moves the vehicle: Janus the gear,  *)
(* Hephaestus the steering motor, Hermes the throttle.  The slaves share nothing,  *)
(* so a behaviour has one of them fitted.                                           *)
(*                                                                               *)
(* The link is SpiLink's, a message at a time.  The slave waits in writeResponse     *)
(* until the answer is clocked out, by the master reading it or by the first byte    *)
(* of the next message, and does not control the vehicle meanwhile.                  *)
(***************************************************************************)
EXTENDS Integers, Sequences

CONSTANTS
  HostValues,    \* values tried in packets, per slave
  TypedNumbers,  \* numbers tried at the console; Huge does not fit a long
  Huge,
  Pots, PotStep, \* where the steering may stand, and how far it moves between averages
  Diffs,         \* timer counts between two pulses of the speed sensor
  MaxCommands,   \* bound: commands in one behaviour
  MaxPulses      \* bound: pulses of the speed sensor

Modules == {"janus", "hephaestus", "hermes"}

NEUTRAL == 0
FORWARD == 1
REVERSE == 2

MAX_LEFT_POT == 975
MIDDLE_POT == 1600
MAX_RIGHT_POT == 1917
MAX_LEFT_DEG == 45
MAX_RIGHT_DEG == 125
DEADZONE == 50

MAX_THROTTLE == 4095

UINT8_MAX == 255
UINT16_MAX == 65535

ASSUME VehicleConstants ==
  /\ \A m \in Modules : HostValues[m] \subseteq 0 .. (IF m = "hermes" THEN UINT16_MAX ELSE UINT8_MAX)
  /\ \A m \in Modules : TypedNumbers[m] \subseteq Int
  /\ Huge \in Int
  /\ Pots \subseteq MAX_LEFT_POT .. MAX_RIGHT_POT
  /\ PotStep \in 1 .. 2 * DEADZONE
  /\ Diffs \subseteq Nat /\ \A d \in Diffs : d = 0 \/ d > 1600   \* at most 32 m/s
  /\ MaxCommands \in Nat /\ MaxPulses \in Nat

VARIABLES
  fitted,        \* the slave
  \* the master
  master, wanted, result, errno, commands,
  rested, late,  \* the slave was at rest when the message was sent; a wait timed out
  \* the link: messages received, the answer not yet clocked out, the pin
  rx, tx, INT,
  \* the slave's main loop: where it is, the status to answer, output writes to do
  at, status, todo,
  pins,          \* the outputs: Janus's relays, Hephaestus's PWM channels
  \* Hephaestus
  targetSteerValue, adcChnAvg, motorOnLeft, motorOnRight,
  pot,           \* where the steering stands
  acted, passed, \* the loop has run on the last average; has run at all
  \* Hermes
  goalSpeed, ch1Speed, ch1SpeedWr, prevError, dac,
  pass,          \* what the last updateThrottle saw
  pulses         \* pulses so far

masterVars == <<master, wanted, result, errno, commands, rested, late>>
linkVars == <<rx, tx, INT>>
loopVars == <<at, status, todo, pins, passed>>
steerVars == <<targetSteerValue, adcChnAvg, motorOnLeft, motorOnRight, pot, acted>>
throttleVars == <<goalSpeed, ch1Speed, ch1SpeedWr, prevError, dac, pass, pulses>>
vehicleVars == <<fitted, masterVars, linkVars, loopVars, steerVars, throttleVars>>

(* MX_TIMER_1_INIT starts both channels of the steering motor. *)
VehicleInit ==
  /\ fitted \in Modules
  /\ master = "idle" /\ wanted = 0 /\ result = "none" /\ errno = FALSE /\ commands = 0
  /\ rested = FALSE /\ late = FALSE
  /\ rx = <<>> /\ tx = "" /\ INT = FALSE
  /\ at = "loop" /\ status = "" /\ todo = <<>>
  /\ pins = [p \in {"FORWARD", "REVERSE", "CH1", "CH2"} |-> p \in {"CH1", "CH2"}]
  /\ passed = FALSE
  /\ targetSteerValue = MIDDLE_POT /\ adcChnAvg = 0
  /\ motorOnLeft = FALSE /\ motorOnRight = FALSE
  /\ pot \in (IF fitted = "hephaestus" THEN Pots ELSE {MIDDLE_POT}) /\ acted = FALSE
  /\ goalSpeed = 0 /\ ch1Speed = <<0, 0>> /\ ch1SpeedWr = 1 /\ prevError = 0 /\ dac = 0
  /\ pass = [goal |-> 0, speed |-> 0, steady |-> TRUE]
  /\ pulses = 0

(***************************************************************************)
(* The drivers on Olympus.                                                      *)
(***************************************************************************)
AtRest == at \in {"loop", "control", "drive"} /\ rx = <<>> /\ tx = "" /\ ~INT

(* messageSubmodule up to the wait.  The first byte clocks an old answer out. *)
Send(bytes) ==
  /\ master' = "wait"
  /\ rx' = Append(rx, bytes)
  /\ tx' = ""
  /\ rested' = AtRest
  /\ result' = "none"
  /\ UNCHANGED <<late, INT>>

(* Most significant byte first. *)
updateHermesSetSpeedTarget(mms) == Send(<<mms \div 256, mms % 256>>)

Drive(v) == IF fitted = "hermes" THEN updateHermesSetSpeedTarget(v) ELSE Send(<<v>>)

\* Mutant of commsSetSpeed: the bytes of the packet taken the other way round.
commsSetSpeed_swapped(data) == 256 * data[1] + data[2]

(* Least significant byte first. *)
commsSetSpeed(data) == 256 * data[2] + data[1]

Command(v) ==
  /\ master = "idle"
  /\ commands < MaxCommands
  /\ commands' = commands + 1
  /\ wanted' = v
  /\ UNCHANGED <<fitted, loopVars, steerVars, throttleVars>>

(* commsSetFNR, commsSetSteering, commsSetSpeed, from a packet. *)
HostCommand(v) ==
  /\ Command(v)
  /\ Drive(IF fitted = "hermes" THEN commsSetSpeed(<<v % 256, v \div 256>>) ELSE v)
  /\ UNCHANGED errno

(* The largest value of a command. *)
Largest == IF fitted = "hermes" THEN UINT16_MAX ELSE UINT8_MAX

(* parseUint8, parseUint16: nothing clears errno. *)
Parsed(n) == IF n = Huge THEN Largest ELSE n % (Largest + 1)

ConsoleAllows(v) ==
  CASE fitted = "janus" -> v <= 2
    [] fitted = "hermes" -> ~errno'
    [] fitted = "hephaestus" -> ~errno' /\ v < 180

(* console_setFNR, console_setSpeedTarget, console_setSteerTarget. *)
ConsoleCommand(n) ==
  /\ Command(n)
  /\ errno' = (errno \/ n = Huge)
  /\ IF ConsoleAllows(Parsed(n))
       THEN Drive(Parsed(n))
       ELSE result' = "refused" /\ UNCHANGED <<master, rested, late, linkVars>>

(* The answer, or noise when there is none. *)
WaitReady ==
  /\ master = "wait"
  /\ INT
  /\ result' \in IF tx # "" THEN {tx} ELSE {"ok", "error"}
  /\ tx' = ""
  /\ master' = "release"
  /\ UNCHANGED <<fitted, wanted, errno, commands, rested, late, rx, INT, loopVars, steerVars,
                 throttleVars>>

WaitTimeout ==
  /\ master = "wait"
  /\ result' = "timeout"
  /\ late' = TRUE
  /\ master' = "idle"
  /\ UNCHANGED <<fitted, wanted, errno, commands, rested, linkVars, loopVars, steerVars,
                 throttleVars>>

(* The pin has fallen, or the second wait times out. *)
deselectModule ==
  /\ master = "release"
  /\ master' = "idle"
  /\ late' = (late \/ INT)
  /\ UNCHANGED <<fitted, wanted, result, errno, commands, rested, linkVars, loopVars,
                 steerVars, throttleVars>>

messageSubmodule == WaitReady \/ WaitTimeout \/ deselectModule

(***************************************************************************)
(* The outputs: what each function writes, in order.                            *)
(***************************************************************************)
\* Mutant of setFNR: the relay is set before the other is cleared.
setFNR_setFirst(state) ==
  CASE state = NEUTRAL -> << <<"FORWARD", FALSE>>, <<"REVERSE", FALSE>> >>
    [] state = FORWARD -> << <<"FORWARD", TRUE>>, <<"REVERSE", FALSE>> >>
    [] state = REVERSE -> << <<"FORWARD", FALSE>>, <<"REVERSE", TRUE>> >>

setFNR(state) ==
  CASE state = NEUTRAL -> << <<"FORWARD", FALSE>>, <<"REVERSE", FALSE>> >>
    [] state = FORWARD -> << <<"REVERSE", FALSE>>, <<"FORWARD", TRUE>> >>
    [] state = REVERSE -> << <<"FORWARD", FALSE>>, <<"REVERSE", TRUE>> >>

steer_left == << <<"CH1", FALSE>>, <<"CH2", TRUE>> >>
steer_right == << <<"CH2", FALSE>>, <<"CH1", TRUE>> >>
steer_stop == << <<"CH1", FALSE>>, <<"CH2", FALSE>> >>

WritePin ==
  /\ at \in {"callback", "drive"}
  /\ todo # <<>>
  /\ pins' = [pins EXCEPT ![Head(todo)[1]] = Head(todo)[2]]
  /\ todo' = Tail(todo)
  /\ at' = IF at = "drive" /\ todo' = <<>> THEN "loop" ELSE at
  /\ passed' = (passed \/ at = "drive")
  /\ UNCHANGED <<fitted, masterVars, linkVars, status, steerVars, throttleVars>>

(***************************************************************************)
(* The slave's main loop: a message, if there is one, then the control loop.     *)
(***************************************************************************)
POT_DEG_SLOPE == (MAX_RIGHT_POT - MAX_LEFT_POT) \div (MAX_RIGHT_DEG - MAX_LEFT_DEG)
POT_DEG_INTERCEPT == MAX_LEFT_POT - MAX_LEFT_DEG * POT_DEG_SLOPE
CORRECTION_OFFSET == 100

deg_to_pot(deg) == deg * POT_DEG_SLOPE + POT_DEG_INTERCEPT + CORRECTION_OFFSET

set_fnr_callback(data) ==
  /\ status' = IF data[1] \in {NEUTRAL, FORWARD, REVERSE} THEN "ok" ELSE "error"
  /\ todo' = IF status' = "ok" THEN setFNR(data[1]) ELSE <<>>
  /\ UNCHANGED <<targetSteerValue, goalSpeed>>

set_steer_callback(data) ==
  /\ status' = IF data[1] \in MAX_LEFT_DEG .. MAX_RIGHT_DEG THEN "ok" ELSE "error"
  /\ targetSteerValue' = IF status' = "ok" THEN deg_to_pot(data[1]) ELSE targetSteerValue
  /\ UNCHANGED <<todo, goalSpeed>>

set_starg_callback(data) ==
  LET mms == data[2] + 256 * data[1] IN
  /\ status' = "ok"
  /\ goalSpeed' = IF mms > MAX_THROTTLE THEN MAX_THROTTLE ELSE mms
  /\ UNCHANGED <<todo, targetSteerValue>>

RunMessage ==
  /\ at = "loop"
  /\ rx # <<>>
  /\ rx' = Tail(rx)
  /\ at' = "callback"
  /\ \/ fitted = "janus" /\ set_fnr_callback(Head(rx))
     \/ fitted = "hephaestus" /\ set_steer_callback(Head(rx))
     \/ fitted = "hermes" /\ set_starg_callback(Head(rx))
  /\ UNCHANGED <<fitted, masterVars, tx, INT, pins, passed, adcChnAvg, motorOnLeft,
                 motorOnRight, pot, acted, ch1Speed, ch1SpeedWr, prevError, dac, pass,
                 pulses>>

NoMessage ==
  /\ at = "loop"
  /\ rx = <<>>
  /\ at' = "control"
  /\ UNCHANGED <<fitted, masterVars, linkVars, status, todo, pins, passed, steerVars,
                 throttleVars>>

writeResponse ==
  /\ at = "callback"
  /\ todo = <<>>
  /\ tx' = status
  /\ INT' = TRUE
  /\ at' = "answer"
  /\ UNCHANGED <<fitted, masterVars, rx, status, todo, pins, passed, steerVars, throttleVars>>

clearSPIInt ==
  /\ at = "answer"
  /\ tx = ""
  /\ INT' = FALSE
  /\ at' = "control"
  /\ UNCHANGED <<fitted, masterVars, rx, tx, status, todo, pins, passed, steerVars,
                 throttleVars>>

\* Mutant of InDeadzone: half as wide.
InDeadzone_narrow(p) == p \in targetSteerValue - 25 .. targetSteerValue + 25

InDeadzone(p) == p \in targetSteerValue - DEADZONE .. targetSteerValue + DEADZONE

(* Bang-bang control. *)
update_steer_control_loop ==
  /\ at = "control"
  /\ fitted = "hephaestus"
  /\ LET stop == InDeadzone(adcChnAvg)
         right == ~stop /\ adcChnAvg < targetSteerValue
         left == ~stop /\ ~right
     IN  /\ todo' = IF stop THEN steer_stop
                    ELSE IF right /\ ~motorOnRight THEN steer_right
                    ELSE IF left /\ ~motorOnLeft THEN steer_left
                    ELSE <<>>
         /\ motorOnRight' = right
         /\ motorOnLeft' = left
  /\ at' = IF todo' = <<>> THEN "loop" ELSE "drive"
  /\ acted' = TRUE
  /\ UNCHANGED <<fitted, masterVars, linkVars, status, pins, passed, targetSteerValue,
                 adcChnAvg, pot, throttleVars>>

(* DMA1_Channel1_IRQHandler: a new average. *)
DMA1_Channel1_IRQHandler ==
  /\ fitted = "hephaestus"
  /\ adcChnAvg # pot
  /\ adcChnAvg' = pot
  /\ acted' = FALSE
  /\ UNCHANGED <<fitted, masterVars, linkVars, loopVars, targetSteerValue, motorOnLeft,
                 motorOnRight, pot, throttleVars>>

(* The motor turns the wheels, at most PotStep until the control loop has seen it. *)
Turn ==
  /\ fitted = "hephaestus"
  /\ pins["CH1"] # pins["CH2"]
  /\ \/ at \in {"loop", "control"} /\ acted /\ adcChnAvg = pot
     \/ at = "answer"
  /\ pot' = IF pins["CH1"]
              THEN (IF pot + PotStep > MAX_RIGHT_POT THEN MAX_RIGHT_POT ELSE pot + PotStep)
              ELSE (IF pot - PotStep < MAX_LEFT_POT THEN MAX_LEFT_POT ELSE pot - PotStep)
  /\ pot' # pot
  /\ UNCHANGED <<fitted, masterVars, linkVars, loopVars, targetSteerValue, adcChnAvg,
                 motorOnLeft, motorOnRight, acted, throttleVars>>

(* C's division, towards zero. *)
Quotient(a, b) == IF a >= 0 THEN a \div b ELSE -((-a) \div b)

(* (CK_FREQ * 64) / diffCounts, whose dividend is beyond 31 bits. *)
Frequency(diffCounts) ==
  2 * (1536000000 \div diffCounts) + (2 * (1536000000 % diffCounts)) \div diffCounts

diffCountsToSpeedInMMs(diffCounts, direction) ==
  IF diffCounts = 0 THEN 0 ELSE direction * ((Frequency(diffCounts) * 1075) \div 64000)

(* When the counter has wrapped the difference is one short. *)
TIM2_IRQHandler(diff, wrapped, direction) ==
  /\ fitted = "hermes"
  /\ pulses < MaxPulses
  /\ pulses' = pulses + 1
  /\ wrapped => diff > 0
  /\ ch1Speed' = [ch1Speed EXCEPT ![ch1SpeedWr] =
                    diffCountsToSpeedInMMs(IF wrapped THEN diff - 1 ELSE diff, direction)]
  /\ ch1SpeedWr' = 3 - ch1SpeedWr
  /\ UNCHANGED <<fitted, masterVars, linkVars, loopVars, steerVars, goalSpeed, prevError, dac,
                 pass>>

getSpeed == ch1Speed[3 - ch1SpeedWr]

(* nextSpeed * 0xFFF, as 32 bits without sign, over 4095 is nextSpeed again, or      *)
(* 2^32 \div 4095 = 1048832 more when it is negative; the DAC takes the low 12 bits. *)
dacout(nextSpeed) == (IF nextSpeed >= 0 THEN nextSpeed ELSE 1048832 + nextSpeed) % 4096

\* Mutant of nextSpeed: the derivative works on the error, not on its change.
nextSpeed_error(currentSpeed, error, dError) ==
  currentSpeed + (Quotient(125 * error, 100) - Quotient(875 * error, 100))

nextSpeed(currentSpeed, error, dError) ==
  currentSpeed + (Quotient(125 * error, 100) - Quotient(875 * dError, 100))

updateThrottle ==
  /\ at = "control"
  /\ fitted = "hermes"
  /\ LET error == goalSpeed - getSpeed IN
       /\ dac' = dacout(nextSpeed(getSpeed, error, prevError - error))
       /\ prevError' = error
       /\ pass' = [goal |-> goalSpeed, speed |-> getSpeed, steady |-> prevError = error]
  /\ at' = "loop"
  /\ UNCHANGED <<fitted, masterVars, linkVars, status, todo, pins, passed, steerVars,
                 goalSpeed, ch1Speed, ch1SpeedWr, pulses>>

(* Janus's loop goes on to show the gear that it senses. *)
ShowGear ==
  /\ at = "control"
  /\ fitted = "janus"
  /\ at' = "loop"
  /\ UNCHANGED <<fitted, masterVars, linkVars, status, todo, pins, passed, steerVars,
                 throttleVars>>

slaveLoop ==
  \/ RunMessage \/ NoMessage \/ WritePin \/ writeResponse \/ clearSPIInt
  \/ update_steer_control_loop \/ updateThrottle \/ ShowGear

Capture ==
  \E diff \in Diffs, wrapped \in BOOLEAN, direction \in {1, -1} :
    TIM2_IRQHandler(diff, wrapped, direction)

VehicleNext ==
  \/ \E v \in HostValues[fitted] : HostCommand(v)
  \/ \E n \in TypedNumbers[fitted] : ConsoleCommand(n)
  \/ messageSubmodule \/ slaveLoop
  \/ DMA1_Channel1_IRQHandler \/ Turn \/ Capture

VehicleSpec == VehicleInit /\ [][VehicleNext]_vehicleVars
-----------------------------------------------------------------------------

(* tim.c:275: "ADRV and BDRV should not be driven at the same time."  The steering    *)
(* motor is never driven both ways, nor are both relays of the gear closed, not even   *)
(* between two writes; before the first pass of the control loop both channels are on. *)
NeverBothWays ==
  /\ ~(pins["FORWARD"] /\ pins["REVERSE"])
  /\ passed => ~(pins["CH1"] /\ pins["CH2"])

Accepts(v) ==
  CASE fitted = "janus" -> v \in 0 .. 2
    [] fitted = "hephaestus" -> v \in MAX_LEFT_DEG .. MAX_RIGHT_DEG
    [] fitted = "hermes" -> v \in 0 .. UINT16_MAX

(* Numbers that a parser or a packet does not cut off. *)
Representable(v) == v \in 0 .. Largest

(* The slave has taken over the value v. *)
Done(v) ==
  CASE fitted = "janus" -> pins["FORWARD"] = (v = FORWARD) /\ pins["REVERSE"] = (v = REVERSE)
    [] fitted = "hephaestus" -> targetSteerValue = 11 * v + 580
    [] fitted = "hermes" -> goalSpeed = v

(* A target above MAX_THROTTLE is cut to it.  throttle.h:5 calls 5000 mm/s the maximum  *)
(* and console.c:80 offers target<0-5000>; MAX_THROTTLE is 4095.                        *)
CutOff(v) == fitted = "hermes" /\ v > MAX_THROTTLE /\ goalSpeed = MAX_THROTTLE

(* The status that comes back tells what happened.  When the slave was at rest before  *)
(* the command, "ok" means that the slave has taken over exactly the value the user     *)
(* gave, whatever conversions lie between, and "error" that the value is none it         *)
(* accepts.  The exception is a speed target from 4096 on, those up to the 5000 that     *)
(* the console offers included: set_starg_callback answers "ok" and takes over 4095.     *)
(* The console refuses a good value only after a number that overflowed.                 *)
CommandsAnswered ==
  master = "idle" /\ Representable(wanted) =>
    /\ rested /\ result = "ok" => Accepts(wanted) /\ (Done(wanted) \/ CutOff(wanted))
    /\ rested /\ result = "error" => ~Accepts(wanted)
    /\ result = "refused" /\ Accepts(wanted) => errno

(* steer.c's loop turns the steering to every angle it accepts and stops the motor, for  *)
(* good once no more commands come: unless a timeout left the slave waiting with an       *)
(* answer nobody reads.                                                                  *)
SteerSettles ==
  <>[](fitted = "hephaestus" => \/ ~pins["CH1"] /\ ~pins["CH2"]
                                \/ at = "answer" /\ late)

(* With the goal 0 and a speed that does not change, the throttle is at most a sixteenth *)
(* of its range, as long as the vehicle is not faster than 1024 mm/s: beyond, the value   *)
(* for the DAC is below -256 and its low 12 bits wrap to full throttle.                    *)
StopCutsThrottle ==
  pass.steady /\ pass.goal = 0 /\ pass.speed \in -1024 .. 1024 => dac <= 256

=============================================================================
