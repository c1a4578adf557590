---------------------------- MODULE VehicleProofs ----------------------------
(***************************************************************************)
(* The outputs that must not be on together are never on together, a vehicle told   *)
(* to stop gets no throttle, and a command is answered with what it did: whatever    *)
(* the commands, the slave fitted, the sensors and the number of steps.              *)
(***************************************************************************)
EXTENDS Vehicle, TLAPS

Outputs == {"FORWARD", "REVERSE", "CH1", "CH2"}

(* The other one of the pair. *)
Opposite(p) == CASE p = "FORWARD" -> "REVERSE" [] p = "REVERSE" -> "FORWARD"
                 [] p = "CH1" -> "CH2" [] p = "CH2" -> "CH1"

(* What is left to write of a pair p, Opposite(p): p off, then its opposite on or off. *)
IsPlan(writes, S) ==
  \E p \in S, b \in BOOLEAN :
    writes \in {<< <<p, FALSE>>, <<Opposite(p), b>> >>, << <<p, b>> >>}

Relays == {"FORWARD", "REVERSE"}
Channels == {"CH1", "CH2"}

(* An output is switched on only as the last write, and its opposite is off by then.  *)
(* The main loop has written what it had to before it goes on.                         *)
PinInv ==
  /\ pins \in [Outputs -> BOOLEAN]
  /\ at \in {"loop", "control", "callback", "answer", "drive"}
  /\ at \notin {"callback", "drive"} => todo = <<>>
  /\ at = "callback" => todo = <<>> \/ IsPlan(todo, Relays)
  /\ at = "drive" => IsPlan(todo, Channels)
  /\ \A p \in Outputs : todo = << <<p, TRUE>> >> =>
       ~pins[Opposite(p)] /\ (at = "drive" => passed)
  /\ NeverBothWays

(* The outputs and the writes still to do keep to the plan: the pins of a pair are written *)
(* one after the other, by setFNR and by steer.c, the one that goes off first.              *)
THEOREM PinInvariance == VehicleSpec => []PinInv
<1>01. \A x, y : Head(<<x, y>>) = x /\ Tail(<<x, y>>) = <<y>> /\ <<x, y>>[1] = x /\ <<x, y>>[2] = y
  OBVIOUS
<1>02. \A x : Head(<<x>>) = x /\ Tail(<<x>>) = <<>> /\ <<x>> # <<>>
  OBVIOUS
<1>03. \A x, y, z : <<x, y>> # <<z>> /\ <<x, y>> # <<>> /\ (<<x>> = <<y>> => x = y)
  OBVIOUS
<1>04. /\ Opposite("FORWARD") = "REVERSE" /\ Opposite("REVERSE") = "FORWARD"
       /\ Opposite("CH1") = "CH2" /\ Opposite("CH2") = "CH1"
  BY DEF Opposite
<1>1. VehicleInit => PinInv
  <2> SUFFICES ASSUME VehicleInit PROVE PinInv
    OBVIOUS
  <2>1. /\ pins = [p \in Outputs |-> p \in {"CH1", "CH2"}] /\ at = "loop" /\ todo = <<>>
        /\ passed = FALSE
    BY Zenon DEF VehicleInit, Outputs
  <2>2. pins \in [Outputs -> BOOLEAN] /\ ~pins["FORWARD"]
    <3>1. pins \in [Outputs -> BOOLEAN]
      BY <2>1, SMT
    <3>2. pins["FORWARD"] = ("FORWARD" \in {"CH1", "CH2"})
      BY <2>1, Zenon DEF Outputs
    <3> QED
      BY <3>1, <3>2, Zenon
  <2>3. \A p \in Outputs : todo # << <<p, TRUE>> >>
    BY <1>02, <2>1, Zenon
  <2> QED
    BY <2>1, <2>2, <2>3 DEF PinInv, NeverBothWays
<1>2. PinInv /\ [VehicleNext]_vehicleVars => PinInv'
  <2> SUFFICES ASSUME PinInv, [VehicleNext]_vehicleVars PROVE PinInv'
    OBVIOUS
  <2>1. CASE UNCHANGED loopVars
    BY <2>1, Zenon DEF loopVars, PinInv, NeverBothWays
  <2>2. CASE WritePin
    <3>1. /\ at \in {"callback", "drive"} /\ todo # <<>>
          /\ pins' = [pins EXCEPT ![Head(todo)[1]] = Head(todo)[2]] /\ todo' = Tail(todo)
          /\ at' = (IF at = "drive" /\ todo' = <<>> THEN "loop" ELSE at)
          /\ passed' = (passed \/ at = "drive")
      BY <2>2 DEF WritePin
    <3> DEFINE S == IF at = "callback" THEN Relays ELSE Channels
    <3>2. /\ IsPlan(todo, S)
          /\ (at = "callback" /\ S = Relays) \/ (at = "drive" /\ S = Channels)
      BY <3>1 DEF PinInv
    <3> HIDE DEF S
    <3>3. ASSUME NEW p \in S, NEW b \in BOOLEAN, todo = << <<p, FALSE>>, <<Opposite(p), b>> >>
          PROVE  PinInv'
      <4>0. Head(todo)[1] = p /\ Head(todo)[2] = FALSE /\ Tail(todo) = << <<Opposite(p), b>> >>
        <5>1. Head(todo) = <<p, FALSE>> /\ Tail(todo) = << <<Opposite(p), b>> >>
          BY <1>01, <3>3, Zenon
        <5>2. <<p, FALSE>>[1] = p /\ <<p, FALSE>>[2] = FALSE
          BY <1>01, Zenon
        <5> QED
          BY <5>1, <5>2, Zenon
      <4>1. pins' = [pins EXCEPT ![p] = FALSE] /\ todo' = << <<Opposite(p), b>> >> /\ at' = at
        BY <1>02, <3>1, <4>0, Zenon
      <4>2. pins' \in [Outputs -> BOOLEAN] /\ ~pins'[p]
        BY <3>2, <4>1 DEF PinInv, Outputs, Relays, Channels
      <4>3. Opposite(p) \in S /\ Opposite(Opposite(p)) = p /\ p \in Outputs
        BY <3>2 DEF Opposite, Outputs, Relays, Channels
      <4>4. IsPlan(todo', S)
        BY <4>1, <4>3, Zenon DEF IsPlan
      <4>5. \A q \in Outputs : todo' = << <<q, TRUE>> >> =>
              ~pins'[Opposite(q)] /\ (at' = "drive" => passed')
        <5> SUFFICES ASSUME NEW q \in Outputs, todo' = << <<q, TRUE>> >>
                     PROVE  ~pins'[Opposite(q)] /\ (at' = "drive" => passed')
          OBVIOUS
        <5>1. <<Opposite(p), b>> = <<q, TRUE>>
          BY <1>03, <4>1, Zenon
        <5>2. q = Opposite(p)
          BY <1>01, <5>1, Zenon
        <5> QED
          BY <3>1, <4>1, <4>2, <4>3, <5>2, Zenon
      <4>6. NeverBothWays'
        BY <3>1, <3>2, <4>1, <4>2 DEF PinInv, NeverBothWays, Outputs, Relays, Channels
      <4> QED
        BY <3>1, <3>2, <4>1, <4>2, <4>4, <4>5, <4>6, Zenon DEF PinInv
    <3>4. ASSUME NEW p \in S, NEW b \in BOOLEAN, todo = << <<p, b>> >>
          PROVE  PinInv'
      <4>0. Head(todo)[1] = p /\ Head(todo)[2] = b /\ Tail(todo) = <<>>
        <5>1. Head(todo) = <<p, b>> /\ Tail(todo) = <<>>
          BY <1>02, <3>4, Zenon
        <5>2. <<p, b>>[1] = p /\ <<p, b>>[2] = b
          BY <1>01, Zenon
        <5> QED
          BY <5>1, <5>2, Zenon
      <4>1. pins' = [pins EXCEPT ![p] = b] /\ todo' = <<>>
        BY <3>1, <4>0, Zenon
      <4>2. pins' \in [Outputs -> BOOLEAN] /\ p \in Outputs
        BY <3>2, <4>1 DEF PinInv, Outputs, Relays, Channels
      <4>3. at' \in {"loop", "callback"}
        BY <3>1, <4>1
      <4>4. NeverBothWays'
        <5>1. CASE b = TRUE
          <6>1. ~pins[Opposite(p)] /\ (at = "drive" => passed)
            BY <3>4, <4>2, <5>1 DEF PinInv
          <6> QED
            BY <3>1, <3>2, <4>1, <4>2, <5>1, <6>1 DEF PinInv, NeverBothWays, Outputs, Opposite, Relays, Channels
        <5>2. CASE b = FALSE
          BY <3>1, <3>2, <4>1, <4>2, <5>2 DEF PinInv, NeverBothWays, Outputs, Relays, Channels
        <5> QED
          BY <5>1, <5>2, Zenon
      <4> QED
        BY <4>1, <4>2, <4>3, <4>4 DEF PinInv
    <3> QED
      <4>1. PICK p \in S, b \in BOOLEAN :
              todo \in {<< <<p, FALSE>>, <<Opposite(p), b>> >>, << <<p, b>> >>}
        BY <3>2, Zenon DEF IsPlan
      <4> QED
        BY <3>3, <3>4, <4>1, Zenon
  <2>3. CASE RunMessage
    <3>1. at = "loop" /\ at' = "callback" /\ pins' = pins /\ passed' = passed /\ todo = <<>>
      BY <2>3 DEF RunMessage, PinInv
    <3>2. todo' = <<>> \/ (\E g \in {NEUTRAL, FORWARD, REVERSE} : todo' = setFNR(g))
      BY <2>3, <3>1 DEF RunMessage, set_fnr_callback, set_steer_callback, set_starg_callback
    <3>3. \A g \in {NEUTRAL, FORWARD, REVERSE} : IsPlan(setFNR(g), Relays)
      <4>1. /\ setFNR(NEUTRAL) = << <<"FORWARD", FALSE>>, <<"REVERSE", FALSE>> >>
            /\ setFNR(FORWARD) = << <<"REVERSE", FALSE>>, <<"FORWARD", TRUE>> >>
            /\ setFNR(REVERSE) = << <<"FORWARD", FALSE>>, <<"REVERSE", TRUE>> >>
        <5>1. NEUTRAL # FORWARD /\ NEUTRAL # REVERSE /\ FORWARD # REVERSE
          BY DEF NEUTRAL, FORWARD, REVERSE
        <5> QED
          BY <5>1, Zenon DEF setFNR
      <4> QED
        <5>1. IsPlan(setFNR(NEUTRAL), Relays)
          BY <1>04, <4>1, Zenon DEF IsPlan, Relays
        <5>2. IsPlan(setFNR(FORWARD), Relays)
          BY <1>04, <4>1, Zenon DEF IsPlan, Relays
        <5>3. IsPlan(setFNR(REVERSE), Relays)
          BY <1>04, <4>1, Zenon DEF IsPlan, Relays
        <5> QED
          BY <5>1, <5>2, <5>3, Zenon
    <3>4. \A p \in Outputs : todo' # << <<p, TRUE>> >>
      <4>1. \A p \in Outputs, g \in {NEUTRAL, FORWARD, REVERSE} : setFNR(g) # << <<p, TRUE>> >>
        BY <1>03, Zenon DEF setFNR, NEUTRAL, FORWARD, REVERSE
      <4> QED
        BY <1>02, <3>2, <4>1, Zenon
    <3> QED
      BY <3>1, <3>2, <3>3, <3>4, Zenon DEF PinInv, NeverBothWays
  <2>4. CASE update_steer_control_loop
    <3>1. /\ pins' = pins /\ passed' = passed
          /\ todo' \in {<<>>, steer_stop, steer_left, steer_right}
          /\ at' = (IF todo' = <<>> THEN "loop" ELSE "drive")
      BY <2>4 DEF update_steer_control_loop
    <3>2. IsPlan(steer_stop, Channels) /\ IsPlan(steer_left, Channels) /\ IsPlan(steer_right, Channels)
      <4>1. IsPlan(steer_stop, Channels)
        BY <1>04, Zenon DEF steer_stop, IsPlan, Channels
      <4>2. IsPlan(steer_left, Channels)
        BY <1>04, Zenon DEF steer_left, IsPlan, Channels
      <4>3. IsPlan(steer_right, Channels)
        BY <1>04, Zenon DEF steer_right, IsPlan, Channels
      <4> QED
        BY <4>1, <4>2, <4>3
    <3>3. \A p \in Outputs : todo' # << <<p, TRUE>> >>
      <4>1. \A p : /\ steer_stop # << <<p, TRUE>> >> /\ steer_left # << <<p, TRUE>> >>
                   /\ steer_right # << <<p, TRUE>> >>
        BY <1>03, Zenon DEF steer_stop, steer_left, steer_right
      <4> QED
        BY <1>02, <3>1, <4>1, Zenon
    <3> QED
      BY <3>1, <3>2, <3>3, Zenon DEF PinInv, NeverBothWays
  <2>5. CASE NoMessage \/ writeResponse \/ clearSPIInt \/ updateThrottle \/ ShowGear
    <3>1. /\ pins' = pins /\ passed' = passed /\ todo' = todo /\ todo = <<>>
          /\ at' \in {"loop", "control", "answer"}
      BY <2>5, Zenon DEF NoMessage, writeResponse, clearSPIInt, updateThrottle, ShowGear, PinInv
    <3> QED
      BY <3>1 DEF PinInv, NeverBothWays
  <2>6. ASSUME \/ \E v \in HostValues[fitted] : HostCommand(v)
               \/ \E n \in TypedNumbers[fitted] : ConsoleCommand(n)
        PROVE  UNCHANGED loopVars
    BY <2>6, Zenon DEF HostCommand, ConsoleCommand, Command
  <2>7. ASSUME messageSubmodule \/ DMA1_Channel1_IRQHandler \/ Turn \/ Capture
        PROVE  UNCHANGED loopVars
    BY <2>7, Zenon DEF messageSubmodule, WaitReady, WaitTimeout, deselectModule,
                DMA1_Channel1_IRQHandler, Turn, Capture, TIM2_IRQHandler
  <2>8. CASE UNCHANGED vehicleVars
    BY <2>1, <2>8 DEF vehicleVars
  <2> QED
    BY <2>1, <2>2, <2>3, <2>4, <2>5, <2>6, <2>7, <2>8 DEF VehicleNext, slaveLoop
<1> QED
  BY <1>1, <1>2, PTL DEF VehicleSpec

(* Neither both relays of the gear (setFNR) nor, after the first pass of                 *)
(* update_steer_control_loop, both channels of the steering motor are ever on together.  *)
THEOREM PinsExclusive == VehicleSpec => []NeverBothWays
<1>1. PinInv => NeverBothWays
  BY DEF PinInv
<1> QED
  BY <1>1, PinInvariance, PTL

(* updateThrottle: with the goal 0 and a steady speed of at most 1024 mm/s either way     *)
(* the DAC is set to at most 256 of 4095, for every sequence of commands and pulses.      *)
THEOREM ThrottleCut == VehicleSpec => []StopCutsThrottle
<1> DEFINE Output(s) == dacout(nextSpeed(s, 0 - s, 0))
<1>1. ASSUME NEW s \in -1024 .. 1024 PROVE Output(s) <= 256
  <2>1. nextSpeed(s, 0 - s, 0) \in -256 .. 256
    BY SMT DEF nextSpeed, Quotient
  <2>2. ASSUME NEW n \in -256 .. 256 PROVE dacout(n) <= 256
    BY SMT DEF dacout
  <2> QED
    BY <2>1, <2>2
<1> HIDE DEF Output
<1>2. VehicleInit => StopCutsThrottle
  <2>1. VehicleInit => dac = 0
    BY Zenon DEF VehicleInit
  <2> QED
    BY <2>1 DEF StopCutsThrottle
<1>3. StopCutsThrottle /\ [VehicleNext]_vehicleVars => StopCutsThrottle'
  <2> SUFFICES ASSUME StopCutsThrottle, [VehicleNext]_vehicleVars PROVE StopCutsThrottle'
    OBVIOUS
  <2>1. CASE UNCHANGED <<dac, pass>>
    BY <2>1 DEF StopCutsThrottle
  <2>2. CASE updateThrottle
    <3> SUFFICES ASSUME pass'.steady, pass'.goal = 0, pass'.speed \in -1024 .. 1024
                 PROVE  dac' <= 256
      BY DEF StopCutsThrottle
    <3>1. PICK s, e : /\ s = getSpeed /\ e = goalSpeed - s
                      /\ dac' = dacout(nextSpeed(s, e, prevError - e))
                      /\ pass' = [goal |-> goalSpeed, speed |-> s, steady |-> prevError = e]
      BY <2>2 DEF updateThrottle
    <3>2. s \in -1024 .. 1024 /\ goalSpeed = 0 /\ prevError = e
      <4>1. pass'.goal = goalSpeed /\ pass'.speed = s
        BY <3>1
      <4>2. ASSUME prevError # e PROVE FALSE
        <5>1. pass' = [goal |-> goalSpeed, speed |-> s, steady |-> FALSE]
          BY <3>1, <4>2, Zenon
        <5>2. pass'.steady = FALSE
          BY <5>1
        <5> QED
          BY <5>2
      <4> QED
        BY <4>1, <4>2
    <3>3. e = 0 - s /\ prevError - e = 0
      BY <3>1, <3>2
    <3> QED
      <4>1. dac' = Output(s)
        BY <3>1, <3>3 DEF Output
      <4> QED
        BY <1>1, <3>2, <4>1
  <2>3. ASSUME VehicleNext, ~updateThrottle PROVE UNCHANGED <<dac, pass>>
    <3>1. CASE (\E v \in HostValues[fitted] : HostCommand(v))
               \/ (\E n \in TypedNumbers[fitted] : ConsoleCommand(n))
      BY <3>1, Zenon DEF HostCommand, ConsoleCommand, Command, throttleVars
    <3>2. CASE messageSubmodule \/ DMA1_Channel1_IRQHandler \/ Turn \/ Capture
      BY <3>2, Zenon DEF messageSubmodule, WaitReady, WaitTimeout, deselectModule,
                  DMA1_Channel1_IRQHandler, Turn, Capture, TIM2_IRQHandler, throttleVars
    <3>3. CASE slaveLoop
      BY <2>3, <3>3, Zenon DEF slaveLoop, RunMessage, NoMessage, WritePin, writeResponse, clearSPIInt,
                        update_steer_control_loop, ShowGear, throttleVars
    <3> QED
      BY <2>3, <3>1, <3>2, <3>3 DEF VehicleNext
  <2> QED
    BY <2>1, <2>2, <2>3 DEF vehicleVars, throttleVars
<1> QED
  BY <1>2, <1>3, PTL DEF VehicleSpec

(***************************************************************************)
(* A command sent to a slave at rest.                                           *)
(***************************************************************************)
Message(v) == IF fitted = "hermes" THEN <<v \div 256, v % 256>> ELSE <<v>>

(* The status the callback chose tells whether the slave accepts the value. *)
Judged(v, answer) ==
  answer \in {"ok", "error"} /\ (answer = "ok" => Accepts(v)) /\ (answer = "error" => ~Accepts(v))

Taken(v) == Done(v) \/ CutOff(v)

(* The writes that are left complete what the value asks for. *)
Completing(v) ==
  \/ todo = <<>> /\ Taken(v)
  \/ fitted = "janus" /\ todo = setFNR(v)
  \/ fitted = "janus" /\ todo = Tail(setFNR(v)) /\ ~pins[Head(setFNR(v))[1]]

(* From the message to the answer: waiting in the queue, in the callback, in            *)
(* writeResponse.                                                                       *)
UnderWay(v) ==
  \/ at \in {"loop", "control", "drive"} /\ rx = <<Message(v)>> /\ tx = "" /\ ~INT
  \/ /\ at = "callback" /\ rx = <<>> /\ tx = "" /\ ~INT
     /\ Judged(v, status) /\ (status = "ok" => Completing(v))
  \/ /\ at = "answer" /\ rx = <<>> /\ tx = status /\ INT
     /\ Judged(v, status) /\ (status = "ok" => Taken(v))

(* With the answer read, no message is left that could undo the command. *)
Answered(v) ==
  rx = <<>> /\ at # "callback" /\ Judged(v, result) /\ (result = "ok" => Taken(v))

AnswerInv ==
  /\ fitted \in Modules
  /\ master \in {"idle", "wait", "release"}
  /\ tx \in {"", "ok", "error"} /\ status \in {"", "ok", "error"}
  /\ rested /\ Representable(wanted) =>
       /\ master = "wait" => UnderWay(wanted)
       /\ master = "release" \/ (master = "idle" /\ result \in {"ok", "error"}) => Answered(wanted)
  /\ result = "refused" =>
       master = "idle" /\ (Representable(wanted) /\ Accepts(wanted) => errno)

(* The drivers and the callbacks: the status that comes back from a slave that was at    *)
(* rest tells what happened to the value the user gave, for all values that packets and    *)
(* parsers can represent and any number of commands, timeouts and refusals before: that     *)
(* exactly this value is in force now, or for a speed above 4095 mm/s that 4095 is.         *)
THEOREM AnswersTrue == VehicleSpec => []CommandsAnswered
<1>a. \A x : Head(<<x>>) = x /\ Tail(<<x>>) = <<>> /\ <<x>> # <<>>
  OBVIOUS
<1>b. \A x, y : /\ Head(<<x, y>>) = x /\ Tail(<<x, y>>) = <<y>> /\ <<x, y>> # <<>>
                /\ <<x, y>>[1] = x /\ <<x, y>>[2] = y
  OBVIOUS
<1>0. /\ UINT8_MAX = 255 /\ UINT16_MAX \in Nat /\ Largest \in Nat
      /\ \A n : Representable(n) <=> n \in 0 .. Largest
  BY SMT DEF UINT8_MAX, UINT16_MAX, Largest, Representable
<1>1. \A n : Representable(n) => n \in Nat
  BY <1>0, SMT
<1>2. \A n \in Nat : 256 * (n \div 256) + (n % 256) = n /\ (n % 256) + 256 * (n \div 256) = n
  BY SMT
<1>3. \A n : Representable(n) /\ n # Huge => Parsed(n) = n
  <2>1. \A n \in 0 .. Largest : n % (Largest + 1) = n
    BY <1>0, SMT
  <2> QED
    BY <1>0, <2>1 DEF Parsed
<1>4. ASSUME fitted' = fitted
      PROVE  \A v : /\ Message(v)' = Message(v) /\ Representable(v)' = Representable(v)
                    /\ Accepts(v)' = Accepts(v)
  BY <1>4 DEF Message, Representable, Largest, Accepts
<1>5. ASSUME NEW v, fitted' = fitted, UNCHANGED <<targetSteerValue, goalSpeed>>,
             pins'["FORWARD"] = pins["FORWARD"], pins'["REVERSE"] = pins["REVERSE"]
      PROVE  Taken(v)' = Taken(v)
  BY <1>5 DEF Taken, Done, CutOff
<1>6. VehicleInit => AnswerInv
  BY Zenon DEF VehicleInit, AnswerInv
<1>7. PinInv /\ PinInv' /\ AnswerInv /\ [VehicleNext]_vehicleVars => AnswerInv'
  <2> SUFFICES ASSUME PinInv, PinInv', AnswerInv, [VehicleNext]_vehicleVars PROVE AnswerInv'
    OBVIOUS
  <2>0. PICK w : w = wanted
    OBVIOUS
  (* A message is sent. *)
  <2>1. ASSUME NEW v, NEW bytes, wanted' = v, fitted' = fitted, UNCHANGED <<at, status>>,
               Send(bytes), Representable(v) => bytes = Message(v)
        PROVE  AnswerInv'
    <3>1. /\ master' = "wait" /\ result' = "none" /\ tx' = "" /\ INT' = INT
          /\ rx' = Append(rx, bytes) /\ rested' = AtRest
      BY <2>1, Zenon DEF Send
    <3>2. ASSUME rested', Representable(v) PROVE UnderWay(v)'
      <4>1. at \in {"loop", "control", "drive"} /\ rx = <<>> /\ ~INT
        BY <3>1, <3>2, Zenon DEF AtRest
      <4>2. rx' = <<Message(v)>>
        <5>1. bytes = Message(v)
          BY <2>1, <3>2
        <5>2. Append(<<>>, bytes) = <<bytes>>
          OBVIOUS
        <5> QED
          BY <3>1, <4>1, <5>1, <5>2, Zenon
      <4>3. Message(v)' = Message(v)
        BY <1>4, <2>1
      <4> QED
        BY <2>1, <3>1, <4>1, <4>2, <4>3, Zenon DEF UnderWay
    <3>3. Representable(v)' = Representable(v)
      BY <1>4, <2>1
    <3> QED
      BY <2>1, <3>1, <3>2, <3>3, Zenon DEF AnswerInv
  <2>2. ASSUME NEW v \in HostValues[fitted], HostCommand(v)
        PROVE  AnswerInv'
    <3>1. wanted' = v /\ fitted' = fitted /\ UNCHANGED <<at, status>>
      BY <2>2 DEF HostCommand, Command, loopVars
    <3>2. CASE fitted = "hermes"
      <4>1. PICK x : x = commsSetSpeed(<<v % 256, v \div 256>>)
        OBVIOUS
      <4>2. Send(<<x \div 256, x % 256>>)
        BY <2>2, <3>2, <4>1 DEF HostCommand, Drive, updateHermesSetSpeedTarget
      <4>3. Representable(v) => x = v
        BY <1>1, <1>2, <4>1 DEF commsSetSpeed
      <4>4. Representable(v) => <<x \div 256, x % 256>> = Message(v)
        BY <3>2, <4>3 DEF Message
      <4> QED
        BY <2>1, <3>1, <4>2, <4>4
    <3>3. CASE fitted # "hermes"
      <4>1. Send(<<v>>) /\ Message(v) = <<v>>
        BY <2>2, <3>3 DEF HostCommand, Drive, Message
      <4> QED
        BY <2>1, <3>1, <4>1
    <3> QED
      BY <3>2, <3>3
  <2>3. ASSUME NEW n \in TypedNumbers[fitted], ConsoleCommand(n)
        PROVE  AnswerInv'
    <3>1. /\ wanted' = n /\ fitted' = fitted /\ UNCHANGED <<at, status>> /\ master = "idle"
          /\ errno' = (errno \/ n = Huge)
      BY <2>3 DEF ConsoleCommand, Command, loopVars
    <3>2. CASE ConsoleAllows(Parsed(n))
      <4>1. PICK x : x = Parsed(n) /\ Drive(x)
        BY <2>3, <3>2 DEF ConsoleCommand
      <4>2. Representable(n) => x = n
        <5>1. ASSUME n = Huge PROVE FALSE
          <6>1. errno' = TRUE
            BY <3>1, <5>1, Zenon
          <6>2. fitted = "janus" /\ Parsed(n) <= 2
            BY <2>0, <3>2, <6>1, Zenon DEF ConsoleAllows, AnswerInv, Modules
          <6> QED
            BY <1>0, <5>1, <6>2 DEF Parsed, Largest
        <5> QED
          BY <1>3, <4>1, <5>1
      <4>3. CASE fitted = "hermes"
        <5>1. Send(<<x \div 256, x % 256>>)
          BY <4>1, <4>3 DEF Drive, updateHermesSetSpeedTarget
        <5>2. Representable(n) => <<x \div 256, x % 256>> = Message(n)
          BY <4>2, <4>3 DEF Message
        <5> QED
          BY <2>1, <3>1, <5>1, <5>2
      <4>4. CASE fitted # "hermes"
        <5>1. Send(<<x>>)
          BY <4>1, <4>4 DEF Drive
        <5>2. Representable(n) => <<x>> = Message(n)
          BY <4>2, <4>4 DEF Message
        <5> QED
          BY <2>1, <3>1, <5>1, <5>2
      <4> QED
        BY <4>3, <4>4
    <3>3. CASE ~ConsoleAllows(Parsed(n))
      <4>1. result' = "refused" /\ master' = "idle" /\ tx' = tx
        BY <2>3, <3>1, <3>3 DEF ConsoleCommand, linkVars
      <4>2. ASSUME Representable(n), Accepts(n), ~errno' PROVE FALSE
        <5>1. n # Huge /\ Parsed(n) = n
          BY <1>3, <3>1, <4>2, Zenon
        <5>2. ~ConsoleAllows(n)
          BY <3>3, <5>1
        <5>3. CASE fitted = "janus"
          BY <4>2, <5>2, <5>3 DEF Accepts, ConsoleAllows
        <5>4. CASE fitted = "hephaestus"
          BY <4>2, <5>2, <5>4 DEF Accepts, ConsoleAllows, MAX_LEFT_DEG, MAX_RIGHT_DEG
        <5>5. CASE fitted = "hermes"
          BY <4>2, <5>2, <5>5, Zenon DEF ConsoleAllows
        <5> QED
          BY <5>3, <5>4, <5>5, Zenon DEF AnswerInv, Modules
      <4>3. Representable(n)' = Representable(n) /\ Accepts(n)' = Accepts(n)
        BY <1>4, <3>1
      <4> QED
        BY <3>1, <4>1, <4>2, <4>3, Zenon DEF AnswerInv
    <3> QED
      BY <3>2, <3>3
  (* messageSubmodule gets the answer, or gives up. *)
  <2>4. CASE messageSubmodule
    <3>1. /\ wanted' = wanted /\ fitted' = fitted /\ rested' = rested /\ errno' = errno
          /\ UNCHANGED <<rx, INT, at, status, todo, pins, targetSteerValue, goalSpeed>>
      BY <2>4, Zenon DEF messageSubmodule, WaitReady, WaitTimeout, deselectModule, linkVars, loopVars,
                  steerVars, throttleVars
    <3>2. Representable(w)' = Representable(w) /\ Accepts(w)' = Accepts(w)
      BY <1>4, <3>1
    <3>3. Taken(w)' = Taken(w)
      BY <1>5, <3>1
    <3>4. CASE WaitReady
      <4>1. /\ master = "wait" /\ INT /\ master' = "release" /\ tx' = ""
            /\ result' \in (IF tx # "" THEN {tx} ELSE {"ok", "error"})
        BY <3>4, Zenon DEF WaitReady
      <4>2. result' # "refused"
        BY <4>1, Zenon DEF AnswerInv
      <4>3. ASSUME rested, Representable(w) PROVE Answered(w)'
        <5>1. UnderWay(w)
          BY <2>0, <4>1, <4>3, Zenon DEF AnswerInv
        <5>2. /\ at = "answer" /\ rx = <<>> /\ tx = status
              /\ Judged(w, status) /\ (status = "ok" => Taken(w))
          BY <4>1, <5>1, Zenon DEF UnderWay
        <5>3. result' = status
          BY <4>1, <5>2, Zenon DEF Judged
        <5>4. Judged(w, result)'
          BY <3>1, <5>2, <5>3, Zenon DEF Judged, Accepts
        <5> QED
          BY <3>1, <3>3, <5>2, <5>3, <5>4 DEF Answered
      <4> QED
        BY <2>0, <3>1, <3>2, <4>1, <4>2, <4>3, Zenon DEF AnswerInv
    <3>5. CASE WaitTimeout
      BY <3>1, <3>5, Zenon DEF WaitTimeout, linkVars, AnswerInv
    <3>6. CASE deselectModule
      <4>1. master = "release" /\ master' = "idle" /\ result' = result /\ tx' = tx
        BY <3>6 DEF deselectModule, linkVars
      <4>2. ASSUME rested, Representable(w) PROVE Answered(w)'
        <5>1. Answered(w)
          BY <2>0, <4>1, <4>2, Zenon DEF AnswerInv
        <5>2. Judged(w, result)'
          BY <3>1, <4>1, <5>1, Zenon DEF Answered, Judged, Accepts
        <5> QED
          BY <3>1, <3>3, <4>1, <5>1, <5>2 DEF Answered
      <4> QED
        BY <2>0, <3>1, <3>2, <4>1, <4>2, Zenon DEF AnswerInv
    <3> QED
      BY <2>4, <3>4, <3>5, <3>6 DEF messageSubmodule
  (* The slave's steps, its interrupts and the vehicle leave the driver alone. *)
  <2>5. ASSUME UNCHANGED <<fitted, masterVars>>,
               tx' \in {"", "ok", "error"}, status' \in {"", "ok", "error"},
               UnderWay(w) => UnderWay(w)', Answered(w) => Answered(w)'
        PROVE  AnswerInv'
    <3>1. Representable(w)' = Representable(w) /\ Accepts(w)' = Accepts(w)
      BY <1>4, <2>5, Zenon
    <3> QED
      BY <2>0, <2>5, <3>1, Zenon DEF AnswerInv, masterVars
  <2>6. CASE RunMessage
    <3>1. /\ at = "loop" /\ at' = "callback" /\ rx # <<>> /\ rx' = Tail(rx) /\ todo = <<>>
          /\ UNCHANGED <<fitted, masterVars, tx, INT, pins>>
      BY <2>6 DEF RunMessage, PinInv
    <3>2. ASSUME NEW data, data = Head(rx)
          PROVE  /\ fitted = "janus" => set_fnr_callback(data)
                 /\ fitted = "hephaestus" => set_steer_callback(data)
                 /\ fitted = "hermes" => set_starg_callback(data)
      BY <2>6, <3>2 DEF RunMessage
    <3>3. status' \in {"ok", "error"}
      BY <2>6 DEF RunMessage, set_fnr_callback, set_steer_callback, set_starg_callback
    <3>4. ASSUME UnderWay(w), rested, Representable(w), master = "wait" PROVE UnderWay(w)'
      <4>1. rx = <<Message(w)>> /\ tx = "" /\ ~INT
        BY <3>1, <3>4, Zenon DEF UnderWay
      <4>2. Head(rx) = Message(w) /\ Tail(rx) = <<>>
        BY <1>a, <4>1, Zenon
      <4>3. Judged(w, status') /\ (status' = "ok" => Completing(w)')
        <5>1. CASE fitted = "janus"
          <6>1. Message(w) = <<w>> /\ <<w>>[1] = w
            BY <5>1 DEF Message
          <6>2. set_fnr_callback(<<w>>)
            BY <3>2, <4>2, <5>1, <6>1
          <6>3. /\ status' = (IF w \in {NEUTRAL, FORWARD, REVERSE} THEN "ok" ELSE "error")
                /\ status' = "ok" => todo' = setFNR(w)
            BY <6>1, <6>2 DEF set_fnr_callback
          <6>4. Accepts(w) <=> w \in {NEUTRAL, FORWARD, REVERSE}
            BY <5>1 DEF Accepts, NEUTRAL, FORWARD, REVERSE
          <6> QED
            BY <3>1, <5>1, <6>3, <6>4, Zenon DEF Judged, Completing, setFNR
        <5>2. CASE fitted = "hephaestus"
          <6>1. Message(w) = <<w>> /\ <<w>>[1] = w
            BY <5>2 DEF Message
          <6>2. set_steer_callback(<<w>>)
            BY <3>2, <4>2, <5>2, <6>1
          <6>3. /\ status' = (IF w \in MAX_LEFT_DEG .. MAX_RIGHT_DEG THEN "ok" ELSE "error")
                /\ status' = "ok" => targetSteerValue' = deg_to_pot(w)
                /\ todo' = <<>>
            BY <3>1, <6>1, <6>2 DEF set_steer_callback
          <6>4. Accepts(w) <=> w \in MAX_LEFT_DEG .. MAX_RIGHT_DEG
            BY <5>2 DEF Accepts
          <6>5. w \in MAX_LEFT_DEG .. MAX_RIGHT_DEG => deg_to_pot(w) = 11 * w + 580
            BY SMT DEF deg_to_pot, POT_DEG_SLOPE, POT_DEG_INTERCEPT, CORRECTION_OFFSET,
                       MAX_LEFT_DEG, MAX_RIGHT_DEG, MAX_LEFT_POT, MAX_RIGHT_POT
          <6>6. status' = "ok" => Taken(w)'
            BY <3>1, <5>2, <6>3, <6>5 DEF Taken, Done, CutOff
          <6> QED
            BY <6>3, <6>4, <6>6 DEF Judged, Completing
        <5>3. CASE fitted = "hermes"
          <6>1. PICK hi, lo : Message(w) = <<hi, lo>> /\ hi = w \div 256 /\ lo = w % 256
            BY <5>3 DEF Message
          <6>2. set_starg_callback(<<hi, lo>>)
            BY <3>2, <4>2, <5>3, <6>1
          <6>3. <<hi, lo>>[2] + 256 * <<hi, lo>>[1] = w
            BY <1>1, <1>2, <3>4, <6>1
          <6>4. /\ status' = "ok" /\ todo' = <<>>
                /\ goalSpeed' = (IF w > MAX_THROTTLE THEN MAX_THROTTLE ELSE w)
            BY <3>1, <6>2, <6>3 DEF set_starg_callback
          <6>5. Taken(w)'
            BY <1>1, <3>1, <3>4, <5>3, <6>4 DEF Taken, Done, CutOff, MAX_THROTTLE
          <6>6. Accepts(w)
            BY <1>0, <3>4, <5>3 DEF Accepts, Largest
          <6> QED
            BY <6>4, <6>5, <6>6 DEF Judged, Completing
        <5> QED
          BY <5>1, <5>2, <5>3, Zenon DEF AnswerInv, Modules
      <4>4. Judged(w, status)'
        BY <1>4, <3>1, <4>3 DEF Judged
      <4> QED
        BY <3>1, <4>1, <4>2, <4>3, <4>4, Zenon DEF UnderWay
    <3>5. ~Answered(w)
      BY <3>1 DEF Answered
    <3> QED
      BY <1>4, <2>0, <3>1, <3>3, <3>4, <3>5, Zenon DEF AnswerInv, masterVars
  <2>7. CASE WritePin
    <3>1. /\ at \in {"callback", "drive"} /\ todo # <<>>
          /\ pins' = [pins EXCEPT ![Head(todo)[1]] = Head(todo)[2]] /\ todo' = Tail(todo)
          /\ at' = (IF at = "drive" /\ todo' = <<>> THEN "loop" ELSE at)
          /\ UNCHANGED <<fitted, masterVars, rx, tx, INT, status, targetSteerValue, goalSpeed>>
          /\ pins \in [Outputs -> BOOLEAN]
      BY <2>7 DEF WritePin, linkVars, steerVars, throttleVars, PinInv
    <3>2. Message(w)' = Message(w) /\ Accepts(w)' = Accepts(w)
      BY <1>4, <3>1
    <3>3. CASE at = "drive"
      <4>1. PICK p \in Channels, b \in BOOLEAN :
              todo \in {<< <<p, FALSE>>, <<Opposite(p), b>> >>, << <<p, b>> >>}
        BY <3>3, Zenon DEF PinInv, IsPlan
      <4>2. Head(todo)[1] = p
        <5>1. Head(todo) = <<p, FALSE>> \/ Head(todo) = <<p, b>>
          BY <1>a, <1>b, <4>1, Zenon
        <5> QED
          BY <1>b, <5>1, Zenon
      <4>3. pins'["FORWARD"] = pins["FORWARD"] /\ pins'["REVERSE"] = pins["REVERSE"]
        BY <3>1, <4>1, <4>2 DEF Channels, Outputs
      <4>4. Taken(w)' = Taken(w)
        BY <1>5, <3>1, <4>3
      <4>5. UnderWay(w) => UnderWay(w)'
        BY <3>1, <3>2, <3>3, Zenon DEF UnderWay
      <4>6. Answered(w) => Answered(w)'
        BY <3>1, <3>2, <3>3, <4>4 DEF Answered, Judged, masterVars
      <4> QED
        BY <2>5, <3>1, <4>5, <4>6, Zenon DEF AnswerInv
    <3>4. CASE at = "callback"
      <4>1. ~Answered(w)
        BY <3>4 DEF Answered
      <4>2. ASSUME UnderWay(w) PROVE UnderWay(w)'
        <5>1. /\ rx = <<>> /\ tx = "" /\ ~INT /\ Judged(w, status)
              /\ status = "ok" => Completing(w)
          BY <3>4, <4>2, Zenon DEF UnderWay
        <5>2. ASSUME status = "ok" PROVE Completing(w)'
          <6>1. fitted = "janus"
            BY <3>1, <5>1, <5>2, Zenon DEF Completing
          <6>2. Accepts(w)
            BY <5>1, <5>2, Zenon DEF Judged
          <6>3. w \in {NEUTRAL, FORWARD, REVERSE}
            BY <6>1, <6>2 DEF Accepts, NEUTRAL, FORWARD, REVERSE
          <6>4. ASSUME NEW p \in Relays, NEW q \in Relays, NEW b \in BOOLEAN, p # q,
                       setFNR(w) = << <<p, FALSE>>, <<q, b>> >>,
                       ~pins'[p] /\ pins'[q] = b => Taken(w)'
                PROVE  Completing(w)'
            <7>1. Head(setFNR(w))[1] = p /\ Tail(setFNR(w)) = << <<q, b>> >>
              <8>1. Head(setFNR(w)) = <<p, FALSE>> /\ Tail(setFNR(w)) = << <<q, b>> >>
                BY <1>b, <6>4, Zenon
              <8> QED
                BY <1>b, <8>1, Zenon
            <7>2. CASE todo = setFNR(w)
              <8>1. Head(todo)[1] = p /\ Head(todo)[2] = FALSE /\ todo' = Tail(setFNR(w))
                <9>1. Head(todo) = <<p, FALSE>>
                  BY <1>b, <6>4, <7>2, Zenon
                <9>2. <<p, FALSE>>[1] = p /\ <<p, FALSE>>[2] = FALSE
                  BY <1>b, Zenon
                <9>3. todo' = Tail(setFNR(w))
                  BY <3>1, <7>2
                <9> QED
                  BY <9>1, <9>2, <9>3, Zenon
              <8>2. pins' = [pins EXCEPT ![p] = FALSE]
                BY <3>1, <8>1, Zenon
              <8>3. ~pins'[p]
                BY <3>1, <6>4, <8>2 DEF Relays, Outputs
              <8> QED
                BY <3>1, <6>1, <7>1, <8>1, <8>3, Zenon DEF Completing, setFNR
            <7>3. CASE todo = Tail(setFNR(w)) /\ ~pins[p]
              <8>1. Head(todo)[1] = q /\ Head(todo)[2] = b /\ todo' = <<>>
                <9>1. Head(todo) = <<q, b>> /\ todo' = <<>>
                  BY <1>a, <3>1, <7>1, <7>3, Zenon
                <9>2. <<q, b>>[1] = q /\ <<q, b>>[2] = b
                  BY <1>b, Zenon
                <9> QED
                  BY <9>1, <9>2, Zenon
              <8>2. pins' = [pins EXCEPT ![q] = b]
                BY <3>1, <8>1, Zenon
              <8>3. ~pins'[p] /\ pins'[q] = b
                BY <3>1, <6>4, <7>3, <8>2 DEF Relays, Outputs
              <8> QED
                BY <6>4, <8>1, <8>3 DEF Completing
            <7> QED
              BY <3>1, <5>1, <5>2, <7>1, <7>2, <7>3, Zenon DEF Completing
          <6>5. NEUTRAL # FORWARD /\ NEUTRAL # REVERSE /\ FORWARD # REVERSE
            BY DEF NEUTRAL, FORWARD, REVERSE
          <6>6. CASE w = NEUTRAL
            <7>1. setFNR(w) = << <<"FORWARD", FALSE>>, <<"REVERSE", FALSE>> >>
              BY <6>5, <6>6, Zenon DEF setFNR
            <7>2. ~pins'["FORWARD"] /\ pins'["REVERSE"] = FALSE => Taken(w)'
              BY <3>1, <6>1, <6>5, <6>6 DEF Taken, Done, CutOff, PinInv, Outputs
            <7> QED
              BY <6>4, <7>1, <7>2, Zenon DEF Relays
          <6>7. CASE w = FORWARD
            <7>1. setFNR(w) = << <<"REVERSE", FALSE>>, <<"FORWARD", TRUE>> >>
              BY <6>5, <6>7, Zenon DEF setFNR
            <7>2. ~pins'["REVERSE"] /\ pins'["FORWARD"] = TRUE => Taken(w)'
              BY <3>1, <6>1, <6>5, <6>7 DEF Taken, Done, CutOff, PinInv, Outputs
            <7> QED
              BY <6>4, <7>1, <7>2, Zenon DEF Relays
          <6>8. CASE w = REVERSE
            <7>1. setFNR(w) = << <<"FORWARD", FALSE>>, <<"REVERSE", TRUE>> >>
              BY <6>5, <6>8, Zenon DEF setFNR
            <7>2. ~pins'["FORWARD"] /\ pins'["REVERSE"] = TRUE => Taken(w)'
              BY <3>1, <6>1, <6>5, <6>8 DEF Taken, Done, CutOff, PinInv, Outputs
            <7> QED
              BY <6>4, <7>1, <7>2, Zenon DEF Relays
          <6> QED
            BY <6>3, <6>6, <6>7, <6>8
        <5>3. Judged(w, status)'
          BY <3>1, <3>2, <5>1, Zenon DEF Judged
        <5> QED
          BY <3>1, <3>4, <5>1, <5>2, <5>3, Zenon DEF UnderWay
      <4> QED
        BY <2>5, <3>1, <4>1, <4>2, Zenon DEF AnswerInv
    <3> QED
      BY <3>1, <3>3, <3>4
  <2>8. CASE writeResponse
    <3>1. /\ at = "callback" /\ todo = <<>> /\ tx' = status /\ INT' = TRUE /\ at' = "answer"
          /\ UNCHANGED <<fitted, masterVars, rx, status, pins, targetSteerValue, goalSpeed>>
      BY <2>8 DEF writeResponse, steerVars, throttleVars
    <3>2. ~Answered(w)
      BY <3>1 DEF Answered
    <3>3. ASSUME UnderWay(w) PROVE UnderWay(w)'
      <4>1. rx = <<>> /\ Judged(w, status) /\ (status = "ok" => Completing(w))
        BY <3>1, <3>3, Zenon DEF UnderWay
      <4>2. status = "ok" => Taken(w)
        <5>1. ASSUME status = "ok", fitted = "janus"
              PROVE  setFNR(w) # <<>> /\ Tail(setFNR(w)) # <<>>
          <6>1. w \in {NEUTRAL, FORWARD, REVERSE}
            BY <4>1, <5>1 DEF Judged, Accepts, NEUTRAL, FORWARD, REVERSE
          <6>2. PICK x, y : setFNR(w) = <<x, y>>
            BY <6>1 DEF setFNR
          <6> QED
            BY <1>a, <1>b, <6>2, Zenon
        <5> QED
          BY <3>1, <4>1, <5>1 DEF Completing
      <4>3. Taken(w)' = Taken(w) /\ Accepts(w)' = Accepts(w)
        BY <1>4, <1>5, <3>1
      <4> QED
        BY <3>1, <4>1, <4>2, <4>3 DEF UnderWay, Judged
    <3> QED
      BY <2>5, <3>1, <3>2, <3>3, Zenon DEF AnswerInv
  (* The rest of the main loop, the interrupts and the wheels: the outputs and the   *)
  (* targets stay, and the loop goes from one place without a message to another.     *)
  <2>9. ASSUME UNCHANGED <<fitted, masterVars, linkVars, status, pins, targetSteerValue, goalSpeed>>,
               \/ at' = at /\ todo' = todo
               \/ at \in {"loop", "control"} /\ at' \in {"loop", "control", "drive"}
        PROVE  AnswerInv'
    <3>1. /\ Message(w)' = Message(w) /\ Accepts(w)' = Accepts(w) /\ Taken(w)' = Taken(w)
          /\ UNCHANGED <<rx, tx, INT, result>>
      BY <1>4, <1>5, <2>9 DEF linkVars, masterVars
    <3>2. Answered(w) => Answered(w)'
      BY <2>9, <3>1 DEF Answered, Judged
    <3>3. Completing(w) /\ todo' = todo => Completing(w)'
      BY <2>9, <3>1, Zenon DEF Completing, setFNR
    <3>4. UnderWay(w) => UnderWay(w)'
      BY <2>9, <3>1, <3>3, Zenon DEF UnderWay, Judged
    <3> QED
      BY <2>5, <2>9, <3>1, <3>2, <3>4, Zenon DEF AnswerInv
  <2>10. CASE clearSPIInt
    <3>1. /\ at = "answer" /\ tx = "" /\ at' = "control"
          /\ UNCHANGED <<fitted, masterVars, rx, tx, status, pins, targetSteerValue, goalSpeed>>
      BY <2>10, Zenon DEF clearSPIInt, steerVars, throttleVars
    <3>2. ~UnderWay(w)
      BY <3>1, Zenon DEF UnderWay, Judged
    <3>3. Accepts(w)' = Accepts(w) /\ Taken(w)' = Taken(w)
      BY <1>4, <1>5, <3>1, Zenon
    <3>4. Answered(w) => Answered(w)'
      BY <3>1, <3>3, Zenon DEF Answered, Judged, masterVars
    <3> QED
      BY <2>5, <3>1, <3>2, <3>4, Zenon DEF AnswerInv
  <2>11. CASE NoMessage \/ update_steer_control_loop \/ updateThrottle \/ ShowGear
    BY <2>9, <2>11 DEF NoMessage, update_steer_control_loop, updateThrottle, ShowGear, linkVars,
                       steerVars, throttleVars
  <2>12. CASE DMA1_Channel1_IRQHandler \/ Turn \/ Capture
    BY <2>9, <2>12, Zenon DEF DMA1_Channel1_IRQHandler, Turn, Capture, TIM2_IRQHandler, loopVars,
                       steerVars, throttleVars
  <2>13. CASE UNCHANGED vehicleVars
    BY <2>9, <2>13 DEF vehicleVars, loopVars, steerVars, throttleVars
  <2> QED
    BY <2>2, <2>3, <2>4, <2>6, <2>7, <2>8, <2>10, <2>11, <2>12, <2>13 DEF VehicleNext, slaveLoop
<1>8. AnswerInv => CommandsAnswered
  BY Zenon DEF AnswerInv, CommandsAnswered, Answered, Judged, Taken
<1> QED
  BY <1>6, <1>7, <1>8, PinInvariance, PTL DEF VehicleSpec

=============================================================================
