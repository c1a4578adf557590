------------------------------ MODULE MCOlympus ------------------------------
(***************************************************************************)
(* Four parts of the firmware that share no state (Timers, Vehicle, TcpServer,    *)
(* Console), each explored by itself: bench says which one a behaviour runs, and   *)
(* the others stay in one of their initial states.                                *)
(***************************************************************************)
EXTENDS Timers, Vehicle, TcpServer, Console

VARIABLE bench

MCWindows == <<2, 1, 3>>
MCShutdown == <<1, 2>>

MCHostValues ==
  [janus |-> 0 .. 3, hephaestus |-> {44, 45, 125}, hermes |-> {258, 5000}]
MCTypedNumbers ==
  [janus |-> {1, 259, 99999}, hephaestus |-> {60, 301, 99999}, hermes |-> {0, 99999}]

Init ==
  /\ bench \in {"timers", "vehicle", "tcp", "console"}
  /\ TimersInit /\ VehicleInit /\ TcpInit /\ ConsoleInit
  /\ bench # "timers" => shouldServiceCallbackTimer
  /\ bench # "vehicle" => fitted = "janus"

Timers_(A) == bench = "timers" /\ A /\ UNCHANGED <<bench, vehicleVars, tcpVars, consoleVars>>
Vehicle_(A) == bench = "vehicle" /\ A /\ UNCHANGED <<bench, timerVars, tcpVars, consoleVars>>
Tcp_(A) == bench = "tcp" /\ A /\ UNCHANGED <<bench, timerVars, vehicleVars, consoleVars>>
Console_(A) == bench = "console" /\ A /\ UNCHANGED <<bench, timerVars, vehicleVars, tcpVars>>

Next ==
  Timers_(TimersNext) \/ Vehicle_(VehicleNext) \/ Tcp_(TcpNext) \/ Console_(ConsoleNext)

vars == <<bench, timerVars, vehicleVars, tcpVars, consoleVars>>

(* The timer interrupts; the loops of master and slave run; conversions complete and  *)
(* a motor that is driven moves.                                                     *)
Fairness ==
  /\ WF_vars(Timers_(CALLBACK_TIMER_ISR))
  /\ WF_vars(Timers_(serviceCallbackTimer))
  /\ WF_vars(Vehicle_(messageSubmodule))
  /\ WF_vars(Vehicle_(slaveLoop))
  /\ WF_vars(Vehicle_(DMA1_Channel1_IRQHandler))
  /\ WF_vars(Vehicle_(Turn))

Spec == Init /\ [][Next]_vars /\ Fairness

=============================================================================
