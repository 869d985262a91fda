------------------------------- MODULE BmsReset ------------------------------
(***************************************************************************)
(* The BMS power cycle among the tasks it runs with: the core loop's 10 ms *)
(* phase (handle_BMSpower) and 1 s phase (update_pause_state and the alive *)
(* counter of the battery), the BMS itself, which talks only while it has  *)
(* power, and the operator's pauses and equipment stops.                   *)
(*                                                                         *)
(* One unit of time is the second of the 1 s phase: a call of the 10 ms    *)
(* handler that sees a new second is followed by one 1 s phase.            *)
(***************************************************************************)
EXTENDS BmsPower

CONSTANT Commands   (* the commands the operator uses                      *)

ASSUME CommandsAssumption == Commands \subseteq {"PAUSE", "UNPAUSE", "STOP", "RESUME"}

VARIABLES
  current,          (* the battery currents the datalayer holds            *)
  lowSoc,           (* real_soc or reported_soc is below 15 %              *)
  balancing,        (* a pack reports BALANCING_STATUS_ACTIVE              *)
  batteryMissing,   (* EVENT_CAN_BATTERY_MISSING is active                 *)
  secondDue,        (* a second has passed: the 1 s phase runs next        *)
  offTime,          (* observer: how long the BMS has been without power   *)
  heardAtStart      (* observer: this reset began with a fresh alive       *)
                    (*   counter, and no equipment stop has interrupted it *)

readings == <<current, lowSoc, balancing>>
observers == <<offTime, heardAtStart>>
vars == <<pauseVars, bmsVars, readings, batteryMissing, secondDue, observers>>

Init ==
  /\ \E stored \in BOOLEAN : PauseInit(stored /\ "STOP" \in Commands)
  /\ BmsInit
  /\ current = "zero" /\ lowSoc = TRUE /\ balancing = FALSE
  /\ batteryMissing = FALSE
  /\ secondDue = FALSE
  /\ offTime = 0
  /\ heardAtStart = FALSE

\* What every step adds to the observers, d units after the previous handler.
Observe(d) ==
  /\ offTime' = IF bmsPowered THEN 0 ELSE AtMost(offTime + d, OffTime)
  /\ heardAtStart' =
       IF bmsResetStatus = "IDLE" /\ bmsResetStatus' # "IDLE"
         THEN stillAlive >= StillAliveMax - 1 /\ ~batteryMissing /\ ~equipmentStop
         ELSE heardAtStart /\ ~equipmentStop'

Handler(d) ==
  /\ ~secondDue
  /\ HandleBmsPower(d, lowSoc, balancing, current)
  /\ secondDue' = (d = 1)
  /\ UNCHANGED <<readings, batteryMissing>>
  /\ Observe(d)

\* check_can_component_alive() for the battery.
CountDownAlive ==
  IF stillAlive = 0
    THEN batteryMissing' = TRUE /\ UNCHANGED stillAlive
    ELSE stillAlive' = stillAlive - 1 /\ batteryMissing' = FALSE

Second ==
  /\ secondDue
  /\ secondDue' = FALSE
  /\ UpdatePauseState(BelowPauseThreshold(current))
  /\ CountDownAlive
  /\ UNCHANGED <<bmsResetStatus, bmsPowered, bmsClocks, balancingPeriodSkipped, readings>>
  /\ Observe(0)

\* A frame of the BMS: new readings, and the alive counter is full again.
BmsFrame ==
  /\ bmsPowered
  /\ current' \in Current
  /\ lowSoc' \in BOOLEAN
  /\ balancing' \in BOOLEAN
  /\ stillAlive' = StillAliveMax
  /\ UNCHANGED <<pauseVars, bmsResetStatus, bmsPowered, bmsClocks,
                 balancingPeriodSkipped, batteryMissing, secondDue>>
  /\ Observe(0)

MqttReset ==
  /\ RemoteReset(current)
  /\ UNCHANGED <<readings, batteryMissing, secondDue>>
  /\ Observe(0)

\* The web page, MQTT and the stop button: pause_CAN is false everywhere.
Command(c) ==
  /\ SetBatteryPause(c \in {"PAUSE", "STOP"}, FALSE,
                     IF c \in StopCommand THEN c ELSE "UNCHANGED",
                     BelowPauseThreshold(current))
  /\ UNCHANGED <<bmsVars, readings, batteryMissing, secondDue>>
  /\ Observe(0)

Next ==
  \/ \E d \in {0, 1} : Handler(d)
  \/ Second
  \/ BmsFrame
  \/ MqttReset
  \/ \E c \in Commands : Command(c)

Spec == Init /\ [][Next]_vars

\* The core loop is watched by a watchdog and its clock does not stop.
FairSpec == Spec /\ WF_vars(Handler(1)) /\ WF_vars(Second)

-----------------------------------------------------------------------------
TypeOK ==
  /\ PauseTypeOK
  /\ BmsTypeOK
  /\ current \in Current
  /\ lowSoc \in BOOLEAN
  /\ balancing \in BOOLEAN
  /\ batteryMissing \in BOOLEAN
  /\ secondDue \in BOOLEAN
  /\ offTime \in 0..OffTime
  /\ heardAtStart \in BOOLEAN

(***************************************************************************)
(* However the reset was started, and whatever interrupted it, the BMS     *)
(* gets its power back only after the configured off time has passed since *)
(* it was cut (comm_contactorcontrol.cpp:523-536).  This is about the      *)
(* seconds of the model: a remote reset between the reading of the clock   *)
(* and its use (l. 475, 577) falls within one of them.                     *)
(***************************************************************************)
OffForTheWholeTime ==
  [][~bmsPowered /\ bmsPowered' => offTime' = OffTime]_vars

(***************************************************************************)
(* The keepalive (l. 60-66) does its job when the BMS had been heard       *)
(* within the last second before the reset and no equipment stop froze the *)
(* state machine: the safety layer does not report a missing battery until *)
(* the reset is over.                                                      *)
(***************************************************************************)
ResetIsNotAMissingBattery ==
  heardAtStart /\ bmsResetStatus # "IDLE" => ~batteryMissing

(***************************************************************************)
(* Once the operator leaves the equipment stop alone, a reset in progress  *)
(* ends: the state machine cannot get stuck with the BMS unpowered.        *)
(***************************************************************************)
ResetEnds == <>[]~equipmentStop => []<>(bmsResetStatus = "IDLE")

(***************************************************************************)
(* "A pack that reports balancing more or less permanently cannot suppress *)
(* the reset indefinitely" (l. 414-416): without a low SOC or an equipment *)
(* stop, the periodic reset is begun again and again.                      *)
(***************************************************************************)
PeriodicResetBegins ==
  <>[](~equipmentStop /\ ~lowSoc) => []<>(bmsResetStatus # "IDLE")

(***************************************************************************)
(* With nobody else pausing the battery, it is paused only while a reset   *)
(* is ongoing: "Issue a pause, which should stop charge/discharge whilst   *)
(* the reset is ongoing" (l. 578).                                         *)
(***************************************************************************)
PausedOnlyDuringReset == bmsResetStatus = "IDLE" => ~pauseRequest

(***************************************************************************)
(* "We don't want to powercycle the BMS during that time", of an active    *)
(* equipment stop (l. 469).                                                *)
(***************************************************************************)
NoPowerCycleDuringStop == [][equipmentStop => (bmsPowered' = bmsPowered)]_vars

=============================================================================
