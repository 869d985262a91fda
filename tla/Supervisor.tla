------------------------------ MODULE Supervisor -----------------------------
(***************************************************************************)
(* The contactor ladder together with the components that write what it    *)
(* reads: the battery pause and equipment stop (safety.cpp), the fault     *)
(* status that follows from the active events (events.cpp), the equipment  *)
(* stop kept in flash (comm_nvm.cpp), and restarts, requested or not.      *)
(*                                                                         *)
(* The equipment stop is an event of level ERROR, so it puts the system in *)
(* FAULT; "otherError" stands for all other events of that level together. *)
(* Secondary packs and the recovery mode are left to Contactors and        *)
(* Events.                                                                 *)
(***************************************************************************)
EXTENDS ContactorLadder, PauseControl

CONSTANTS
  RestartPausedTime,   (* INTERVAL_5_S: restart when PAUSED                *)
  RestartTime,         (* INTERVAL_10_S: restart in any case               *)
  Commands             (* the commands the operator uses                   *)

ASSUME RestartAssumption ==
  RestartPausedTime \in Nat /\ RestartTime \in Nat /\ RestartPausedTime <= RestartTime

ASSUME CommandsAssumption == Commands \subseteq {"PAUSE", "UNPAUSE", "STOP", "RESUME"}

VARIABLES
  inverterAllows,   (* the answer of inverter->allows_contactor_closing()  *)
  lowCurrent,       (* the currents of the last frames are below 1.8 A     *)
  stopEvent,        (* EVENT_EQUIPMENT_STOP is active                      *)
  otherError,       (* some other event of level ERROR is active           *)
  storedStop,       (* EQUIPMENT_STOP in flash                             *)
  restartAge,       (* age of emulator_restart_request_millis              *)
  errorSeen,        (* observer: otherError has held since power-up        *)
  stopAtBoot        (* observer: the operator's stop was in force when the *)
                    (*   program last started, and no RESUME has followed  *)

observers == <<errorSeen, stopAtBoot>>
vars == <<ladderVars, pauseVars, inverterAllows, lowCurrent, stopEvent, otherError,
          storedStop, restartAge, observers>>

NoRestart == -1

\* system_status is FAULT while an event of level ERROR is active.
Faulted == stopEvent \/ otherError

Init ==
  /\ LadderInit
  /\ PauseInit(FALSE)
  /\ inverterAllows = TRUE
  /\ lowCurrent = TRUE
  /\ stopEvent = FALSE
  /\ otherError = FALSE
  /\ storedStop = FALSE
  /\ restartAge = NoRestart
  /\ errorSeen = FALSE
  /\ stopAtBoot = FALSE

-----------------------------------------------------------------------------
RestartAgeAfter(d) ==
  IF restartAge = NoRestart THEN NoRestart ELSE Capped(restartAge + d, RestartTime + 1)

\* The 10 ms phase.
TenMs(d) ==
  /\ LadderTick(d, Faulted, inverterAllows, equipmentStop,
                pauseStatus = "PAUSED", TRUE, packPin)
  /\ restartAge' = RestartAgeAfter(d)
  /\ UNCHANGED <<pauseVars, inverterAllows, lowCurrent, stopEvent, otherError,
                 storedStop, observers>>

\* Seeded fault: the restart waits for a pause that somebody may have ended.
RestartDue_OnlyPaused(status) == restartAge > RestartPausedTime /\ status = "PAUSED"

\* update_restart_progress(), with the status the 1 s phase has just set.
RestartDue(status) ==
  \/ restartAge > RestartPausedTime /\ status = "PAUSED"
  \/ restartAge > RestartTime

SettledNow == Settled(pauseStatus, pauseRequest, lowCurrent)

\* The 1 s phase: the safeties raise and clear the other errors.
Second ==
  /\ ~RestartDue(SettledNow)
  /\ UpdatePauseState(lowCurrent)
  /\ otherError' \in BOOLEAN
  /\ errorSeen' = (errorSeen \/ otherError')
  /\ UNCHANGED <<ladderVars, inverterAllows, lowCurrent, stopEvent, storedStop,
                 restartAge, stopAtBoot>>

\* Seeded fault: init_contactors() leaves the relays as it finds them.
LadderBoot_RelaysKept ==
  /\ contactorStatus' = "DISCONNECTED"
  /\ packPin' = [p \in Packs |-> FALSE]
  /\ contactorsEngaged' = 0
  /\ dcBusLive' = TRUE
  /\ timeSpentInFaultedMode' = 0
  /\ sinceStep' = 0
  /\ estopOpenWait' = NoWait
  /\ uptime' = 0
  /\ UNCHANGED pin

(***************************************************************************)
(* The program starts again: pins and variables are as after a reset,      *)
(* except for the equipment stop, which init_stored_settings() reads from  *)
(* flash and reports as an event.                                          *)
(***************************************************************************)
LadderBoot ==
  /\ contactorStatus' = "DISCONNECTED"
  /\ pin' = AllOff
  /\ packPin' = [p \in Packs |-> FALSE]
  /\ contactorsEngaged' = 0
  /\ dcBusLive' = TRUE
  /\ timeSpentInFaultedMode' = 0
  /\ sinceStep' = 0
  /\ estopOpenWait' = NoWait
  /\ uptime' = 0

PauseBoot(stored) ==
  /\ pauseStatus' = "NORMAL"
  /\ pauseRequest' = FALSE
  /\ pauseCan' = FALSE
  /\ allowedToSend' = TRUE
  /\ equipmentStop' = stored

Boot ==
  /\ LadderBoot
  /\ PauseBoot(storedStop)
  /\ inverterAllows' = TRUE
  /\ lowCurrent' = TRUE
  /\ stopEvent' = storedStop
  /\ otherError' = FALSE
  /\ restartAge' = NoRestart
  /\ errorSeen' = FALSE
  /\ stopAtBoot' = equipmentStop
  /\ UNCHANGED storedStop

GracefulRestart == RestartDue(SettledNow) /\ Boot

PowerLoss == Boot

-----------------------------------------------------------------------------
\* Seeded fault: the start of a stop is not written to flash.
StoreStop_OnlyEnd == storedStop' = (storedStop /\ equipmentStop')

\* store_settings_equipment_stop(), called when equipment_stop_active changes.
StoreStop == storedStop' = equipmentStop'

\* Seeded fault: ending a stop leaves its event.
ReportStop_NotCleared ==
  stopEvent' = IF equipmentStop' # equipmentStop THEN TRUE ELSE stopEvent

\* set_event or clear_event, when equipment_stop_active changes.
ReportStop == stopEvent' = IF equipmentStop' # equipmentStop THEN equipmentStop' ELSE stopEvent

Command(c) ==
  /\ SetBatteryPause(c \in {"PAUSE", "STOP"}, FALSE,
                     IF c \in StopCommand THEN c ELSE "UNCHANGED", lowCurrent)
  /\ StoreStop
  /\ ReportStop
  /\ stopAtBoot' = (stopAtBoot /\ c # "RESUME")
  /\ UNCHANGED <<ladderVars, inverterAllows, lowCurrent, otherError, restartAge, errorSeen>>

\* graceful_restart(): a pause, and the time of the request.
RequestRestart ==
  /\ SetBatteryPause(TRUE, FALSE, "UNCHANGED", lowCurrent)
  /\ restartAge' = 0
  /\ UNCHANGED <<ladderVars, inverterAllows, lowCurrent, stopEvent, otherError,
                 storedStop, observers>>

\* reset_all_events() from the web page.
ClearEvents ==
  /\ stopEvent' = FALSE
  /\ otherError' = FALSE
  /\ UNCHANGED <<ladderVars, pauseVars, inverterAllows, lowCurrent, storedStop,
                 restartAge, observers>>

\* A new answer of the inverter, which the handler polls in every call.
ChangePermission ==
  /\ inverterAllows' = ~inverterAllows
  /\ UNCHANGED <<ladderVars, pauseVars, lowCurrent, stopEvent, otherError, storedStop,
                 restartAge, observers>>

\* A frame of the battery: there is a current only while the path is closed.
BatteryFrame ==
  /\ lowCurrent' \in (IF Path = "open" THEN {TRUE} ELSE BOOLEAN)
  /\ UNCHANGED <<ladderVars, pauseVars, inverterAllows, stopEvent, otherError,
                 storedStop, restartAge, observers>>

Tick == \E d \in Delays : TenMs(d)

Next ==
  \/ Tick
  \/ Second
  \/ GracefulRestart
  \/ PowerLoss
  \/ \E c \in Commands : Command(c)
  \/ RequestRestart
  \/ ClearEvents
  \/ ChangePermission
  \/ BatteryFrame

Spec == Init /\ [][Next]_vars

\* Both phases of the core loop keep running.
FairSpec == Spec /\ WF_vars(Tick) /\ WF_vars(Second \/ GracefulRestart)

-----------------------------------------------------------------------------
TypeOK ==
  /\ PauseTypeOK
  /\ contactorStatus \in State
  /\ pin \in [Relay -> Duty]
  /\ timeSpentInFaultedMode \in 0..(MaxFaultTicks + 1)
  /\ estopOpenWait \in NoWait..(EstopTimeout + 1)
  /\ inverterAllows \in BOOLEAN
  /\ lowCurrent \in BOOLEAN
  /\ stopEvent \in BOOLEAN
  /\ otherError \in BOOLEAN
  /\ storedStop \in BOOLEAN
  /\ restartAge \in NoRestart..(RestartTime + 1)
  /\ errorSeen \in BOOLEAN
  /\ stopAtBoot \in BOOLEAN

(***************************************************************************)
(* The event of an equipment stop never outlives the stop, whatever        *)
(* restarts, cleared event logs and commands come between: otherwise the   *)
(* system would stay in FAULT with nothing left to resume                  *)
(* (safety.cpp:563-577, comm_nvm.cpp:55-58).                               *)
(***************************************************************************)
StopEventEndsWithStop == stopEvent => equipmentStop

(***************************************************************************)
(* A stop that was in force when the program last started keeps every      *)
(* relay open until the operator resumes: neither the restart, asked for   *)
(* or not, nor the boot ladder, nor a released pause closes the path.      *)
(***************************************************************************)
StopSurvivesRestart == stopAtBoot => pin = AllOff

(***************************************************************************)
(* The composed system implements the abstract path from one power-up to   *)
(* the next: whatever commands, stops, errors and cleared event logs come, *)
(* the pack is connected directly only after a full precharge, and only a  *)
(* restart of the program ends a latched fault; the restart itself finds   *)
(* the path open and the precharge still to do.                            *)
(***************************************************************************)
ImplementsHighVoltagePath ==
  HV!PathInit /\ [][HV!PathNext \/ (Boot /\ HV!PowerUp)]_(HV!pathVars)

(***************************************************************************)
(* Once the operator stops asking for it again, which starts its time      *)
(* anew, a requested restart takes place, even if the pause it began is    *)
(* released meanwhile and the current never comes down.                    *)
(***************************************************************************)
RestartHappens ==
  <>[][~RequestRestart]_vars =>
    (restartAge # NoRestart) ~> (restartAge = NoRestart)

(***************************************************************************)
(* "In case the inverter or the equipment stop requests contactors to      *)
(* open, jump to Disconnected (recoverable)" (comm_contactorcontrol.cpp    *)
(* :242): without any other error the ladder is never latched open.        *)
(***************************************************************************)
StopIsRecoverable == ~errorSeen => contactorStatus # "SHUTDOWN_REQUESTED"

=============================================================================
