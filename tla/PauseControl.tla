----------------------------- MODULE PauseControl ----------------------------
(***************************************************************************)
(* The battery pause of safety.cpp: setBatteryPause(), which the web and   *)
(* MQTT commands, the stop button, the BMS reset, OTA and the restart all  *)
(* call, and update_pause_state(), which setBatteryPause() ends with and   *)
(* the core loop calls once per second.                                    *)
(*                                                                         *)
(* Here each call is one step.                                             *)
(*                                                                         *)
(* The battery currents matter only through "low", the test of             *)
(* update_pause_state() that all packs carry less than 1.8 A.              *)
(***************************************************************************)

VARIABLES
  pauseStatus,     (* emulator_pause_status                                *)
  pauseRequest,    (* emulator_pause_request_ON                            *)
  pauseCan,        (* emulator_pause_CAN_send_ON                           *)
  allowedToSend,   (* allowed_to_send_CAN                                  *)
  equipmentStop    (* datalayer equipment_stop_active                      *)

pauseVars == <<pauseStatus, pauseRequest, pauseCan, allowedToSend, equipmentStop>>

PauseStatus == {"NORMAL", "PAUSING", "PAUSED", "RESUMING"}
StopCommand == {"UNCHANGED", "STOP", "RESUME"}

PauseTypeOK ==
  /\ pauseStatus \in PauseStatus
  /\ pauseRequest \in BOOLEAN
  /\ pauseCan \in BOOLEAN
  /\ allowedToSend \in BOOLEAN
  /\ equipmentStop \in BOOLEAN

(***************************************************************************)
(* Power-up.  equipment_stop_active comes from the settings stored in      *)
(* flash, the pause does not.                                              *)
(***************************************************************************)
PauseInit(storedStop) ==
  /\ pauseStatus = "NORMAL"
  /\ pauseRequest = FALSE
  /\ pauseCan = FALSE
  /\ allowedToSend = TRUE
  /\ equipmentStop = storedStop

\* Where update_pause_state() takes the status.
Settled(status, request, low) ==
  IF request /\ status = "PAUSING" /\ low THEN "PAUSED"
  ELSE IF ~request /\ status = "RESUMING" THEN "NORMAL"
  ELSE status

\* May CAN messages be sent with this CAN pause and status?
CanAllowed(can, status) == ~can \/ status = "NORMAL"

UpdatePauseState(low) ==
  /\ pauseStatus' = Settled(pauseStatus, pauseRequest, low)
  /\ allowedToSend' = CanAllowed(pauseCan, pauseStatus')
  /\ UNCHANGED <<pauseRequest, pauseCan, equipmentStop>>

\* What a call does to equipment_stop_active.
StopAfter(cmd) ==
  CASE cmd = "STOP" -> TRUE
    [] cmd = "RESUME" -> FALSE
    [] OTHER -> equipmentStop

SetBatteryPause(pause, can, cmd, low) ==
  /\ equipmentStop' = StopAfter(cmd)
  /\ pauseRequest' = pause
  /\ pauseCan' = (pause /\ can)
  /\ pauseStatus' = Settled(IF pause THEN "PAUSING" ELSE "RESUMING", pause, low)
  /\ allowedToSend' = CanAllowed(pauseCan', pauseStatus')

=============================================================================
