--------------------------- MODULE PrechargeControl ---------------------------
(***************************************************************************)
(* The automatic precharge: handle_precharge_control(), called in every    *)
(* 10 ms phase, which drives the precharge hardware by PWM and takes the   *)
(* inverter off the bus meanwhile, and the part of the MEB driver that     *)
(* starts it and tells it of the battery's contactors, with its own reset  *)
(* of the BMS, which puts the battery to sleep and wakes it again.         *)
(*                                                                         *)
(* The frequency of the PWM, a controller of the bus voltage, is left out. *)
(***************************************************************************)
EXTENDS Integers

CONSTANT
  MaxPrecharge     (* precharge_max_precharge_time_before_fault, in calls  *)

ASSUME PrechargeAssumption == MaxPrecharge \in Nat \ {0}

VARIABLES
  prechargeStatus,
  pwm,                 (* the precharge pin is driven                      *)
  inverterConnected,   (* the inverter disconnect contactor is CONTACTOR_ON *)
  prechargeAge,        (* time since prechargeStartTime                    *)
  startPrecharging,    (* start_precharging                                *)
  mebReset,            (* bms_reset_state, with both waits in silence one  *)
  bmsStatus,           (* real_bms_status                                  *)
  batteryAllows,       (* battery_allows_contactor_closing                 *)
  inverterAllows       (* inverter_allows_contactor_closing                *)

driverVars == <<startPrecharging, mebReset, bmsStatus, batteryAllows>>
prechargeVars == <<prechargeStatus, pwm, inverterConnected, prechargeAge, driverVars, inverterAllows>>

PrechargeStatus == {"IDLE", "START", "PRECHARGING", "FAILURE", "COMPLETED"}
BmsStatus == {"DISCONNECTED", "STANDBY", "ACTIVE", "FAULT"}
MebResetState == {"IDLE", "WAIT_FOR_PAUSE", "REQUEST_HV_OFF", "SILENCE"}

PrechargeTypeOK ==
  /\ prechargeStatus \in PrechargeStatus
  /\ pwm \in BOOLEAN
  /\ inverterConnected \in BOOLEAN
  /\ prechargeAge \in 0..MaxPrecharge
  /\ startPrecharging \in BOOLEAN
  /\ mebReset \in MebResetState
  /\ bmsStatus \in BmsStatus
  /\ batteryAllows \in BOOLEAN
  /\ inverterAllows \in BOOLEAN

\* The disconnect pin is LOW, which is on for a normally closed contactor only.
PrechargeInit ==
  /\ prechargeStatus = "IDLE"
  /\ pwm = FALSE
  /\ inverterConnected \in BOOLEAN
  /\ prechargeAge = 0
  /\ startPrecharging = FALSE
  /\ mebReset = "IDLE"
  /\ bmsStatus = "DISCONNECTED"
  /\ batteryAllows = FALSE
  /\ inverterAllows = TRUE

-----------------------------------------------------------------------------
\* Without a battery the sequence runs by itself, to test the hardware.
Asked(testMode) == startPrecharging \/ testMode
SeenBms(testMode) == IF testMode THEN "STANDBY" ELSE bmsStatus

AgeNow == IF prechargeAge < MaxPrecharge THEN prechargeAge + 1 ELSE MaxPrecharge

\* Seeded fault: a precharge that makes no progress is never given up.
Fails_NoTimeout(bms) == bms = "FAULT"

Fails(bms) == AgeNow >= MaxPrecharge \/ bms = "FAULT"

Aborts(bms, fault, stop) ==
  bms \notin {"STANDBY", "ACTIVE"} \/ fault \/ stop \/ ~inverterAllows

\* Every way out of PRECHARGING switches the PWM off and the inverter on.
Leave(status) ==
  /\ prechargeStatus' = status
  /\ pwm' = FALSE
  /\ inverterConnected' = TRUE

Stay == UNCHANGED <<prechargeStatus, pwm, inverterConnected>>

\* Seeded fault: the inverter stays on the bus.
Begin_Connected ==
  /\ prechargeStatus' = "PRECHARGING"
  /\ pwm' = TRUE
  /\ UNCHANGED inverterConnected

Begin ==
  /\ prechargeStatus' = "PRECHARGING"
  /\ pwm' = TRUE
  /\ inverterConnected' = FALSE

\* Does this call raise EVENT_AUTOMATIC_PRECHARGE_FAILURE?
FailsNow(testMode) == prechargeStatus = "PRECHARGING" /\ Fails(SeenBms(testMode))

\* Seeded fault: a stop does not end the precharge.
Precharging_InStop(bms, fault, stop) ==
  IF Fails(bms) THEN Leave("FAILURE")
  ELSE IF Aborts(bms, fault, FALSE) THEN Leave("IDLE")
  ELSE IF batteryAllows THEN Leave("COMPLETED")
  ELSE Stay

Precharging(bms, fault, stop) ==
  IF Fails(bms) THEN Leave("FAILURE")
  ELSE IF Aborts(bms, fault, stop) THEN Leave("IDLE")
  ELSE IF batteryAllows THEN Leave("COMPLETED")
  ELSE Stay

\* A failure leaves its outputs off until the next power cycle.
HandlePrecharge(testMode, fault, stop) ==
  LET bms == SeenBms(testMode) IN
  /\ CASE prechargeStatus = "FAILURE" -> Leave("FAILURE")
       [] prechargeStatus = "IDLE" ->
            IF Asked(testMode) /\ inverterAllows
              THEN prechargeStatus' = "START" /\ UNCHANGED <<pwm, inverterConnected>>
              ELSE Stay
       [] prechargeStatus = "START" -> Begin
       [] prechargeStatus = "PRECHARGING" -> Precharging(bms, fault, stop)
       [] prechargeStatus = "COMPLETED" ->
            IF stop \/ fault \/ bms = "STANDBY" \/ ~inverterAllows
              THEN prechargeStatus' = "IDLE" /\ UNCHANGED <<pwm, inverterConnected>>
              ELSE Stay
  /\ prechargeAge' = IF prechargeStatus = "START" THEN 0 ELSE AgeNow
  /\ IF prechargeStatus = "FAILURE"
       THEN UNCHANGED <<startPrecharging, bmsStatus>>
       ELSE /\ bmsStatus' = bms
            /\ startPrecharging' = (Asked(testMode) /\ ~FailsNow(testMode))
  /\ UNCHANGED <<mebReset, batteryAllows, inverterAllows>>

-----------------------------------------------------------------------------
\* BMS_FAULT is left only at the end of the driver's reset.
ReportedStatus(s) == IF bmsStatus = "FAULT" THEN "FAULT" ELSE s

\* The mode in a frame of the BMS, or 500 ms without frames, which the driver
\* does not look at while it keeps the bus silent.
MebReport ==
  /\ \/ bmsStatus' = ReportedStatus("ACTIVE") /\ batteryAllows' = TRUE
     \/ bmsStatus' = "FAULT" /\ batteryAllows' = FALSE
     \/ bmsStatus' = ReportedStatus("STANDBY") /\ batteryAllows' = FALSE
     \/ /\ bmsStatus # "FAULT" /\ mebReset # "SILENCE"
        /\ bmsStatus' = "DISCONNECTED" /\ batteryAllows' = FALSE
  /\ UNCHANGED <<startPrecharging, mebReset>>

\* The voltages agree, or high voltage has been requested already: nothing to do.
Ready(close, stop) ==
  ~stop /\ inverterAllows /\ (bmsStatus = "ACTIVE" \/ (bmsStatus = "STANDBY" /\ close))

\* The 100 ms message of the driver; running: the BMS has been heard long enough.
MebRequest(fault, stop) ==
  /\ mebReset # "SILENCE"
  /\ \/ Ready(TRUE, stop) /\ startPrecharging' = FALSE
     \/ /\ ~Ready(FALSE, stop)
        /\ \E running \in BOOLEAN :
             startPrecharging' = (\/ startPrecharging
                                  \/ /\ running \/ ~inverterAllows
                                     /\ ~fault /\ bmsStatus = "STANDBY" /\ ~stop)
  /\ UNCHANGED <<mebReset, bmsStatus, batteryAllows>>

(***************************************************************************)
(* handle_bms_reset(): with the emulator paused, the driver asks the BMS   *)
(* for HV off, falls silent until it sleeps, forgets what it reported last *)
(* and ends the pause.  Without PAUSED it gives up and ends the pause too. *)
(***************************************************************************)
ResetGoesOn(from, to) ==
  /\ mebReset = from
  /\ mebReset' = to
  /\ UNCHANGED <<startPrecharging, batteryAllows>>

AskForPause == ResetGoesOn("IDLE", "WAIT_FOR_PAUSE") /\ UNCHANGED bmsStatus
GiveUpReset(paused) == ~paused /\ ResetGoesOn("WAIT_FOR_PAUSE", "IDLE") /\ UNCHANGED bmsStatus
WakeBms == ResetGoesOn("SILENCE", "IDLE") /\ bmsStatus' = "DISCONNECTED"

PutToSleep(paused) ==
  /\ \/ paused /\ ResetGoesOn("WAIT_FOR_PAUSE", "REQUEST_HV_OFF")
     \/ ResetGoesOn("REQUEST_HV_OFF", "SILENCE")
  /\ UNCHANGED bmsStatus

=============================================================================
