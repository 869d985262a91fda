------------------------------- MODULE CoreLoop -------------------------------
(***************************************************************************)
(* core_loop(): its 10 ms phase, with the stop button and the automatic    *)
(* precharge, and its 1 s phase, with the pause, the parallel packs, the   *)
(* safeties and the limits, between the frames of the battery and the      *)
(* inverter, the operator on the web page and the MQTT task.               *)
(*                                                                         *)
(* What is fitted is read from the stored settings once, in setup(): an    *)
(* installation is one such choice, with what its battery may report and   *)
(* what its operator uses.  The initial reading is what the drivers        *)
(* publish before their first frame, some of them a plausible voltage.     *)
(* Without a battery it stays, and allows no power.  The contactor ladder, *)
(* which takes part in the same phases, has modules of its own.            *)
(***************************************************************************)
EXTENDS StopButton, PrechargeControl, ParallelSafety, Protection, PauseControl

CONSTANTS
  Installations,   (* the installations considered                         *)
  PowerCap         (* no pack allows more, nor the floor of the taper      *)

Uses == {"PAUSE", "UNPAUSE", "STOP", "RESUME", "CLEAR", "RECOVERY", "VOLTAGE", "LIMITS",
         "RESET"}

Installation ==
  [battery : BOOLEAN, packs : SUBSET PackIds, button : Behaviour, precharge : BOOLEAN,
   taper : BOOLEAN, filter : BOOLEAN, inverter : {"NONE", "NORMAL", "SLOW"},
   offgrid : BOOLEAN, uses : SUBSET Uses, initial : Reading, mainReadings : SUBSET Reading,
   packReadings : SUBSET Reading]

ASSUME InstallationAssumption ==
  /\ PowerCap \in Nat /\ FloorPower <= PowerCap
  /\ \A i \in Installations :
       /\ i.battery \in BOOLEAN /\ i.packs \subseteq PackIds /\ i.button \in Behaviour
       /\ i.precharge \in BOOLEAN /\ i.taper \in BOOLEAN /\ i.filter \in BOOLEAN
       /\ i.inverter \in {"NONE", "NORMAL", "SLOW"} /\ i.offgrid \in BOOLEAN
       /\ i.uses \subseteq Uses
       /\ \A r \in {i.initial} \cup i.mainReadings \cup i.packReadings :
            r \in Reading /\ r.charge <= PowerCap /\ r.discharge <= PowerCap

VARIABLES
  install,         (* what is fitted                                       *)
  reading,         (* what the driver of each pack has decoded             *)
  lowCurrent       (* Low, when it was last published                      *)

plantVars == <<install, reading, lowCurrent>>

(***************************************************************************)
(* Observers: the code has none of these.                                  *)
(***************************************************************************)
VARIABLES
  stableCalls,     (* calls in a row that read the button alike            *)
  overridden,      (* the stop of the engaged switch was lifted by command *)
  pwmTime,         (* calls the PWM has been on                            *)
  stopped,         (* the last precharge call was made in a stop or FAULT  *)
  silentFor,       (* seconds without a frame of a pack                    *)
  inverterSilentFor,
  heard,           (* packs that have sent a frame                         *)
  outOfStep,       (* checked seconds in a row a pack was out of step      *)
  faultFor,        (* checks of a pack in a row that found a FAULT         *)
  hit,             (* limits hit and not well left since                   *)
  recovering,      (* recovery was in effect in the last second            *)
  recoveryFor,     (* seconds of recovery since it was asked for           *)
  promised,        (* caps of the message in force in the last second      *)
  lost             (* the message was expired in the middle of its writes, *)
                   (*   or its stamp overtook the clock of the core loop   *)

buttonObservers == <<stableCalls, overridden>>
prechargeObservers == <<pwmTime, stopped>>
packObservers == <<silentFor, inverterSilentFor, heard, outOfStep, faultFor>>
limitObservers == <<hit, recovering, recoveryFor, promised, lost>>
observers == <<buttonObservers, prechargeObservers, packObservers, limitObservers>>

vars == <<buttonVars, prechargeVars, parallelVars, aliveVars, protectionVars, pauseVars,
          plantVars, observers>>

-----------------------------------------------------------------------------
Present == IF install.battery THEN {1} \cup install.packs ELSE {}

\* All packs carry less than 1.8 A.
Low == \A p \in AllPacks : reading[p].low

LowestOf(S) == CHOOSE x \in S : \A y \in S : x <= y

\* Seeded fault: only the main pack decides.
LowestCharge_MainOnly == reading[1].charge

LowestCharge == LowestOf({reading[p].charge : p \in {1} \cup install.packs})
LowestDischarge == LowestOf({reading[p].discharge : p \in {1} \cup install.packs})

Init ==
  /\ install \in Installations
  /\ ButtonInit /\ (install.button = "NOT_CONNECTED" => ~engaged)
  /\ PrechargeInit /\ (~install.precharge => inverterConnected)
  /\ ParallelInit
  /\ AliveInit
  /\ ProtectionInit
  /\ PauseInit(FALSE)
  /\ reading = [p \in AllPacks |-> install.initial]
  /\ lowCurrent = TRUE
  /\ stableCalls = 0 /\ overridden = FALSE
  /\ pwmTime = 0 /\ stopped = FALSE
  /\ silentFor = [p \in AllPacks |-> 0] /\ inverterSilentFor = 0
  /\ heard = {}
  /\ outOfStep = [p \in PackIds |-> 0] /\ faultFor = [p \in PackIds |-> 0]
  /\ hit = {} /\ recovering = FALSE /\ recoveryFor = 0
  /\ promised = NoMessage.cap /\ lost = FALSE

-----------------------------------------------------------------------------
(***************************************************************************)
(* setBatteryPause() with the limits, events and status it changes.        *)
(***************************************************************************)
LimitsAfterPause(pause) ==
  IF pause
    THEN [charge |-> 0, discharge |-> 0, chargeA |-> limits.chargeA, dischargeA |-> limits.dischargeA]
    ELSE limits

\* The event of a stop is set and cleared only when the stop changes.
ErrorsAfterStop(cmd) ==
  IF StopAfter(cmd) = equipmentStop THEN errors
  ELSE IF StopAfter(cmd) THEN errors \cup {"STOP"}
  ELSE errors \ {"STOP"}

Pause(pause, cmd) ==
  /\ SetBatteryPause(pause, FALSE, cmd, lowCurrent)
  /\ limits' = LimitsAfterPause(pause)

-----------------------------------------------------------------------------
(***************************************************************************)
(* The 10 ms phase.                                                        *)
(***************************************************************************)
Command == ButtonCommand(install.button)

ErrorsNow == IF Command = "UNCHANGED" THEN errors ELSE ErrorsAfterStop(Command)
StatusNow == IF Command = "UNCHANGED" THEN status ELSE StatusFor(ErrorsNow, recoveryMode)

MonitorButton ==
  /\ IF install.button = "NOT_CONNECTED" THEN UNCHANGED buttonVars ELSE Debounce
  /\ IF Command = "UNCHANGED" THEN UNCHANGED <<pauseVars, limits>>
     ELSE Pause(Command = "STOP", Command)

\* The precharge sees what the button has just done.
RunPrecharge ==
  LET testMode == ~install.battery
      failure == install.precharge /\ FailsNow(testMode)
      errs == IF failure THEN ErrorsNow \cup {"PRECHARGE"} ELSE ErrorsNow
  IN  /\ IF install.precharge
           THEN HandlePrecharge(testMode, StatusNow = "FAULT", StopAfter(Command))
           ELSE UNCHANGED prechargeVars
      /\ errors' = errs
      /\ status' = IF failure THEN StatusFor(errs, recoveryMode) ELSE StatusNow

ObserveTenMs ==
  /\ stableCalls' = IF install.button = "NOT_CONNECTED" THEN 0
                    ELSE IF engaged # lastEngaged THEN 0
                    ELSE UpTo(DebounceDelay + 1, stableCalls + 1)
  /\ overridden' = (overridden /\ Command = "UNCHANGED")
  /\ pwmTime' = IF pwm' THEN UpTo(MaxPrecharge + 1, IF pwm THEN pwmTime + 1 ELSE 0) ELSE 0
  /\ stopped' = (install.precharge /\ (StopAfter(Command) \/ StatusNow = "FAULT"))

TenMs ==
  /\ MonitorButton
  /\ RunPrecharge
  /\ ObserveTenMs
  /\ UNCHANGED <<parallelVars, aliveVars, outputVars, latchVars, voltageLimits,
                 recoveryVars, remoteVars, plantVars, packObservers, limitObservers>>

-----------------------------------------------------------------------------
(***************************************************************************)
(* The 1 s phase.  The packs are compared before this second's safeties,   *)
(* with what the last ones have detected.                                  *)
(***************************************************************************)
Compared == {p \in install.packs : install.battery /\ detected[p]}

Voltages == [p \in AllPacks |-> reading[p].voltage]

MainSilent == install.battery /\ alive[1] = 0
InverterSilent == install.inverter # "NONE" /\ inverterAlive = 0

\* A check of pack p that gets past the early returns.
Checked(p) == p \in Compared /\ Known(Voltages[1]) /\ Known(Voltages[p])

(***************************************************************************)
(* The drivers run before the checks of the packs and report their own     *)
(* errors, all of them under the same events: the last one decides.        *)
(***************************************************************************)
Updated(p) == {q \in Present : q <= p}
LastFault(p) == \E q \in Updated(p) : reading[q].fault /\ \A o \in Updated(p) : o <= q

ErrorsOfDrivers(p) == (errors \ {"DRIVER"}) \cup (IF LastFault(p) THEN {"DRIVER"} ELSE {})
DriverEvent(p) == "DRIVER" \in errors \/ \E q \in Updated(p) : reading[q].fault

\* Seeded fault: what the drivers report acts in the next second only.
StatusWhen_NextSecond(updated, point, touch) == status

\* The status at a point of the second, with the drivers updated up to a pack.
StatusWhen(updated, point, touch) ==
  IF DriverEvent(updated) \/ touch <= point
    THEN StatusFor(ErrorsOfDrivers(updated), recoveryMode)
    ELSE status

LastPack == 3
FaultAtCheck(touch) == [p \in PackIds |-> StatusWhen(p, p, touch) = "FAULT"]
ErrorsAtPower == ErrorsOfDrivers(LastPack)
StatusAtPower(touch) == StatusWhen(LastPack, AtPower, touch)

HitAfter ==
  LET r == reading[1] IN
  (IF r.cellMax >= MaxCell THEN {"CELL"}
   ELSE IF r.cellMax < MaxCell - CellHysteresis THEN {} ELSE hit \cap {"CELL"})
  \cup
  (IF ~voltageLimits THEN {}
   ELSE IF r.voltage >= UserMaxVoltage THEN {"CHARGE"}
   ELSE IF r.voltage < UserMaxVoltage - UserHysteresis THEN {} ELSE hit \cap {"CHARGE"})
  \cup
  (IF ~voltageLimits THEN {}
   ELSE IF r.voltage <= UserMinVoltage THEN {"DISCHARGE"}
   ELSE IF r.voltage > UserMinVoltage + UserHysteresis THEN {} ELSE hit \cap {"DISCHARGE"})

ObserveSecond(fault) ==
  /\ silentFor' = [p \in AllPacks |-> UpTo(StillAlive + 1, silentFor[p] + 1)]
  /\ inverterSilentFor' = UpTo(3 * StillAlive + 1, inverterSilentFor + 1)
  /\ outOfStep' = [p \in PackIds |->
       IF ~Checked(p) THEN outOfStep[p]
       ELSE IF InStep(Voltages[1], Voltages[p]) THEN 0 ELSE UpTo(MaxDrift + 1, outOfStep[p] + 1)]
  /\ faultFor' = [p \in PackIds |->
       IF ~Checked(p) THEN faultFor[p]
       ELSE IF fault[p] THEN UpTo(MaxDrift + 1, faultFor[p] + 1) ELSE 0]
  /\ hit' = HitAfter
  /\ recovering' = recoveryMode
  /\ recoveryFor' = IF recoveryMode THEN UpTo(RecoveryTime + 1, recoveryFor + 1) ELSE 0
  /\ promised' = IF mqttStep = "idle" /\ remoteAge \in 0..message.timeout /\ ~lost
                   THEN message.cap ELSE NoMessage.cap
  /\ lost' = (lost \/ (mqttStep # "idle" /\ Expired) \/ remoteAge = Ahead)
  /\ UNCHANGED <<heard, buttonObservers, prechargeObservers>>

SecondWith(touch) ==
  /\ UpdatePauseState(lowCurrent)
  /\ CheckParallel(Compared, Voltages, FaultAtCheck(touch))
  /\ CheckPacks(Present)
  /\ CheckInverter(install.inverter)
  /\ lowCurrent' = Low
  /\ UNCHANGED <<buttonVars, prechargeVars, install, reading>>
  /\ ObserveSecond(FaultAtCheck(touch))
  /\ Protect(install.taper, install.filter, LowestCharge, LowestDischarge, reading[1],
             pauseRequest, ErrorsAtPower, StatusAtPower(touch), touch)
  /\ EventsAfter(reading[1], ErrorsAtPower, StatusAtPower(touch), MainSilent, InverterSilent,
                 InverterSilent /\ ~install.offgrid, touch)

\* The first event below ERROR matters only while the status is out of date.
Touches ==
  IF status = StatusFor(errors, recoveryMode) THEN {Never}
  ELSE install.packs \cup {AtPower, AtEmpty, AtEnd, Never}

Second == \E touch \in Touches : SecondWith(touch)

-----------------------------------------------------------------------------
(***************************************************************************)
(* The surroundings.                                                       *)
(***************************************************************************)
Frame(p) ==
  /\ p \in Present
  /\ \E r \in (IF p = 1 THEN install.mainReadings ELSE install.packReadings) :
       reading' = [reading EXCEPT ![p] = r]
  /\ HearPack(p)
  /\ heard' = heard \cup {p}
  /\ silentFor' = [silentFor EXCEPT ![p] = 0]
  /\ UNCHANGED <<buttonVars, prechargeVars, parallelVars, protectionVars, pauseVars,
                 install, lowCurrent, buttonObservers, prechargeObservers,
                 inverterSilentFor, outOfStep, faultFor, limitObservers>>

InverterFrame ==
  /\ install.inverter # "NONE"
  /\ HearInverter
  /\ inverterSilentFor' = 0
  /\ UNCHANGED <<buttonVars, prechargeVars, parallelVars, protectionVars, pauseVars,
                 plantVars, buttonObservers, prechargeObservers, silentFor, heard,
                 outOfStep, faultFor, limitObservers>>

Switch ==
  /\ install.button # "NOT_CONNECTED"
  /\ MoveSwitch
  /\ UNCHANGED <<prechargeVars, parallelVars, aliveVars, protectionVars, pauseVars,
                 plantVars, observers>>

\* The MEB driver, the only one that starts the automatic precharge.
Driver ==
  /\ install.precharge /\ install.battery
  /\ MebReport \/ MebRequest(status = "FAULT", equipmentStop)
  /\ UNCHANGED <<buttonVars, prechargeStatus, pwm, inverterConnected, prechargeAge,
                 inverterAllows, parallelVars, aliveVars, protectionVars, pauseVars,
                 plantVars, observers>>

ChangePermission ==
  /\ install.precharge
  /\ inverterAllows' = ~inverterAllows
  /\ UNCHANGED <<buttonVars, prechargeStatus, pwm, inverterConnected, prechargeAge,
                 driverVars, parallelVars, aliveVars, protectionVars, pauseVars, plantVars,
                 observers>>

PauseFromOutside(c) ==
  LET cmd == IF c \in StopCommand THEN c ELSE "UNCHANGED" IN
  /\ c \in install.uses
  /\ Pause(c \in {"PAUSE", "STOP"}, cmd)
  /\ errors' = ErrorsAfterStop(cmd)
  /\ status' = StatusFor(errors', recoveryMode)
  /\ overridden' = (c = "RESUME" \/ (overridden /\ c # "STOP"))
  /\ UNCHANGED <<buttonVars, prechargeVars, parallelVars, aliveVars, outputVars, latchVars,
                 voltageLimits, recoveryVars, remoteVars, plantVars, stableCalls,
                 prechargeObservers, packObservers, limitObservers>>

\* Each pause and each end of one is an event.
DriverPause(pause) ==
  /\ Pause(pause, "UNCHANGED")
  /\ status' = StatusFor(errors, recoveryMode)

\* The MEB driver's own reset of the BMS, with the pause that it asks for and ends.
MebReset ==
  /\ install.precharge /\ install.battery /\ "RESET" \in install.uses
  /\ \/ AskForPause /\ DriverPause(TRUE)
     \/ PutToSleep(pauseStatus = "PAUSED") /\ UNCHANGED <<pauseVars, limits, status>>
     \/ GiveUpReset(pauseStatus = "PAUSED") /\ DriverPause(FALSE)
     \/ WakeBms /\ DriverPause(FALSE)
  /\ UNCHANGED <<buttonVars, prechargeStatus, pwm, inverterConnected, prechargeAge,
                 inverterAllows, parallelVars, aliveVars, outputVars, latchVars,
                 voltageLimits, recoveryVars, errors, remoteVars, plantVars, observers>>

\* An event below ERROR at any other time, such as that of a late pass.
OtherEvent ==
  /\ status' = StatusFor(errors, recoveryMode)
  /\ UNCHANGED <<buttonVars, prechargeVars, parallelVars, aliveVars, limits, outputVars,
                 latchVars, voltageLimits, recoveryVars, errors, remoteVars, pauseVars,
                 plantVars, observers>>

ClearEvents ==
  /\ "CLEAR" \in install.uses
  /\ errors' = {}
  /\ status' = "ACTIVE"
  /\ UNCHANGED <<buttonVars, prechargeVars, parallelVars, aliveVars, limits, outputVars,
                 latchVars, voltageLimits, recoveryVars, remoteVars, pauseVars, plantVars,
                 observers>>

\* The web page changes the flag alone: neither the status nor the start time.
SwitchRecovery ==
  /\ "RECOVERY" \in install.uses
  /\ recoveryMode' = ~recoveryMode
  /\ recoveryFor' = 0
  /\ UNCHANGED <<buttonVars, prechargeVars, parallelVars, aliveVars, limits, outputVars,
                 latchVars, voltageLimits, recoveryAge, eventVars, remoteVars, pauseVars,
                 plantVars, buttonObservers, prechargeObservers, packObservers, hit,
                 recovering, promised, lost>>

SwitchVoltageLimits ==
  /\ "VOLTAGE" \in install.uses
  /\ voltageLimits' = ~voltageLimits
  /\ UNCHANGED <<buttonVars, prechargeVars, parallelVars, aliveVars, limits, outputVars,
                 latchVars, recoveryVars, eventVars, remoteVars, pauseVars, plantVars,
                 observers>>

SetRemoteLimits ==
  /\ "LIMITS" \in install.uses
  /\ SetLimits
  /\ lost' = (lost /\ mqttStep # "idle")
  /\ UNCHANGED <<buttonVars, prechargeVars, parallelVars, aliveVars, limits, outputVars,
                 latchVars, voltageLimits, recoveryVars, eventVars, pauseVars, plantVars,
                 buttonObservers, prechargeObservers, packObservers, hit, recovering,
                 recoveryFor, promised>>

Operator ==
  \/ \E c \in {"PAUSE", "UNPAUSE", "STOP", "RESUME"} : PauseFromOutside(c)
  \/ ClearEvents
  \/ SwitchRecovery
  \/ SwitchVoltageLimits

Next ==
  \/ TenMs
  \/ Second
  \/ \E p \in AllPacks : Frame(p)
  \/ InverterFrame
  \/ Switch
  \/ Driver
  \/ MebReset
  \/ ChangePermission
  \/ OtherEvent
  \/ Operator
  \/ SetRemoteLimits

Spec == Init /\ [][Next]_vars

\* Both phases keep running; nothing else has to happen.  This is asked for
\* only where a property needs it.
LatchingTenMs == install.button = "LATCHING" /\ TenMs
FilteredSecond == install.filter /\ Second
FairSpec == Spec /\ WF_vars(LatchingTenMs) /\ WF_vars(FilteredSecond)

-----------------------------------------------------------------------------
TypeOK ==
  /\ install \in Installations
  /\ reading \in [AllPacks -> Reading]
  /\ lowCurrent \in BOOLEAN
  /\ ButtonTypeOK
  /\ PrechargeTypeOK
  /\ ParallelTypeOK
  /\ AliveTypeOK
  /\ ProtectionTypeOK
  /\ RemoteTypeOK
  /\ PauseTypeOK

(***************************************************************************)
(* From the moment anybody asks for a pause until it is released, the data *)
(* layer allows no power: neither the driver's new readings, nor the floor *)
(* of the taper, nor the memory of the filter bring any back               *)
(* (safety.cpp:143, 584-586).                                              *)
(***************************************************************************)
PauseMeansNoPower == pauseRequest => limits.charge = 0 /\ limits.discharge = 0

(***************************************************************************)
(* A FAULT with which a second begins takes the power away in it, and so   *)
(* does an error of a driver that this second first reports; only recovery *)
(* charging overrides them.  A FAULT of nothing but a driver's error is    *)
(* over when the driver takes that back, and the errors of the checks      *)
(* themselves act in the next second: both because of the place at which   *)
(* the status is read (safety.cpp:143, events.cpp:686-713).                *)
(***************************************************************************)
FaultMeansNoPower ==
  [][/\ ~recoveryMode
     /\ (status = "FAULT" /\ errors # {"DRIVER"}) \/ "DRIVER" \in errors'
     /\ sent'.charge > 0 \/ sent'.discharge > 0
     => ~Second]_vars

(***************************************************************************)
(* Inverters told a current and inverters told a power agree: no current   *)
(* is allowed without power, save the charge current of a recovery         *)
(* (safety.cpp:495-511).                                                   *)
(***************************************************************************)
CurrentsFollowPower ==
  /\ sent.discharge = 0 => sent.dischargeA = 0
  /\ sent.charge = 0 /\ ~recovering => sent.chargeA = 0

(***************************************************************************)
(* Without a filter or a taper a recovery gets its charge current, though  *)
(* the pause, the FAULT or the checks forbid all power (safety.cpp:502).   *)
(* With one of them it may get none: they cap the current with a power     *)
(* that is 0 (Software.cpp:221, 308).                                      *)
(***************************************************************************)
RecoveryReachesInverter ==
  recovering /\ ~install.filter /\ ~install.taper => sent.chargeA = Lower(UserCharge, RecoveryCurrent)

(***************************************************************************)
(* The currents told to the inverter are those of the powers, or of a      *)
(* recovery, after all that the checks take away (safety.cpp:495-511).     *)
(***************************************************************************)
CurrentsAreRight == CurrentsFollowPower /\ RecoveryReachesInverter

(***************************************************************************)
(* Once switched on, recovery charging does not outlast its time, whatever *)
(* pauses, faults and stops come between: the flag that overrides every    *)
(* FAULT is a state of bounded length (safety.cpp:521).                    *)
(***************************************************************************)
RecoveryIsBounded == recoveryMode => recoveryFor <= RecoveryTime

(***************************************************************************)
(* A cell at its ceiling, or a pack at the voltage the user has set, stops *)
(* the power in that direction until a later second has seen it well       *)
(* back: bouncing around the limit does not chatter (safety.cpp:187-240).  *)
(***************************************************************************)
StaysBlocked ==
  /\ hit \cap {"CELL", "CHARGE"} # {} => sent.charge = 0
  /\ "DISCHARGE" \in hit => sent.discharge = 0

\* A power rises by more than the filter lets through.
Jumps(old, new) == new > old /\ 100 * new > NewShare * PowerCap + (100 - NewShare) * old

(***************************************************************************)
(* With the filter on, the inverter never sees a power rise by more than   *)
(* the share of the filter, after a pause or a FAULT as at any other time; *)
(* "otherwise a safety block release would expose a filter state that      *)
(* never saw the zero" (Software.cpp:248-254).                             *)
(***************************************************************************)
IncreaseIsRamped ==
  [][/\ install.filter /\ filterReady
     /\ Jumps(sent.charge, sent'.charge) \/ Jumps(sent.discharge, sent'.discharge)
     => ~Second]_vars

\* The limits l allow more than the reading r.
Exceeds(l, r) ==
  \/ l.discharge > r.discharge
  \/ l.charge > r.charge /\ ~(install.taper /\ l.charge <= FloorPower /\ r.charge > 0)

(***************************************************************************)
(* The inverter is never allowed more power than any of the packs allows,  *)
(* except by the floor of the taper, which only asks for an allowance that *)
(* is not zero (Software.cpp:198-212, 335-350).                            *)
(***************************************************************************)
WithinEveryPack ==
  [][(\E p \in {1} \cup install.packs : Exceeds(sent', reading[p])) => ~Second]_vars

(***************************************************************************)
(* While the limits of an MQTT message are in force, no current exceeds    *)
(* them, except the charge current of a recovery: from its time stamp,     *)
(* which is written last, to its timeout.  Two messages are lost at once,  *)
(* one whose writes the expiry of an older one cuts through, and one whose *)
(* stamp is newer than the time the core loop took at the start of its     *)
(* pass (mqtt.cpp:1007-1029, Software.cpp:620, safety.cpp:65-73).          *)
(***************************************************************************)
RemoteCapHolds ==
  /\ promised["charge"] # NoCap /\ ~recovering => sent.chargeA <= promised["charge"]
  /\ promised["discharge"] # NoCap => sent.dischargeA <= promised["discharge"]

-----------------------------------------------------------------------------
InverterTime == IF install.inverter = "SLOW" THEN 3 ELSE 1

Unnoticed(errs) ==
  \/ install.battery /\ silentFor[1] >= StillAlive /\ "MISSING" \notin errs
  \/ /\ install.inverter # "NONE" /\ ~install.offgrid
     /\ inverterSilentFor >= InverterTime * StillAlive
     /\ "INVERTER" \notin errs

TooSoon(errs) ==
  \/ "MISSING" \in errs /\ silentFor[1] < StillAlive - 1
  \/ "INVERTER" \in errs /\ (install.offgrid \/ inverterSilentFor < InverterTime * (StillAlive - 1))

(***************************************************************************)
(* A pack or an inverter silent for its time is an error in the next       *)
(* second, and never one much sooner (safety.cpp:47-58, 345-363).  The     *)
(* long timeout of the inverter counts every third second, and off the     *)
(* grid a silent inverter is no error at all (events.cpp:41-56).           *)
(***************************************************************************)
SilenceIsNoticed == [][Unnoticed(errors') \/ TooSoon(errors') => ~Second]_vars

(***************************************************************************)
(* No secondary pack may join before it has sent a frame: the counters     *)
(* start one short of full for this (datalayer.h:129, parallel_safety      *)
(* .cpp:7).                                                                *)
(***************************************************************************)
UnheardPackStaysOut == \A p \in PackIds : joinAllowed[p] => p \in heard

(***************************************************************************)
(* A pack that has been out of step for more than ten checks in a row may  *)
(* not join (parallel_safety.cpp:29-37).  A check is a second in which     *)
(* both voltages are known; the others leave the permission as it is.      *)
(***************************************************************************)
DriftDisengages == \A p \in PackIds : outOfStep[p] > MaxDrift => ~joinAllowed[p]

(***************************************************************************)
(* "If main battery is in fault state, disengage the second battery"       *)
(* (parallel_safety.cpp:22): at once if the pack is in step, else when the *)
(* drift has lasted long enough.  A FAULT of that many checks is enough in *)
(* any case.                                                               *)
(***************************************************************************)
FaultDisengages == \A p \in PackIds : faultFor[p] > MaxDrift => ~joinAllowed[p]

(***************************************************************************)
(* A secondary pack may join only once it has been heard, and neither      *)
(* while it drifts nor in a lasting FAULT (parallel_safety.cpp).           *)
(***************************************************************************)
PacksAreGuarded == UnheardPackStaysOut /\ DriftDisengages /\ FaultDisengages

-----------------------------------------------------------------------------
(***************************************************************************)
(* The PWM drives the precharge only in PRECHARGING and with the inverter  *)
(* off the bus (precharge_control.cpp:76-84).                              *)
(***************************************************************************)
PwmOnlyOnOpenBus == pwm => prechargeStatus = "PRECHARGING" /\ ~inverterConnected

(***************************************************************************)
(* No precharge lasts longer than its time, whatever the BMS, the inverter *)
(* and the operator do meanwhile (precharge_control.cpp:116).              *)
(***************************************************************************)
PrechargeIsBounded == pwmTime < MaxPrecharge

(***************************************************************************)
(* A stop or a FAULT ends a precharge in the next call.  It does not keep  *)
(* the next one from starting: while start_precharging stays set, the PWM  *)
(* comes on again for one call in three (precharge_control.cpp:76).        *)
(***************************************************************************)
StopLeavesPulsesOnly == stopped => pwmTime = 0

(***************************************************************************)
(* What protects the precharge hardware: an open bus, a bounded time, and  *)
(* single pulses at most in a stop (precharge_control.cpp:76-128).         *)
(***************************************************************************)
PrechargeIsSafe == PwmOnlyOnOpenBus /\ PrechargeIsBounded /\ StopLeavesPulsesOnly

-----------------------------------------------------------------------------
(***************************************************************************)
(* The button never acts on a reading that has not been stable for the     *)
(* debounce delay (debounce_button.cpp:17-24).                             *)
(***************************************************************************)
NoBounceActs == [][buttonPressed' # buttonPressed => stableCalls >= DebounceDelay]_vars

(***************************************************************************)
(* A latching switch that stays engaged stops the system, also one that    *)
(* was engaged at power-up, unless a command from elsewhere lifts the stop *)
(* (comm_equipmentstopbutton.cpp:45-52).                                   *)
(***************************************************************************)
EngagedSwitchStops ==
  install.button = "LATCHING" => (<>[]engaged => <>[](equipmentStop \/ overridden))

\* Nothing forbids the charging that the pack allows.
Undisturbed ==
  /\ install.filter /\ install.battery /\ install.packs = {} /\ ~install.taper
  /\ ~pauseRequest /\ errors = {} /\ status = "ACTIVE" /\ ~reading[1].fault
  /\ ~recoveryMode /\ ~voltageLimits /\ alive[1] > 0
  /\ ~ChargeForbidden(reading[1], FALSE)

AllowedCharge == Lower(reading[1].charge, AsPower(UserCharge, reading[1].voltage))
BackAgain == AllowedCharge - sent.charge <= 99 \div NewShare

(***************************************************************************)
(* After a disturbance the filter comes back to what the pack and the user *)
(* allow, up to the rest that its integer division never makes up: at      *)
(* 10 % it stays up to 9 W below.                                          *)
(***************************************************************************)
LimitComesBack == <>[]Undisturbed => []<>BackAgain

=============================================================================
