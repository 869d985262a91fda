--------------------------- MODULE ContactorLadder ---------------------------
(***************************************************************************)
(* The contactor state machine of comm_contactorcontrol.cpp: the ladder    *)
(* that closes the negative, precharge and positive relays in turn, the    *)
(* fault latch that opens them for good, and the contactors of the second  *)
(* and third pack, which follow the main ones.                             *)
(*                                                                         *)
(* The module holds the state the file owns.  What handle_contactors()     *)
(* reads from the shared datalayer is a parameter of LadderTick, so that   *)
(* the module can run against a free environment (Contactors) or against   *)
(* the components that really write those fields (Supervisor).             *)
(*                                                                         *)
(* Time.  A millis() timestamp t is represented by its age, now - t, which *)
(* is all the code ever looks at; an age stops growing one unit above the  *)
(* largest threshold it is compared with, where no test can tell its       *)
(* values apart any more.                                                  *)
(***************************************************************************)
EXTENDS Integers, FiniteSets

CONSTANTS
  MaxFaultTicks,     (* MAX_ALLOWED_FAULT_TICKS, in calls of the handler   *)
  NegativeTime,      (* NEGATIVE_CONTACTOR_TIME_MS                         *)
  PrechargeTime,     (* the configured precharge_time_ms                   *)
  PrechargeOffTime,  (* PRECHARGE_COMPLETED_TIME_MS                        *)
  EstopTimeout,      (* ESTOP_OPEN_TIMEOUT_MS                              *)
  BootInhibit,       (* INTERVAL_10_S, the wait after power-up             *)
  Delays,            (* possible times between two calls of the handler    *)
  Packs,             (* the secondary packs whose contactors we drive      *)
  MillisWraps        (* whether millis() may wrap around in a behaviour    *)

ASSUME ThresholdAssumption ==
  {MaxFaultTicks, NegativeTime, PrechargeTime, PrechargeOffTime,
   EstopTimeout, BootInhibit} \subseteq Nat

ASSUME DelaysAssumption == Delays \subseteq Nat \ {0}

ASSUME MillisWrapsAssumption == MillisWraps \in BOOLEAN

VARIABLES
  contactorStatus,          (* enum State                                  *)
  pin,                      (* duty of the three relays of the main pack   *)
  packPin,                  (* contactor pin of every secondary pack       *)
  contactorsEngaged,        (* datalayer contactors_engaged                *)
  dcBusLive,                (* datalayer dc_bus_live                       *)
  timeSpentInFaultedMode,   (* consecutive calls that saw FAULT            *)
  sinceStep,                (* age of the timestamp the ladder state reads *)
  estopOpenWait,            (* age of estop_open_wait_start_ms             *)
  uptime                    (* millis() up to BootInhibit                  *)

ladderVars ==
  <<contactorStatus, pin, packPin, contactorsEngaged, dcBusLive,
    timeSpentInFaultedMode, sinceStep, estopOpenWait, uptime>>

-----------------------------------------------------------------------------
State == {"DISCONNECTED", "START_PRECHARGE", "PRECHARGE", "POSITIVE",
          "PRECHARGE_OFF", "COMPLETED", "SHUTDOWN_REQUESTED"}

Relay == {"NEG", "PRE", "POS"}
Duty == {"OFF", "ON", "HOLD"}

AllOff == [r \in Relay |-> "OFF"]
Holding == [r \in Relay |-> IF r = "PRE" THEN "OFF" ELSE "HOLD"]

\* estop_open_wait_start_ms uses 0 to say that nobody is waiting.
NoWait == -1

Capped(t, cap) == IF t > cap THEN cap ELSE t

\* The largest duration a ladder state waits for.
StepCap == NegativeTime + PrechargeTime + PrechargeOffTime

(***************************************************************************)
(* The values millis() can have d units later, as far as the 10 s gate     *)
(* sees them: after 2^32 ms the clock starts again from 0.                 *)
(***************************************************************************)
UptimeAfter(d) ==
  {Capped(uptime + d, BootInhibit)} \cup (IF MillisWraps THEN {0} ELSE {})

LadderInit ==
  /\ contactorStatus = "DISCONNECTED"
  /\ pin = AllOff
  /\ packPin = [p \in Packs |-> FALSE]
  /\ contactorsEngaged = 0
  /\ dcBusLive = TRUE
  /\ timeSpentInFaultedMode = 0
  /\ sinceStep = 0
  /\ estopOpenWait = NoWait
  /\ uptime = 0

-----------------------------------------------------------------------------
(* Each of the following is one way through the call, after the fault      *)
(* counter has been updated; d is the time since the previous call.        *)

\* The wait of an equipment stop, when this call neither starts nor ends it.
WaitGoesOn(d) ==
  estopOpenWait' = IF estopOpenWait = NoWait
                     THEN NoWait
                     ELSE Capped(estopOpenWait + d, EstopTimeout + 1)

StepGoesOn(d) == sinceStep' = Capped(sinceStep + d, StepCap)

\* Seeded fault: the latch opens the contactors and forgets the precharge relay.
ShutDown_PrechargeForgotten(d) ==
  /\ \/ timeSpentInFaultedMode' > MaxFaultTicks
     \/ contactorStatus = "SHUTDOWN_REQUESTED"
  /\ contactorStatus' = "SHUTDOWN_REQUESTED"
  /\ pin' = [pin EXCEPT !["NEG"] = "OFF", !["POS"] = "OFF"]
  /\ contactorsEngaged' = 2
  /\ StepGoesOn(d)
  /\ WaitGoesOn(d)

\* Seeded fault: the latch does not update contactors_engaged.
ShutDown_NoReport(d) ==
  /\ \/ timeSpentInFaultedMode' > MaxFaultTicks
     \/ contactorStatus = "SHUTDOWN_REQUESTED"
  /\ contactorStatus' = "SHUTDOWN_REQUESTED"
  /\ pin' = AllOff
  /\ StepGoesOn(d)
  /\ WaitGoesOn(d)
  /\ UNCHANGED contactorsEngaged

\* A fault that lasted too long, or one that did so earlier: latched open.
ShutDown(d) ==
  /\ \/ timeSpentInFaultedMode' > MaxFaultTicks
     \/ contactorStatus = "SHUTDOWN_REQUESTED"
  /\ contactorStatus' = "SHUTDOWN_REQUESTED"
  /\ pin' = AllOff
  /\ contactorsEngaged' = 2
  /\ StepGoesOn(d)
  /\ WaitGoesOn(d)

Running ==
  /\ timeSpentInFaultedMode' <= MaxFaultTicks
  /\ contactorStatus # "SHUTDOWN_REQUESTED"

\* Seeded fault: nothing closes while the wait of a stop runs, also a left over one.
MayClose_NoWait(detected) == uptime' >= BootInhibit /\ detected /\ estopOpenWait = NoWait

\* Ten seconds after power-up, and the battery has been heard.
MayClose(detected) == uptime' >= BootInhibit /\ detected

\* DISCONNECTED without permission: the relays are switched off again.
StayDisconnected(d, allows, stop) ==
  /\ Running
  /\ contactorStatus = "DISCONNECTED"
  /\ stop \/ ~allows
  /\ pin' = AllOff
  /\ contactorsEngaged' = 0
  /\ StepGoesOn(d)
  /\ WaitGoesOn(d)
  /\ UNCHANGED contactorStatus

(***************************************************************************)
(* Permission moves DISCONNECTED to START_PRECHARGE, where the ladder      *)
(* rests while the boot gate is shut.                                      *)
(***************************************************************************)
Arm(d, allows, stop, detected) ==
  /\ Running
  /\ ~MayClose(detected)
  /\ \/ /\ contactorStatus = "DISCONNECTED"
        /\ allows /\ ~stop
        /\ pin' = AllOff
        /\ contactorsEngaged' = 0
     \/ /\ contactorStatus = "START_PRECHARGE"
        /\ UNCHANGED <<pin, contactorsEngaged>>
  /\ contactorStatus' = "START_PRECHARGE"
  /\ StepGoesOn(d)
  /\ WaitGoesOn(d)

(***************************************************************************)
(* The negative contactor closes.  A DISCONNECTED ladder with permission   *)
(* falls through to this step in the same call; one that already rests in  *)
(* START_PRECHARGE takes it without looking at the permissions again.      *)
(***************************************************************************)
CloseNegative(d, allows, stop, detected) ==
  /\ Running
  /\ MayClose(detected)
  /\ \/ contactorStatus = "DISCONNECTED" /\ allows /\ ~stop
     \/ contactorStatus = "START_PRECHARGE"
  /\ contactorStatus' = "PRECHARGE"
  /\ pin' = [AllOff EXCEPT !["NEG"] = "ON"]
  /\ contactorsEngaged' = 3
  /\ sinceStep' = 0
  /\ WaitGoesOn(d)

\* The next rung of the ladder: relays rs take the duties given by duty.
Rung(d, from, after, to, newPin, engaged, detected) ==
  /\ Running
  /\ contactorStatus = from
  /\ MayClose(detected)
  /\ sinceStep + d >= after
  /\ contactorStatus' = to
  /\ pin' = newPin
  /\ contactorsEngaged' = engaged
  /\ sinceStep' = 0
  /\ WaitGoesOn(d)

\* Seeded fault: negativeStartTime is not set when the precharge begins.
ClosePrecharge_NotStamped(d, detected) ==
  /\ Running
  /\ contactorStatus = "PRECHARGE"
  /\ MayClose(detected)
  /\ sinceStep + d >= NegativeTime
  /\ contactorStatus' = "POSITIVE"
  /\ pin' = [pin EXCEPT !["PRE"] = "ON"]
  /\ contactorsEngaged' = 3
  /\ StepGoesOn(d)
  /\ WaitGoesOn(d)

ClosePrecharge(d, detected) ==
  Rung(d, "PRECHARGE", NegativeTime, "POSITIVE",
       [pin EXCEPT !["PRE"] = "ON"], 3, detected)

ClosePositive(d, detected) ==
  Rung(d, "POSITIVE", PrechargeTime, "PRECHARGE_OFF",
       [pin EXCEPT !["POS"] = "ON"], 3, detected)

\* Seeded fault: the precharge relay is not switched off at the end.
OpenPrecharge_Forgotten(d, detected) ==
  Rung(d, "PRECHARGE_OFF", PrechargeOffTime, "COMPLETED",
       [pin EXCEPT !["NEG"] = "HOLD", !["POS"] = "HOLD"], 1, detected)

OpenPrecharge(d, detected) ==
  Rung(d, "PRECHARGE_OFF", PrechargeOffTime, "COMPLETED", Holding, 1, detected)

\* The ladder waits for the boot gate or for the time of its current rung.
RungWait(from) ==
  CASE from = "PRECHARGE" -> NegativeTime
    [] from = "POSITIVE" -> PrechargeTime
    [] OTHER -> PrechargeOffTime

Climbing == {"PRECHARGE", "POSITIVE", "PRECHARGE_OFF"}

AwaitRung(d, detected) ==
  /\ Running
  /\ contactorStatus \in Climbing
  /\ \/ ~MayClose(detected)
     \/ sinceStep + d < RungWait(contactorStatus)
  /\ StepGoesOn(d)
  /\ WaitGoesOn(d)
  /\ UNCHANGED <<contactorStatus, pin, contactorsEngaged>>

-----------------------------------------------------------------------------
(* COMPLETED: the relays stay as they are in this call even when the       *)
(* ladder leaves the state; the next call switches them off.               *)

\* The inverter withdraws its permission: back to DISCONNECTED at once.
InverterOpens(d, allows) ==
  /\ Running
  /\ contactorStatus = "COMPLETED"
  /\ ~allows
  /\ contactorStatus' = "DISCONNECTED"
  /\ StepGoesOn(d)
  /\ WaitGoesOn(d)
  /\ UNCHANGED <<pin, contactorsEngaged>>

\* Seeded fault: the start of the wait is recorded again in every call.
WaitNow_Restarted(d) == {0}

(***************************************************************************)
(* The ages the wait can have in this call.  It starts when no start is    *)
(* recorded; a start recorded while millis() reads 0 is no start at all.   *)
(***************************************************************************)
WaitNow(d) ==
  IF estopOpenWait # NoWait
    THEN {Capped(estopOpenWait + d, EstopTimeout + 1)}
    ELSE {0} \cup (IF uptime' = 0 THEN {NoWait} ELSE {})

\* An equipment stop waits for the pause to bring the current down ...
StopWaits(d, allows, stop, paused) ==
  /\ Running
  /\ contactorStatus = "COMPLETED"
  /\ allows /\ stop /\ ~paused
  /\ estopOpenWait' \in WaitNow(d)
  /\ estopOpenWait' <= EstopTimeout
  /\ StepGoesOn(d)
  /\ UNCHANGED <<contactorStatus, pin, contactorsEngaged>>

\* ... and opens once it has, or after EstopTimeout in any case.
StopOpens(d, allows, stop, paused) ==
  /\ Running
  /\ contactorStatus = "COMPLETED"
  /\ allows /\ stop
  /\ paused \/ \E w \in WaitNow(d) : w > EstopTimeout
  /\ contactorStatus' = "DISCONNECTED"
  /\ estopOpenWait' = NoWait
  /\ StepGoesOn(d)
  /\ UNCHANGED <<pin, contactorsEngaged>>

\* Seeded fault: the end of an equipment stop leaves the start of its wait.
StayCompleted_StaleWait(d, allows, stop) ==
  /\ Running
  /\ contactorStatus = "COMPLETED"
  /\ allows /\ ~stop
  /\ WaitGoesOn(d)
  /\ StepGoesOn(d)
  /\ UNCHANGED <<contactorStatus, pin, contactorsEngaged>>

StayCompleted(d, allows, stop) ==
  /\ Running
  /\ contactorStatus = "COMPLETED"
  /\ allows /\ ~stop
  /\ estopOpenWait' = NoWait
  /\ StepGoesOn(d)
  /\ UNCHANGED <<contactorStatus, pin, contactorsEngaged>>

-----------------------------------------------------------------------------
\* Seeded fault: only the pack's own permission opens its contactor again.
FollowMain_OwnPermission(packAllowed) ==
  packPin' = [p \in Packs |-> /\ packPin[p] \/ contactorStatus = "COMPLETED"
                              /\ packAllowed[p]]

\* handle_contactors_battery2/3: run before the main ladder in every call.
FollowMain(packAllowed) ==
  packPin' = [p \in Packs |-> contactorStatus = "COMPLETED" /\ packAllowed[p]]

\* Seeded fault: the bus is called live as soon as the positive relay closes.
ReportBus_Early == dcBusLive' = (contactorStatus \in {"PRECHARGE_OFF", "COMPLETED"})

\* dc_bus_live, from the state in which the call finds the ladder.
ReportBus == dcBusLive' = (contactorStatus = "COMPLETED")

CountFaultTicks(fault) ==
  timeSpentInFaultedMode' =
    IF fault THEN Capped(timeSpentInFaultedMode + 1, MaxFaultTicks + 1) ELSE 0

Ladder(d, allows, stop, paused, detected) ==
  \/ ShutDown(d)
  \/ StayDisconnected(d, allows, stop)
  \/ Arm(d, allows, stop, detected)
  \/ CloseNegative(d, allows, stop, detected)
  \/ ClosePrecharge(d, detected)
  \/ ClosePositive(d, detected)
  \/ OpenPrecharge(d, detected)
  \/ AwaitRung(d, detected)
  \/ InverterOpens(d, allows)
  \/ StopWaits(d, allows, stop, paused)
  \/ StopOpens(d, allows, stop, paused)
  \/ StayCompleted(d, allows, stop)

(***************************************************************************)
(* One call of handle_contactors(), d units after the previous one, with   *)
(* what it reads: is the system in FAULT, does the inverter allow closing, *)
(* is an equipment stop active, is the emulator PAUSED, has the battery    *)
(* been detected, which secondary packs may be connected.                  *)
(***************************************************************************)
LadderTick(d, fault, allows, stop, paused, detected, packAllowed) ==
  /\ uptime' \in UptimeAfter(d)
  /\ FollowMain(packAllowed)
  /\ ReportBus
  /\ CountFaultTicks(fault)
  /\ Ladder(d, allows, stop, paused, detected)

-----------------------------------------------------------------------------
(***************************************************************************)
(* The high-voltage path, read off the relays.                             *)
(***************************************************************************)
Path == IF pin["NEG"] # "OFF" /\ pin["POS"] # "OFF" THEN "direct"
        ELSE IF pin["NEG"] # "OFF" /\ pin["PRE"] # "OFF" THEN "resistor"
        ELSE "open"

HV == INSTANCE HighVoltagePath WITH
        MinSoak <- PrechargeTime,
        path    <- Path,
        soak    <- IF Path = "resistor" THEN Capped(sinceStep, PrechargeTime) ELSE 0,
        tripped <- contactorStatus = "SHUTDOWN_REQUESTED"

=============================================================================
