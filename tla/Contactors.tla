----------------------------- MODULE Contactors ------------------------------
(***************************************************************************)
(* handle_contactors() against a free environment: between two calls the   *)
(* datalayer fields it reads may change in any way the rest of the program *)
(* can change them.  battery_detected never goes back to false, and an     *)
(* inverter that does not control the contactors leaves the permission     *)
(* true.  The answer the handler polls first of all in a call is chosen    *)
(* before the call, so that the call itself is deterministic and fairness  *)
(* of the calls asks nothing of the inverter.                              *)
(***************************************************************************)
EXTENDS ContactorLadder

CONSTANT InverterControls   (* inverter->controls_contactor()              *)

ASSUME InverterControlsAssumption == InverterControls \in BOOLEAN

VARIABLES
  systemFault,       (* datalayer system_status == FAULT                   *)
  inverterAllows,    (* the answer of inverter->allows_contactor_closing() *)
  equipmentStop,     (* datalayer equipment_stop_active                    *)
  paused,            (* emulator_pause_status == PAUSED                    *)
  batteryDetected,   (* battery_detected                                   *)
  packAllowed        (* datalayer batteryN_allowed_contactor_closing       *)

inputVars == <<inverterAllows, systemFault, equipmentStop, paused, batteryDetected,
               packAllowed>>

vars == <<ladderVars, inputVars>>

Init ==
  /\ LadderInit
  /\ systemFault = FALSE
  /\ inverterAllows = TRUE
  /\ equipmentStop \in BOOLEAN
  /\ paused = FALSE
  /\ batteryDetected = FALSE
  /\ packAllowed = [p \in Packs |-> FALSE]

HandleContactors(d) ==
  /\ LadderTick(d, systemFault, inverterAllows, equipmentStop, paused,
                batteryDetected, packAllowed)
  /\ UNCHANGED inputVars

-----------------------------------------------------------------------------
(* The other components, between two calls.                                *)

\* A new answer of the inverter, which the handler polls in every call.
ChangePermission ==
  /\ InverterControls
  /\ inverterAllows' = ~inverterAllows
  /\ UNCHANGED <<ladderVars, systemFault, equipmentStop, paused, batteryDetected,
                 packAllowed>>

ChangeFault ==
  /\ systemFault' = ~systemFault
  /\ UNCHANGED <<ladderVars, inverterAllows, equipmentStop, paused,
                 batteryDetected, packAllowed>>

ChangeStop ==
  /\ equipmentStop' = ~equipmentStop
  /\ UNCHANGED <<ladderVars, inverterAllows, systemFault, paused,
                 batteryDetected, packAllowed>>

ChangePause ==
  /\ paused' = ~paused
  /\ UNCHANGED <<ladderVars, inverterAllows, systemFault, equipmentStop,
                 batteryDetected, packAllowed>>

DetectBattery ==
  /\ ~batteryDetected
  /\ batteryDetected' = TRUE
  /\ UNCHANGED <<ladderVars, inverterAllows, systemFault, equipmentStop,
                 paused, packAllowed>>

AllowPack(p) ==
  /\ packAllowed' = [packAllowed EXCEPT ![p] = ~@]
  /\ UNCHANGED <<ladderVars, inverterAllows, systemFault, equipmentStop,
                 paused, batteryDetected>>

Environment ==
  \/ ChangePermission
  \/ ChangeFault
  \/ ChangeStop
  \/ ChangePause
  \/ DetectBattery
  \/ \E p \in Packs : AllowPack(p)

Tick == \E d \in Delays : HandleContactors(d)

Next == Tick \/ Environment

Spec == Init /\ [][Next]_vars

\* core_loop calls the handler in every 10 ms phase; time does not stop.
FairSpec == Spec /\ WF_vars(Tick)

-----------------------------------------------------------------------------
TypeOK ==
  /\ contactorStatus \in State
  /\ pin \in [Relay -> Duty]
  /\ packPin \in [Packs -> BOOLEAN]
  /\ contactorsEngaged \in 0..3
  /\ dcBusLive \in BOOLEAN
  /\ timeSpentInFaultedMode \in 0..(MaxFaultTicks + 1)
  /\ sinceStep \in 0..StepCap
  /\ estopOpenWait \in NoWait..(EstopTimeout + 1)
  /\ uptime \in 0..BootInhibit
  /\ systemFault \in BOOLEAN
  /\ inverterAllows \in BOOLEAN
  /\ equipmentStop \in BOOLEAN
  /\ paused \in BOOLEAN
  /\ batteryDetected \in BOOLEAN
  /\ packAllowed \in [Packs -> BOOLEAN]

(***************************************************************************)
(* The relays lag the ladder state by the rest of a call: DISCONNECTED     *)
(* right after COMPLETED still has both contactors closed.  In every other *)
(* state the relays are exactly those of that rung.                        *)
(***************************************************************************)
PinsMatchLadder ==
  /\ contactorStatus \in {"START_PRECHARGE", "SHUTDOWN_REQUESTED"} => pin = AllOff
  /\ contactorStatus = "PRECHARGE" => pin = [AllOff EXCEPT !["NEG"] = "ON"]
  /\ contactorStatus = "POSITIVE" =>
       pin = [r \in Relay |-> IF r = "POS" THEN "OFF" ELSE "ON"]
  /\ contactorStatus = "PRECHARGE_OFF" => pin = [r \in Relay |-> "ON"]
  /\ contactorStatus = "COMPLETED" => pin = Holding
  /\ contactorStatus = "DISCONNECTED" => pin \in {AllOff, Holding}

(***************************************************************************)
(* contactors_engaged, which the inverters, the MQTT topics and the web    *)
(* page read, tells the truth about the relays between any two calls.      *)
(***************************************************************************)
EngagedReportIsTrue ==
  /\ (contactorsEngaged = 1) <=> (pin = Holding)
  /\ (contactorsEngaged = 3) <=> (pin["NEG"] = "ON")
  /\ (contactorsEngaged = 2) <=> (contactorStatus = "SHUTDOWN_REQUESTED")

(***************************************************************************)
(* dc_bus_live is evaluated before the ladder moves, so it can be one call *)
(* old; even so it is never set while the inverter's capacitors are being  *)
(* charged through the resistor or the negative contactor alone is closed: *)
(* an inverter that trusts it never starts on a half-closed path.          *)
(***************************************************************************)
BusNeverLiveWhileClosing == dcBusLive => pin \in {AllOff, Holding}

(***************************************************************************)
(* Relays, ladder and the two reports agree, although each is updated at   *)
(* its own place in the call and some of them one call late                *)
(* (comm_contactorcontrol.cpp:196-357).                                    *)
(***************************************************************************)
RelaysAndReportsAgree ==
  /\ PinsMatchLadder
  /\ EngagedReportIsTrue
  /\ BusNeverLiveWhileClosing

(***************************************************************************)
(* A secondary pack's contactor outlives the main contactors by at most    *)
(* one call, because the handlers of the secondary packs run before the    *)
(* main ladder in each call.                                               *)
(***************************************************************************)
PackFollowsWithinOneTick ==
  [][(\E d \in Delays : HandleContactors(d)) =>
       \A p \in Packs : packPin'[p] => pin = Holding]_vars

(***************************************************************************)
(* The relays implement the abstract path: whatever the inverter, the      *)
(* equipment stop, the faults and the clock do, the pack is connected      *)
(* directly only after a full precharge, and a latched fault is final.     *)
(***************************************************************************)
ImplementsHighVoltagePath == HV!PathSpec

-----------------------------------------------------------------------------
(***************************************************************************)
(* A system that is permitted to run does run: if from some point on the   *)
(* inverter allows it, no equipment stop and no fault is active and the    *)
(* battery has been heard, the ladder reaches COMPLETED and stays there    *)
(* (unless an earlier fault latched it open).  That holds anew after every *)
(* stop and every permission taken back, also in the middle of a closing:  *)
(* no time or wait they leave behind keeps the relays open                 *)
(* (comm_contactorcontrol.cpp:221-338).                                    *)
(***************************************************************************)
CanRun == inverterAllows /\ ~equipmentStop /\ ~systemFault /\ batteryDetected

ClosesWhenPermitted ==
  <>[]CanRun => <>[](contactorStatus \in {"COMPLETED", "SHUTDOWN_REQUESTED"})

(***************************************************************************)
(* An equipment stop that lasts opens the path even if the current never   *)
(* comes down and the emulator never reports PAUSED.                       *)
(***************************************************************************)
StopEventuallyOpens ==
  (Path = "direct" /\ equipmentStop) ~> (Path # "direct" \/ ~equipmentStop)

(***************************************************************************)
(* A fault that lasts opens every relay, from any rung of the ladder.      *)
(***************************************************************************)
FaultEventuallyOpens == systemFault ~> (pin = AllOff \/ ~systemFault)

=============================================================================
