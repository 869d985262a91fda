-------------------------- MODULE Supervisor_proofs --------------------------
(***************************************************************************)
(* Proofs about Supervisor for all thresholds, packs and sets of commands: *)
(* the types, that the event of an equipment stop ends with the stop,      *)
(* that a stop in force at power-up keeps every relay open, that what was  *)
(* proved of the ladder in a free environment holds in the system (through *)
(* the instance C of Contactors), refinement of the abstract path          *)
(* included, and that nothing puts a requested restart off.                *)
(***************************************************************************)
EXTENDS Supervisor, TLAPS

USE DEF State, Relay, Duty, AllOff, Holding, NoWait, NoRestart,
        PauseStatus, StopCommand

-----------------------------------------------------------------------------
(***************************************************************************)
(* The inductive invariant.  Neither property is inductive alone: at a     *)
(* restart the event and the stop both come from flash, so flash must      *)
(* agree with the stop; and the relays stay open only because a ladder     *)
(* that starts in DISCONNECTED under a stop can never leave that state but *)
(* for the latch.                                                          *)
(***************************************************************************)
FlashAgrees == storedStop = equipmentStop

HeldOpen ==
  stopAtBoot => /\ equipmentStop
                /\ contactorStatus \in {"DISCONNECTED", "SHUTDOWN_REQUESTED"}
                /\ pin = AllOff

IInv ==
  /\ TypeOK
  /\ FlashAgrees
  /\ StopEventEndsWithStop
  /\ HeldOpen

\* The thresholds and delays are numbers.
LEMMA ConstantTypes ==
  /\ MaxFaultTicks \in Nat
  /\ EstopTimeout \in Nat
  /\ RestartTime \in Nat
  /\ \A d \in Delays : d \in Nat
  BY ThresholdAssumption, DelaysAssumption, RestartAssumption

\* A capped age stays within its cap.
LEMMA CappedType ==
  ASSUME NEW t \in Nat, NEW cap \in Nat
  PROVE  Capped(t, cap) \in 0..cap
  BY DEF Capped

-----------------------------------------------------------------------------
(***************************************************************************)
(* One call of handle_contactors(): one step per way through it.           *)
(***************************************************************************)
LadderTypes ==
  /\ contactorStatus \in State
  /\ pin \in [Relay -> Duty]
  /\ timeSpentInFaultedMode \in 0..(MaxFaultTicks + 1)
  /\ estopOpenWait \in NoWait..(EstopTimeout + 1)

LEMMA LadderKeepsTypes ==
  ASSUME LadderTypes, NEW d \in Delays, NEW fault, NEW allows, NEW stop, NEW paused,
         NEW packAllowed, LadderTick(d, fault, allows, stop, paused, TRUE, packAllowed)
  PROVE  LadderTypes'
<1> DEFINE Good == /\ contactorStatus' \in State
                   /\ pin' \in [Relay -> Duty]
                   /\ estopOpenWait' \in NoWait..(EstopTimeout + 1)
<1>1. d \in Nat /\ EstopTimeout \in Nat /\ MaxFaultTicks \in Nat
  BY ConstantTypes
<1>2. estopOpenWait # NoWait =>
        Capped(estopOpenWait + d, EstopTimeout + 1) \in 0..(EstopTimeout + 1)
  <2>1. EstopTimeout + 1 \in Nat /\ (estopOpenWait # NoWait => estopOpenWait + d \in Nat)
    BY <1>1 DEF LadderTypes
  <2> QED
    BY <2>1, CappedType
<1>3. WaitGoesOn(d) => estopOpenWait' \in NoWait..(EstopTimeout + 1)
  BY <1>1, <1>2 DEF WaitGoesOn
<1>4. \A w \in WaitNow(d) : w \in NoWait..(EstopTimeout + 1)
  BY <1>1, <1>2 DEF WaitNow
<1>5. NoWait \in NoWait..(EstopTimeout + 1)
  BY <1>1
<1>6. timeSpentInFaultedMode' \in 0..(MaxFaultTicks + 1)
  <2>1. Capped(timeSpentInFaultedMode + 1, MaxFaultTicks + 1) \in 0..(MaxFaultTicks + 1)
    BY <1>1, CappedType DEF LadderTypes
  <2> QED
    BY <1>1, <2>1 DEF LadderTick, CountFaultTicks
<1>a. ASSUME ShutDown(d) PROVE Good
  BY <1>a, <1>3 DEF ShutDown
<1>b. ASSUME StayDisconnected(d, allows, stop) PROVE Good
  BY <1>b, <1>3 DEF StayDisconnected, LadderTypes
<1>c. ASSUME Arm(d, allows, stop, TRUE) PROVE Good
  BY <1>c, <1>3 DEF Arm, LadderTypes
<1>d. ASSUME CloseNegative(d, allows, stop, TRUE) PROVE Good
  BY <1>d, <1>3 DEF CloseNegative
<1>e. ASSUME ClosePrecharge(d, TRUE) PROVE Good
  BY <1>e, <1>3 DEF ClosePrecharge, Rung, LadderTypes
<1>f. ASSUME ClosePositive(d, TRUE) PROVE Good
  BY <1>f, <1>3 DEF ClosePositive, Rung, LadderTypes
<1>g. ASSUME OpenPrecharge(d, TRUE) PROVE Good
  BY <1>g, <1>3 DEF OpenPrecharge, Rung
<1>h. ASSUME AwaitRung(d, TRUE) PROVE Good
  BY <1>h, <1>3 DEF AwaitRung, LadderTypes
<1>i. ASSUME InverterOpens(d, allows) PROVE Good
  BY <1>i, <1>3 DEF InverterOpens, LadderTypes
<1>j. ASSUME StopWaits(d, allows, stop, paused) PROVE Good
  BY <1>j, <1>4 DEF StopWaits, LadderTypes
<1>k. ASSUME StopOpens(d, allows, stop, paused) PROVE Good
  BY <1>k, <1>5 DEF StopOpens, LadderTypes
<1>l. ASSUME StayCompleted(d, allows, stop) PROVE Good
  BY <1>l, <1>5 DEF StayCompleted, LadderTypes
<1>7. Good
  BY <1>a, <1>b, <1>c, <1>d, <1>e, <1>f, <1>g, <1>h, <1>i, <1>j, <1>k, <1>l
  DEF LadderTick, Ladder
<1> QED
  BY <1>6, <1>7 DEF LadderTypes

(***************************************************************************)
(* Under an equipment stop a ladder at rest with its relays open stays     *)
(* that way: only StayDisconnected and ShutDown are possible.              *)
(***************************************************************************)
LEMMA StopKeepsOpen ==
  ASSUME NEW d \in Delays, NEW fault, NEW allows, NEW paused, NEW packAllowed,
         LadderTick(d, fault, allows, TRUE, paused, TRUE, packAllowed),
         contactorStatus \in {"DISCONNECTED", "SHUTDOWN_REQUESTED"}, pin = AllOff
  PROVE  contactorStatus' \in {"DISCONNECTED", "SHUTDOWN_REQUESTED"} /\ pin' = AllOff
  BY DEF LadderTick, Ladder, ShutDown, Running, StayDisconnected, Arm, CloseNegative,
         ClosePrecharge, ClosePositive, OpenPrecharge, Rung, AwaitRung, Climbing,
         InverterOpens, StopWaits, StopOpens, StayCompleted


-----------------------------------------------------------------------------
\* The pause keeps its types in every call that touches it.
LEMMA PauseKeepsTypes ==
  ASSUME PauseTypeOK, NEW pause \in BOOLEAN, NEW cmd, NEW low \in BOOLEAN,
         SetBatteryPause(pause, FALSE, cmd, low) \/ UpdatePauseState(low)
  PROVE  PauseTypeOK'
<1>1. CASE SetBatteryPause(pause, FALSE, cmd, low)
  <2>1. equipmentStop' \in BOOLEAN
    BY Zenon, <1>1 DEF SetBatteryPause, StopAfter, PauseTypeOK
  <2>2. pauseRequest' \in BOOLEAN /\ pauseCan' \in BOOLEAN
    BY Zenon, <1>1 DEF SetBatteryPause
  <2>3. pauseStatus' \in PauseStatus
    BY <1>1 DEF SetBatteryPause, Settled
  <2>4. allowedToSend' \in BOOLEAN
    BY Zenon, <1>1 DEF SetBatteryPause, CanAllowed
  <2> QED
    BY <2>1, <2>2, <2>3, <2>4 DEF PauseTypeOK
<1>2. CASE UpdatePauseState(low)
  <2>1. pauseStatus' \in PauseStatus
    BY <1>2 DEF UpdatePauseState, Settled, PauseTypeOK
  <2>2. allowedToSend' \in BOOLEAN
    BY Zenon, <1>2 DEF UpdatePauseState, CanAllowed
  <2> QED
    BY <1>2, <2>1, <2>2 DEF UpdatePauseState, PauseTypeOK
<1> QED
  BY <1>1, <1>2

(***************************************************************************)
(* The 10 ms phase: a stop at power-up holds the ladder where it is.       *)
(***************************************************************************)
LEMMA TickPreserves ==
  ASSUME IInv, NEW d \in Delays, TenMs(d)
  PROVE  IInv'
<1>1. LadderTypes'
  <2>1. LadderTypes
    BY DEF IInv, TypeOK, LadderTypes
  <2> QED
    BY <2>1, LadderKeepsTypes DEF TenMs
<1>2. restartAge' \in NoRestart..(RestartTime + 1)
  <2>1. d \in Nat /\ RestartTime \in Nat
    BY ConstantTypes
  <2>2. restartAge # NoRestart => Capped(restartAge + d, RestartTime + 1) \in 0..(RestartTime + 1)
    <3>1. RestartTime + 1 \in Nat /\ (restartAge # NoRestart => restartAge + d \in Nat)
      BY <2>1 DEF IInv, TypeOK
    <3> QED
      BY <3>1, CappedType
  <2> QED
    BY <2>1, <2>2 DEF TenMs, RestartAgeAfter
<1>3. TypeOK'
  BY <1>1, <1>2 DEF TenMs, IInv, TypeOK, LadderTypes, PauseTypeOK, pauseVars, observers
<1>4. HeldOpen'
  <2>1. UNCHANGED <<stopAtBoot, equipmentStop>>
    BY DEF TenMs, pauseVars, observers
  <2>2. CASE stopAtBoot
    <3>1. equipmentStop = TRUE
      BY <2>2 DEF IInv, HeldOpen, TypeOK, PauseTypeOK
    <3>2. LadderTick(d, Faulted, inverterAllows, TRUE, pauseStatus = "PAUSED", TRUE, packPin)
      BY <3>1 DEF TenMs
    <3>3. contactorStatus \in {"DISCONNECTED", "SHUTDOWN_REQUESTED"} /\ pin = AllOff
      BY <2>2 DEF IInv, HeldOpen
    <3>4. contactorStatus' \in {"DISCONNECTED", "SHUTDOWN_REQUESTED"} /\ pin' = AllOff
      BY <3>2, <3>3, StopKeepsOpen
    <3> QED
      BY <2>1, <3>1, <3>4 DEF HeldOpen
  <2>3. CASE ~stopAtBoot
    BY <2>1, <2>3 DEF HeldOpen
  <2> QED
    BY <2>2, <2>3
<1>5. FlashAgrees' /\ StopEventEndsWithStop'
  BY DEF TenMs, IInv, FlashAgrees, StopEventEndsWithStop, pauseVars
<1> QED
  BY <1>3, <1>4, <1>5 DEF IInv

\* Steps that leave the ladder and the equipment stop alone disturb nothing.
LEMMA StopLeftAlone ==
  ASSUME IInv, TypeOK', UNCHANGED <<ladderVars, equipmentStop, storedStop, stopAtBoot>>,
         stopEvent' => stopEvent
  PROVE  IInv'
  BY DEF IInv, FlashAgrees, StopEventEndsWithStop, HeldOpen, ladderVars

LEMMA SecondPreserves ==
  ASSUME IInv, Second
  PROVE  IInv'
<1>1. PauseTypeOK'
  BY PauseKeepsTypes DEF Second, IInv, TypeOK
<1>2. errorSeen' \in BOOLEAN /\ otherError' \in BOOLEAN
  BY Zenon DEF Second
<1>3. TypeOK'
  BY <1>1, <1>2 DEF Second, IInv, TypeOK, ladderVars
<1>4. UNCHANGED equipmentStop
  BY DEF Second, UpdatePauseState
<1> QED
  BY <1>3, <1>4, StopLeftAlone DEF Second

(***************************************************************************)
(* A restart, at whatever moment: the stop and its event both come from    *)
(* flash, which agrees with the stop that was in force.                    *)
(***************************************************************************)
LEMMA BootPreserves ==
  ASSUME IInv, Boot
  PROVE  IInv'
<1>1. TypeOK'
  <2>1. storedStop \in BOOLEAN /\ equipmentStop \in BOOLEAN
    BY DEF IInv, TypeOK, PauseTypeOK
  <2>2. LadderTypes'
    BY ConstantTypes DEF Boot, LadderBoot, LadderTypes
  <2>3. PauseTypeOK'
    BY <2>1 DEF Boot, PauseBoot, PauseTypeOK
  <2>4. restartAge' \in NoRestart..(RestartTime + 1)
    BY ConstantTypes DEF Boot
  <2> QED
    BY <2>1, <2>2, <2>3, <2>4 DEF Boot, LadderTypes, TypeOK
<1>2. equipmentStop' = storedStop /\ storedStop' = storedStop /\ stopEvent' = storedStop
  BY DEF Boot, PauseBoot
<1>3. stopAtBoot' = storedStop
  BY DEF Boot, IInv, FlashAgrees
<1>4. contactorStatus' = "DISCONNECTED" /\ pin' = AllOff
  BY DEF Boot, LadderBoot
<1> QED
  BY <1>1, <1>2, <1>3, <1>4 DEF IInv, FlashAgrees, StopEventEndsWithStop, HeldOpen

LEMMA CommandPreserves ==
  ASSUME IInv, NEW c \in Commands, Command(c)
  PROVE  IInv'
<1>1. (c \in {"PAUSE", "STOP"}) \in BOOLEAN /\ lowCurrent \in BOOLEAN /\ PauseTypeOK
  BY DEF IInv, TypeOK
<1>2. PauseTypeOK'
  BY <1>1, PauseKeepsTypes DEF Command
<1>3. equipmentStop \in BOOLEAN /\ equipmentStop' \in BOOLEAN
  BY <1>1, <1>2 DEF PauseTypeOK
<1>4. stopEvent' \in BOOLEAN /\ (stopEvent' => equipmentStop')
  BY <1>3 DEF IInv, TypeOK, StopEventEndsWithStop, Command, ReportStop
<1>5. stopAtBoot' \in BOOLEAN
  BY Zenon DEF Command
<1>6. TypeOK'
  BY <1>2, <1>3, <1>4, <1>5 DEF IInv, TypeOK, Command, StoreStop, ladderVars
<1>7. stopAtBoot' => stopAtBoot /\ equipmentStop'
  <2>1. stopAtBoot' => stopAtBoot /\ c # "RESUME"
    BY DEF Command
  <2>2. equipmentStop' = StopAfter(IF c \in StopCommand THEN c ELSE "UNCHANGED")
    BY DEF Command, SetBatteryPause
  <2>3. c # "RESUME" /\ equipmentStop => equipmentStop'
    BY <2>2, <1>3, CommandsAssumption DEF StopAfter
  <2> QED
    BY <2>1, <2>3 DEF IInv, HeldOpen
<1>8. HeldOpen'
  BY <1>7 DEF IInv, HeldOpen, Command, ladderVars
<1> QED
  BY <1>4, <1>6, <1>8 DEF IInv, FlashAgrees, StopEventEndsWithStop, Command, StoreStop

LEMMA RequestRestartPreserves ==
  ASSUME IInv, RequestRestart
  PROVE  IInv'
<1>1. PauseTypeOK'
  BY PauseKeepsTypes DEF RequestRestart, IInv, TypeOK
<1>2. UNCHANGED equipmentStop
  BY DEF RequestRestart, SetBatteryPause, StopAfter
<1>3. restartAge' \in NoRestart..(RestartTime + 1)
  BY ConstantTypes DEF RequestRestart
<1>4. TypeOK'
  BY <1>1, <1>3 DEF RequestRestart, IInv, TypeOK, ladderVars, observers
<1> QED
  BY <1>2, <1>4, StopLeftAlone DEF RequestRestart, observers

\* Clearing the log, the inverter's answer and a frame of the battery.
LEMMA EnvironmentPreserves ==
  ASSUME IInv, ClearEvents \/ ChangePermission \/ BatteryFrame
  PROVE  IInv'
<1>1. TypeOK'
  <2>1. stopEvent' \in BOOLEAN /\ otherError' \in BOOLEAN
    BY DEF ClearEvents, ChangePermission, BatteryFrame, IInv, TypeOK
  <2>2. inverterAllows' \in BOOLEAN
    BY Zenon DEF ClearEvents, ChangePermission, BatteryFrame, IInv, TypeOK
  <2>3. lowCurrent' \in BOOLEAN
    BY DEF ClearEvents, ChangePermission, BatteryFrame, IInv, TypeOK
  <2>4. UNCHANGED <<ladderVars, pauseVars, storedStop, restartAge, observers>>
    BY DEF ClearEvents, ChangePermission, BatteryFrame
  <2> QED
    BY <2>1, <2>2, <2>3, <2>4
    DEF IInv, TypeOK, PauseTypeOK, ladderVars, pauseVars, observers
<1>2. UNCHANGED <<ladderVars, equipmentStop, storedStop, stopAtBoot>>
  BY DEF ClearEvents, ChangePermission, BatteryFrame, pauseVars, observers
<1>3. stopEvent' => stopEvent
  BY Zenon DEF ClearEvents, ChangePermission, BatteryFrame
<1> QED
  BY <1>1, <1>2, <1>3, StopLeftAlone

-----------------------------------------------------------------------------
\* The invariant holds at power-up and is preserved by every step.
LEMMA Invariance == Spec => []IInv
<1>1. Init => IInv
  <2>1. ASSUME Init PROVE LadderTypes /\ restartAge \in NoRestart..(RestartTime + 1)
    BY <2>1, ConstantTypes DEF Init, LadderInit, LadderTypes
  <2>2. ASSUME Init PROVE PauseTypeOK
    BY <2>2 DEF Init, PauseInit, PauseTypeOK
  <2>3. ASSUME Init PROVE TypeOK
    BY <2>1, <2>2, <2>3 DEF Init, TypeOK, LadderTypes
  <2> QED
    BY <2>3 DEF Init, PauseInit, IInv, FlashAgrees, StopEventEndsWithStop, HeldOpen
<1>2. IInv /\ [Next]_vars => IInv'
  <2> SUFFICES ASSUME IInv, [Next]_vars PROVE IInv'
    OBVIOUS
  <2>1. CASE Tick
    BY <2>1, TickPreserves DEF Tick
  <2>2. CASE Second
    BY <2>2, SecondPreserves
  <2>3. CASE GracefulRestart \/ PowerLoss
    BY <2>3, BootPreserves DEF GracefulRestart, PowerLoss
  <2>4. CASE \E c \in Commands : Command(c)
    BY <2>4, CommandPreserves
  <2>5. CASE RequestRestart
    BY <2>5, RequestRestartPreserves
  <2>6. CASE ClearEvents \/ ChangePermission \/ BatteryFrame
    BY <2>6, EnvironmentPreserves
  <2>7. CASE UNCHANGED vars
    <3>1. TypeOK'
      BY <2>7 DEF vars, ladderVars, pauseVars, observers, IInv, TypeOK, PauseTypeOK
    <3> QED
      BY <2>7, <3>1, StopLeftAlone DEF vars, pauseVars, observers
  <2> QED
    BY <2>1, <2>2, <2>3, <2>4, <2>5, <2>6, <2>7 DEF Next
<1> QED
  BY <1>1, <1>2, PTL DEF Spec

(***************************************************************************)
(* Every variable of the composed system keeps its type.                   *)
(***************************************************************************)
THEOREM TypeCorrect == Spec => []TypeOK
<1>1. IInv => TypeOK
  BY DEF IInv
<1> QED
  BY <1>1, Invariance, PTL

(***************************************************************************)
(* Commands, cleared event logs, restarts and power losses in any order    *)
(* never leave the event of an equipment stop behind the stop.             *)
(***************************************************************************)
THEOREM EventEndsWithStop == Spec => []StopEventEndsWithStop
<1>1. IInv => StopEventEndsWithStop
  BY DEF IInv
<1> QED
  BY <1>1, Invariance, PTL

(***************************************************************************)
(* A stop in force when the program starts keeps every relay open until    *)
(* the operator resumes.                                                   *)
(***************************************************************************)
THEOREM StopIsKept == Spec => []StopSurvivesRestart
<1>1. IInv => StopSurvivesRestart
  BY DEF IInv, HeldOpen, StopSurvivesRestart
<1> QED
  BY <1>1, Invariance, PTL

-----------------------------------------------------------------------------
(***************************************************************************)
(* The ladder in the composed system.  What Contactors_proofs shows of it  *)
(* in a free environment carries over: Supervisor's 10 ms phase is the     *)
(* same call, on inputs that its other components write.  Restarts are     *)
(* new, and so is that several inputs change in one step.  The observers   *)
(* of ContactorTiming play no part.                                        *)
(***************************************************************************)
C == INSTANCE Contactors_proofs WITH
       InverterControls <- TRUE,
       systemFault      <- Faulted,
       paused           <- pauseStatus = "PAUSED",
       batteryDetected  <- TRUE,
       packAllowed      <- packPin,
       resistorTime     <- 0,
       stopAge          <- 0,
       staleWait        <- FALSE

\* No secondary pack is ever connected here: the model leaves them out.
NoPacks == packPin = [p \in Packs |-> FALSE]

SystemInv == C!IInv /\ NoPacks

\* A call of the 10 ms phase is a call of Contactors.
LEMMA TickIsHandler ==
  ASSUME NoPacks, NEW d \in Delays, TenMs(d)
  PROVE  C!HandleContactors(d) /\ NoPacks'
<1>1. NoPacks'
  BY DEF NoPacks, TenMs, LadderTick, FollowMain
<1>2. UNCHANGED <<inverterAllows, Faulted, equipmentStop, pauseStatus, packPin>>
  BY <1>1 DEF TenMs, Faulted, pauseVars, NoPacks
<1>3. UNCHANGED C!inputVars
  BY <1>2 DEF C!inputVars
<1>4. C!LadderTick(d, Faulted, inverterAllows, equipmentStop, pauseStatus = "PAUSED",
                   TRUE, packPin)
  <2>1. LadderTick(d, Faulted, inverterAllows, equipmentStop, pauseStatus = "PAUSED",
                   TRUE, packPin)
    BY DEF TenMs
  <2> QED
    BY <2>1, Zenon
    DEF LadderTick, UptimeAfter, FollowMain, ReportBus, CountFaultTicks, Ladder, Capped,
        ShutDown, Running, StayDisconnected, Arm, MayClose, CloseNegative,
        ClosePrecharge, ClosePositive, OpenPrecharge, Rung, RungWait, Climbing, AwaitRung,
        InverterOpens, WaitNow, StopWaits, StopOpens, StayCompleted, WaitGoesOn,
        StepGoesOn, StepCap, NoWait, AllOff, Holding, Relay,
        C!LadderTick, C!UptimeAfter, C!FollowMain, C!ReportBus, C!CountFaultTicks,
        C!Ladder, C!Capped, C!ShutDown, C!Running, C!StayDisconnected, C!Arm, C!MayClose,
        C!CloseNegative, C!ClosePrecharge, C!ClosePositive, C!OpenPrecharge, C!Rung,
        C!RungWait, C!Climbing, C!AwaitRung, C!InverterOpens, C!WaitNow, C!StopWaits,
        C!StopOpens, C!StayCompleted, C!WaitGoesOn, C!StepGoesOn, C!StepCap, C!NoWait,
        C!AllOff, C!Holding, C!Relay
<1> QED
  BY <1>1, <1>3, <1>4, Zenon DEF C!HandleContactors

\* The abstract path is the same, seen from either module.
LEMMA SamePath ==
  /\ C!HV!PathNext <=> HV!PathNext
  /\ C!HV!pathVars = HV!pathVars /\ C!HV!pathVars' = HV!pathVars'
  BY Zenon
  DEF HV!PathNext, HV!BeginSoak, HV!Soak, HV!Connect, HV!Disconnect, HV!Trip,
      HV!Soaked, HV!pathVars, Path, Capped,
      C!HV!PathNext, C!HV!BeginSoak, C!HV!Soak, C!HV!Connect, C!HV!Disconnect,
      C!HV!Trip, C!HV!Soaked, C!HV!pathVars, C!Path, C!Capped

\* The inputs may change in any way, as long as they keep their types.
LEMMA InputsChange ==
  ASSUME SystemInv, TypeOK', UNCHANGED ladderVars
  PROVE  SystemInv' /\ UNCHANGED HV!pathVars
<1>1. UNCHANGED <<contactorStatus, pin, packPin, contactorsEngaged, dcBusLive,
                  timeSpentInFaultedMode, sinceStep, estopOpenWait, uptime>>
  BY DEF ladderVars
<1>2. NoPacks'
  BY <1>1 DEF SystemInv, NoPacks
<1>3. C!TypeOK'
  <2>1. /\ Faulted' \in BOOLEAN /\ inverterAllows' \in BOOLEAN
        /\ equipmentStop' \in BOOLEAN /\ (pauseStatus = "PAUSED")' \in BOOLEAN
        /\ TRUE \in BOOLEAN
    BY Zenon DEF TypeOK, PauseTypeOK, Faulted
  <2>2. packPin' \in [Packs -> BOOLEAN]
    BY <1>2 DEF NoPacks
  <2>3. C!TypeOK
    BY DEF SystemInv, C!IInv
  <2> QED
    BY <1>1, <2>1, <2>2, <2>3 DEF C!TypeOK
<1>4. C!PinsMatchLadder' /\ C!EngagedReportIsTrue' /\ C!BusNeverLiveWhileClosing'
  BY <1>1 DEF SystemInv, C!IInv, C!PinsMatchLadder, C!EngagedReportIsTrue,
              C!BusNeverLiveWhileClosing
<1>5. UNCHANGED HV!pathVars
  BY <1>1 DEF HV!pathVars, Path
<1> QED
  BY <1>2, <1>3, <1>4, <1>5 DEF SystemInv, C!IInv

\* A restart finds the ladder as after power-up, and the path open.
LEMMA BootRestarts ==
  ASSUME TypeOK', Boot
  PROVE  SystemInv' /\ HV!PowerUp
<1>1. LadderBoot
  BY DEF Boot
<1>2. /\ pin'["NEG"] = "OFF" /\ pin' # Holding
      /\ pin' \in [Relay -> Duty]
  <2>1. pin'["NEG"] = "OFF" /\ Holding["NEG"] = "HOLD"
    BY <1>1 DEF LadderBoot
  <2> QED
    BY <1>1, <2>1 DEF LadderBoot
<1>3. NoPacks'
  BY <1>1 DEF LadderBoot, NoPacks
<1>4. C!TypeOK'
  <2>1. /\ timeSpentInFaultedMode' \in 0..(MaxFaultTicks + 1)
        /\ sinceStep' \in 0..C!StepCap
        /\ estopOpenWait' \in C!NoWait..(EstopTimeout + 1)
        /\ uptime' \in 0..BootInhibit
    BY <1>1, ThresholdAssumption DEF LadderBoot, C!StepCap, C!NoWait
  <2>2. /\ Faulted' \in BOOLEAN /\ inverterAllows' \in BOOLEAN
        /\ equipmentStop' \in BOOLEAN /\ (pauseStatus = "PAUSED")' \in BOOLEAN
        /\ TRUE \in BOOLEAN /\ dcBusLive' \in BOOLEAN
    BY Zenon, <1>1 DEF TypeOK, PauseTypeOK, Faulted, LadderBoot
  <2>3. packPin' \in [Packs -> BOOLEAN]
    BY <1>3 DEF NoPacks
  <2>4. contactorStatus' \in C!State /\ contactorsEngaged' \in 0..3
    BY <1>1 DEF LadderBoot, C!State
  <2>5. pin' \in [C!Relay -> C!Duty]
    BY <1>2 DEF C!Relay, C!Duty
  <2> QED
    BY <2>1, <2>2, <2>3, <2>4, <2>5 DEF C!TypeOK
<1>5. C!PinsMatchLadder' /\ C!EngagedReportIsTrue' /\ C!BusNeverLiveWhileClosing'
  BY <1>1, <1>2 DEF LadderBoot, C!PinsMatchLadder, C!EngagedReportIsTrue,
                    C!BusNeverLiveWhileClosing, C!AllOff, C!Holding, C!Relay
<1>6. HV!PowerUp
  BY <1>1, <1>2 DEF LadderBoot, HV!PowerUp, Path
<1> QED
  BY <1>3, <1>4, <1>5, <1>6 DEF SystemInv, C!IInv

\* Every step keeps the invariant, and is a step of the path or a restart.
LEMMA SystemStep ==
  ASSUME IInv, IInv', SystemInv, [Next]_vars
  PROVE  /\ SystemInv'
         /\ [HV!PathNext \/ (Boot /\ HV!PowerUp)]_(HV!pathVars)
<1>0. TypeOK'
  BY DEF IInv
<1>1. CASE Tick
  <2>1. PICK d \in Delays : TenMs(d)
    BY <1>1 DEF Tick
  <2>2. C!HandleContactors(d) /\ NoPacks'
    BY <2>1, TickIsHandler DEF SystemInv
  <2>3. C!IInv'
    BY <2>2, C!HandlerPreserves, ThresholdAssumption, DelaysAssumption,
       MillisWrapsAssumption, Zenon DEF SystemInv
  <2>4. C!HV!PathNext \/ UNCHANGED C!HV!pathVars
    BY <2>2, <2>3, C!HandlerImplements, ThresholdAssumption, DelaysAssumption,
       MillisWrapsAssumption, Zenon DEF SystemInv
  <2> QED
    BY <2>2, <2>3, <2>4, SamePath, Zenon DEF SystemInv
<1>2. CASE GracefulRestart \/ PowerLoss
  BY <1>0, <1>2, BootRestarts DEF GracefulRestart, PowerLoss
<1>3. CASE UNCHANGED ladderVars
  BY <1>0, <1>3, InputsChange
<1> QED
  BY <1>1, <1>2, <1>3
  DEF Next, Second, Command, RequestRestart, ClearEvents, ChangePermission,
      BatteryFrame, vars

LEMMA SystemInit ==
  ASSUME Init
  PROVE  SystemInv /\ HV!PathInit
<1>1. C!LadderInit
  BY Zenon DEF Init, LadderInit, C!LadderInit, C!AllOff, C!Relay, C!NoWait, AllOff,
               Relay, NoWait
<1>2. C!InputTypes
  <2>1. /\ Faulted \in BOOLEAN /\ inverterAllows \in BOOLEAN /\ equipmentStop \in BOOLEAN
        /\ (pauseStatus = "PAUSED") \in BOOLEAN /\ TRUE \in BOOLEAN
    BY Zenon DEF Init, PauseInit, Faulted
  <2>2. packPin \in [Packs -> BOOLEAN]
    BY DEF Init, LadderInit
  <2> QED
    BY <2>1, <2>2 DEF C!InputTypes
<1>3. C!IInv
  BY <1>1, <1>2, C!LadderStarts, ThresholdAssumption, DelaysAssumption,
     MillisWrapsAssumption, Zenon
<1> QED
  BY <1>3 DEF Init, LadderInit, SystemInv, NoPacks, HV!PathInit, Path

LEMMA SystemInvariance == Spec => []SystemInv
<1>1. Init => SystemInv
  BY SystemInit
<1>2. IInv /\ IInv' /\ SystemInv /\ [Next]_vars => SystemInv'
  BY SystemStep
<1> QED
  BY <1>1, <1>2, Invariance, PTL DEF Spec

(***************************************************************************)
(* The relays, the ladder and the reports agree in the composed system     *)
(* too: through commands, stops, errors, restarts and power losses.        *)
(***************************************************************************)
THEOREM RelaysAgreeInTheSystem == Spec => []C!RelaysAndReportsAgree
<1>1. SystemInv => C!RelaysAndReportsAgree
  BY DEF SystemInv, C!IInv, C!RelaysAndReportsAgree
<1> QED
  BY <1>1, SystemInvariance, PTL

(***************************************************************************)
(* The composed system implements the abstract high-voltage path from one  *)
(* power-up to the next.                                                   *)
(***************************************************************************)
THEOREM SystemRefinement == Spec => ImplementsHighVoltagePath
<1>1. Init => HV!PathInit
  BY SystemInit
<1>2. IInv /\ IInv' /\ SystemInv /\ [Next]_vars =>
        [HV!PathNext \/ (Boot /\ HV!PowerUp)]_(HV!pathVars)
  BY SystemStep
<1> QED
  BY <1>1, <1>2, Invariance, SystemInvariance, PTL DEF Spec, ImplementsHighVoltagePath

-----------------------------------------------------------------------------
(***************************************************************************)
(* Bounded response.  A requested restart is a bounded time away; the time *)
(* runs in the 10 ms phase, and the 1 s phase never passes over a restart  *)
(* that is overdue.  With the fairness of both phases RestartHappens       *)
(* follows.                                                                *)
(***************************************************************************)
\* Time until the restart takes place whatever the pause does.
TimeToRestart == RestartTime + 1 - restartAge

(***************************************************************************)
(* Until the operator asks again, nothing puts the restart off: not a      *)
(* released pause, not a stop, not a current that stays.                   *)
(***************************************************************************)
RestartComesCloser ==
  [][restartAge # NoRestart /\ restartAge' # NoRestart /\ ~RequestRestart =>
       /\ TimeToRestart' \in Nat
       /\ ~Tick => TimeToRestart' = TimeToRestart
       /\ Tick => TimeToRestart' < TimeToRestart \/ TimeToRestart' = 0
       /\ Second => TimeToRestart > 0]_vars

\* The age of the request after a call of the 10 ms phase.
LEMMA RequestAges ==
  ASSUME IInv, restartAge # NoRestart, NEW d \in Delays, TenMs(d)
  PROVE  /\ TimeToRestart' \in Nat
         /\ TimeToRestart' < TimeToRestart \/ TimeToRestart' = 0
<1>1. /\ d \in Nat /\ d > 0 /\ RestartTime \in Nat
      /\ restartAge \in Nat /\ restartAge <= RestartTime + 1
  BY ConstantTypes, DelaysAssumption DEF IInv, TypeOK
<1>2. restartAge' = Capped(restartAge + d, RestartTime + 1)
  BY DEF TenMs, RestartAgeAfter
<1>3. TimeToRestart = RestartTime + 1 - restartAge
  BY DEF TimeToRestart
<1>4. TimeToRestart' = RestartTime + 1 - restartAge'
  BY DEF TimeToRestart
<1>5. CASE restartAge + d > RestartTime + 1
  <2>1. restartAge' = RestartTime + 1
    BY <1>2, <1>5 DEF Capped
  <2> QED
    BY <1>1, <1>4, <2>1
<1>6. CASE ~(restartAge + d > RestartTime + 1)
  <2>1. restartAge' = restartAge + d
    BY <1>2, <1>6 DEF Capped
  <2>2. \A t, a \in Nat : a + d <= t + 1 =>
           t + 1 - (a + d) \in Nat /\ t + 1 - (a + d) < t + 1 - a
    BY <1>1
  <2>3. /\ RestartTime + 1 - (restartAge + d) \in Nat
        /\ RestartTime + 1 - (restartAge + d) < RestartTime + 1 - restartAge
    BY <1>1, <1>6, <2>2
  <2> QED
    BY <1>3, <1>4, <2>1, <2>3
<1> QED
  BY <1>5, <1>6

(***************************************************************************)
(* A requested restart takes place within RestartTime and the second phase *)
(* that follows, unless the operator asks for it anew.                     *)
(***************************************************************************)
THEOREM RestartsInBoundedTime == Spec => RestartComesCloser
<1> DEFINE A == restartAge # NoRestart /\ restartAge' # NoRestart /\ ~RequestRestart =>
                  /\ TimeToRestart' \in Nat
                  /\ ~Tick => TimeToRestart' = TimeToRestart
                  /\ Tick => TimeToRestart' < TimeToRestart \/ TimeToRestart' = 0
                  /\ Second => TimeToRestart > 0
<1>1. IInv /\ [Next]_vars => [A]_vars
  <2> SUFFICES ASSUME IInv, Next, restartAge # NoRestart, restartAge' # NoRestart,
                      ~RequestRestart
               PROVE  /\ TimeToRestart' \in Nat
                      /\ ~Tick => TimeToRestart' = TimeToRestart
                      /\ Tick => TimeToRestart' < TimeToRestart \/ TimeToRestart' = 0
                      /\ Second => TimeToRestart > 0
    OBVIOUS
  <2>1. TimeToRestart \in Nat
    BY ConstantTypes DEF IInv, TypeOK, TimeToRestart
  <2>2. ASSUME Tick
        PROVE  /\ TimeToRestart' \in Nat
               /\ TimeToRestart' < TimeToRestart \/ TimeToRestart' = 0
    BY <2>2, RequestAges DEF Tick
  <2>3. ASSUME ~Tick PROVE TimeToRestart' = TimeToRestart
    <3>1. UNCHANGED restartAge
      BY <2>3 DEF Next, Second, GracefulRestart, PowerLoss, Boot, Command, ClearEvents,
                  ChangePermission, BatteryFrame
    <3> QED
      BY <3>1 DEF TimeToRestart
  <2>4. ASSUME Second PROVE TimeToRestart > 0
    <3>1. ~(restartAge > RestartTime)
      BY <2>4 DEF Second, RestartDue
    <3> QED
      BY <3>1, ConstantTypes DEF IInv, TypeOK, TimeToRestart
  <2> QED
    BY <2>1, <2>2, <2>3, <2>4
<1> QED
  BY <1>1, Invariance, PTL DEF Spec, RestartComesCloser

=============================================================================
