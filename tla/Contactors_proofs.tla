-------------------------- MODULE Contactors_proofs --------------------------
(***************************************************************************)
(* Proofs about Contactors and ContactorTiming for all thresholds, call    *)
(* intervals and packs: the relays always agree with the rung of the       *)
(* ladder (the inductive invariant), hence the reports derived from them   *)
(* are true, and the handler implements the abstract high-voltage path;    *)
(* the resistor is spared and a fresh stop opens in time; and the number   *)
(* of calls until a fault, a stop or a permission has had its effect is    *)
(* bounded, whatever happens between the calls.                            *)
(***************************************************************************)
EXTENDS ContactorTiming, TLAPS

(***************************************************************************)
(* The inductive invariant.  PinsMatchLadder alone is not inductive for    *)
(* the reports: that contactors_engaged is not 2 outside the latch needs   *)
(* the two together, and both need the types.                              *)
(***************************************************************************)
IInv ==
  /\ TypeOK
  /\ PinsMatchLadder
  /\ EngagedReportIsTrue
  /\ BusNeverLiveWhileClosing

USE DEF State, Relay, Duty, AllOff, Holding, NoWait

-----------------------------------------------------------------------------
\* A capped age stays within its cap.
LEMMA CappedType ==
  ASSUME NEW t \in Nat, NEW cap \in Nat
  PROVE  /\ Capped(t, cap) \in 0..cap
         /\ t >= cap => Capped(t, cap) = cap
         /\ t <= cap => Capped(t, cap) = t
  BY DEF Capped

\* The thresholds and delays are numbers, and so is the largest wait.
LEMMA ConstantTypes ==
  /\ MaxFaultTicks \in Nat
  /\ NegativeTime \in Nat
  /\ PrechargeTime \in Nat
  /\ PrechargeOffTime \in Nat
  /\ EstopTimeout \in Nat
  /\ BootInhibit \in Nat
  /\ StepCap \in Nat
  /\ PrechargeTime <= StepCap
  /\ \A d \in Delays : d \in Nat /\ d > 0
  BY ThresholdAssumption, DelaysAssumption DEF StepCap

(***************************************************************************)
(* The parts of a call that every way through it shares keep their types:  *)
(* the clock, the fault counter, the secondary packs and dc_bus_live.      *)
(***************************************************************************)
LEMMA TickTypes ==
  ASSUME TypeOK, NEW d \in Delays, HandleContactors(d)
  PROVE  /\ uptime' \in 0..BootInhibit
         /\ timeSpentInFaultedMode' \in 0..(MaxFaultTicks + 1)
         /\ packPin' \in [Packs -> BOOLEAN]
         /\ dcBusLive' \in BOOLEAN
         /\ inverterAllows' \in BOOLEAN
         /\ Capped(sinceStep + d, StepCap) \in 0..StepCap
         /\ estopOpenWait # NoWait =>
              Capped(estopOpenWait + d, EstopTimeout + 1) \in 0..(EstopTimeout + 1)
<1>1. d \in Nat /\ d > 0
  BY ConstantTypes
<1>2. uptime' \in 0..BootInhibit
  <2>1. uptime + d \in Nat
    BY <1>1, ConstantTypes DEF TypeOK
  <2>2. Capped(uptime + d, BootInhibit) \in 0..BootInhibit
    BY <2>1, CappedType, ConstantTypes
  <2>3. uptime' \in {Capped(uptime + d, BootInhibit)} \cup {0}
    BY Zenon, MillisWrapsAssumption DEF HandleContactors, LadderTick, UptimeAfter
  <2> QED
    BY <2>2, <2>3, ConstantTypes
<1>3. timeSpentInFaultedMode' \in 0..(MaxFaultTicks + 1)
  <2>1. timeSpentInFaultedMode + 1 \in Nat /\ MaxFaultTicks + 1 \in Nat
    BY ConstantTypes DEF TypeOK
  <2>2. Capped(timeSpentInFaultedMode + 1, MaxFaultTicks + 1) \in 0..(MaxFaultTicks + 1)
    BY <2>1, CappedType
  <2> QED
    BY <2>1, <2>2 DEF HandleContactors, LadderTick, CountFaultTicks
<1>4. packPin' \in [Packs -> BOOLEAN]
  BY DEF HandleContactors, LadderTick, FollowMain, TypeOK
<1>5. dcBusLive' \in BOOLEAN
  BY DEF HandleContactors, LadderTick, ReportBus
<1>6. inverterAllows' \in BOOLEAN
  BY DEF HandleContactors, inputVars, TypeOK
<1>7. Capped(sinceStep + d, StepCap) \in 0..StepCap
  BY <1>1, CappedType, ConstantTypes DEF TypeOK
<1>8. estopOpenWait # NoWait =>
        Capped(estopOpenWait + d, EstopTimeout + 1) \in 0..(EstopTimeout + 1)
  BY <1>1, CappedType, ConstantTypes DEF TypeOK
<1> QED
  BY <1>2, <1>3, <1>4, <1>5, <1>6, <1>7, <1>8

-----------------------------------------------------------------------------
(***************************************************************************)
(* A call of the handler preserves the invariant: one step per way through *)
(* the call.  WaitGoesOn and the two ages keep their types by TickTypes.   *)
(***************************************************************************)
LEMMA HandlerPreserves ==
  ASSUME IInv, NEW d \in Delays, HandleContactors(d)
  PROVE  IInv'
<1> USE DEF IInv
<1>1. d \in Nat /\ d > 0 /\ EstopTimeout \in Nat /\ StepCap \in Nat
  BY ConstantTypes
<1>2. inputVars' = inputVars
  BY DEF HandleContactors
<1>3. dcBusLive' = (contactorStatus = "COMPLETED")
  BY DEF HandleContactors, LadderTick, ReportBus
<1> DEFINE stop == equipmentStop
           allows == inverterAllows
           Good == /\ contactorStatus' \in State
                   /\ pin' \in [Relay -> Duty]
                   /\ contactorsEngaged' \in 0..3
                   /\ PinsMatchLadder'
                   /\ EngagedReportIsTrue'
                   /\ BusNeverLiveWhileClosing'
                   /\ sinceStep' \in 0..StepCap
                   /\ estopOpenWait' \in NoWait..(EstopTimeout + 1)
<1>4. StepGoesOn(d) => sinceStep' \in 0..StepCap
  BY TickTypes DEF StepGoesOn
<1>5. WaitGoesOn(d) => estopOpenWait' \in NoWait..(EstopTimeout + 1)
  BY <1>1, TickTypes DEF WaitGoesOn
<1>6. sinceStep' = 0 => sinceStep' \in 0..StepCap
  BY <1>1
<1>7. \A w \in WaitNow(d) : w \in NoWait..(EstopTimeout + 1)
  BY <1>1, TickTypes DEF WaitNow
<1> USE DEF PinsMatchLadder, EngagedReportIsTrue, BusNeverLiveWhileClosing
<1>a. ASSUME ShutDown(d) PROVE Good
  BY <1>a, <1>3, <1>4, <1>5 DEF ShutDown
<1>b. ASSUME StayDisconnected(d, allows, stop) PROVE Good
  BY <1>b, <1>3, <1>4, <1>5 DEF StayDisconnected, Running, TypeOK
<1>c. ASSUME Arm(d, allows, stop, batteryDetected) PROVE Good
  BY <1>c, <1>3, <1>4, <1>5 DEF Arm, Running, TypeOK
<1>d. ASSUME CloseNegative(d, allows, stop, batteryDetected) PROVE Good
  <2>1. /\ contactorStatus' = "PRECHARGE"
        /\ pin' = [AllOff EXCEPT !["NEG"] = "ON"]
        /\ contactorsEngaged' = 3
        /\ contactorStatus # "COMPLETED"
    BY <1>d DEF CloseNegative
  <2>2. pin' \in [Relay -> Duty] /\ pin'["NEG"] = "ON" /\ Holding["NEG"] = "HOLD"
    BY <2>1
  <2>3. sinceStep' \in 0..StepCap /\ estopOpenWait' \in NoWait..(EstopTimeout + 1)
    BY <1>d, <1>5, <1>6 DEF CloseNegative
  <2>4. ~dcBusLive'
    BY <2>1, <1>3
  <2> QED
    BY <2>1, <2>2, <2>3, <2>4
<1>e. ASSUME ClosePrecharge(d, batteryDetected) PROVE Good
  BY <1>e, <1>3, <1>5, <1>6 DEF ClosePrecharge, Rung, Running, TypeOK
<1>f. ASSUME ClosePositive(d, batteryDetected) PROVE Good
  BY <1>f, <1>3, <1>5, <1>6 DEF ClosePositive, Rung, Running, TypeOK
<1>g. ASSUME OpenPrecharge(d, batteryDetected) PROVE Good
  BY <1>g, <1>3, <1>5, <1>6 DEF OpenPrecharge, Rung, Running, TypeOK
<1>h. ASSUME AwaitRung(d, batteryDetected) PROVE Good
  BY <1>h, <1>3, <1>4, <1>5 DEF AwaitRung, Climbing, Running, TypeOK
<1>i. ASSUME InverterOpens(d, allows) PROVE Good
  BY <1>i, <1>3, <1>4, <1>5 DEF InverterOpens, Running, TypeOK
<1>j. ASSUME StopWaits(d, allows, stop, paused) PROVE Good
  BY <1>j, <1>3, <1>4, <1>7 DEF StopWaits, Running, TypeOK
<1>k. ASSUME StopOpens(d, allows, stop, paused) PROVE Good
  BY <1>k, <1>1, <1>3, <1>4 DEF StopOpens, Running, TypeOK
<1>l. ASSUME StayCompleted(d, allows, stop) PROVE Good
  BY <1>l, <1>1, <1>3, <1>4 DEF StayCompleted, Running, TypeOK
<1>8. Good
  BY <1>a, <1>b, <1>c, <1>d, <1>e, <1>f, <1>g, <1>h, <1>i, <1>j, <1>k, <1>l
     DEF HandleContactors, LadderTick, Ladder
<1>9. TypeOK'
  <2>1. UNCHANGED <<inverterAllows, systemFault, equipmentStop, paused,
                    batteryDetected, packAllowed>>
    BY <1>2 DEF inputVars
  <2>2. uptime' \in 0..BootInhibit /\ inverterAllows' \in BOOLEAN
    BY TickTypes
  <2>3. /\ timeSpentInFaultedMode' \in 0..(MaxFaultTicks + 1)
        /\ packPin' \in [Packs -> BOOLEAN]
        /\ dcBusLive' \in BOOLEAN
    BY TickTypes
  <2> QED
    BY <1>8, <2>1, <2>2, <2>3 DEF TypeOK
<1> QED
  BY <1>8, <1>9

\* The rest of the program changes only what the handler reads.
LEMMA EnvironmentPreserves ==
  ASSUME IInv, Environment
  PROVE  IInv'
<1> USE DEF IInv, ladderVars
<1>1. UNCHANGED ladderVars
  BY DEF Environment, ChangePermission, ChangeFault, ChangeStop, ChangePause,
         DetectBattery, AllowPack
<1>2. /\ inverterAllows' \in BOOLEAN
      /\ systemFault' \in BOOLEAN
      /\ equipmentStop' \in BOOLEAN
      /\ paused' \in BOOLEAN
      /\ batteryDetected' \in BOOLEAN
      /\ packAllowed' \in [Packs -> BOOLEAN]
  BY DEF Environment, ChangePermission, ChangeFault, ChangeStop, ChangePause,
         DetectBattery, AllowPack, TypeOK
<1>3. TypeOK'
  BY <1>1, <1>2 DEF TypeOK
<1>4. PinsMatchLadder' /\ EngagedReportIsTrue' /\ BusNeverLiveWhileClosing'
  BY <1>1 DEF PinsMatchLadder, EngagedReportIsTrue, BusNeverLiveWhileClosing
<1> QED
  BY <1>3, <1>4

\* What the handler reads has its types.
InputTypes ==
  /\ systemFault \in BOOLEAN
  /\ inverterAllows \in BOOLEAN
  /\ equipmentStop \in BOOLEAN
  /\ paused \in BOOLEAN
  /\ batteryDetected \in BOOLEAN
  /\ packAllowed \in [Packs -> BOOLEAN]

\* The ladder starts well, whatever it is going to read.
LEMMA LadderStarts ==
  ASSUME LadderInit, InputTypes
  PROVE  IInv
<1> USE DEF LadderInit
<1>1. pin \in [Relay -> Duty] /\ pin["NEG"] = "OFF" /\ pin # Holding
  <2>1. pin["NEG"] = "OFF" /\ Holding["NEG"] = "HOLD"
    OBVIOUS
  <2> QED
    BY <2>1
<1>2. TypeOK
  <2>1. /\ timeSpentInFaultedMode \in 0..(MaxFaultTicks + 1)
        /\ sinceStep \in 0..StepCap
        /\ estopOpenWait \in NoWait..(EstopTimeout + 1)
        /\ uptime \in 0..BootInhibit
    BY ConstantTypes
  <2>2. packPin \in [Packs -> BOOLEAN] /\ dcBusLive \in BOOLEAN
    OBVIOUS
  <2>3. contactorStatus \in State /\ contactorsEngaged \in 0..3
    OBVIOUS
  <2> QED
    BY <1>1, <2>1, <2>2, <2>3 DEF TypeOK, InputTypes
<1>3. PinsMatchLadder /\ EngagedReportIsTrue /\ BusNeverLiveWhileClosing
  BY <1>1 DEF PinsMatchLadder, EngagedReportIsTrue, BusNeverLiveWhileClosing
<1> QED
  BY <1>2, <1>3 DEF IInv

LEMMA InitEstablishes == Init => IInv
<1> SUFFICES ASSUME Init
             PROVE  IInv
  OBVIOUS
<1>1. LadderInit /\ packAllowed \in [Packs -> BOOLEAN]
  BY DEF Init
<1>2. /\ systemFault \in BOOLEAN /\ inverterAllows \in BOOLEAN
      /\ equipmentStop \in BOOLEAN /\ paused \in BOOLEAN /\ batteryDetected \in BOOLEAN
  BY Zenon DEF Init
<1> QED
  BY <1>1, <1>2, LadderStarts DEF InputTypes

LEMMA NextPreserves == IInv /\ [Next]_vars => IInv'
<1> SUFFICES ASSUME IInv, [Next]_vars
             PROVE  IInv'
  OBVIOUS
<1>1. CASE Tick
  BY <1>1, HandlerPreserves DEF Tick
<1>2. CASE Environment
  BY <1>2, EnvironmentPreserves
<1>3. CASE UNCHANGED vars
  BY <1>3 DEF vars, ladderVars, inputVars, IInv, TypeOK, PinsMatchLadder,
              EngagedReportIsTrue, BusNeverLiveWhileClosing
<1> QED
  BY <1>1, <1>2, <1>3 DEF Next

(***************************************************************************)
(* The inductive invariant holds in every reachable state.                 *)
(***************************************************************************)
THEOREM InvariantHolds == Spec => []IInv
  BY InitEstablishes, NextPreserves, PTL DEF Spec

(***************************************************************************)
(* Every variable of the handler and its inputs keeps its type.            *)
(***************************************************************************)
THEOREM TypeCorrect == Spec => []TypeOK
<1>1. IInv => TypeOK
  BY DEF IInv
<1> QED
  BY <1>1, InvariantHolds, PTL

(***************************************************************************)
(* Relays, ladder and reports of comm_contactorcontrol.cpp always agree.   *)
(***************************************************************************)
THEOREM RelaysAndReportsCorrect == Spec => []RelaysAndReportsAgree
<1>1. IInv => RelaysAndReportsAgree
  BY DEF IInv, RelaysAndReportsAgree
<1> QED
  BY <1>1, InvariantHolds, PTL

-----------------------------------------------------------------------------
(***************************************************************************)
(* In every call the contactor of a secondary pack is closed only if the   *)
(* main contactors were closed when the call began.                        *)
(***************************************************************************)
THEOREM PacksFollow == Spec => PackFollowsWithinOneTick
<1>1. IInv /\ [Next]_vars =>
        [(\E d \in Delays : HandleContactors(d)) =>
           \A p \in Packs : packPin'[p] => pin = Holding]_vars
  BY DEF IInv, PinsMatchLadder, HandleContactors, LadderTick, FollowMain
<1> QED
  BY <1>1, InvariantHolds, PTL DEF Spec, PackFollowsWithinOneTick

(***************************************************************************)
(* The path that a rung of the ladder stands for.                          *)
(***************************************************************************)
LEMMA PathOfRung ==
  ASSUME IInv
  PROVE  /\ Path \in {"open", "resistor", "direct"}
         /\ contactorStatus \in {"START_PRECHARGE", "PRECHARGE",
                                 "SHUTDOWN_REQUESTED"} => Path = "open"
         /\ contactorStatus = "POSITIVE" => Path = "resistor"
         /\ contactorStatus \in {"PRECHARGE_OFF", "COMPLETED"} => Path = "direct"
         /\ contactorStatus = "DISCONNECTED" => Path \in {"open", "direct"}
  BY DEF IInv, PinsMatchLadder, TypeOK, Path

(***************************************************************************)
(* Two ways to age a soak: capping it at each step or at the end.          *)
(***************************************************************************)
LEMMA SoakAges ==
  ASSUME NEW t \in Nat, NEW d \in Nat
  PROVE  /\ Capped(Capped(t + d, StepCap), PrechargeTime)
              = HV!Soaked(Capped(t, PrechargeTime) + d)
         /\ t + d >= PrechargeTime => Capped(t, PrechargeTime) + d >= PrechargeTime
  BY ConstantTypes DEF Capped, HV!Soaked

(***************************************************************************)
(* Every way through the handler is a step of the abstract path or leaves  *)
(* it alone.                                                               *)
(***************************************************************************)
LEMMA HandlerImplements ==
  ASSUME IInv, IInv', NEW d \in Delays, HandleContactors(d)
  PROVE  HV!PathNext \/ UNCHANGED HV!pathVars
<1> DEFINE stop == equipmentStop
           allows == inverterAllows
           soaked == IF Path = "resistor" THEN Capped(sinceStep, PrechargeTime) ELSE 0
           latched == contactorStatus = "SHUTDOWN_REQUESTED"
           Good == HV!PathNext \/ UNCHANGED <<Path, soaked, latched>>
<1>1. d \in Nat /\ sinceStep \in Nat /\ PrechargeTime \in Nat
  BY ConstantTypes DEF IInv, TypeOK
<1>2. /\ Path \in {"open", "resistor", "direct"}
      /\ contactorStatus \in {"START_PRECHARGE", "PRECHARGE",
                              "SHUTDOWN_REQUESTED"} => Path = "open"
      /\ contactorStatus = "POSITIVE" => Path = "resistor"
      /\ contactorStatus \in {"PRECHARGE_OFF", "COMPLETED"} => Path = "direct"
      /\ contactorStatus = "DISCONNECTED" => Path \in {"open", "direct"}
  BY PathOfRung
<1>3. /\ contactorStatus' \in {"START_PRECHARGE", "PRECHARGE",
                               "SHUTDOWN_REQUESTED"} => Path' = "open"
      /\ contactorStatus' = "POSITIVE" => Path' = "resistor"
      /\ contactorStatus' \in {"PRECHARGE_OFF", "COMPLETED"} => Path' = "direct"
  BY DEF IInv, PinsMatchLadder, TypeOK, Path
<1>4. pin' = AllOff => Path' = "open"
  BY DEF Path
<1>5. pin' = pin => Path' = Path
  BY DEF Path
\* The path is cut, or was not there.
<1>6. ASSUME Path' = "open", Path # "resistor", latched' = latched
      PROVE  Good
  BY <1>2, <1>6 DEF HV!PathNext, HV!Disconnect
<1>7. ASSUME Path' = Path, Path # "resistor", latched' = latched
      PROVE  Good
  BY <1>7
<1>a. ASSUME ShutDown(d) PROVE Good
  BY <1>3, <1>a DEF ShutDown, HV!PathNext, HV!Trip
<1>b. ASSUME StayDisconnected(d, allows, stop) PROVE Good
  BY <1>2, <1>4, <1>6, <1>b DEF StayDisconnected
<1>c. ASSUME Arm(d, allows, stop, batteryDetected) PROVE Good
  BY <1>2, <1>3, <1>6, <1>c DEF Arm
<1>d. ASSUME CloseNegative(d, allows, stop, batteryDetected) PROVE Good
  BY <1>2, <1>3, <1>6, <1>d DEF CloseNegative
<1>e. ASSUME ClosePrecharge(d, batteryDetected) PROVE Good
  <2>1. Path = "open" /\ Path' = "resistor" /\ sinceStep' = 0 /\ ~latched /\ ~latched'
    BY <1>2, <1>3, <1>e DEF ClosePrecharge, Rung
  <2>2. soaked' = 0
    BY <1>1, <2>1 DEF Capped
  <2> QED
    BY <2>1, <2>2 DEF HV!PathNext, HV!BeginSoak
<1>f. ASSUME ClosePositive(d, batteryDetected) PROVE Good
  <2>1. /\ Path = "resistor" /\ Path' = "direct" /\ ~latched /\ ~latched'
        /\ sinceStep + d >= PrechargeTime
    BY <1>2, <1>3, <1>f DEF ClosePositive, Rung
  <2>2. soaked' = 0 /\ soaked + d >= PrechargeTime
    BY <1>1, <2>1, SoakAges
  <2> QED
    BY <2>1, <2>2 DEF HV!PathNext, HV!Connect
<1>g. ASSUME OpenPrecharge(d, batteryDetected) PROVE Good
  BY <1>2, <1>3, <1>7, <1>g DEF OpenPrecharge, Rung
<1>h. ASSUME AwaitRung(d, batteryDetected) PROVE Good
  <2>1. /\ contactorStatus \in Climbing
        /\ contactorStatus' = contactorStatus
        /\ Path' = Path
        /\ sinceStep' = Capped(sinceStep + d, StepCap)
    BY <1>5, <1>h DEF AwaitRung, StepGoesOn
  <2>2. CASE contactorStatus = "POSITIVE"
    <3>1. Path = "resistor" /\ Path' = "resistor" /\ latched' = latched
      BY <1>2, <2>1, <2>2
    <3>2. soaked' = HV!Soaked(soaked + d)
      BY <1>1, <2>1, <3>1, SoakAges
    <3> QED
      BY <3>1, <3>2 DEF HV!PathNext, HV!Soak
  <2>3. CASE contactorStatus # "POSITIVE"
    BY <1>2, <1>7, <2>1, <2>3 DEF Climbing
  <2> QED
    BY <2>2, <2>3
<1>i. ASSUME InverterOpens(d, allows) PROVE Good
  BY <1>2, <1>5, <1>7, <1>i DEF InverterOpens
<1>j. ASSUME StopWaits(d, allows, stop, paused) PROVE Good
  BY <1>2, <1>5, <1>7, <1>j DEF StopWaits
<1>k. ASSUME StopOpens(d, allows, stop, paused) PROVE Good
  BY <1>2, <1>5, <1>7, <1>k DEF StopOpens
<1>l. ASSUME StayCompleted(d, allows, stop) PROVE Good
  BY <1>2, <1>5, <1>7, <1>l DEF StayCompleted
<1>8. Good
  BY <1>a, <1>b, <1>c, <1>d, <1>e, <1>f, <1>g, <1>h, <1>i, <1>j, <1>k, <1>l
     DEF HandleContactors, LadderTick, Ladder
<1> QED
  BY <1>8 DEF HV!pathVars

(***************************************************************************)
(* handle_contactors() implements the abstract high-voltage path: direct   *)
(* connection only after PrechargeTime through the resistor, and a latched *)
(* fault is final, for every choice of the thresholds and of the interval  *)
(* between two calls.                                                      *)
(***************************************************************************)
THEOREM Refinement == Spec => ImplementsHighVoltagePath
<1>1. Init => HV!PathInit
  BY DEF Init, LadderInit, HV!PathInit, Path
<1>2. IInv /\ IInv' /\ [Next]_vars => [HV!PathNext]_(HV!pathVars)
  <2> SUFFICES ASSUME IInv, IInv', [Next]_vars
               PROVE  HV!PathNext \/ UNCHANGED HV!pathVars
    OBVIOUS
  <2>1. CASE Tick
    BY <2>1, HandlerImplements DEF Tick
  <2>2. CASE Environment \/ UNCHANGED vars
    <3>1. UNCHANGED <<pin, sinceStep, contactorStatus>>
      BY <2>2 DEF Environment, ChangePermission, ChangeFault, ChangeStop,
                  ChangePause, DetectBattery, AllowPack, vars, ladderVars
    <3> QED
      BY <3>1 DEF HV!pathVars, Path
  <2> QED
    BY <2>1, <2>2 DEF Next
<1> QED
  BY <1>1, <1>2, InvariantHolds, PTL
     DEF Spec, ImplementsHighVoltagePath, HV!PathSpec

-----------------------------------------------------------------------------
(***************************************************************************)
(* The gate of the first ten seconds.  Without a wrap of millis() it stays *)
(* open for a ladder that has passed it, and so no rung waits for anything *)
(* but its own time.                                                       *)
(***************************************************************************)
GateIsOpen ==
  contactorStatus \in Climbing \cup {"COMPLETED"} =>
    uptime = BootInhibit /\ batteryDetected

LEMMA GateStaysOpen ==
  ASSUME TypeOK, ~MillisWraps, NEW d \in Delays, uptime' \in UptimeAfter(d),
         uptime = BootInhibit
  PROVE  uptime' = BootInhibit
  BY ConstantTypes DEF TypeOK, UptimeAfter, Capped

LEMMA GateStep ==
  ASSUME IInv, GateIsOpen, ~MillisWraps, NEW d \in Delays, HandleContactors(d)
  PROVE  /\ GateIsOpen'
         /\ contactorStatus \in Climbing \cup {"COMPLETED"} =>
              uptime' = BootInhibit /\ MayClose(batteryDetected)
<1>1. TypeOK /\ d \in Nat
  BY ConstantTypes DEF IInv
<1>2. uptime' \in UptimeAfter(d) /\ UNCHANGED batteryDetected
  BY DEF HandleContactors, LadderTick, inputVars
<1>3. uptime = BootInhibit => uptime' = BootInhibit
  BY <1>1, <1>2, GateStaysOpen
<1>4. contactorStatus \in Climbing \cup {"COMPLETED"} =>
        uptime' = BootInhibit /\ MayClose(batteryDetected)
  BY <1>3, ConstantTypes DEF GateIsOpen, MayClose
<1>5. MayClose(batteryDetected) => uptime' = BootInhibit /\ batteryDetected
  BY TickTypes, <1>1, ConstantTypes DEF MayClose
<1>6. contactorStatus' \in Climbing \cup {"COMPLETED"} =>
        contactorStatus \in Climbing \cup {"COMPLETED"} \/ MayClose(batteryDetected)
  BY DEF HandleContactors, LadderTick, Ladder, ShutDown, StayDisconnected, Arm,
         CloseNegative, ClosePrecharge, ClosePositive, OpenPrecharge, Rung, AwaitRung,
         InverterOpens, StopWaits, StopOpens, StayCompleted, Climbing
<1> QED
  BY <1>2, <1>4, <1>5, <1>6 DEF GateIsOpen

LEMMA GateInvariance == ~MillisWraps => (Spec => []GateIsOpen)
<1> SUFFICES ASSUME ~MillisWraps
             PROVE  Spec => []GateIsOpen
  OBVIOUS
<1>1. Init => GateIsOpen
  BY DEF Init, LadderInit, GateIsOpen, Climbing
<1>2. IInv /\ GateIsOpen /\ [Next]_vars => GateIsOpen'
  <2> SUFFICES ASSUME IInv, GateIsOpen, [Next]_vars
               PROVE  GateIsOpen'
    OBVIOUS
  <2>1. CASE Tick
    BY <2>1, GateStep DEF Tick
  <2>2. CASE Environment \/ UNCHANGED vars
    BY <2>2 DEF Environment, ChangePermission, ChangeFault, ChangeStop, ChangePause,
                DetectBattery, AllowPack, vars, inputVars, ladderVars, GateIsOpen
  <2> QED
    BY <2>1, <2>2 DEF Next
<1> QED
  BY <1>1, <1>2, InvariantHolds, PTL DEF Spec

\* A rung that is not left is not over, and its age is exact.
LEMMA AwaitedExactly ==
  ASSUME IInv, GateIsOpen, ~MillisWraps, NEW d \in Delays, HandleContactors(d),
         AwaitRung(d, batteryDetected)
  PROVE  /\ contactorStatus \in Climbing /\ contactorStatus' = contactorStatus
         /\ sinceStep' = sinceStep + d /\ sinceStep + d < RungWait(contactorStatus)
<1>1. contactorStatus \in Climbing /\ contactorStatus' = contactorStatus
  BY DEF AwaitRung
<1>2. sinceStep + d < RungWait(contactorStatus)
  BY <1>1, GateStep DEF AwaitRung
<1>3. sinceStep' = Capped(sinceStep + d, StepCap)
  BY DEF AwaitRung, StepGoesOn
<1>4. RungWait(contactorStatus) \in Nat /\ RungWait(contactorStatus) <= StepCap
  BY ThresholdAssumption DEF RungWait, StepCap
<1>5. sinceStep + d \in Nat
  BY ConstantTypes DEF IInv, TypeOK
<1> QED
  BY <1>1, <1>2, <1>3, <1>4, <1>5, ConstantTypes DEF Capped

-----------------------------------------------------------------------------
(***************************************************************************)
(* The observers of ContactorTiming.                                       *)
(***************************************************************************)

\* The observers do not disturb the handler: what holds of Spec holds here.
LEMMA TimedImpliesSpec == TimedSpec => Spec
<1>1. TimedInit => Init
  BY DEF TimedInit
<1>2. [TimedNext]_timedVars => [Next]_vars
  BY DEF TimedNext, TimedTick, Next, Tick, timedVars
<1> QED
  BY <1>1, <1>2, PTL DEF TimedSpec, Spec

LEMMA TimedInvariantHolds == TimedSpec => []IInv
  BY TimedImpliesSpec, InvariantHolds, PTL

\* No call comes later than the longest delay after the one before.
LEMMA LongestDelayType ==
  ASSUME LateCallsEnd
  PROVE  /\ LongestDelay \in Nat /\ LongestDelay > 0
         /\ \A d \in Delays : d <= LongestDelay
<1>1. PICK longest \in Delays : \A d \in Delays : longest >= d
  BY DEF LateCallsEnd
<1>2. LongestDelay \in Delays /\ \A d \in Delays : LongestDelay >= d
  BY <1>1, Zenon DEF LongestDelay, Max
<1> QED
  BY <1>2, ConstantTypes

LEMMA RoundedType ==
  ASSUME LateCallsEnd, NEW t \in Nat
  PROVE  /\ Rounded(t) \in Nat
         /\ \A s \in Nat, d \in Delays : (s = 0 \/ s < t) => s + d <= Rounded(t)
  BY LongestDelayType, ConstantTypes DEF Rounded

(***************************************************************************)
(* The inductive invariant of the resistor's time.  On the rungs that      *)
(* close its relay the time is that of the rung, but for the time of the   *)
(* rung before, and no rung is held longer than its wait.                  *)
(***************************************************************************)
InRung(wait) == sinceStep = 0 \/ sinceStep < wait

ResistorInv ==
  /\ GateIsOpen
  /\ resistorTime \in Nat
  /\ contactorStatus = "POSITIVE" =>
       resistorTime = sinceStep /\ InRung(PrechargeTime)
  /\ contactorStatus = "PRECHARGE_OFF" =>
       resistorTime <= Rounded(PrechargeTime) + sinceStep /\ InRung(PrechargeOffTime)
  /\ ResistorBounded

\* The relay of the resistor is closed on two rungs only.
LEMMA ResistorRungs ==
  ASSUME IInv, contactorStatus \notin {"POSITIVE", "PRECHARGE_OFF"}
  PROVE  pin["PRE"] = "OFF"
  BY DEF IInv, TypeOK, PinsMatchLadder

LEMMA RungStep ==
  ASSUME IInv, GateIsOpen, ~MillisWraps, NEW d \in Delays, HandleContactors(d)
  PROVE  /\ contactorStatus' = "POSITIVE" =>
              \/ contactorStatus = "PRECHARGE" /\ sinceStep' = 0
              \/ /\ contactorStatus = "POSITIVE"
                 /\ sinceStep' = sinceStep + d /\ sinceStep + d < PrechargeTime
         /\ contactorStatus' = "PRECHARGE_OFF" =>
              \/ contactorStatus = "POSITIVE" /\ sinceStep' = 0
              \/ /\ contactorStatus = "PRECHARGE_OFF"
                 /\ sinceStep' = sinceStep + d /\ sinceStep + d < PrechargeOffTime
<1>1. AwaitRung(d, batteryDetected) =>
        /\ contactorStatus' = contactorStatus
        /\ sinceStep' = sinceStep + d /\ sinceStep + d < RungWait(contactorStatus)
  BY AwaitedExactly
<1>2. contactorStatus' \in {"POSITIVE", "PRECHARGE_OFF"} =>
        \/ ClosePrecharge(d, batteryDetected)
        \/ ClosePositive(d, batteryDetected)
        \/ AwaitRung(d, batteryDetected)
  BY DEF HandleContactors, LadderTick, Ladder, ShutDown, StayDisconnected, Arm,
         CloseNegative, OpenPrecharge, Rung, InverterOpens, StopWaits, StopOpens,
         StayCompleted
<1> QED
  BY <1>1, <1>2 DEF ClosePrecharge, ClosePositive, Rung, RungWait

\* The time of the relay, with its cap out of the way.
LEMMA ResistorTimeStep ==
  ASSUME LateCallsEnd, IInv, ResistorInv, NEW d \in Delays,
         resistorTime' = IF pin["PRE"] = "OFF" THEN 0
                         ELSE Capped(resistorTime + d, ResistorCap)
  PROVE  /\ resistorTime' \in Nat
         /\ contactorStatus \notin {"POSITIVE", "PRECHARGE_OFF"} => resistorTime' = 0
         /\ resistorTime' <= resistorTime + d
         /\ contactorStatus = "POSITIVE" => resistorTime' = resistorTime + d
<1>1. d \in Nat /\ d <= LongestDelay /\ resistorTime \in Nat
  BY ConstantTypes, LongestDelayType DEF ResistorInv
<1>2. ResistorCap \in Nat
  BY ConstantTypes, LongestDelayType DEF ResistorCap
<1>3. Capped(resistorTime + d, ResistorCap) \in Nat
  BY <1>1, <1>2 DEF Capped
<1>4. Capped(resistorTime + d, ResistorCap) <= resistorTime + d
  BY <1>1, <1>2 DEF Capped
<1>5. ASSUME contactorStatus = "POSITIVE" PROVE resistorTime' = resistorTime + d
  <2>1. pin["PRE"] # "OFF"
    BY <1>5 DEF IInv, PinsMatchLadder
  <2>2. resistorTime + d <= Rounded(PrechargeTime)
    <3>1. resistorTime = 0 \/ resistorTime < PrechargeTime
      BY <1>5 DEF ResistorInv, InRung
    <3> QED
      BY <1>1, <3>1, RoundedType, ConstantTypes
  <2>3. Rounded(PrechargeTime) <= ResistorCap
    BY ConstantTypes, LongestDelayType DEF Rounded, ResistorCap
  <2>4. resistorTime + d <= ResistorCap
    BY <1>1, <1>2, <2>2, <2>3, RoundedType, ConstantTypes
  <2> QED
    BY <1>1, <1>2, <2>1, <2>4 DEF Capped
<1>6. contactorStatus \notin {"POSITIVE", "PRECHARGE_OFF"} => resistorTime' = 0
  BY ResistorRungs
<1>7. resistorTime' \in Nat /\ resistorTime' <= resistorTime + d
  BY <1>1, <1>3, <1>4
<1> QED
  BY <1>5, <1>6, <1>7

LEMMA ResistorStep ==
  ASSUME LateCallsEnd, IInv, ResistorInv, ~MillisWraps, TimedTick
  PROVE  ResistorInv'
<1>1. PICK d \in Delays :
        /\ HandleContactors(d)
        /\ resistorTime' = IF pin["PRE"] = "OFF" THEN 0
                           ELSE Capped(resistorTime + d, ResistorCap)
  BY DEF TimedTick
<1> DEFINE rp == Rounded(PrechargeTime)
           ro == Rounded(PrechargeOffTime)
<1>2. /\ d \in Nat /\ sinceStep \in Nat /\ resistorTime \in Nat
      /\ rp \in Nat /\ ro \in Nat
      /\ PrechargeTime \in Nat /\ PrechargeOffTime \in Nat
  BY RoundedType, ConstantTypes DEF IInv, TypeOK, ResistorInv
<1>3. /\ resistorTime' \in Nat
      /\ contactorStatus \notin {"POSITIVE", "PRECHARGE_OFF"} => resistorTime' = 0
      /\ resistorTime' <= resistorTime + d
      /\ contactorStatus = "POSITIVE" => resistorTime' = resistorTime + d
  BY <1>1, ResistorTimeStep
<1>4. /\ GateIsOpen'
      /\ contactorStatus' = "POSITIVE" =>
           \/ contactorStatus = "PRECHARGE" /\ sinceStep' = 0
           \/ /\ contactorStatus = "POSITIVE"
              /\ sinceStep' = sinceStep + d /\ sinceStep + d < PrechargeTime
      /\ contactorStatus' = "PRECHARGE_OFF" =>
           \/ contactorStatus = "POSITIVE" /\ sinceStep' = 0
           \/ /\ contactorStatus = "PRECHARGE_OFF"
              /\ sinceStep' = sinceStep + d /\ sinceStep + d < PrechargeOffTime
  BY <1>1, RungStep, GateStep DEF ResistorInv
<1>5. contactorStatus = "POSITIVE" => resistorTime + d <= rp
  <2>1. contactorStatus = "POSITIVE" => resistorTime = 0 \/ resistorTime < PrechargeTime
    BY DEF ResistorInv, InRung
  <2> QED
    BY <1>2, <2>1, RoundedType
<1>6. contactorStatus = "PRECHARGE_OFF" => sinceStep + d <= ro /\ resistorTime <= rp + sinceStep
  <2>1. contactorStatus = "PRECHARGE_OFF" => sinceStep = 0 \/ sinceStep < PrechargeOffTime
    BY DEF ResistorInv, InRung
  <2> QED
    BY <1>2, <2>1, RoundedType DEF ResistorInv
<1> HIDE DEF rp, ro
<1>7. contactorStatus' = "POSITIVE" =>
        resistorTime' = sinceStep' /\ InRung(PrechargeTime)'
  <2>1. contactorStatus = "POSITIVE" => resistorTime = sinceStep
    BY DEF ResistorInv
  <2>2. contactorStatus = "PRECHARGE" => resistorTime' = 0
    BY <1>3
  <2> QED
    BY <1>2, <1>3, <1>4, <2>1, <2>2 DEF InRung
<1>8. contactorStatus' = "PRECHARGE_OFF" =>
        resistorTime' <= rp + sinceStep' /\ InRung(PrechargeOffTime)'
  BY <1>2, <1>3, <1>4, <1>5, <1>6 DEF InRung
<1>9. resistorTime' <= rp + ro
  BY <1>2, <1>3, <1>5, <1>6
<1> QED
  BY <1>3, <1>4, <1>7, <1>8, <1>9 DEF ResistorInv, ResistorBounded, rp, ro

LEMMA ResistorEnvironment ==
  ASSUME ResistorInv, Environment, UNCHANGED resistorTime
  PROVE  ResistorInv'
<1>1. UNCHANGED ladderVars /\ (batteryDetected => batteryDetected')
  BY DEF Environment, ChangePermission, ChangeFault, ChangeStop, ChangePause,
         DetectBattery, AllowPack
<1> QED
  BY <1>1 DEF ladderVars, ResistorInv, GateIsOpen, InRung, ResistorBounded

(***************************************************************************)
(* Whatever faults, stops and answers of the inverter arrive, the relay of *)
(* the precharge resistor is closed no longer than its two waits, each     *)
(* rounded up to a call: for all times and call intervals, as long as      *)
(* millis() does not wrap around, and the time between two calls has a     *)
(* bound.                                                                  *)
(***************************************************************************)
THEOREM ResistorIsSpared == ~MillisWraps /\ LateCallsEnd => (TimedSpec => []ResistorBounded)
<1> SUFFICES ASSUME ~MillisWraps, LateCallsEnd
             PROVE  TimedSpec => []ResistorBounded
  OBVIOUS
<1>1. TimedInit => ResistorInv
  <2>1. Rounded(PrechargeTime) \in Nat /\ Rounded(PrechargeOffTime) \in Nat
    BY RoundedType, ConstantTypes
  <2> QED
    BY <2>1 DEF TimedInit, Init, LadderInit, ResistorInv, GateIsOpen, Climbing, ResistorBounded
<1>2. IInv /\ ResistorInv /\ [TimedNext]_timedVars => ResistorInv'
  <2> SUFFICES ASSUME IInv, ResistorInv, [TimedNext]_timedVars
               PROVE  ResistorInv'
    OBVIOUS
  <2>1. CASE TimedTick
    BY <2>1, ResistorStep
  <2>2. CASE Environment /\ UNCHANGED <<resistorTime, stopAge, staleWait>>
    BY <2>2, ResistorEnvironment
  <2>3. CASE UNCHANGED timedVars
    BY <2>3 DEF timedVars, vars, ladderVars, inputVars, ResistorInv, GateIsOpen, InRung,
                ResistorBounded
  <2> QED
    BY <2>1, <2>2, <2>3 DEF TimedNext
<1>3. ResistorInv => ResistorBounded
  BY DEF ResistorInv
<1> QED
  BY <1>1, <1>2, <1>3, TimedInvariantHolds, PTL DEF TimedSpec

-----------------------------------------------------------------------------
(***************************************************************************)
(* The inductive invariant of the wait under an equipment stop: a wait     *)
(* that is not stale belongs to a ladder in COMPLETED, and is no older     *)
(* than the stop itself.                                                   *)
(***************************************************************************)
WaitInv ==
  /\ stopAge \in 0..(EstopTimeout + 1)
  /\ ~staleWait /\ estopOpenWait # NoWait =>
       contactorStatus = "COMPLETED" /\ estopOpenWait <= stopAge

LEMMA StopAgeStep ==
  ASSUME stopAge \in 0..(EstopTimeout + 1), NEW d \in Delays,
         stopAge' = IF equipmentStop THEN Capped(stopAge + d, EstopTimeout + 1) ELSE 0
  PROVE  stopAge' \in 0..(EstopTimeout + 1)
<1>1. stopAge + d \in Nat /\ EstopTimeout + 1 \in Nat
  BY ConstantTypes
<1>2. Capped(stopAge + d, EstopTimeout + 1) \in 0..(EstopTimeout + 1)
  BY <1>1, CappedType
<1> QED
  BY <1>2, ConstantTypes

(***************************************************************************)
(* A call keeps the invariant, and opens for the stop only in time.        *)
(***************************************************************************)
LEMMA WaitStep ==
  ASSUME IInv, WaitInv, TimedTick
  PROVE  /\ WaitInv'
         /\ contactorStatus = "COMPLETED" /\ contactorStatus' = "DISCONNECTED"
              /\ inverterAllows' /\ ~staleWait
            => paused \/ stopAge' > EstopTimeout
<1>1. PICK d \in Delays :
        /\ HandleContactors(d)
        /\ stopAge' = IF equipmentStop THEN Capped(stopAge + d, EstopTimeout + 1) ELSE 0
        /\ staleWait' = (estopOpenWait' # NoWait
                         /\ (staleWait \/ contactorStatus' # "COMPLETED"))
  BY DEF TimedTick
<1>2. stopAge' \in 0..(EstopTimeout + 1)
  BY <1>1, StopAgeStep DEF WaitInv
<1>3. /\ d \in Nat /\ d > 0 /\ EstopTimeout \in Nat /\ stopAge \in Nat
      /\ estopOpenWait \in NoWait..(EstopTimeout + 1)
  BY ConstantTypes DEF IInv, TypeOK, WaitInv
<1> DEFINE stop == equipmentStop
           allows == inverterAllows
\* The ages of the stop and of the wait grow together.
<1>4. equipmentStop /\ estopOpenWait # NoWait /\ estopOpenWait <= stopAge =>
        Capped(estopOpenWait + d, EstopTimeout + 1) <= stopAge'
  BY <1>1, <1>3 DEF Capped
<1>5. ASSUME ~staleWait', estopOpenWait' # NoWait
      PROVE  contactorStatus' = "COMPLETED" /\ estopOpenWait' <= stopAge'
  <2>1. ~staleWait /\ contactorStatus' = "COMPLETED"
    BY <1>1, <1>5
  <2>2. \/ OpenPrecharge(d, batteryDetected)
        \/ StopWaits(d, allows, stop, paused)
        \/ StayCompleted(d, allows, stop)
    BY <1>1, <2>1 DEF HandleContactors, LadderTick, Ladder, ShutDown, StayDisconnected,
         Arm, CloseNegative, ClosePrecharge, ClosePositive, Rung, AwaitRung, Climbing,
         InverterOpens, StopOpens
  <2>3. CASE OpenPrecharge(d, batteryDetected)
    BY <1>5, <2>1, <2>3 DEF OpenPrecharge, Rung, WaitGoesOn, WaitInv
  <2>4. CASE StopWaits(d, allows, stop, paused)
    <3>1. estopOpenWait' \in WaitNow(d) /\ equipmentStop
      BY <2>4 DEF StopWaits
    <3>2. CASE estopOpenWait = NoWait
      <4>1. estopOpenWait' \in {0, NoWait}
        BY <3>1, <3>2 DEF WaitNow
      <4>2. estopOpenWait' = 0
        BY <1>5, <4>1
      <4> QED
        BY <1>2, <1>3, <2>1, <4>2
    <3>3. CASE estopOpenWait # NoWait
      <4>1. estopOpenWait <= stopAge
        BY <2>1, <3>3 DEF WaitInv
      <4>2. estopOpenWait' = Capped(estopOpenWait + d, EstopTimeout + 1)
        BY <1>5, <3>1, <3>3 DEF WaitNow
      <4> QED
        BY <1>4, <2>1, <3>1, <3>3, <4>1, <4>2
    <3> QED
      BY <2>1, <3>2, <3>3
  <2>5. CASE StayCompleted(d, allows, stop)
    BY <1>5, <2>5 DEF StayCompleted
  <2> QED
    BY <2>1, <2>2, <2>3, <2>4, <2>5
<1>6. ASSUME contactorStatus = "COMPLETED", contactorStatus' = "DISCONNECTED",
             inverterAllows', ~staleWait, ~paused
      PROVE  stopAge' > EstopTimeout
  <2>1. StopOpens(d, allows, stop, paused)
    <3>1. inverterAllows
      BY <1>1, <1>6 DEF HandleContactors, inputVars
    <3> QED
      BY <1>1, <1>6, <3>1 DEF HandleContactors, LadderTick, Ladder, ShutDown,
         StayDisconnected, Arm, CloseNegative, ClosePrecharge, ClosePositive,
         OpenPrecharge, Rung, AwaitRung, Climbing, InverterOpens, StopWaits, StayCompleted
  <2>2. PICK w \in WaitNow(d) : w > EstopTimeout
    BY <1>6, <2>1 DEF StopOpens
  <2>3. estopOpenWait # NoWait /\ w = Capped(estopOpenWait + d, EstopTimeout + 1)
    BY <1>3, <2>2 DEF WaitNow
  <2>4. estopOpenWait <= stopAge /\ equipmentStop
    BY <1>6, <2>1, <2>3 DEF WaitInv, StopOpens
  <2>5. w <= stopAge'
    BY <1>4, <2>3, <2>4
  <2> QED
    BY <1>2, <1>3, <2>2, <2>3, <2>5 DEF Capped
<1> QED
  BY <1>2, <1>5, <1>6 DEF WaitInv

(***************************************************************************)
(* An equipment stop opens the contactors of a running system only when    *)
(* the emulator is PAUSED or the stop has been seen for longer than        *)
(* ESTOP_OPEN_TIMEOUT_MS, unless the wait found a stale start time: for    *)
(* all thresholds and call intervals, and with wraps of millis() too.      *)
(***************************************************************************)
THEOREM FreshStopsOpenInTime == TimedSpec => FreshStopOpensUnloadedOrLate
<1> DEFINE InTime == contactorStatus = "COMPLETED" /\ contactorStatus' = "DISCONNECTED"
                       /\ inverterAllows' /\ ~staleWait
                     => paused \/ stopAge' > EstopTimeout
<1>1. TimedInit => WaitInv
  BY ConstantTypes DEF TimedInit, Init, LadderInit, WaitInv
<1>2. IInv /\ WaitInv /\ [TimedNext]_timedVars => WaitInv' /\ [InTime]_timedVars
  <2> SUFFICES ASSUME IInv, WaitInv, [TimedNext]_timedVars
               PROVE  WaitInv' /\ [InTime]_timedVars
    OBVIOUS
  <2>1. CASE TimedTick
    BY <2>1, WaitStep
  <2>2. CASE Environment /\ UNCHANGED <<resistorTime, stopAge, staleWait>>
    <3>1. UNCHANGED ladderVars
      BY <2>2 DEF Environment, ChangePermission, ChangeFault, ChangeStop, ChangePause,
                  DetectBattery, AllowPack
    <3> QED
      BY <2>2, <3>1 DEF ladderVars, WaitInv
  <2>3. CASE UNCHANGED timedVars
    BY <2>3 DEF timedVars, vars, ladderVars, WaitInv
  <2> QED
    BY <2>1, <2>2, <2>3 DEF TimedNext
<1> QED
  BY <1>1, <1>2, TimedInvariantHolds, PTL DEF TimedSpec, FreshStopOpensUnloadedOrLate

-----------------------------------------------------------------------------
(***************************************************************************)
(* Bounded response.  Each of the three liveness properties of the         *)
(* handler has a measure: a number of calls the ladder is away from its    *)
(* goal at most.  Every call that finds the condition brings the goal      *)
(* closer by one at least, and nothing else the program does takes it      *)
(* farther away.  With the fairness of the calls the liveness follows.     *)
(***************************************************************************)
\* What is left of a time t at the given age.
Left(t, age) == IF age >= t THEN 0 ELSE t - age

\* Calls until every relay is open, if they all see a fault.
CallsToLatch == MaxFaultTicks + 1 - timeSpentInFaultedMode

\* Calls until the path is cut, if they all see the equipment stop.
CallsToOpen ==
  CASE contactorStatus = "PRECHARGE_OFF" ->
         Left(PrechargeOffTime, sinceStep) + EstopTimeout + 4
    [] contactorStatus = "COMPLETED" -> EstopTimeout + 2 - estopOpenWait
    [] OTHER -> 0

\* Calls until COMPLETED, if they all find the ladder permitted to climb.
CallsToClose ==
  CASE contactorStatus \in {"DISCONNECTED", "START_PRECHARGE"} ->
         Left(BootInhibit, uptime) + NegativeTime + PrechargeTime + PrechargeOffTime + 4
    [] contactorStatus = "PRECHARGE" ->
         Left(NegativeTime, sinceStep) + PrechargeTime + PrechargeOffTime + 3
    [] contactorStatus = "POSITIVE" ->
         Left(PrechargeTime, sinceStep) + PrechargeOffTime + 2
    [] contactorStatus = "PRECHARGE_OFF" -> Left(PrechargeOffTime, sinceStep) + 1
    [] OTHER -> 0

(***************************************************************************)
(* A call that sees FAULT opens every relay or counts one more.            *)
(***************************************************************************)
LatchComesCloser ==
  [][/\ systemFault /\ pin' # AllOff /\ Tick =>
          CallsToLatch' \in Nat /\ CallsToLatch' < CallsToLatch
     /\ ~Tick => UNCHANGED CallsToLatch]_vars

(***************************************************************************)
(* A call that sees the equipment stop on a closed path cuts it, or brings *)
(* the cut closer.                                                         *)
(***************************************************************************)
OpeningComesCloser ==
  [][/\ equipmentStop /\ Path = "direct" /\ Path' = "direct" /\ Tick =>
          CallsToOpen' \in Nat /\ CallsToOpen' < CallsToOpen
     /\ ~Tick => UNCHANGED CallsToOpen]_vars

(***************************************************************************)
(* A call that finds the ladder permitted to climb, and not latched,       *)
(* completes it or brings the completion closer.                           *)
(***************************************************************************)
ClosingComesCloser ==
  [][/\ CanRun /\ contactorStatus \notin {"COMPLETED", "SHUTDOWN_REQUESTED"} /\ Tick =>
          \/ contactorStatus' = "COMPLETED"
          \/ CallsToClose' \in Nat /\ CallsToClose' < CallsToClose
     /\ ~Tick => UNCHANGED CallsToClose]_vars

\* Nothing but a call changes a measure.
LEMMA MeasuresKeep ==
  ASSUME Environment
  PROVE  UNCHANGED <<CallsToLatch, CallsToOpen, CallsToClose>>
<1>1. UNCHANGED ladderVars
  BY DEF Environment, ChangePermission, ChangeFault, ChangeStop, ChangePause,
         DetectBattery, AllowPack
<1> QED
  BY <1>1 DEF ladderVars, CallsToLatch, CallsToOpen, CallsToClose

LEMMA LeftType ==
  ASSUME NEW t \in Nat, NEW age \in Nat
  PROVE  Left(t, age) \in Nat /\ Left(t, 0) = t
  BY DEF Left

\* What is left shrinks as long as there is some.
LEMMA LeftShrinks ==
  ASSUME NEW t \in Nat, NEW age \in Nat, NEW d \in Nat \ {0}, age + d < t
  PROVE  Left(t, age + d) \in Nat /\ Left(t, age + d) <= Left(t, age) - 1
  BY DEF Left

LEMMA LatchStep ==
  ASSUME IInv, NEW d \in Delays, HandleContactors(d), systemFault, pin' # AllOff
  PROVE  CallsToLatch' \in Nat /\ CallsToLatch' < CallsToLatch
<1>1. timeSpentInFaultedMode' = Capped(timeSpentInFaultedMode + 1, MaxFaultTicks + 1)
  BY DEF HandleContactors, LadderTick, CountFaultTicks
<1>2. Running
  BY DEF HandleContactors, LadderTick, Ladder, ShutDown, StayDisconnected, Arm,
         CloseNegative, ClosePrecharge, ClosePositive, OpenPrecharge, Rung, AwaitRung,
         InverterOpens, StopWaits, StopOpens, StayCompleted
<1>3. timeSpentInFaultedMode \in Nat /\ MaxFaultTicks \in Nat
  BY ConstantTypes DEF IInv, TypeOK
<1>4. timeSpentInFaultedMode' = timeSpentInFaultedMode + 1
  BY <1>1, <1>2, <1>3 DEF Running, Capped
<1> QED
  BY <1>2, <1>3, <1>4 DEF Running, CallsToLatch

LEMMA WaitCountsDown ==
  ASSUME NEW t \in Nat, NEW w \in Int, NEW v \in Int, -1 <= w, v <= t + 1
  PROVE  /\ w < v => t + 2 - v \in Nat /\ t + 2 - v < t + 2 - w
         /\ \A k \in Nat : -1 <= v => t + 2 - v \in Nat /\ t + 2 - v < k + t + 4
         /\ 0 < t + 2 - v
  OBVIOUS

LEMMA OpeningStep ==
  ASSUME IInv, GateIsOpen, ~MillisWraps, BootInhibit > 0,
         NEW d \in Delays, HandleContactors(d),
         equipmentStop, Path = "direct", Path' = "direct"
  PROVE  CallsToOpen' \in Nat /\ CallsToOpen' < CallsToOpen
<1> DEFINE allows == inverterAllows
           Goal == CallsToOpen' \in Nat /\ CallsToOpen' < CallsToOpen
<1>1. d \in Nat \ {0} /\ PrechargeOffTime \in Nat /\ sinceStep \in Nat
  BY ConstantTypes DEF IInv, TypeOK
<1>2. /\ EstopTimeout \in Nat
      /\ estopOpenWait \in Int /\ -1 <= estopOpenWait /\ estopOpenWait <= EstopTimeout + 1
      /\ estopOpenWait' \in Int /\ -1 <= estopOpenWait' /\ estopOpenWait' <= EstopTimeout + 1
  BY ConstantTypes, HandlerPreserves DEF IInv, TypeOK, NoWait
<1>3. contactorStatus \in {"PRECHARGE_OFF", "COMPLETED", "DISCONNECTED"} /\ pin' # AllOff
  BY PathOfRung DEF IInv, TypeOK, Path
<1>4. Left(PrechargeOffTime, sinceStep) \in Nat
  BY <1>1, LeftType
<1>a. ASSUME OpenPrecharge(d, batteryDetected) PROVE Goal
  <2>1. contactorStatus = "PRECHARGE_OFF" /\ contactorStatus' = "COMPLETED"
    BY <1>a DEF OpenPrecharge, Rung
  <2>2. CallsToOpen = Left(PrechargeOffTime, sinceStep) + EstopTimeout + 4
    BY <2>1 DEF CallsToOpen
  <2>3. CallsToOpen' = EstopTimeout + 2 - estopOpenWait'
    BY <2>1 DEF CallsToOpen
  <2>4. /\ EstopTimeout + 2 - estopOpenWait' \in Nat
        /\ EstopTimeout + 2 - estopOpenWait'
             < Left(PrechargeOffTime, sinceStep) + EstopTimeout + 4
    BY <1>2, <1>4, WaitCountsDown
  <2> QED
    BY <2>2, <2>3, <2>4
<1>b. ASSUME AwaitRung(d, batteryDetected) PROVE Goal
  <2>1. /\ contactorStatus = "PRECHARGE_OFF" /\ contactorStatus' = "PRECHARGE_OFF"
        /\ sinceStep' = sinceStep + d /\ sinceStep + d < PrechargeOffTime
    BY <1>3, <1>b, AwaitedExactly DEF Climbing, RungWait
  <2>2. CallsToOpen = Left(PrechargeOffTime, sinceStep) + EstopTimeout + 4
    BY <2>1 DEF CallsToOpen
  <2>3. CallsToOpen' = Left(PrechargeOffTime, sinceStep + d) + EstopTimeout + 4
    BY <2>1 DEF CallsToOpen
  <2>4. /\ Left(PrechargeOffTime, sinceStep + d) \in Nat
        /\ Left(PrechargeOffTime, sinceStep + d) <= Left(PrechargeOffTime, sinceStep) - 1
    BY <1>1, <2>1, LeftShrinks
  <2> QED
    BY <1>2, <1>4, <2>2, <2>3, <2>4
<1>c. ASSUME contactorStatus = "COMPLETED", contactorStatus' = "DISCONNECTED" PROVE Goal
  <2>1. CallsToOpen = EstopTimeout + 2 - estopOpenWait /\ CallsToOpen' = 0
    BY <1>c DEF CallsToOpen
  <2>2. 0 < EstopTimeout + 2 - estopOpenWait
    BY <1>2, WaitCountsDown
  <2> QED
    BY <2>1, <2>2
<1>d. ASSUME StopWaits(d, allows, equipmentStop, paused) PROVE Goal
  <2>1. /\ contactorStatus = "COMPLETED" /\ contactorStatus' = "COMPLETED"
        /\ estopOpenWait' \in WaitNow(d) /\ estopOpenWait' <= EstopTimeout
    BY <1>d DEF StopWaits
  <2>2. uptime' # 0
    BY <2>1, GateStep, ConstantTypes
  <2>3. estopOpenWait' > estopOpenWait
    <3>1. CASE estopOpenWait = NoWait
      <4>1. estopOpenWait' = 0
        BY <2>1, <2>2, <3>1 DEF WaitNow
      <4> QED
        BY <3>1, <4>1
    <3>2. CASE estopOpenWait # NoWait
      <4>1. estopOpenWait' = Capped(estopOpenWait + d, EstopTimeout + 1)
        BY <2>1, <3>2 DEF WaitNow
      <4> QED
        BY <1>1, <1>2, <2>1, <4>1 DEF Capped
    <3> QED
      BY <3>1, <3>2
  <2>4. /\ CallsToOpen = EstopTimeout + 2 - estopOpenWait
        /\ CallsToOpen' = EstopTimeout + 2 - estopOpenWait'
    BY <2>1 DEF CallsToOpen
  <2>5. /\ EstopTimeout + 2 - estopOpenWait' \in Nat
        /\ EstopTimeout + 2 - estopOpenWait' < EstopTimeout + 2 - estopOpenWait
    BY <1>2, <2>3, WaitCountsDown
  <2> QED
    BY <2>4, <2>5
<1>5. \/ OpenPrecharge(d, batteryDetected)
      \/ AwaitRung(d, batteryDetected)
      \/ contactorStatus = "COMPLETED" /\ contactorStatus' = "DISCONNECTED"
      \/ StopWaits(d, allows, equipmentStop, paused)
  BY <1>3 DEF HandleContactors, LadderTick, Ladder, ShutDown, StayDisconnected, Arm,
     CloseNegative, ClosePrecharge, ClosePositive, Rung, InverterOpens, StopOpens,
     StayCompleted
<1> QED
  BY <1>5, <1>a, <1>b, <1>c, <1>d

LEMMA ClosingStep ==
  ASSUME IInv, GateIsOpen, ~MillisWraps, NEW d \in Delays, HandleContactors(d), CanRun,
         contactorStatus \notin {"COMPLETED", "SHUTDOWN_REQUESTED"}
  PROVE  \/ contactorStatus' = "COMPLETED"
         \/ CallsToClose' \in Nat /\ CallsToClose' < CallsToClose
<1> DEFINE Goal == \/ contactorStatus' = "COMPLETED"
                   \/ CallsToClose' \in Nat /\ CallsToClose' < CallsToClose
<1>1. /\ d \in Nat \ {0} /\ NegativeTime \in Nat /\ PrechargeTime \in Nat
      /\ PrechargeOffTime \in Nat /\ BootInhibit \in Nat
      /\ sinceStep \in Nat /\ uptime \in Nat /\ uptime <= BootInhibit
  BY ConstantTypes DEF IInv, TypeOK
<1>2. /\ Left(BootInhibit, uptime) \in Nat
      /\ Left(NegativeTime, sinceStep) \in Nat
      /\ Left(PrechargeTime, sinceStep) \in Nat
      /\ Left(PrechargeOffTime, sinceStep) \in Nat
  BY <1>1, LeftType
<1>3. /\ Left(NegativeTime, 0) = NegativeTime
      /\ Left(PrechargeTime, 0) = PrechargeTime
      /\ Left(PrechargeOffTime, 0) = PrechargeOffTime
  BY <1>1, LeftType
<1>4. Running
  BY <1>1, ConstantTypes DEF CanRun, HandleContactors, LadderTick, CountFaultTicks, Running
<1>a. ASSUME Arm(d, inverterAllows, equipmentStop, batteryDetected) PROVE Goal
  <2>1. /\ contactorStatus \in {"DISCONNECTED", "START_PRECHARGE"}
        /\ contactorStatus' = "START_PRECHARGE"
        /\ ~MayClose(batteryDetected)
    BY <1>a DEF Arm
  <2>2. uptime' = Capped(uptime + d, BootInhibit)
    BY DEF HandleContactors, LadderTick, UptimeAfter
  <2>3. uptime' = uptime + d /\ uptime + d < BootInhibit
    BY <1>1, <2>1, <2>2 DEF MayClose, CanRun, Capped
  <2>4. CallsToClose = Left(BootInhibit, uptime)
                         + NegativeTime + PrechargeTime + PrechargeOffTime + 4
    BY <2>1 DEF CallsToClose
  <2>5. CallsToClose' = Left(BootInhibit, uptime + d)
                          + NegativeTime + PrechargeTime + PrechargeOffTime + 4
    BY <2>1, <2>3 DEF CallsToClose
  <2>6. /\ Left(BootInhibit, uptime + d) \in Nat
        /\ Left(BootInhibit, uptime + d) <= Left(BootInhibit, uptime) - 1
    BY <1>1, <2>3, LeftShrinks
  <2> QED
    BY <1>1, <1>2, <2>4, <2>5, <2>6
<1>b. ASSUME CloseNegative(d, inverterAllows, equipmentStop, batteryDetected) PROVE Goal
  <2>1. /\ contactorStatus \in {"DISCONNECTED", "START_PRECHARGE"}
        /\ contactorStatus' = "PRECHARGE" /\ sinceStep' = 0
    BY <1>b DEF CloseNegative
  <2>2. CallsToClose = Left(BootInhibit, uptime)
                         + NegativeTime + PrechargeTime + PrechargeOffTime + 4
    BY <2>1 DEF CallsToClose
  <2>3. CallsToClose' = NegativeTime + PrechargeTime + PrechargeOffTime + 3
    BY <1>1, <1>3, <2>1 DEF CallsToClose
  <2> QED
    BY <1>1, <1>2, <2>2, <2>3
<1>c. ASSUME ClosePrecharge(d, batteryDetected) PROVE Goal
  <2>1. contactorStatus = "PRECHARGE" /\ contactorStatus' = "POSITIVE" /\ sinceStep' = 0
    BY <1>c DEF ClosePrecharge, Rung
  <2>2. CallsToClose = Left(NegativeTime, sinceStep) + PrechargeTime + PrechargeOffTime + 3
    BY <2>1 DEF CallsToClose
  <2>3. CallsToClose' = PrechargeTime + PrechargeOffTime + 2
    BY <1>3, <2>1 DEF CallsToClose
  <2> QED
    BY <1>1, <1>2, <2>2, <2>3
<1>d. ASSUME ClosePositive(d, batteryDetected) PROVE Goal
  <2>1. contactorStatus = "POSITIVE" /\ contactorStatus' = "PRECHARGE_OFF" /\ sinceStep' = 0
    BY <1>d DEF ClosePositive, Rung
  <2>2. CallsToClose = Left(PrechargeTime, sinceStep) + PrechargeOffTime + 2
    BY <2>1 DEF CallsToClose
  <2>3. CallsToClose' = PrechargeOffTime + 1
    BY <1>3, <2>1 DEF CallsToClose
  <2> QED
    BY <1>1, <1>2, <2>2, <2>3
<1>e. ASSUME AwaitRung(d, batteryDetected) PROVE Goal
  <2>1. /\ contactorStatus \in Climbing /\ contactorStatus' = contactorStatus
        /\ sinceStep' = sinceStep + d /\ sinceStep + d < RungWait(contactorStatus)
    BY <1>e, AwaitedExactly
  <2>2. CASE contactorStatus = "PRECHARGE"
    <3>1. /\ Left(NegativeTime, sinceStep + d) \in Nat
          /\ Left(NegativeTime, sinceStep + d) <= Left(NegativeTime, sinceStep) - 1
      BY <1>1, <2>1, <2>2, LeftShrinks DEF RungWait
    <3>2. /\ CallsToClose
               = Left(NegativeTime, sinceStep) + PrechargeTime + PrechargeOffTime + 3
          /\ CallsToClose'
               = Left(NegativeTime, sinceStep + d) + PrechargeTime + PrechargeOffTime + 3
      BY <2>1, <2>2 DEF CallsToClose
    <3> QED
      BY <1>1, <1>2, <3>1, <3>2
  <2>3. CASE contactorStatus = "POSITIVE"
    <3>1. /\ Left(PrechargeTime, sinceStep + d) \in Nat
          /\ Left(PrechargeTime, sinceStep + d) <= Left(PrechargeTime, sinceStep) - 1
      BY <1>1, <2>1, <2>3, LeftShrinks DEF RungWait
    <3>2. /\ CallsToClose = Left(PrechargeTime, sinceStep) + PrechargeOffTime + 2
          /\ CallsToClose' = Left(PrechargeTime, sinceStep + d) + PrechargeOffTime + 2
      BY <2>1, <2>3 DEF CallsToClose
    <3> QED
      BY <1>1, <1>2, <3>1, <3>2
  <2>4. CASE contactorStatus = "PRECHARGE_OFF"
    <3>1. /\ Left(PrechargeOffTime, sinceStep + d) \in Nat
          /\ Left(PrechargeOffTime, sinceStep + d) <= Left(PrechargeOffTime, sinceStep) - 1
      BY <1>1, <2>1, <2>4, LeftShrinks DEF RungWait
    <3>2. /\ CallsToClose = Left(PrechargeOffTime, sinceStep) + 1
          /\ CallsToClose' = Left(PrechargeOffTime, sinceStep + d) + 1
      BY <2>1, <2>4 DEF CallsToClose
    <3> QED
      BY <1>1, <1>2, <3>1, <3>2
  <2> QED
    BY <2>1, <2>2, <2>3, <2>4 DEF Climbing
<1>f. ASSUME OpenPrecharge(d, batteryDetected) PROVE Goal
  BY <1>f DEF OpenPrecharge, Rung
<1>5. \/ Arm(d, inverterAllows, equipmentStop, batteryDetected)
      \/ CloseNegative(d, inverterAllows, equipmentStop, batteryDetected)
      \/ ClosePrecharge(d, batteryDetected)
      \/ ClosePositive(d, batteryDetected)
      \/ AwaitRung(d, batteryDetected)
      \/ OpenPrecharge(d, batteryDetected)
  <2>1. Ladder(d, inverterAllows, equipmentStop, paused, batteryDetected)
    BY DEF HandleContactors, LadderTick
  <2>2. ~ShutDown(d)
    <3>1. timeSpentInFaultedMode' \in Nat /\ MaxFaultTicks \in Nat
      BY ConstantTypes, HandlerPreserves DEF IInv, TypeOK
    <3> QED
      BY <1>4, <3>1 DEF ShutDown, Running
  <2>3. ~StayDisconnected(d, inverterAllows, equipmentStop)
    BY DEF StayDisconnected, CanRun
  <2>4. /\ ~InverterOpens(d, inverterAllows)
        /\ ~StopWaits(d, inverterAllows, equipmentStop, paused)
        /\ ~StopOpens(d, inverterAllows, equipmentStop, paused)
        /\ ~StayCompleted(d, inverterAllows, equipmentStop)
    BY DEF InverterOpens, StopWaits, StopOpens, StayCompleted
  <2> QED
    BY <2>1, <2>2, <2>3, <2>4, Zenon DEF Ladder
<1> QED
  BY <1>5, <1>a, <1>b, <1>c, <1>d, <1>e, <1>f

(***************************************************************************)
(* A fault that lasts opens every relay within MaxFaultTicks + 1 calls.    *)
(***************************************************************************)
THEOREM FaultOpensInBoundedTime == Spec => LatchComesCloser
<1> DEFINE A == /\ systemFault /\ pin' # AllOff /\ Tick =>
                     CallsToLatch' \in Nat /\ CallsToLatch' < CallsToLatch
                /\ ~Tick => UNCHANGED CallsToLatch
<1>1. IInv /\ [Next]_vars => [A]_vars
  BY LatchStep, MeasuresKeep DEF Next, Tick
<1> QED
  BY <1>1, InvariantHolds, PTL DEF Spec, LatchComesCloser

(***************************************************************************)
(* An equipment stop that lasts cuts a closed path within the timeout and  *)
(* the last rung, counted in calls, even if the pause never takes effect.  *)
(***************************************************************************)
THEOREM StopOpensInBoundedTime ==
  ~MillisWraps /\ BootInhibit > 0 => (Spec => OpeningComesCloser)
<1> SUFFICES ASSUME ~MillisWraps, BootInhibit > 0
             PROVE  Spec => OpeningComesCloser
  OBVIOUS
<1> DEFINE A == /\ equipmentStop /\ Path = "direct" /\ Path' = "direct" /\ Tick =>
                     CallsToOpen' \in Nat /\ CallsToOpen' < CallsToOpen
                /\ ~Tick => UNCHANGED CallsToOpen
<1>1. IInv /\ GateIsOpen /\ [Next]_vars => [A]_vars
  BY OpeningStep, MeasuresKeep DEF Next, Tick
<1> QED
  BY <1>1, InvariantHolds, GateInvariance, PTL DEF Spec, OpeningComesCloser

(***************************************************************************)
(* A ladder that stays permitted completes within the time since power-up  *)
(* and the times of its rungs, counted in calls.                           *)
(***************************************************************************)
THEOREM ClosesInBoundedTime == ~MillisWraps => (Spec => ClosingComesCloser)
<1> SUFFICES ASSUME ~MillisWraps
             PROVE  Spec => ClosingComesCloser
  OBVIOUS
<1> DEFINE A == /\ CanRun /\ contactorStatus \notin {"COMPLETED", "SHUTDOWN_REQUESTED"}
                     /\ Tick =>
                     \/ contactorStatus' = "COMPLETED"
                     \/ CallsToClose' \in Nat /\ CallsToClose' < CallsToClose
                /\ ~Tick => UNCHANGED CallsToClose
<1>1. IInv /\ GateIsOpen /\ [Next]_vars => [A]_vars
  BY ClosingStep, MeasuresKeep DEF Next, Tick
<1> QED
  BY <1>1, InvariantHolds, GateInvariance, PTL DEF Spec, ClosingComesCloser

=============================================================================
