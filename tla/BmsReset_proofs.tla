--------------------------- MODULE BmsReset_proofs ---------------------------
(***************************************************************************)
(* Proofs about BmsReset for all durations, configurations and commands:   *)
(* the types, that the BMS gets its power back only after the whole        *)
(* configured off time, that the keepalive outlives the silence it is      *)
(* made for, and that the seconds until a reset ends, or the next one      *)
(* begins, are bounded.                                                    *)
(***************************************************************************)
EXTENDS BmsReset, TLAPS

USE DEF ResetStatus, PauseStatus, StopCommand, Current

-----------------------------------------------------------------------------
\* The durations are numbers, and the largest age covers the off time.
LEMMA ConstantTypes ==
  /\ OffTime \in Nat
  /\ ResetInterval \in Nat
  /\ WarmupTime \in Nat
  /\ KeepaliveInterval \in Nat
  /\ StillAliveMax \in Nat \ {0}
  /\ RemovalCap \in Nat
  /\ OffTime <= RemovalCap
  BY DurationAssumption DEF RemovalCap

\* An age capped by AtMost stays within its cap, and is exact below it.
LEMMA AtMostType ==
  ASSUME NEW t \in Nat, NEW cap \in Nat
  PROVE  /\ AtMost(t, cap) \in 0..cap
         /\ t >= cap => AtMost(t, cap) = cap
         /\ t <= cap => AtMost(t, cap) = t
  BY DEF AtMost

(***************************************************************************)
(* The inductive invariant.  That power returns only after the off time    *)
(* rests on the age of the timestamp the code tests being the real time    *)
(* without power, as far as both are counted, and on power being off in    *)
(* one state of the reset only.                                            *)
(***************************************************************************)
PowerMatchesStatus == bmsPowered <=> bmsResetStatus # "POWERED_OFF"

AgeIsOffTime == ~bmsPowered => offTime = AtMost(sincePowerRemoval, OffTime)

IInv ==
  /\ TypeOK
  /\ PowerMatchesStatus
  /\ AgeIsOffTime

-----------------------------------------------------------------------------
\* A call of setBatteryPause() keeps the types of the pause.
LEMMA SetBatteryPauseType ==
  ASSUME PauseTypeOK, NEW pause \in BOOLEAN, NEW cmd, NEW low \in BOOLEAN,
         SetBatteryPause(pause, FALSE, cmd, low)
  PROVE  PauseTypeOK'
<1>1. equipmentStop' \in BOOLEAN
  BY Zenon DEF SetBatteryPause, StopAfter, PauseTypeOK
<1>2. pauseRequest' \in BOOLEAN /\ pauseCan' \in BOOLEAN
  BY Zenon DEF SetBatteryPause
<1>3. pauseStatus' \in PauseStatus
  BY DEF SetBatteryPause, Settled
<1>4. allowedToSend' \in BOOLEAN
  BY Zenon DEF SetBatteryPause, CanAllowed
<1> QED
  BY <1>1, <1>2, <1>3, <1>4 DEF PauseTypeOK

\* The once-a-second call of update_pause_state() keeps them too.
LEMMA UpdatePauseStateType ==
  ASSUME PauseTypeOK, NEW low \in BOOLEAN, UpdatePauseState(low)
  PROVE  PauseTypeOK'
<1>1. pauseStatus' \in PauseStatus
  BY DEF UpdatePauseState, Settled, PauseTypeOK
<1>2. allowedToSend' \in BOOLEAN
  BY Zenon DEF UpdatePauseState, CanAllowed
<1> QED
  BY <1>1, <1>2 DEF UpdatePauseState, PauseTypeOK

\* The ages a step advances keep their types.
LEMMA AgeTypes ==
  ASSUME BmsTypeOK, NEW d \in {0, 1}
  PROVE  /\ AgedRemoval(d) => sincePowerRemoval' \in 0..RemovalCap
         /\ AgedPowerOn(d) => sincePowerOn' \in 0..WarmupTime
         /\ AgedKeepalive(d) => sinceKeepalive' \in 0..KeepaliveInterval
         /\ Age(d) => /\ AgedRemoval(d)
                      /\ AgedPowerOn(d)
                      /\ AgedKeepalive(d)
<1>1. /\ sincePowerRemoval + d \in Nat
      /\ sincePowerOn + d \in Nat
      /\ sinceKeepalive + d \in Nat
  BY ConstantTypes DEF BmsTypeOK
<1>2. AtMost(sincePowerRemoval + d, RemovalCap) \in 0..RemovalCap
  BY <1>1, AtMostType, ConstantTypes
<1>3. AtMost(sincePowerOn + d, WarmupTime) \in 0..WarmupTime
  BY <1>1, AtMostType, ConstantTypes
<1>4. AtMost(sinceKeepalive + d, KeepaliveInterval) \in 0..KeepaliveInterval
  BY <1>1, AtMostType, ConstantTypes
<1> QED
  BY Zenon, <1>2, <1>3, <1>4 DEF Age, AgedRemoval, AgedPowerOn, AgedKeepalive

\* The keepalive keeps its age and the alive counter within their bounds.
LEMMA KeepaliveType ==
  ASSUME BmsTypeOK, NEW d \in {0, 1}, KeepaliveTick(d)
  PROVE  sinceKeepalive' \in 0..KeepaliveInterval /\ stillAlive' \in 0..StillAliveMax
  BY AgeTypes, ConstantTypes DEF KeepaliveTick, BmsTypeOK

(***************************************************************************)
(* While the BMS stays without power, the age and the observer grow        *)
(* together: capping at each step or at the end comes to the same.         *)
(***************************************************************************)
LEMMA AgesTogether ==
  ASSUME NEW age \in 0..RemovalCap, NEW d \in {0, 1}
  PROVE  AtMost(AtMost(age, OffTime) + d, OffTime)
           = AtMost(AtMost(age + d, RemovalCap), OffTime)
  BY ConstantTypes DEF AtMost

-----------------------------------------------------------------------------
(***************************************************************************)
(* What a step, d units after the previous call of the handler, does to    *)
(* the power of the BMS and to the age the off time is measured by.        *)
(***************************************************************************)
PowerStep(d) ==
  /\ PowerMatchesStatus'
  /\ bmsPowered /\ ~bmsPowered' => sincePowerRemoval' = 0
  /\ ~bmsPowered /\ ~bmsPowered' => AgedRemoval(d)
  /\ ~bmsPowered /\ bmsPowered' => sincePowerRemoval + d >= OffTime

Sound(d) == PauseTypeOK' /\ BmsTypeOK' /\ PowerStep(d)

(***************************************************************************)
(* A call of handle_BMSpower(): one step per branch.                       *)
(***************************************************************************)
LEMMA HandlerSound ==
  ASSUME IInv, NEW d \in {0, 1},
         HandleBmsPower(d, lowSoc, balancing, current)
  PROVE  Sound(d)
<1> USE DEF Sound, PowerStep, PowerMatchesStatus, IInv, TypeOK
<1>0. PauseTypeOK /\ BmsTypeOK /\ PowerMatchesStatus
  BY DEF IInv
<1>1. /\ UNCHANGED pauseVars => PauseTypeOK'
      /\ BelowPauseThreshold(current) \in BOOLEAN
  BY <1>0 DEF pauseVars, PauseTypeOK, BelowPauseThreshold
<1>2. ASSUME StandStill(d) \/ StayIdle(d, lowSoc, balancing) \/ AwaitPause(d, current)
      PROVE  Sound(d)
  BY <1>0, <1>1, <1>2, AgeTypes DEF StandStill, StayIdle, AwaitPause, BmsTypeOK
<1>3. ASSUME SkipPeriod(d, lowSoc, balancing) PROVE Sound(d)
  BY <1>0, <1>1, <1>3, AgeTypes, ConstantTypes DEF SkipPeriod, BmsTypeOK
<1>4. ASSUME RunPeriodic(d, lowSoc, balancing, current) PROVE Sound(d)
  <2>1. StartBmsReset(current)
    BY <1>4 DEF RunPeriodic
  <2>2. PauseTypeOK'
    BY <1>0, <1>1, <2>1, SetBatteryPauseType DEF StartBmsReset, PauseBattery
  <2>3. /\ bmsResetStatus' \in ResetStatus
        /\ bmsPowered' \in BOOLEAN
        /\ PowerMatchesStatus'
        /\ sincePowerRemoval' = 0
        /\ sinceKeepalive' = 0
        /\ bmsPowered
    BY <1>0, <2>1 DEF StartBmsReset, BmsTypeOK
  <2>4. sincePowerOn' \in 0..WarmupTime /\ UNCHANGED stillAlive
    BY <1>0, <1>4, AgeTypes DEF RunPeriodic
  <2>5. balancingPeriodSkipped' \in BOOLEAN
    BY <1>4 DEF RunPeriodic
  <2> QED
    BY <1>0, <2>2, <2>3, <2>4, <2>5, ConstantTypes DEF BmsTypeOK
<1>5. ASSUME CutPower(d, current) PROVE Sound(d)
  <2>1. PauseTypeOK'
    BY <1>1, <1>5 DEF CutPower
  <2>2. /\ bmsResetStatus' = "POWERED_OFF"
        /\ bmsPowered' = FALSE
        /\ sincePowerRemoval' = 0
        /\ bmsPowered
    BY <1>0, <1>5 DEF CutPower
  <2>3. sincePowerRemoval' \in 0..RemovalCap
    BY <2>2, ConstantTypes
  <2>4. sincePowerOn' \in 0..WarmupTime /\ sinceKeepalive' \in 0..KeepaliveInterval
    BY <1>0, <1>5, AgeTypes DEF CutPower
  <2>5. UNCHANGED <<balancingPeriodSkipped, stillAlive>>
    BY <1>5 DEF CutPower
  <2>6. BmsTypeOK'
    BY <1>0, <2>2, <2>3, <2>4, <2>5 DEF BmsTypeOK
  <2> QED
    BY <2>1, <2>2, <2>6
<1>6. ASSUME GiveUp(d, current) PROVE Sound(d)
  BY <1>0, <1>1, <1>6, AgeTypes DEF GiveUp, BmsTypeOK
<1>7. ASSUME StayPoweredOff(d) PROVE Sound(d)
  BY <1>0, <1>1, <1>7, AgeTypes, KeepaliveType DEF StayPoweredOff, BmsTypeOK
<1>8. ASSUME PowerOn(d) PROVE Sound(d)
  BY <1>0, <1>1, <1>8, AgeTypes, ConstantTypes DEF PowerOn, BmsTypeOK
<1>9. ASSUME AwaitWarmup(d) PROVE Sound(d)
  BY <1>0, <1>1, <1>9, AgeTypes, KeepaliveType DEF AwaitWarmup, BmsTypeOK
<1>10. ASSUME FinishReset(d, current) PROVE Sound(d)
  <2>1. PauseTypeOK'
    BY <1>0, <1>1, <1>10, SetBatteryPauseType DEF FinishReset, ResumeBattery
  <2> QED
    BY <1>0, <1>10, <2>1, AgeTypes, KeepaliveType DEF FinishReset, BmsTypeOK
<1> QED
  BY <1>2, <1>3, <1>4, <1>5, <1>6, <1>7, <1>8, <1>9, <1>10 DEF HandleBmsPower

(***************************************************************************)
(* The observer turns what a step does to the age into what it does to the *)
(* time without power.                                                     *)
(***************************************************************************)
LEMMA ObserverFollows ==
  ASSUME IInv, NEW d \in {0, 1}, Sound(d), Observe(d)
  PROVE  /\ AgeIsOffTime'
         /\ offTime' \in 0..OffTime
         /\ heardAtStart' \in BOOLEAN
         /\ ~bmsPowered /\ bmsPowered' => offTime' = OffTime
<1>1. offTime + d \in Nat /\ sincePowerRemoval + d \in Nat
  BY ConstantTypes DEF IInv, TypeOK, BmsTypeOK
<1>2. offTime' \in 0..OffTime
  BY <1>1, AtMostType, ConstantTypes DEF Observe
<1>3. heardAtStart' \in BOOLEAN
  <2>1. stillAlive \in Int /\ heardAtStart \in BOOLEAN
    BY ConstantTypes DEF IInv, TypeOK, BmsTypeOK
  <2> QED
    BY Zenon, <2>1 DEF Observe
<1>4. CASE bmsPowered
  <2>1. ~bmsPowered' => offTime' = 0 /\ sincePowerRemoval' = 0
    BY <1>4 DEF Observe, Sound, PowerStep
  <2>2. AtMost(0, OffTime) = 0
    BY AtMostType, ConstantTypes
  <2> QED
    BY <1>2, <1>3, <1>4, <2>1, <2>2 DEF AgeIsOffTime
<1>5. CASE ~bmsPowered
  <2>1. /\ offTime = AtMost(sincePowerRemoval, OffTime)
        /\ offTime' = AtMost(offTime + d, OffTime)
        /\ sincePowerRemoval \in 0..RemovalCap
    BY <1>5 DEF IInv, AgeIsOffTime, TypeOK, BmsTypeOK, Observe
  <2>2. offTime' = AtMost(AtMost(sincePowerRemoval + d, RemovalCap), OffTime)
    BY <2>1, AgesTogether
  <2>3. ~bmsPowered' => offTime' = AtMost(sincePowerRemoval', OffTime)
    BY <1>5, <2>2 DEF Sound, PowerStep, AgedRemoval
  <2>4. bmsPowered' => offTime' = OffTime
    <3>1. bmsPowered' => sincePowerRemoval + d >= OffTime
      BY <1>5 DEF Sound, PowerStep
    <3> QED
      BY <1>1, <2>2, <3>1, ConstantTypes DEF AtMost
  <2> QED
    BY <1>2, <1>3, <2>3, <2>4 DEF AgeIsOffTime
<1> QED
  BY <1>4, <1>5

-----------------------------------------------------------------------------
\* A step that leaves the reset alone does so at no cost in time.
LEMMA LeftAlone ==
  ASSUME IInv, UNCHANGED <<bmsResetStatus, bmsPowered, bmsClocks, balancingPeriodSkipped>>,
         stillAlive' \in 0..StillAliveMax, PauseTypeOK'
  PROVE  Sound(0)
<1>1. sincePowerRemoval \in 0..RemovalCap
  BY DEF IInv, TypeOK, BmsTypeOK
<1>2. AtMost(sincePowerRemoval + 0, RemovalCap) = sincePowerRemoval
  BY <1>1, AtMostType, ConstantTypes
<1> QED
  BY <1>2 DEF IInv, TypeOK, BmsTypeOK, bmsClocks, Sound, PowerStep, PowerMatchesStatus,
              AgedRemoval

(***************************************************************************)
(* Every step is sound for the power, for the number of units it takes,    *)
(* and keeps the rest of the types.                                        *)
(***************************************************************************)
LEMMA StepSound ==
  ASSUME IInv, Next
  PROVE  /\ \E d \in {0, 1} : Sound(d) /\ Observe(d)
         /\ current' \in Current
         /\ lowSoc' \in BOOLEAN
         /\ balancing' \in BOOLEAN
         /\ batteryMissing' \in BOOLEAN
         /\ secondDue' \in BOOLEAN
<1> DEFINE Rest == /\ current' \in Current
                   /\ lowSoc' \in BOOLEAN
                   /\ balancing' \in BOOLEAN
                   /\ batteryMissing' \in BOOLEAN
                   /\ secondDue' \in BOOLEAN
           Goal == (\E d \in {0, 1} : Sound(d) /\ Observe(d)) /\ Rest
<1>0. /\ PauseTypeOK /\ BmsTypeOK
      /\ current \in Current /\ lowSoc \in BOOLEAN /\ balancing \in BOOLEAN
      /\ batteryMissing \in BOOLEAN /\ secondDue \in BOOLEAN
      /\ BelowPauseThreshold(current) \in BOOLEAN
      /\ stillAlive \in 0..StillAliveMax
  BY DEF IInv, TypeOK, BelowPauseThreshold, BmsTypeOK
<1>1. ASSUME NEW d \in {0, 1}, Handler(d) PROVE Goal
  <2>1. Sound(d) /\ Observe(d)
    BY <1>1, HandlerSound DEF Handler
  <2>2. Rest
    BY <1>0, <1>1 DEF Handler, readings
  <2> QED
    BY <2>1, <2>2
<1>2. ASSUME Second PROVE Goal
  <2>1. PauseTypeOK'
    BY <1>0, <1>2, UpdatePauseStateType DEF Second
  <2>2. stillAlive' \in 0..StillAliveMax /\ batteryMissing' \in BOOLEAN
    <3>1. stillAlive' \in 0..StillAliveMax
      <4>1. stillAlive' = stillAlive \/ (stillAlive # 0 /\ stillAlive' = stillAlive - 1)
        BY Zenon, <1>2 DEF Second, CountDownAlive
      <4> QED
        BY <1>0, <4>1, ConstantTypes
    <3>2. batteryMissing' \in BOOLEAN
      BY Zenon, <1>2 DEF Second, CountDownAlive
    <3> QED
      BY <3>1, <3>2
  <2>3. Sound(0) /\ Observe(0)
    BY <1>2, <2>1, <2>2, LeftAlone DEF Second
  <2>4. Rest
    BY <1>0, <1>2, <2>2 DEF Second, readings
  <2> QED
    BY <2>3, <2>4
<1>3. ASSUME BmsFrame PROVE Goal
  <2>1. PauseTypeOK' /\ stillAlive' \in 0..StillAliveMax
    BY <1>0, <1>3, ConstantTypes DEF BmsFrame, pauseVars, PauseTypeOK
  <2>2. Sound(0) /\ Observe(0)
    BY <1>3, <2>1, LeftAlone DEF BmsFrame
  <2>3. Rest
    BY <1>0, <1>3 DEF BmsFrame
  <2> QED
    BY <2>2, <2>3
<1>4. ASSUME MqttReset PROVE Goal
  <2>1. StartBmsReset(current)
    BY <1>4 DEF MqttReset, RemoteReset
  <2>2. PauseTypeOK'
    BY <1>0, <2>1, SetBatteryPauseType DEF StartBmsReset, PauseBattery
  <2>3. /\ bmsResetStatus' \in ResetStatus
        /\ bmsPowered' \in BOOLEAN
        /\ PowerMatchesStatus'
        /\ sincePowerRemoval' = 0
        /\ sinceKeepalive' = 0
        /\ bmsPowered
    BY <1>0, <2>1 DEF StartBmsReset, BmsTypeOK, IInv, PowerMatchesStatus
  <2>4. UNCHANGED <<sincePowerOn, balancingPeriodSkipped, stillAlive>>
    BY <1>4 DEF MqttReset, RemoteReset
  <2>5. Sound(0) /\ Observe(0)
    BY <1>0, <1>4, <2>2, <2>3, <2>4, ConstantTypes
    DEF MqttReset, Sound, PowerStep, BmsTypeOK
  <2>6. Rest
    BY <1>0, <1>4 DEF MqttReset, readings
  <2> QED
    BY <2>5, <2>6
<1>5. ASSUME NEW c \in Commands, Command(c) PROVE Goal
  <2>1. (c \in {"PAUSE", "STOP"}) \in BOOLEAN
    OBVIOUS
  <2>2. PauseTypeOK'
    BY <1>0, <1>5, <2>1, SetBatteryPauseType DEF Command
  <2>3. Sound(0) /\ Observe(0)
    BY <1>0, <1>5, <2>2, LeftAlone DEF Command, bmsVars
  <2>4. Rest
    BY <1>0, <1>5 DEF Command, readings
  <2> QED
    BY <2>3, <2>4
<1> QED
  BY <1>1, <1>2, <1>3, <1>4, <1>5 DEF Next

-----------------------------------------------------------------------------
\* The invariant holds at power-up.
LEMMA InitInv ==
  ASSUME Init
  PROVE  IInv
<1>1. PauseTypeOK
  BY DEF Init, PauseInit, PauseTypeOK
<1>2. BmsTypeOK
  <2>1. StillAliveMax - 1 \in 0..StillAliveMax
    BY ConstantTypes
  <2>2. 0 \in 0..RemovalCap /\ 0 \in 0..WarmupTime /\ 0 \in 0..KeepaliveInterval
    BY ConstantTypes
  <2> QED
    BY <2>1, <2>2 DEF Init, BmsInit, BmsTypeOK
<1>3. PowerMatchesStatus /\ AgeIsOffTime
  BY DEF Init, BmsInit, PowerMatchesStatus, AgeIsOffTime
<1>4. 0 \in 0..OffTime /\ "zero" \in Current
  BY ConstantTypes
<1> QED
  BY <1>1, <1>2, <1>3, <1>4 DEF Init, IInv, TypeOK

\* Every step preserves it, and returns the power only after the off time.
LEMMA StepInv ==
  ASSUME IInv, [Next]_vars
  PROVE  IInv' /\ [~bmsPowered /\ bmsPowered' => offTime' = OffTime]_vars
<1>1. CASE Next
  <2>1. PICK d \in {0, 1} : Sound(d) /\ Observe(d)
    BY <1>1, StepSound
  <2>2. /\ AgeIsOffTime'
        /\ offTime' \in 0..OffTime
        /\ heardAtStart' \in BOOLEAN
        /\ ~bmsPowered /\ bmsPowered' => offTime' = OffTime
    BY <2>1, ObserverFollows
  <2>3. TypeOK' /\ PowerMatchesStatus'
    BY <1>1, <2>1, <2>2, StepSound DEF Sound, PowerStep, TypeOK
  <2> QED
    BY <2>2, <2>3 DEF IInv
<1>2. CASE UNCHANGED vars
  BY <1>2 DEF vars, pauseVars, bmsVars, bmsClocks, readings, observers, IInv, TypeOK,
              PauseTypeOK, BmsTypeOK, PowerMatchesStatus, AgeIsOffTime
<1> QED
  BY <1>1, <1>2

LEMMA Invariance == Spec => []IInv
<1>1. Init => IInv
  BY InitInv
<1>2. IInv /\ [Next]_vars => IInv'
  BY StepInv
<1> QED
  BY <1>1, <1>2, PTL DEF Spec

(***************************************************************************)
(* Every variable of the reset and its surroundings keeps its type.        *)
(***************************************************************************)
THEOREM TypeCorrect == Spec => []TypeOK
<1>1. IInv => TypeOK
  BY DEF IInv
<1> QED
  BY <1>1, Invariance, PTL

(***************************************************************************)
(* handle_BMSpower() powers the BMS again only after the configured off    *)
(* time, however the reset began, and whatever pause, equipment stop or    *)
(* further request came between.                                           *)
(***************************************************************************)
THEOREM WholeOffTime == Spec => OffForTheWholeTime
<1>1. IInv /\ [Next]_vars => [~bmsPowered /\ bmsPowered' => offTime' = OffTime]_vars
  BY StepInv
<1> QED
  BY <1>1, Invariance, PTL DEF Spec, OffForTheWholeTime

-----------------------------------------------------------------------------
(***************************************************************************)
(* How the durations must be related for the keepalive to do its job.  The *)
(* alive window is one second longer than the keepalive interval, as       *)
(* BMS_RESET_CAN_KEEPALIVE_INTERVAL_MS is chosen (l. 60-66), the wait for  *)
(* the pause ends within the interval, and a reset that is too short to    *)
(* need the keepalive is over within it: the wait for the pause, if the    *)
(* BMS holds the contactors, the off time and the warm-up taken together.  *)
(***************************************************************************)
PauseWait == IF ContactorControl THEN 0 ELSE GiveUpTime

KeepaliveCovers ==
  /\ StillAliveMax = KeepaliveInterval + 1
  /\ 0 < GiveUpTime /\ GiveUpTime < KeepaliveInterval
  /\ OffTime > 0 /\ WarmupTime > 0
  /\ NeedsKeepalive \/ PauseWait + OffTime + WarmupTime <= KeepaliveInterval

(***************************************************************************)
(* The inductive invariant of a reset that began with a fresh alive        *)
(* counter and met no equipment stop.  What the counter has lost since it  *)
(* was last refreshed is no more than the age of the keepalive and the     *)
(* second or two around the start; and that age stays below the interval,  *)
(* because of how long each state of the reset can have lasted.            *)
(***************************************************************************)
Watched == heardAtStart /\ bmsResetStatus # "IDLE"

CounterLags ==
  stillAlive + sinceKeepalive >= StillAliveMax - (IF secondDue THEN 1 ELSE 2)

KeepaliveInTime ==
  /\ sinceKeepalive < KeepaliveInterval
  /\ bmsResetStatus = "WAITING_FOR_PAUSE" =>
       /\ ~ContactorControl
       /\ sinceKeepalive <= sincePowerRemoval
       /\ sincePowerRemoval < GiveUpTime
  /\ bmsResetStatus = "POWERED_OFF" =>
       /\ sincePowerRemoval < OffTime
       /\ NeedsKeepalive \/ sinceKeepalive <= PauseWait + sincePowerRemoval
  /\ bmsResetStatus = "POWERING_ON" =>
       /\ sincePowerOn < WarmupTime
       /\ NeedsKeepalive \/ sinceKeepalive <= PauseWait + OffTime + sincePowerOn

AliveInv ==
  Watched => /\ Enabled
             /\ ~batteryMissing
             /\ ~equipmentStop
             /\ CounterLags
             /\ KeepaliveInTime

-----------------------------------------------------------------------------
\* The counters a step of the reset reads are numbers.
LEMMA CounterTypes ==
  ASSUME IInv
  PROVE  /\ stillAlive \in Nat /\ sinceKeepalive \in Nat /\ sinceKeepalive <= KeepaliveInterval
         /\ sincePowerRemoval \in Nat /\ sincePowerRemoval <= RemovalCap
         /\ sincePowerOn \in Nat /\ sincePowerOn <= WarmupTime
         /\ secondDue \in BOOLEAN /\ ResetInterval \in Nat /\ GiveUpTime \in Nat
  BY ConstantTypes, DurationAssumption DEF IInv, TypeOK, BmsTypeOK

\* An age advanced by a call, below its cap, is the sum itself.
LEMMA AgedExactly ==
  ASSUME IInv, NEW d \in {0, 1}
  PROVE  /\ AgedKeepalive(d) /\ sinceKeepalive + d <= KeepaliveInterval
              => sinceKeepalive' = sinceKeepalive + d
         /\ AgedRemoval(d) /\ sincePowerRemoval + d <= RemovalCap
              => sincePowerRemoval' = sincePowerRemoval + d
         /\ AgedPowerOn(d) /\ sincePowerOn + d <= WarmupTime
              => sincePowerOn' = sincePowerOn + d
  BY CounterTypes, ConstantTypes
  DEF AgedKeepalive, AgedRemoval, AgedPowerOn, AtMost

\* The lag stays bounded when counter and age advance by the call alone.
LEMMA LagGrows ==
  ASSUME IInv, CounterLags, NEW d \in {0, 1},
         ~secondDue, secondDue' = (d = 1),
         UNCHANGED stillAlive, sinceKeepalive' = sinceKeepalive + d
  PROVE  CounterLags'
<1>1. stillAlive + sinceKeepalive >= StillAliveMax - 2
  BY DEF CounterLags
<1>2. d = 0 => ~secondDue'
  <2>1. d = 0 => ~(d = 1)
    OBVIOUS
  <2> QED
    BY Zenon, <2>1
<1>3. d = 1 => stillAlive' + sinceKeepalive' >= StillAliveMax - 1
  BY <1>1, CounterTypes, ConstantTypes
<1>4. d = 0 => stillAlive' + sinceKeepalive' >= StillAliveMax - 2
  BY <1>1, CounterTypes, ConstantTypes
<1> QED
  BY <1>2, <1>3, <1>4, CounterTypes, ConstantTypes DEF CounterLags

\* A full counter is not behind at all.
LEMMA FullCounter ==
  ASSUME stillAlive' = StillAliveMax, sinceKeepalive' \in Nat
  PROVE  CounterLags'
<1>1. /\ stillAlive' + sinceKeepalive' >= StillAliveMax - 1
      /\ stillAlive' + sinceKeepalive' >= StillAliveMax - 2
  <2>1. \A k \in Nat : StillAliveMax + k >= StillAliveMax - 1
                        /\ StillAliveMax + k >= StillAliveMax - 2
    BY ConstantTypes
  <2> QED
    BY Zenon, <2>1
<1> QED
  BY Zenon, <1>1 DEF CounterLags

(***************************************************************************)
(* The keepalive: the lag stays bounded, and with a long off time the age  *)
(* stays below the interval.                                               *)
(***************************************************************************)
LEMMA KeepaliveKeeps ==
  ASSUME IInv, CounterLags, NEW d \in {0, 1}, KeepaliveTick(d),
         ~secondDue, secondDue' = (d = 1), sinceKeepalive < KeepaliveInterval
  PROVE  /\ CounterLags'
         /\ sinceKeepalive' \in Nat
         /\ sinceKeepalive' <= sinceKeepalive + d
         /\ NeedsKeepalive => sinceKeepalive' < KeepaliveInterval
<1>1. CASE NeedsKeepalive /\ sinceKeepalive + d >= KeepaliveInterval
  <2>1. stillAlive' = StillAliveMax /\ sinceKeepalive' = 0
    BY <1>1 DEF KeepaliveTick
  <2> QED
    BY <2>1, FullCounter, CounterTypes, ConstantTypes
<1>2. CASE ~(NeedsKeepalive /\ sinceKeepalive + d >= KeepaliveInterval)
  <2>1. AgedKeepalive(d) /\ UNCHANGED stillAlive
    BY <1>2 DEF KeepaliveTick
  <2>2. sinceKeepalive' = sinceKeepalive + d
    BY <2>1, AgedExactly, CounterTypes, ConstantTypes
  <2> QED
    BY <1>2, <2>1, <2>2, LagGrows, CounterTypes, ConstantTypes
<1> QED
  BY <1>1, <1>2

\* A reset that begins with a fresh counter is watched from the start.
LEMMA StartWatched ==
  ASSUME KeepaliveCovers, IInv, NEW d \in {0, 1}, StartBmsReset(current),
         Observe(d), UNCHANGED <<stillAlive, batteryMissing>>
  PROVE  AliveInv'
<1> SUFFICES ASSUME Watched'
             PROVE  (Enabled /\ ~batteryMissing /\ ~equipmentStop /\ CounterLags
                     /\ KeepaliveInTime)'
  BY DEF AliveInv
<1>1. /\ stillAlive >= StillAliveMax - 1
      /\ ~batteryMissing /\ ~equipmentStop
  <2>1. bmsResetStatus = "IDLE" /\ bmsResetStatus' # "IDLE"
    BY DEF StartBmsReset
  <2> QED
    BY <2>1 DEF Observe, Watched
<1>2. ~equipmentStop'
  BY <1>1 DEF StartBmsReset, PauseBattery, SetBatteryPause, StopAfter
<1>3. sincePowerRemoval' = 0 /\ sinceKeepalive' = 0 /\ Enabled
  BY DEF StartBmsReset
<1>4. CounterLags'
  BY <1>1, <1>3, CounterTypes, ConstantTypes DEF CounterLags
<1>5. KeepaliveInTime'
  <2>1. \/ ContactorControl /\ bmsResetStatus' = "POWERED_OFF"
        \/ ~ContactorControl /\ bmsResetStatus' = "WAITING_FOR_PAUSE"
    BY DEF StartBmsReset
  <2>2. PauseWait \in Nat
    BY CounterTypes DEF PauseWait
  <2> QED
    BY <1>3, <2>1, <2>2, CounterTypes, ConstantTypes DEF KeepaliveInTime, KeepaliveCovers
<1> QED
  BY <1>1, <1>2, <1>3, <1>4, <1>5 DEF Enabled

(***************************************************************************)
(* A call of handle_BMSpower() during a watched reset: one step per        *)
(* branch.                                                                 *)
(***************************************************************************)
LEMMA HandlerWatched ==
  ASSUME KeepaliveCovers, IInv, AliveInv, Watched, NEW d \in {0, 1},
         HandleBmsPower(d, lowSoc, balancing, current),
         ~secondDue, secondDue' = (d = 1), bmsResetStatus' # "IDLE"
  PROVE  CounterLags' /\ KeepaliveInTime'
<1> DEFINE Kept == CounterLags' /\ KeepaliveInTime'
<1>1. Enabled /\ ~equipmentStop /\ CounterLags /\ KeepaliveInTime
  BY DEF AliveInv
<1>2. /\ sinceKeepalive + d <= KeepaliveInterval
      /\ bmsResetStatus # "IDLE"
      /\ PauseWait \in Nat
      /\ ~ContactorControl => PauseWait = GiveUpTime
  BY <1>1, CounterTypes, ConstantTypes DEF KeepaliveInTime, Watched, PauseWait
<1>3. AgedKeepalive(d) => sinceKeepalive' = sinceKeepalive + d
  BY <1>2, AgedExactly
<1>4. ASSUME CutPower(d, current) PROVE Kept
  <2>1. /\ bmsResetStatus = "WAITING_FOR_PAUSE" /\ bmsResetStatus' = "POWERED_OFF"
        /\ sincePowerRemoval' = 0 /\ AgedKeepalive(d) /\ UNCHANGED stillAlive
    BY <1>4 DEF CutPower
  <2>2. CounterLags'
    BY <1>1, <1>3, <2>1, LagGrows
  <2>3. sinceKeepalive' <= GiveUpTime /\ ~ContactorControl
    BY <1>1, <1>3, <2>1, CounterTypes DEF KeepaliveInTime
  <2>4. sinceKeepalive' \in Nat /\ sinceKeepalive' <= PauseWait
    BY <1>2, <1>3, <2>1, <2>3, CounterTypes
  <2>5. sinceKeepalive' < KeepaliveInterval /\ 0 < OffTime
    BY <2>3, <2>4, CounterTypes, ConstantTypes DEF KeepaliveCovers
  <2> QED
    BY <1>2, <2>1, <2>2, <2>4, <2>5 DEF KeepaliveInTime
<1>5. ASSUME AwaitPause(d, current) PROVE Kept
  <2>1. /\ bmsResetStatus = "WAITING_FOR_PAUSE" /\ bmsResetStatus' = "WAITING_FOR_PAUSE"
        /\ sincePowerRemoval + d < GiveUpTime
        /\ AgedRemoval(d) /\ AgedKeepalive(d) /\ UNCHANGED stillAlive
    BY <1>5 DEF AwaitPause, Age, AgedRemoval, AgedKeepalive
  <2>2. CounterLags'
    BY <1>1, <1>3, <2>1, LagGrows
  <2>3. sincePowerRemoval' = sincePowerRemoval + d
    <3>1. GiveUpTime <= RemovalCap
      BY DurationAssumption DEF RemovalCap
    <3> QED
      BY <2>1, <3>1, AgedExactly, CounterTypes, ConstantTypes
  <2> QED
    BY <1>1, <1>3, <2>1, <2>2, <2>3, CounterTypes, ConstantTypes
    DEF KeepaliveInTime, KeepaliveCovers
<1>6. ASSUME StayPoweredOff(d) PROVE Kept
  <2>1. /\ bmsResetStatus = "POWERED_OFF" /\ bmsResetStatus' = "POWERED_OFF"
        /\ sincePowerRemoval + d < OffTime
        /\ AgedRemoval(d) /\ KeepaliveTick(d)
    BY <1>6 DEF StayPoweredOff
  <2>2. /\ CounterLags' /\ sinceKeepalive' \in Nat
        /\ sinceKeepalive' <= sinceKeepalive + d
        /\ NeedsKeepalive => sinceKeepalive' < KeepaliveInterval
    BY <1>1, <2>1, KeepaliveKeeps DEF KeepaliveInTime
  <2>3. sincePowerRemoval' = sincePowerRemoval + d
    BY <2>1, AgedExactly, CounterTypes, ConstantTypes
  <2>4. NeedsKeepalive \/ sinceKeepalive' <= PauseWait + sincePowerRemoval'
    BY <1>1, <1>2, <2>1, <2>2, <2>3, CounterTypes DEF KeepaliveInTime
  <2>5. sinceKeepalive' < KeepaliveInterval
    BY <1>2, <2>1, <2>2, <2>3, <2>4, CounterTypes, ConstantTypes DEF KeepaliveCovers
  <2> QED
    BY <2>1, <2>2, <2>3, <2>4, <2>5 DEF KeepaliveInTime
<1>7. ASSUME PowerOn(d) PROVE Kept
  <2>1. /\ bmsResetStatus = "POWERED_OFF" /\ bmsResetStatus' = "POWERING_ON"
        /\ sincePowerOn' = 0
    BY <1>7 DEF PowerOn
  <2>2. CASE NeedsKeepalive
    <3>1. stillAlive' = StillAliveMax /\ sinceKeepalive' = 0
      BY <1>7, <2>2 DEF PowerOn
    <3> QED
      BY <2>1, <2>2, <3>1, FullCounter, CounterTypes, ConstantTypes
      DEF KeepaliveInTime, KeepaliveCovers
  <2>3. CASE ~NeedsKeepalive
    <3>1. AgedKeepalive(d) /\ UNCHANGED stillAlive
      BY <1>7, <2>3 DEF PowerOn
    <3>2. CounterLags'
      BY <1>1, <1>3, <3>1, LagGrows
    <3>3. sinceKeepalive' <= PauseWait + OffTime
      BY <1>1, <1>2, <1>3, <2>1, <2>3, <3>1, CounterTypes, ConstantTypes DEF KeepaliveInTime
    <3> QED
      BY <1>2, <1>3, <2>1, <2>3, <3>1, <3>2, <3>3, CounterTypes, ConstantTypes
      DEF KeepaliveInTime, KeepaliveCovers
  <2> QED
    BY <2>2, <2>3
<1>8. ASSUME AwaitWarmup(d) PROVE Kept
  <2>1. /\ bmsResetStatus = "POWERING_ON" /\ bmsResetStatus' = "POWERING_ON"
        /\ sincePowerOn + d < WarmupTime
        /\ AgedPowerOn(d) /\ KeepaliveTick(d)
    BY <1>8 DEF AwaitWarmup
  <2>2. /\ CounterLags' /\ sinceKeepalive' \in Nat
        /\ sinceKeepalive' <= sinceKeepalive + d
        /\ NeedsKeepalive => sinceKeepalive' < KeepaliveInterval
    BY <1>1, <2>1, KeepaliveKeeps DEF KeepaliveInTime
  <2>3. sincePowerOn' = sincePowerOn + d
    BY <2>1, AgedExactly, CounterTypes, ConstantTypes
  <2>4. NeedsKeepalive \/ sinceKeepalive' <= PauseWait + OffTime + sincePowerOn'
    BY <1>1, <1>2, <2>1, <2>2, <2>3, CounterTypes, ConstantTypes DEF KeepaliveInTime
  <2>5. sinceKeepalive' < KeepaliveInterval
    BY <1>2, <2>1, <2>2, <2>3, <2>4, CounterTypes, ConstantTypes DEF KeepaliveCovers
  <2> QED
    BY <2>1, <2>2, <2>3, <2>4, <2>5 DEF KeepaliveInTime
<1> QED
  BY <1>1, <1>2, <1>4, <1>5, <1>6, <1>7, <1>8
  DEF HandleBmsPower, StandStill, StayIdle, SkipPeriod, RunPeriodic, StartBmsReset,
      GiveUp, FinishReset

(***************************************************************************)
(* The 1 s phase takes one from the counter, and finds it above zero.      *)
(***************************************************************************)
LEMMA SecondWatched ==
  ASSUME KeepaliveCovers, IInv, AliveInv, Watched, Second
  PROVE  ~batteryMissing' /\ CounterLags' /\ KeepaliveInTime'
<1>1. CounterLags /\ KeepaliveInTime
  BY DEF AliveInv
<1>2. secondDue /\ ~secondDue' /\ UNCHANGED bmsClocks /\ UNCHANGED bmsResetStatus
  BY DEF Second
<1>3. stillAlive >= 1
  BY <1>1, <1>2, CounterTypes, ConstantTypes DEF CounterLags, KeepaliveInTime, KeepaliveCovers
<1>4. stillAlive' = stillAlive - 1 /\ ~batteryMissing'
  BY <1>3, CounterTypes DEF Second, CountDownAlive
<1>5. CounterLags'
  BY <1>1, <1>2, <1>4, CounterTypes, ConstantTypes DEF CounterLags, bmsClocks
<1> QED
  BY <1>1, <1>2, <1>4, <1>5 DEF KeepaliveInTime, bmsClocks

\* A frame or a command leaves the reset where it was, and can only fill the counter.
LEMMA OthersWatched ==
  ASSUME IInv, CounterLags, KeepaliveInTime,
         UNCHANGED <<bmsResetStatus, bmsClocks, secondDue>>,
         stillAlive' = stillAlive \/ stillAlive' = StillAliveMax
  PROVE  CounterLags' /\ KeepaliveInTime'
<1>1. KeepaliveInTime' /\ UNCHANGED <<sinceKeepalive, secondDue>>
  BY DEF KeepaliveInTime, bmsClocks
<1>2. CounterLags'
  <2>1. CASE stillAlive' = stillAlive
    BY <1>1, <2>1 DEF CounterLags
  <2>2. CASE stillAlive' = StillAliveMax
    BY <1>1, <2>2, FullCounter, CounterTypes
  <2> QED
    BY <2>1, <2>2
<1> QED
  BY <1>1, <1>2

\* A step other than a start keeps the invariant.
LEMMA WatchGoesOn ==
  ASSUME KeepaliveCovers, IInv, AliveInv, Next, Watched, Watched'
  PROVE  AliveInv'
<1>1. /\ Enabled /\ ~batteryMissing /\ ~equipmentStop /\ CounterLags /\ KeepaliveInTime
      /\ bmsResetStatus # "IDLE" /\ bmsResetStatus' # "IDLE"
  BY DEF AliveInv, Watched
<1>2. ~equipmentStop'
  <2>1. PICK d \in {0, 1} : Observe(d)
    BY StepSound
  <2> QED
    BY <1>1, <2>1 DEF Observe, Watched
<1>3. ~batteryMissing' /\ CounterLags' /\ KeepaliveInTime'
  <2>1. ASSUME NEW d \in {0, 1}, Handler(d)
        PROVE  ~batteryMissing' /\ CounterLags' /\ KeepaliveInTime'
    BY <1>1, <2>1, HandlerWatched DEF Handler
  <2>2. CASE Second
    BY <2>2, SecondWatched
  <2>3. CASE BmsFrame
    BY <1>1, <2>3, OthersWatched DEF BmsFrame
  <2>4. ~MqttReset
    BY <1>1 DEF MqttReset, RemoteReset, StartBmsReset
  <2>5. ASSUME NEW c \in Commands, Command(c)
        PROVE  ~batteryMissing' /\ CounterLags' /\ KeepaliveInTime'
    BY <1>1, <2>5, OthersWatched DEF Command, bmsVars
  <2> QED
    BY <2>1, <2>2, <2>3, <2>4, <2>5 DEF Next
<1> QED
  BY <1>1, <1>2, <1>3 DEF AliveInv, Enabled

LEMMA AliveStep ==
  ASSUME KeepaliveCovers, IInv, AliveInv, Next
  PROVE  AliveInv'
<1> SUFFICES ASSUME Watched'
             PROVE  AliveInv'
  BY DEF AliveInv
<1>1. CASE bmsResetStatus = "IDLE"
  <2>1. bmsResetStatus' # "IDLE"
    BY DEF Watched
  <2>2. ASSUME NEW d \in {0, 1}, Handler(d) PROVE AliveInv'
    <3>1. RunPeriodic(d, lowSoc, balancing, current)
      BY <1>1, <2>1, <2>2 DEF Handler, HandleBmsPower, StandStill, StayIdle, SkipPeriod,
         CutPower, GiveUp, AwaitPause, StayPoweredOff, PowerOn, AwaitWarmup, FinishReset
    <3> QED
      BY <2>2, <3>1, StartWatched DEF Handler, RunPeriodic
  <2>3. CASE MqttReset
    BY <2>3, StartWatched DEF MqttReset, RemoteReset
  <2> QED
    BY <1>1, <2>1, <2>2, <2>3 DEF Next, Second, BmsFrame, Command, bmsVars
<1>2. CASE bmsResetStatus # "IDLE"
  <2>1. PICK d \in {0, 1} : Observe(d)
    BY StepSound
  <2>2. heardAtStart
    BY <1>2, <2>1 DEF Observe, Watched
  <2> QED
    BY <1>2, <2>2, WatchGoesOn DEF Watched
<1> QED
  BY <1>1, <1>2

(***************************************************************************)
(* A reset that begins with a fresh alive counter and meets no equipment   *)
(* stop is over before the safety layer can call the battery missing,      *)
(* although not one frame of the BMS may come: for all durations that are  *)
(* related as the comment above BMS_RESET_CAN_KEEPALIVE_INTERVAL_MS wants. *)
(***************************************************************************)
THEOREM KeepaliveDoesItsJob == KeepaliveCovers => (Spec => []ResetIsNotAMissingBattery)
<1> SUFFICES ASSUME KeepaliveCovers
             PROVE  Spec => []ResetIsNotAMissingBattery
  OBVIOUS
<1>1. Init => AliveInv
  BY DEF Init, AliveInv, Watched
<1>2. IInv /\ AliveInv /\ [Next]_vars => AliveInv'
  <2> SUFFICES ASSUME IInv, AliveInv, [Next]_vars
               PROVE  AliveInv'
    OBVIOUS
  <2>1. CASE Next
    BY <2>1, AliveStep
  <2>2. CASE UNCHANGED vars
    BY <2>2 DEF vars, pauseVars, bmsVars, bmsClocks, readings, observers, AliveInv,
                Watched, CounterLags, KeepaliveInTime, Enabled
  <2> QED
    BY <2>1, <2>2
<1>3. AliveInv => ResetIsNotAMissingBattery
  BY DEF AliveInv, Watched, ResetIsNotAMissingBattery
<1> QED
  BY <1>1, <1>2, <1>3, Invariance, PTL DEF Spec

-----------------------------------------------------------------------------
(***************************************************************************)
(* Bounded response.  A reset in progress is a bounded number of seconds   *)
(* away from its end, and an idle timer from the next reset.  No step      *)
(* takes them farther away, an equipment stop included, and every second   *)
(* the handler is not held up brings them closer.  With the fairness of    *)
(* the calls, ResetEnds and PeriodicResetBegins follow.                    *)
(***************************************************************************)
\* What is left of a time t at the given age.
Left(t, age) == IF age >= t THEN 0 ELSE t - age

\* Seconds until the reset is over.
SecondsToEnd ==
  CASE bmsResetStatus = "WAITING_FOR_PAUSE" ->
         Left(GiveUpTime, sincePowerRemoval) + OffTime + WarmupTime + 3
    [] bmsResetStatus = "POWERED_OFF" -> Left(OffTime, sincePowerRemoval) + WarmupTime + 2
    [] bmsResetStatus = "POWERING_ON" -> Left(WarmupTime, sincePowerOn) + 1
    [] OTHER -> 0

\* Seconds until the periodic reset begins, one skipped period included.
SecondsToBegin ==
  Left(ResetInterval, sincePowerRemoval)
    + (IF balancingPeriodSkipped THEN 0 ELSE ResetInterval + 1)

(***************************************************************************)
(* No step puts off the end of a reset, and each second without an         *)
(* equipment stop brings it closer.                                        *)
(***************************************************************************)
EndComesCloser ==
  [][bmsResetStatus # "IDLE" =>
       /\ SecondsToEnd' \in Nat /\ SecondsToEnd' <= SecondsToEnd
       /\ ~equipmentStop /\ Handler(1) => SecondsToEnd' < SecondsToEnd]_vars

(***************************************************************************)
(* Between two resets no step puts off the next one, and each second in    *)
(* which neither an equipment stop nor a low SOC forbids it brings it      *)
(* closer: a balancing pack costs one period at most.                      *)
(***************************************************************************)
BeginningComesCloser ==
  [][bmsResetStatus = "IDLE" /\ bmsResetStatus' = "IDLE" =>
       /\ SecondsToBegin' \in Nat /\ SecondsToBegin' <= SecondsToBegin
       /\ Periodic /\ ~equipmentStop /\ ~(DeferLowSoc /\ lowSoc) /\ Handler(1) =>
            SecondsToBegin' < SecondsToBegin]_vars

\* What is left never grows while the age advances, and shrinks while there is some.
LEMMA LeftShrinks ==
  ASSUME NEW t \in Nat, NEW cap \in Nat, t <= cap, NEW age \in Nat, NEW d \in {0, 1}
  PROVE  /\ Left(t, age) \in Nat /\ Left(t, age) <= t
         /\ Left(t, 0) = t
         /\ Left(t, AtMost(age + d, cap)) \in Nat
         /\ Left(t, AtMost(age + d, cap)) <= Left(t, age)
         /\ d = 1 /\ age < t => Left(t, AtMost(age + d, cap)) < Left(t, age)
  BY DEF Left, AtMost

\* The times the measures count down are below the caps of the ages they are read from.
LEMMA CountedTimes ==
  /\ GiveUpTime \in Nat /\ GiveUpTime <= RemovalCap
  /\ ResetInterval \in Nat /\ ResetInterval <= RemovalCap
  BY DurationAssumption DEF RemovalCap

\* What is left after a call of the handler that leaves the timestamps alone.
LEMMA LeftAfterCall ==
  ASSUME IInv, NEW d \in {0, 1}
  PROVE  /\ Left(GiveUpTime, sincePowerRemoval) \in Nat
         /\ Left(OffTime, sincePowerRemoval) \in Nat
         /\ Left(WarmupTime, sincePowerOn) \in Nat
         /\ AgedRemoval(d) =>
              /\ Left(GiveUpTime, sincePowerRemoval') \in Nat
              /\ Left(GiveUpTime, sincePowerRemoval') <= Left(GiveUpTime, sincePowerRemoval)
              /\ d = 1 /\ sincePowerRemoval < GiveUpTime =>
                   Left(GiveUpTime, sincePowerRemoval') < Left(GiveUpTime, sincePowerRemoval)
              /\ Left(OffTime, sincePowerRemoval') \in Nat
              /\ Left(OffTime, sincePowerRemoval') <= Left(OffTime, sincePowerRemoval)
              /\ d = 1 /\ sincePowerRemoval < OffTime =>
                   Left(OffTime, sincePowerRemoval') < Left(OffTime, sincePowerRemoval)
         /\ AgedPowerOn(d) =>
              /\ Left(WarmupTime, sincePowerOn') \in Nat
              /\ Left(WarmupTime, sincePowerOn') <= Left(WarmupTime, sincePowerOn)
              /\ d = 1 /\ sincePowerOn < WarmupTime =>
                   Left(WarmupTime, sincePowerOn') < Left(WarmupTime, sincePowerOn)
<1>1. /\ sincePowerRemoval \in Nat /\ sincePowerOn \in Nat
      /\ OffTime \in Nat /\ WarmupTime \in Nat /\ RemovalCap \in Nat
      /\ GiveUpTime \in Nat /\ GiveUpTime <= RemovalCap /\ OffTime <= RemovalCap
      /\ WarmupTime <= WarmupTime
  BY CounterTypes, CountedTimes, ConstantTypes
<1>2. /\ Left(GiveUpTime, sincePowerRemoval) \in Nat
      /\ Left(OffTime, sincePowerRemoval) \in Nat
      /\ Left(WarmupTime, sincePowerOn) \in Nat
  BY <1>1, LeftShrinks
<1>3. ASSUME AgedRemoval(d)
      PROVE  /\ Left(GiveUpTime, sincePowerRemoval') \in Nat
             /\ Left(GiveUpTime, sincePowerRemoval') <= Left(GiveUpTime, sincePowerRemoval)
             /\ d = 1 /\ sincePowerRemoval < GiveUpTime =>
                  Left(GiveUpTime, sincePowerRemoval') < Left(GiveUpTime, sincePowerRemoval)
             /\ Left(OffTime, sincePowerRemoval') \in Nat
             /\ Left(OffTime, sincePowerRemoval') <= Left(OffTime, sincePowerRemoval)
             /\ d = 1 /\ sincePowerRemoval < OffTime =>
                  Left(OffTime, sincePowerRemoval') < Left(OffTime, sincePowerRemoval)
  BY <1>1, <1>3, LeftShrinks DEF AgedRemoval
<1>4. ASSUME AgedPowerOn(d)
      PROVE  /\ Left(WarmupTime, sincePowerOn') \in Nat
             /\ Left(WarmupTime, sincePowerOn') <= Left(WarmupTime, sincePowerOn)
             /\ d = 1 /\ sincePowerOn < WarmupTime =>
                  Left(WarmupTime, sincePowerOn') < Left(WarmupTime, sincePowerOn)
  BY <1>1, <1>4, LeftShrinks DEF AgedPowerOn
<1> QED
  BY <1>2, <1>3, <1>4

\* A reset is only in progress when one is configured.
ResetIsConfigured == bmsResetStatus # "IDLE" => Enabled

LEMMA ConfiguredInvariance == Spec => []ResetIsConfigured
<1>1. Init => ResetIsConfigured
  BY DEF Init, BmsInit, ResetIsConfigured
<1>2. ResetIsConfigured /\ [Next]_vars => ResetIsConfigured'
  <2> SUFFICES ASSUME ResetIsConfigured, [Next]_vars
               PROVE  bmsResetStatus' = bmsResetStatus \/ Enabled
    BY DEF ResetIsConfigured, Enabled
  <2>1. ASSUME NEW d \in {0, 1}, Handler(d)
        PROVE  bmsResetStatus' = bmsResetStatus \/ Enabled
    BY <2>1 DEF Handler, HandleBmsPower, StandStill
  <2>2. CASE MqttReset
    BY <2>2 DEF MqttReset, RemoteReset, StartBmsReset
  <2> QED
    BY <2>1, <2>2 DEF Next, Second, BmsFrame, Command, vars, bmsVars
<1> QED
  BY <1>1, <1>2, PTL DEF Spec

(***************************************************************************)
(* A call of handle_BMSpower() during a reset: one step per branch.        *)
(***************************************************************************)
LEMMA EndStep ==
  ASSUME IInv, ResetIsConfigured, bmsResetStatus # "IDLE", NEW d \in {0, 1},
         HandleBmsPower(d, lowSoc, balancing, current)
  PROVE  /\ SecondsToEnd' \in Nat /\ SecondsToEnd' <= SecondsToEnd
         /\ ~equipmentStop /\ d = 1 => SecondsToEnd' < SecondsToEnd
<1> DEFINE Nearer == SecondsToEnd' \in Nat /\ SecondsToEnd' < SecondsToEnd
           Goal == /\ SecondsToEnd' \in Nat /\ SecondsToEnd' <= SecondsToEnd
                   /\ ~equipmentStop /\ d = 1 => SecondsToEnd' < SecondsToEnd
           g == Left(GiveUpTime, sincePowerRemoval)
           o == Left(OffTime, sincePowerRemoval)
           w == Left(WarmupTime, sincePowerOn)
<1>1. /\ g \in Nat /\ o \in Nat /\ w \in Nat
      /\ OffTime \in Nat /\ WarmupTime \in Nat
      /\ Left(OffTime, 0) = OffTime /\ Left(WarmupTime, 0) = WarmupTime
  BY LeftAfterCall, ConstantTypes DEF Left
<1>2. /\ bmsResetStatus = "WAITING_FOR_PAUSE" => SecondsToEnd = g + OffTime + WarmupTime + 3
      /\ bmsResetStatus = "POWERED_OFF" => SecondsToEnd = o + WarmupTime + 2
      /\ bmsResetStatus = "POWERING_ON" => SecondsToEnd = w + 1
  BY DEF SecondsToEnd
<1>3. /\ bmsResetStatus' = "WAITING_FOR_PAUSE" => SecondsToEnd' = g' + OffTime + WarmupTime + 3
      /\ bmsResetStatus' = "POWERED_OFF" => SecondsToEnd' = o' + WarmupTime + 2
      /\ bmsResetStatus' = "POWERING_ON" => SecondsToEnd' = w' + 1
      /\ bmsResetStatus' = "IDLE" => SecondsToEnd' = 0
  BY DEF SecondsToEnd
<1>4. bmsResetStatus \in {"WAITING_FOR_PAUSE", "POWERED_OFF", "POWERING_ON"}
  BY DEF IInv, TypeOK, BmsTypeOK
<1>5. /\ AgedRemoval(d) => /\ g' \in Nat /\ g' <= g /\ o' \in Nat /\ o' <= o
                           /\ d = 1 /\ sincePowerRemoval < GiveUpTime => g' < g
                           /\ d = 1 /\ sincePowerRemoval < OffTime => o' < o
      /\ AgedPowerOn(d) => /\ w' \in Nat /\ w' <= w
                           /\ d = 1 /\ sincePowerOn < WarmupTime => w' < w
  BY LeftAfterCall
<1>6. /\ sincePowerRemoval \in Nat /\ sincePowerOn \in Nat
      /\ GiveUpTime \in Nat
  BY CounterTypes
<1> HIDE DEF g, o, w
<1>a. ASSUME Age(d), UNCHANGED bmsResetStatus,
             \/ equipmentStop
             \/ bmsResetStatus = "WAITING_FOR_PAUSE" /\ sincePowerRemoval < GiveUpTime
      PROVE  Goal
  <2>1. AgedRemoval(d) /\ AgedPowerOn(d)
    BY <1>a DEF Age, AgedRemoval, AgedPowerOn
  <2>2. CASE bmsResetStatus = "WAITING_FOR_PAUSE"
    BY <1>1, <1>2, <1>3, <1>5, <1>a, <2>1, <2>2
  <2>3. CASE bmsResetStatus = "POWERED_OFF"
    BY <1>1, <1>2, <1>3, <1>5, <1>a, <2>1, <2>3
  <2>4. CASE bmsResetStatus = "POWERING_ON"
    BY <1>1, <1>2, <1>3, <1>5, <1>a, <2>1, <2>4
  <2> QED
    BY <1>4, <2>2, <2>3, <2>4
<1>b. ASSUME CutPower(d, current) PROVE Goal
  <2>1. /\ bmsResetStatus = "WAITING_FOR_PAUSE" /\ bmsResetStatus' = "POWERED_OFF"
        /\ o' = OffTime
    BY <1>1, <1>b DEF CutPower, o
  <2> QED
    BY <1>1, <1>2, <1>3, <2>1
<1>c. ASSUME bmsResetStatus' = "IDLE" PROVE Goal
  BY <1>1, <1>2, <1>3, <1>4, <1>c
<1>d. ASSUME StayPoweredOff(d) PROVE Goal
  <2>1. /\ bmsResetStatus = "POWERED_OFF" /\ bmsResetStatus' = "POWERED_OFF"
        /\ AgedRemoval(d) /\ sincePowerRemoval + d < OffTime
    BY <1>d DEF StayPoweredOff
  <2>2. sincePowerRemoval < OffTime
    BY <1>1, <1>6, <2>1
  <2> QED
    BY <1>1, <1>2, <1>3, <1>5, <2>1, <2>2
<1>e. ASSUME PowerOn(d) PROVE Goal
  <2>1. /\ bmsResetStatus = "POWERED_OFF" /\ bmsResetStatus' = "POWERING_ON"
        /\ w' = WarmupTime
    BY <1>1, <1>e DEF PowerOn, w
  <2> QED
    BY <1>1, <1>2, <1>3, <2>1
<1>f. ASSUME AwaitWarmup(d) PROVE Goal
  <2>1. /\ bmsResetStatus = "POWERING_ON" /\ bmsResetStatus' = "POWERING_ON"
        /\ AgedPowerOn(d) /\ sincePowerOn + d < WarmupTime
    BY <1>f DEF AwaitWarmup
  <2>2. sincePowerOn < WarmupTime
    BY <1>1, <1>6, <2>1
  <2> QED
    BY <1>1, <1>2, <1>3, <1>5, <2>1, <2>2
<1>7. \/ StandStill(d) /\ equipmentStop
      \/ AwaitPause(d, current)
      \/ CutPower(d, current)
      \/ bmsResetStatus' = "IDLE"
      \/ StayPoweredOff(d)
      \/ PowerOn(d)
      \/ AwaitWarmup(d)
  BY DEF HandleBmsPower, ResetIsConfigured, StandStill, StayIdle, SkipPeriod, RunPeriodic,
         StartBmsReset, GiveUp, FinishReset
<1>8. ASSUME AwaitPause(d, current) PROVE Goal
  <2>1. sincePowerRemoval < GiveUpTime
    BY <1>6, <1>8 DEF AwaitPause
  <2> QED
    BY <1>8, <1>a, <2>1 DEF AwaitPause
<1>9. ASSUME StandStill(d), equipmentStop PROVE Goal
  BY <1>9, <1>a DEF StandStill
<1> QED
  BY <1>7, <1>8, <1>9, <1>b, <1>c, <1>d, <1>e, <1>f

(***************************************************************************)
(* A call of handle_BMSpower() between two resets.                         *)
(***************************************************************************)
LEMMA BeginStep ==
  ASSUME IInv, bmsResetStatus = "IDLE", bmsResetStatus' = "IDLE", NEW d \in {0, 1},
         HandleBmsPower(d, lowSoc, balancing, current)
  PROVE  /\ SecondsToBegin' \in Nat /\ SecondsToBegin' <= SecondsToBegin
         /\ Periodic /\ ~equipmentStop /\ ~(DeferLowSoc /\ lowSoc) /\ d = 1 =>
              SecondsToBegin' < SecondsToBegin
<1> DEFINE Allowed == Periodic /\ ~equipmentStop /\ ~(DeferLowSoc /\ lowSoc) /\ d = 1
           Goal == /\ SecondsToBegin' \in Nat /\ SecondsToBegin' <= SecondsToBegin
                   /\ Allowed => SecondsToBegin' < SecondsToBegin
           r == Left(ResetInterval, sincePowerRemoval)
<1>1. /\ r \in Nat /\ ResetInterval \in Nat /\ Left(ResetInterval, 0) = ResetInterval
      /\ AgedRemoval(d) => /\ r' \in Nat /\ r' <= r
                           /\ d = 1 /\ sincePowerRemoval < ResetInterval => r' < r
  <2>1. /\ ResetInterval \in Nat /\ RemovalCap \in Nat /\ ResetInterval <= RemovalCap
        /\ sincePowerRemoval \in Nat
    BY CounterTypes, CountedTimes, ConstantTypes
  <2>2. /\ Left(ResetInterval, sincePowerRemoval) \in Nat
        /\ Left(ResetInterval, 0) = ResetInterval
    BY <2>1, LeftShrinks
  <2>3. ASSUME AgedRemoval(d)
        PROVE  /\ r' \in Nat /\ r' <= r
               /\ d = 1 /\ sincePowerRemoval < ResetInterval => r' < r
    BY <2>1, <2>3, LeftShrinks DEF AgedRemoval
  <2> QED
    BY <2>1, <2>2, <2>3
<1>2. sincePowerRemoval \in Nat
  BY CounterTypes
<1>3. /\ balancingPeriodSkipped => SecondsToBegin = r + 0
      /\ ~balancingPeriodSkipped => SecondsToBegin = r + (ResetInterval + 1)
      /\ balancingPeriodSkipped' => SecondsToBegin' = r' + 0
      /\ ~balancingPeriodSkipped' => SecondsToBegin' = r' + (ResetInterval + 1)
  BY Zenon DEF SecondsToBegin
<1>4. \A k \in {0, ResetInterval + 1} :
        /\ r \in Nat /\ r' \in Nat /\ r' <= r => r' + k \in Nat /\ r' + k <= r + k
        /\ r \in Nat /\ r' \in Nat /\ r' < r => r' + k < r + k
  BY <1>1
<1>a. ASSUME SkipPeriod(d, lowSoc, balancing) PROVE Goal
  <2>1. /\ ~balancingPeriodSkipped /\ balancingPeriodSkipped' /\ sincePowerRemoval' = 0
    BY <1>a DEF SkipPeriod, Verdict
  <2>2. r' = ResetInterval
    BY <1>1, <2>1
  <2> HIDE DEF r
  <2> QED
    BY <1>1, <1>3, <2>1, <2>2
<1>b. ASSUME AgedRemoval(d), UNCHANGED balancingPeriodSkipped,
             Allowed => sincePowerRemoval < ResetInterval
      PROVE  Goal
  <2> HIDE DEF r
  <2>1. /\ r \in Nat /\ r' \in Nat /\ r' <= r
        /\ Allowed => r' < r
    BY <1>1, <1>b
  <2>2. CASE balancingPeriodSkipped
    <3>1. SecondsToBegin = r + 0 /\ SecondsToBegin' = r' + 0
      BY Zenon, <1>3, <1>b, <2>2
    <3> QED
      BY <1>4, <2>1, <3>1
  <2>3. CASE ~balancingPeriodSkipped
    <3>1. /\ SecondsToBegin = r + (ResetInterval + 1)
          /\ SecondsToBegin' = r' + (ResetInterval + 1)
      BY Zenon, <1>3, <1>b, <2>3
    <3> QED
      BY <1>4, <2>1, <3>1
  <2> QED
    BY <2>2, <2>3
<1>c. ASSUME StandStill(d) PROVE Goal
  <2>1. ~Allowed
    BY <1>c DEF StandStill, Enabled
  <2> QED
    BY <1>b, <1>c, <2>1 DEF StandStill, Age, AgedRemoval
<1>d. ASSUME StayIdle(d, lowSoc, balancing) PROVE Goal
  <2>1. Allowed => sincePowerRemoval < ResetInterval
    <3>1. ASSUME Allowed PROVE ~Due(d)
      BY <1>d, <3>1 DEF StayIdle, Verdict
    <3> QED
      BY <1>1, <1>2, <3>1 DEF Due
  <2> QED
    BY <1>b, <1>d, <2>1 DEF StayIdle, Age, AgedRemoval
<1>5. \/ StandStill(d)
      \/ StayIdle(d, lowSoc, balancing)
      \/ SkipPeriod(d, lowSoc, balancing)
  BY DEF HandleBmsPower, RunPeriodic, StartBmsReset, CutPower, GiveUp, AwaitPause,
         StayPoweredOff, PowerOn, AwaitWarmup, FinishReset
<1> QED
  BY <1>5, <1>a, <1>c, <1>d

\* Whatever happens between two calls leaves the seconds to count where they are.
LEMMA SecondsKeep ==
  ASSUME IInv, UNCHANGED <<bmsResetStatus, bmsClocks, balancingPeriodSkipped>>
  PROVE  /\ SecondsToEnd \in Nat /\ SecondsToEnd' = SecondsToEnd
         /\ SecondsToBegin \in Nat /\ SecondsToBegin' = SecondsToBegin
<1>1. SecondsToEnd' = SecondsToEnd /\ SecondsToBegin' = SecondsToBegin
  BY DEF SecondsToEnd, SecondsToBegin, bmsClocks
<1>2. SecondsToEnd \in Nat
  <2>1. /\ Left(GiveUpTime, sincePowerRemoval) \in Nat
        /\ Left(OffTime, sincePowerRemoval) \in Nat
        /\ Left(WarmupTime, sincePowerOn) \in Nat
    BY LeftAfterCall
  <2> QED
    BY <2>1, ConstantTypes DEF SecondsToEnd
<1>3. SecondsToBegin \in Nat
  <2>1. Left(ResetInterval, sincePowerRemoval) \in Nat
    BY CounterTypes, CountedTimes, ConstantTypes DEF Left
  <2> QED
    BY <2>1, ConstantTypes DEF SecondsToBegin
<1> QED
  BY <1>1, <1>2, <1>3

(***************************************************************************)
(* A reset in progress is over within the seconds of the wait for the      *)
(* pause, of the off time and of the warm-up that no equipment stop takes  *)
(* away; nothing any task does puts its end off.                           *)
(***************************************************************************)
THEOREM ResetEndsInBoundedTime == Spec => EndComesCloser
<1> DEFINE A == bmsResetStatus # "IDLE" =>
                  /\ SecondsToEnd' \in Nat /\ SecondsToEnd' <= SecondsToEnd
                  /\ ~equipmentStop /\ Handler(1) => SecondsToEnd' < SecondsToEnd
<1>1. IInv /\ ResetIsConfigured /\ [Next]_vars => [A]_vars
  <2> SUFFICES ASSUME IInv, ResetIsConfigured, Next, bmsResetStatus # "IDLE"
               PROVE  /\ SecondsToEnd' \in Nat /\ SecondsToEnd' <= SecondsToEnd
                      /\ ~equipmentStop /\ Handler(1) => SecondsToEnd' < SecondsToEnd
    OBVIOUS
  <2>1. ASSUME Handler(1) PROVE A
    BY <2>1, EndStep DEF Handler
  <2>2. ASSUME Handler(0)
        PROVE  SecondsToEnd' \in Nat /\ SecondsToEnd' <= SecondsToEnd
    BY <2>2, EndStep DEF Handler
  <2>3. ASSUME Second \/ BmsFrame \/ \E c \in Commands : Command(c)
        PROVE  SecondsToEnd' \in Nat /\ SecondsToEnd' <= SecondsToEnd
    <3>1. UNCHANGED <<bmsResetStatus, bmsClocks, balancingPeriodSkipped>>
      BY <2>3 DEF Second, BmsFrame, Command, bmsVars
    <3> QED
      BY <3>1, SecondsKeep
  <2>4. ~MqttReset
    BY DEF MqttReset, RemoteReset, StartBmsReset
  <2> QED
    BY <2>1, <2>2, <2>3, <2>4 DEF Next
<1> QED
  BY <1>1, Invariance, ConfiguredInvariance, PTL DEF Spec, EndComesCloser

(***************************************************************************)
(* The periodic reset begins within two intervals of seconds in which      *)
(* neither an equipment stop nor a low SOC forbids it, however often a     *)
(* pack reports balancing.                                                 *)
(***************************************************************************)
THEOREM ResetBeginsInBoundedTime == Spec => BeginningComesCloser
<1> DEFINE Allowed == Periodic /\ ~equipmentStop /\ ~(DeferLowSoc /\ lowSoc)
           A == bmsResetStatus = "IDLE" /\ bmsResetStatus' = "IDLE" =>
                  /\ SecondsToBegin' \in Nat /\ SecondsToBegin' <= SecondsToBegin
                  /\ Periodic /\ ~equipmentStop /\ ~(DeferLowSoc /\ lowSoc) /\ Handler(1) =>
                       SecondsToBegin' < SecondsToBegin
<1>1. IInv /\ [Next]_vars => [A]_vars
  <2> SUFFICES ASSUME IInv, Next, bmsResetStatus = "IDLE", bmsResetStatus' = "IDLE"
               PROVE  /\ SecondsToBegin' \in Nat /\ SecondsToBegin' <= SecondsToBegin
                      /\ Allowed /\ Handler(1) => SecondsToBegin' < SecondsToBegin
    OBVIOUS
  <2>1. ASSUME Handler(1)
        PROVE  /\ SecondsToBegin' \in Nat /\ SecondsToBegin' <= SecondsToBegin
               /\ Allowed => SecondsToBegin' < SecondsToBegin
    BY <2>1, BeginStep DEF Handler
  <2>2. ASSUME Handler(0)
        PROVE  SecondsToBegin' \in Nat /\ SecondsToBegin' <= SecondsToBegin
    BY <2>2, BeginStep DEF Handler
  <2>3. ASSUME Second \/ BmsFrame \/ \E c \in Commands : Command(c)
        PROVE  SecondsToBegin' \in Nat /\ SecondsToBegin' <= SecondsToBegin
    <3>1. UNCHANGED <<bmsResetStatus, bmsClocks, balancingPeriodSkipped>>
      BY <2>3 DEF Second, BmsFrame, Command, bmsVars
    <3> QED
      BY <3>1, SecondsKeep
  <2>4. ~MqttReset
    BY DEF MqttReset, RemoteReset, StartBmsReset
  <2> QED
    BY <2>1, <2>2, <2>3, <2>4 DEF Next
<1> QED
  BY <1>1, Invariance, PTL DEF Spec, BeginningComesCloser

=============================================================================
