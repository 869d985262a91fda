---------------------------- MODULE CoreLoop_proofs ----------------------------
(***************************************************************************)
(* Proofs about the parts of CoreLoop that keep to variables of their own: *)
(* the stop button, the automatic precharge, and the counters and          *)
(* permissions of the packs, for all delays, packs and installations.      *)
(*                                                                         *)
(* Each part has a lemma that says which actions change its variables, and *)
(* an inductive invariant of its own.                                      *)
(***************************************************************************)
EXTENDS CoreLoop, TLAPS

\* The times are numbers.
LEMMA TimeTypes ==
  /\ DebounceDelay \in Nat /\ LongPress \in Nat
  /\ MaxPrecharge \in Nat /\ MaxPrecharge > 0
  /\ StillAlive \in Nat /\ StillAlive > 0
  /\ MaxDrift \in Nat
  /\ PackIds \subseteq {2, 3}
  BY ButtonAssumption, PrechargeAssumption, AlivenessAssumption, ParallelAssumption

\* An age counted up to a bound stays between 0 and the bound.
LEMMA UpToBound ==
  ASSUME NEW bound \in Nat, NEW age \in Nat
  PROVE  /\ UpTo(bound, age) \in 0..bound
         /\ UpTo(bound, age) <= age
         /\ age <= bound => UpTo(bound, age) = age
         /\ UpTo(bound, age) < bound => UpTo(bound, age) = age
  BY DEF UpTo

-----------------------------------------------------------------------------
(***************************************************************************)
(* The stop button.                                                        *)
(***************************************************************************)
\* Only the 10 ms phase and the switch itself change the button.
LEMMA ButtonSteps ==
  ASSUME [Next]_vars
  PROVE  /\ install' = install
         /\ TenMs \/ Switch \/ UNCHANGED <<buttonVars, stableCalls>>
<1>1. CASE TenMs
  BY <1>1 DEF TenMs, plantVars
<1>2. CASE Second
  BY <1>2 DEF Second, SecondWith, ObserveSecond, buttonObservers
<1>3. ASSUME NEW p \in AllPacks, Frame(p)
      PROVE  UNCHANGED <<install, buttonVars, stableCalls>>
  BY <1>3 DEF Frame, buttonObservers
<1>4. CASE InverterFrame
  BY <1>4 DEF InverterFrame, buttonObservers, plantVars
<1>5. CASE Switch
  BY <1>5 DEF Switch, plantVars
<1>6. CASE Driver
  BY <1>6 DEF Driver, observers, buttonObservers, plantVars
<1>7. CASE ChangePermission
  BY <1>7 DEF ChangePermission, observers, buttonObservers, plantVars
<1>8. CASE Operator
  BY <1>8 DEF Operator, PauseFromOutside, ClearEvents, SwitchRecovery, SwitchVoltageLimits,
              observers, buttonObservers, plantVars
<1>9. CASE SetRemoteLimits
  BY <1>9 DEF SetRemoteLimits, plantVars, buttonObservers
<1>10. CASE MebReset \/ OtherEvent
  BY <1>10 DEF MebReset, OtherEvent, observers, plantVars, buttonObservers
<1>11. CASE UNCHANGED vars
  BY <1>11 DEF vars, observers, plantVars, buttonObservers
<1> QED
  BY <1>1, <1>2, <1>3, <1>4, <1>5, <1>6, <1>7, <1>8, <1>9, <1>10, <1>11 DEF Next

(***************************************************************************)
(* The code's age of the reading never exceeds the number of calls that    *)
(* have read the button alike.                                             *)
(***************************************************************************)
ButtonInv ==
  /\ ButtonTypeOK
  /\ install \in Installations
  /\ stableCalls \in Nat
  /\ debounceAge <= stableCalls
  /\ install.button = "NOT_CONNECTED" => debounceAge = 0

LEMMA ButtonInvInit == Init => ButtonInv
<1> SUFFICES ASSUME Init PROVE ButtonInv
  OBVIOUS
<1>1. engaged \in BOOLEAN /\ lastEngaged \in BOOLEAN /\ buttonPressed \in BOOLEAN
  BY Zenon DEF Init, ButtonInit
<1>2. debounceAge = 0 /\ pressAge = 0 /\ stableCalls = 0 /\ install \in Installations
  BY DEF Init, ButtonInit
<1> QED
  BY <1>1, <1>2, TimeTypes DEF ButtonInv, ButtonTypeOK

LEMMA ButtonInvNext == ButtonInv /\ [Next]_vars => ButtonInv'
<1> SUFFICES ASSUME ButtonInv, [Next]_vars PROVE ButtonInv'
  OBVIOUS
<1>1. install' = install
  BY ButtonSteps
<1>2. DebounceDelay + 1 \in Nat /\ debounceAge + 1 \in Nat /\ stableCalls + 1 \in Nat /\ pressAge + 1 \in Nat
  BY TimeTypes DEF ButtonInv, ButtonTypeOK
<1>3. CASE TenMs
  <2>1. CASE install.button = "NOT_CONNECTED"
    <3>1. UNCHANGED buttonVars /\ stableCalls' = 0
      BY <1>3, <2>1 DEF TenMs, MonitorButton, ObserveTenMs
    <3> QED
      BY <1>1, <2>1, <3>1 DEF ButtonInv, ButtonTypeOK, buttonVars
  <2>2. CASE install.button # "NOT_CONNECTED"
    <3>1. Debounce
      BY <1>3, <2>2 DEF TenMs, MonitorButton
    <3>2. stableCalls' = IF engaged # lastEngaged THEN 0 ELSE UpTo(DebounceDelay + 1, stableCalls + 1)
      BY <1>3, <2>2 DEF TenMs, ObserveTenMs
    <3>3. UpTo(DebounceDelay + 1, stableCalls + 1) \in Nat
      BY <1>2, UpToBound
    <3>4. StableFor \in 0..(DebounceDelay + 1) /\ StableFor <= stableCalls'
      BY <1>2, <3>2, UpToBound DEF StableFor, UpTo, ButtonInv, ButtonTypeOK
    <3>5. pressAge' \in 0..LongPress
      BY <1>2, <3>1, UpToBound, TimeTypes DEF Debounce
    <3>6. engaged' \in BOOLEAN /\ buttonPressed' \in BOOLEAN /\ lastEngaged' \in BOOLEAN
      BY Zenon, <3>1 DEF Debounce, ButtonInv, ButtonTypeOK
    <3>7. debounceAge' = StableFor
      BY <3>1 DEF Debounce
    <3> QED
      BY <1>1, <2>2, <3>2, <3>3, <3>4, <3>5, <3>6, <3>7 DEF ButtonInv, ButtonTypeOK
  <2> QED
    BY <2>1, <2>2
<1>4. CASE Switch
  <2>1. UNCHANGED <<lastEngaged, buttonPressed, debounceAge, pressAge, stableCalls>> /\ engaged' \in BOOLEAN
    BY Zenon, <1>4 DEF Switch, MoveSwitch, observers, buttonObservers
  <2> QED
    BY <1>1, <2>1 DEF ButtonInv, ButtonTypeOK
<1>5. CASE UNCHANGED <<buttonVars, stableCalls>>
  BY <1>1, <1>5 DEF ButtonInv, ButtonTypeOK, buttonVars
<1> QED
  BY <1>3, <1>4, <1>5, ButtonSteps

(***************************************************************************)
(* The button never acts on a reading that has not been stable for the     *)
(* debounce delay (debounce_button.cpp:17-24).                             *)
(***************************************************************************)
THEOREM ButtonIsDebounced == Spec => NoBounceActs
<1>1. ButtonInv /\ [Next]_vars => [buttonPressed' # buttonPressed => stableCalls >= DebounceDelay]_vars
  <2> SUFFICES ASSUME ButtonInv, [Next]_vars, buttonPressed' # buttonPressed
               PROVE  stableCalls >= DebounceDelay
    OBVIOUS
  <2>1. TenMs
    BY ButtonSteps DEF Switch, MoveSwitch, buttonVars
  <2>2. Debounce
    BY <2>1 DEF TenMs, MonitorButton, buttonVars
  <2>3. StableFor > DebounceDelay
    BY <2>2 DEF Debounce, Accepts
  <2>4. debounceAge + 1 > DebounceDelay
    BY <2>3, TimeTypes DEF StableFor, UpTo, ButtonInv, ButtonTypeOK
  <2> QED
    BY <2>4, TimeTypes DEF ButtonInv, ButtonTypeOK
<1> QED
  BY <1>1, ButtonInvInit, ButtonInvNext, PTL DEF Spec, NoBounceActs

(***************************************************************************)
(* A latching switch that has been accepted as engaged holds the stop,     *)
(* unless a command has lifted it (comm_equipmentstopbutton.cpp:45-52).    *)
(***************************************************************************)
SwitchHolds ==
  install.button = "LATCHING" /\ buttonPressed => equipmentStop \/ overridden

\* Nothing but the 10 ms phase and commands from outside change the stop.
LEMMA StopSteps ==
  ASSUME [Next]_vars
  PROVE  \/ TenMs
         \/ \E c \in {"PAUSE", "UNPAUSE", "STOP", "RESUME"} : PauseFromOutside(c)
         \/ UNCHANGED <<equipmentStop, overridden>>
<1>1. CASE Second
  BY <1>1 DEF Second, SecondWith, ObserveSecond, buttonObservers, UpdatePauseState
<1>2. ASSUME NEW p \in AllPacks, Frame(p)
      PROVE  UNCHANGED <<equipmentStop, overridden>>
  BY <1>2 DEF Frame, buttonObservers, pauseVars
<1>3. CASE InverterFrame
  BY <1>3 DEF InverterFrame, buttonObservers, pauseVars
<1>4. CASE Switch
  BY <1>4 DEF Switch, observers, buttonObservers, pauseVars
<1>5. CASE Driver
  BY <1>5 DEF Driver, observers, buttonObservers, pauseVars
<1>6. CASE ChangePermission
  BY <1>6 DEF ChangePermission, observers, buttonObservers, pauseVars
<1>7. CASE Operator
  BY <1>7 DEF Operator, ClearEvents, SwitchRecovery, SwitchVoltageLimits, observers,
              buttonObservers, pauseVars
<1>8. CASE SetRemoteLimits
  BY <1>8 DEF SetRemoteLimits, buttonObservers, pauseVars
<1>9. CASE MebReset
  <2>1. UNCHANGED overridden
    BY <1>9 DEF MebReset, observers, buttonObservers
  <2>2. UNCHANGED equipmentStop
    BY <1>9 DEF MebReset, DriverPause, Pause, SetBatteryPause, StopAfter, pauseVars
  <2> QED
    BY <2>1, <2>2
<1>10. CASE OtherEvent
  BY <1>10 DEF OtherEvent, observers, buttonObservers, pauseVars
<1>11. CASE UNCHANGED vars
  BY <1>11 DEF vars, observers, buttonObservers, pauseVars
<1> QED
  BY <1>1, <1>2, <1>3, <1>4, <1>5, <1>6, <1>7, <1>8, <1>9, <1>10, <1>11 DEF Next

\* The stop after a 10 ms phase is the one its command leaves.
LEMMA StopOfPhase ==
  ASSUME TenMs
  PROVE  equipmentStop' = StopAfter(Command)
<1>1. CASE Command = "UNCHANGED"
  BY <1>1 DEF TenMs, MonitorButton, StopAfter, pauseVars
<1>2. CASE Command # "UNCHANGED"
  BY <1>2 DEF TenMs, MonitorButton, Pause, SetBatteryPause
<1> QED
  BY <1>1, <1>2

LEMMA SwitchHoldsNext == SwitchHolds /\ [Next]_vars => SwitchHolds'
<1> SUFFICES ASSUME SwitchHolds, [Next]_vars,
                    install'.button = "LATCHING", buttonPressed'
             PROVE  equipmentStop' \/ overridden'
  BY DEF SwitchHolds
<1>1. install.button = "LATCHING"
  BY ButtonSteps
<1>2. CASE TenMs
  <2>1. buttonPressed' = IF Accepts THEN engaged ELSE buttonPressed
    BY <1>1, <1>2 DEF TenMs, MonitorButton, Debounce
  <2>2. CASE Accepts
    <3>1. Command = "STOP"
      BY <1>1, <2>1, <2>2 DEF Command, ButtonCommand
    <3> QED
      BY <1>2, <3>1, StopOfPhase DEF StopAfter
  <2>3. CASE ~Accepts
    <3>1. Command = "UNCHANGED" /\ buttonPressed
      BY <1>1, <2>1, <2>3 DEF Command, ButtonCommand
    <3>2. equipmentStop' = equipmentStop
      BY <1>2, <3>1, StopOfPhase DEF StopAfter
    <3>3. overridden => overridden'
      BY <1>2, <3>1 DEF TenMs, ObserveTenMs
    <3> QED
      BY <1>1, <3>1, <3>2, <3>3 DEF SwitchHolds
  <2> QED
    BY <2>2, <2>3
<1>3. ASSUME ~TenMs PROVE buttonPressed
  BY <1>3, ButtonSteps DEF Switch, MoveSwitch, buttonVars
<1>4. ASSUME NEW c \in {"PAUSE", "UNPAUSE", "STOP", "RESUME"}, PauseFromOutside(c), ~TenMs
      PROVE  equipmentStop' \/ overridden'
  <2>1. equipmentStop \/ overridden
    BY <1>1, <1>3, <1>4 DEF SwitchHolds
  <2>2. overridden' = (c = "RESUME" \/ (overridden /\ c # "STOP"))
    BY <1>4 DEF PauseFromOutside
  <2>3. equipmentStop' = StopAfter(IF c \in StopCommand THEN c ELSE "UNCHANGED")
    BY <1>4 DEF PauseFromOutside, Pause, SetBatteryPause
  <2> QED
    BY <2>1, <2>2, <2>3 DEF StopAfter, StopCommand
<1>5. CASE ~TenMs /\ UNCHANGED <<equipmentStop, overridden>>
  BY <1>1, <1>3, <1>5 DEF SwitchHolds
<1> QED
  BY <1>2, <1>4, <1>5, StopSteps

THEOREM AcceptedSwitchHolds == Spec => []SwitchHolds
<1>1. Init => SwitchHolds
  BY DEF Init, ButtonInit, SwitchHolds
<1> QED
  BY <1>1, SwitchHoldsNext, PTL DEF Spec

\* Calls until an engaged switch that stays engaged is accepted.
CallsToAccept ==
  IF engaged = lastEngaged THEN DebounceDelay + 1 - debounceAge ELSE DebounceDelay + 2

(***************************************************************************)
(* While a latching switch is engaged, every call accepts it or brings its *)
(* acceptance closer, and only the switch itself takes that back.          *)
(***************************************************************************)
AcceptanceComesCloser ==
  [][/\ install.button = "LATCHING" /\ engaged /\ ~buttonPressed /\ TenMs =>
          buttonPressed' \/ (CallsToAccept' \in Nat /\ CallsToAccept' < CallsToAccept)
     /\ ~TenMs /\ ~Switch => UNCHANGED <<engaged, buttonPressed, CallsToAccept>>]_vars

LEMMA AcceptanceStep ==
  ASSUME ButtonInv, install.button = "LATCHING", engaged, ~buttonPressed, TenMs, ~buttonPressed'
  PROVE  CallsToAccept' \in Nat /\ CallsToAccept' < CallsToAccept
<1>1. /\ DebounceDelay \in Nat
      /\ debounceAge \in Nat /\ debounceAge <= DebounceDelay + 1
  BY TimeTypes DEF ButtonInv, ButtonTypeOK
<1>2. Debounce
  BY DEF TenMs, MonitorButton
<1>3. ~Accepts
  BY <1>2 DEF Debounce
<1>4. engaged' = engaged /\ lastEngaged' = engaged /\ debounceAge' = StableFor
  BY <1>2, <1>3 DEF Debounce
<1>5. ~(StableFor > DebounceDelay)
  BY <1>3 DEF Accepts
<1>6. CallsToAccept' = DebounceDelay + 1 - StableFor
  BY <1>4 DEF CallsToAccept
<1>7. CASE engaged = lastEngaged
  <2>1. StableFor = UpTo(DebounceDelay + 1, debounceAge + 1)
    BY <1>7 DEF StableFor
  <2>2. StableFor = debounceAge + 1 /\ debounceAge < DebounceDelay
    BY <1>1, <1>5, <2>1 DEF UpTo
  <2>3. CallsToAccept = DebounceDelay + 1 - debounceAge
    BY <1>7 DEF CallsToAccept
  <2> QED
    BY <1>1, <1>6, <2>2, <2>3
<1>8. CASE engaged # lastEngaged
  <2>1. StableFor = 0 /\ CallsToAccept = DebounceDelay + 2
    BY <1>8 DEF StableFor, CallsToAccept
  <2> QED
    BY <1>1, <1>6, <2>1
<1> QED
  BY <1>7, <1>8

(***************************************************************************)
(* An engaged latching switch is accepted within its debounce delay and    *)
(* two calls (debounce_button.cpp:17-24), whatever else happens.           *)
(***************************************************************************)
THEOREM SwitchActsInBoundedTime == Spec => AcceptanceComesCloser
<1> DEFINE A ==
  /\ install.button = "LATCHING" /\ engaged /\ ~buttonPressed /\ TenMs =>
       buttonPressed' \/ (CallsToAccept' \in Nat /\ CallsToAccept' < CallsToAccept)
  /\ ~TenMs /\ ~Switch => UNCHANGED <<engaged, buttonPressed, CallsToAccept>>
<1>1. ButtonInv /\ [Next]_vars => [A]_vars
  <2> SUFFICES ASSUME ButtonInv, [Next]_vars PROVE A
    OBVIOUS
  <2>1. ~TenMs /\ ~Switch => UNCHANGED buttonVars
    BY ButtonSteps
  <2>2. UNCHANGED buttonVars => UNCHANGED <<engaged, buttonPressed, CallsToAccept>>
    BY DEF buttonVars, CallsToAccept
  <2> QED
    BY <2>1, <2>2, AcceptanceStep
<1> QED
  BY <1>1, ButtonInvInit, ButtonInvNext, PTL DEF Spec, AcceptanceComesCloser

-----------------------------------------------------------------------------
(***************************************************************************)
(* The automatic precharge.                                                *)
(***************************************************************************)
\* What drives the hardware is changed by the 10 ms phase alone.
LEMMA PrechargeSteps ==
  ASSUME [Next]_vars
  PROVE  \/ TenMs
         \/ /\ UNCHANGED <<prechargeStatus, pwm, inverterConnected, prechargeAge>>
            /\ UNCHANGED <<pwmTime, stopped>>
<1>1. CASE Second
  BY <1>1 DEF Second, SecondWith, ObserveSecond, prechargeVars, prechargeObservers
<1>2. ASSUME NEW p \in AllPacks, Frame(p)
      PROVE  UNCHANGED <<prechargeStatus, pwm, inverterConnected, prechargeAge, pwmTime, stopped>>
  BY <1>2 DEF Frame, prechargeVars, prechargeObservers
<1>3. CASE InverterFrame
  BY <1>3 DEF InverterFrame, prechargeVars, prechargeObservers
<1>4. CASE Switch
  BY <1>4 DEF Switch, prechargeVars, observers, prechargeObservers
<1>5. CASE Driver
  BY <1>5 DEF Driver, observers, prechargeObservers
<1>6. CASE ChangePermission
  BY <1>6 DEF ChangePermission, observers, prechargeObservers
<1>7. CASE Operator
  BY <1>7 DEF Operator, PauseFromOutside, ClearEvents, SwitchRecovery, SwitchVoltageLimits,
              observers, prechargeVars, prechargeObservers
<1>8. CASE SetRemoteLimits
  BY <1>8 DEF SetRemoteLimits, prechargeVars, prechargeObservers
<1>9. CASE MebReset \/ OtherEvent
  BY <1>9 DEF MebReset, OtherEvent, observers, prechargeVars, prechargeObservers
<1>10. CASE UNCHANGED vars
  BY <1>10 DEF vars, observers, prechargeVars, prechargeObservers
<1> QED
  BY <1>1, <1>2, <1>3, <1>4, <1>5, <1>6, <1>7, <1>8, <1>9, <1>10 DEF Next

(***************************************************************************)
(* The PWM is on in PRECHARGING and in no other state; it never has been   *)
(* on for longer than the clock of the precharge says, and this clock is   *)
(* short of the time that ends the precharge.                              *)
(***************************************************************************)
PrechargeInv ==
  /\ prechargeStatus \in PrechargeStatus
  /\ prechargeAge \in 0..MaxPrecharge
  /\ pwmTime \in Nat
  /\ pwm \in BOOLEAN
  /\ ~install.precharge => ~pwm
  /\ prechargeStatus = "PRECHARGING" <=> pwm
  /\ pwm => pwmTime <= prechargeAge
  /\ PwmOnlyOnOpenBus
  /\ PrechargeIsBounded
  /\ StopLeavesPulsesOnly

LEMMA PrechargeInvInit == Init => PrechargeInv
<1> SUFFICES ASSUME Init PROVE PrechargeInv
  OBVIOUS
<1>1. prechargeStatus = "IDLE" /\ ~pwm /\ pwm \in BOOLEAN /\ prechargeAge = 0 /\ pwmTime = 0
  BY Zenon DEF Init, PrechargeInit
<1> QED
  BY <1>1, TimeTypes
  DEF PrechargeInv, PrechargeStatus, PwmOnlyOnOpenBus, PrechargeIsBounded, StopLeavesPulsesOnly

\* One call of handle_precharge_control().
LEMMA PrechargeCall ==
  ASSUME PrechargeInv, NEW testMode, NEW fault, NEW stop, HandlePrecharge(testMode, fault, stop)
  PROVE  /\ prechargeStatus' \in PrechargeStatus
         /\ prechargeAge' \in 0..MaxPrecharge
         /\ pwm' \in BOOLEAN
         /\ prechargeStatus' = "PRECHARGING" <=> pwm'
         /\ pwm' => ~inverterConnected'
         /\ pwm' /\ pwm => prechargeAge' = prechargeAge + 1 /\ prechargeAge' < MaxPrecharge
         /\ pwm' /\ ~pwm => prechargeAge' = 0
         /\ pwm' /\ pwm => ~stop /\ ~fault
<1>1. AgeNow \in 0..MaxPrecharge /\ (AgeNow < MaxPrecharge => AgeNow = prechargeAge + 1)
  BY TimeTypes DEF PrechargeInv, AgeNow
<1>2. prechargeAge' = IF prechargeStatus = "START" THEN 0 ELSE AgeNow
  BY DEF HandlePrecharge
<1>3. prechargeAge' \in 0..MaxPrecharge
  BY <1>1, <1>2, TimeTypes
<1>4. CASE prechargeStatus = "START"
  BY <1>2, <1>3, <1>4, Zenon DEF HandlePrecharge, Begin, PrechargeInv, PrechargeStatus
<1>5. CASE prechargeStatus = "PRECHARGING"
  <2>1. pwm /\ ~inverterConnected
    BY <1>5 DEF PrechargeInv, PwmOnlyOnOpenBus
  <2>2. Precharging(SeenBms(testMode), fault, stop)
    BY <1>5 DEF HandlePrecharge
  <2>3. CASE Fails(SeenBms(testMode)) \/ Aborts(SeenBms(testMode), fault, stop) \/ batteryAllows
    <3>1. Leave("FAILURE") \/ Leave("IDLE") \/ Leave("COMPLETED")
      BY Zenon, <2>2, <2>3 DEF Precharging
    <3> QED
      BY <1>3, <3>1, Zenon DEF Leave, PrechargeStatus
  <2>4. CASE ~(Fails(SeenBms(testMode)) \/ Aborts(SeenBms(testMode), fault, stop) \/ batteryAllows)
    <3>1. Stay
      BY Zenon, <2>2, <2>4 DEF Precharging
    <3>2. pwm' = pwm /\ inverterConnected' = inverterConnected /\ prechargeStatus' = prechargeStatus
      BY Zenon, <3>1 DEF Stay
    <3>3. ~stop /\ ~fault
      BY Zenon, <2>4 DEF Aborts
    <3>4. prechargeAge' = prechargeAge + 1 /\ prechargeAge' < MaxPrecharge
      BY <1>1, <1>2, <1>5, <2>4, TimeTypes DEF Fails
    <3> QED
      BY <1>3, <1>5, <2>1, <3>2, <3>3, <3>4, Zenon DEF PrechargeStatus, PrechargeInv
  <2> QED
    BY <2>3, <2>4
<1>6. CASE prechargeStatus \in {"IDLE", "COMPLETED", "FAILURE"}
  <2>1. ~pwm
    BY <1>6 DEF PrechargeInv
  <2>2. pwm' = FALSE /\ prechargeStatus' \in {"IDLE", "COMPLETED", "FAILURE", "START"}
    <3>1. CASE prechargeStatus = "IDLE"
      BY <2>1, <3>1 DEF HandlePrecharge, Stay, PrechargeInv
    <3>2. CASE prechargeStatus = "COMPLETED"
      BY <2>1, <3>2 DEF HandlePrecharge, Stay, PrechargeInv
    <3>3. CASE prechargeStatus = "FAILURE"
      BY <2>1, <3>3 DEF HandlePrecharge, Leave
    <3> QED
      BY <1>6, <3>1, <3>2, <3>3
  <2> QED
    BY <1>3, <2>1, <2>2 DEF PrechargeStatus
<1>7. prechargeStatus \in {"START", "PRECHARGING", "IDLE", "COMPLETED", "FAILURE"}
  BY DEF PrechargeInv, PrechargeStatus
<1> QED
  BY <1>4, <1>5, <1>6, <1>7

LEMMA PrechargeInvNext == PrechargeInv /\ [Next]_vars => PrechargeInv'
<1> SUFFICES ASSUME PrechargeInv, [Next]_vars PROVE PrechargeInv'
  OBVIOUS
<1>1. install' = install
  BY ButtonSteps
<1>2. CASE TenMs
  <2> DEFINE Stop == StopAfter(Command)
  <2>1. pwmTime' = IF pwm' THEN UpTo(MaxPrecharge + 1, IF pwm THEN pwmTime + 1 ELSE 0) ELSE 0
    BY <1>2 DEF TenMs, ObserveTenMs
  <2>2. stopped' = (install.precharge /\ (Stop \/ StatusNow = "FAULT"))
    BY <1>2 DEF TenMs, ObserveTenMs
  <2>3. CASE install.precharge
    <3>1. PICK testMode, fault, stop :
            /\ HandlePrecharge(testMode, fault, stop)
            /\ fault = (StatusNow = "FAULT") /\ stop = Stop
      BY <1>2, <2>3 DEF TenMs, RunPrecharge
    <3> HIDE DEF Stop
    <3>2. /\ prechargeStatus' \in PrechargeStatus
          /\ prechargeAge' \in 0..MaxPrecharge
          /\ pwm' \in BOOLEAN
          /\ prechargeStatus' = "PRECHARGING" <=> pwm'
          /\ pwm' => ~inverterConnected'
          /\ pwm' /\ pwm => prechargeAge' = prechargeAge + 1 /\ prechargeAge' < MaxPrecharge
          /\ pwm' /\ ~pwm => prechargeAge' = 0
          /\ pwm' /\ pwm => ~stop /\ ~fault
      BY <3>1, PrechargeCall
    <3>3. CASE pwm' /\ pwm
      <4>1. ~Stop /\ StatusNow # "FAULT"
        BY <3>1, <3>2, <3>3
      <4>2. ~stopped'
        BY <2>2, <4>1
      <4>3. pwmTime' = UpTo(MaxPrecharge + 1, pwmTime + 1)
        BY <2>1, <3>3
      <4>4. pwmTime' \in Nat /\ pwmTime' <= pwmTime + 1
        BY <4>3, UpToBound, TimeTypes DEF PrechargeInv
      <4>5. prechargeAge' = prechargeAge + 1 /\ prechargeAge' < MaxPrecharge /\ pwmTime <= prechargeAge
        BY <3>2, <3>3 DEF PrechargeInv
      <4>6. pwmTime' <= prechargeAge' /\ pwmTime' < MaxPrecharge
        BY <4>4, <4>5, TimeTypes DEF PrechargeInv
      <4> QED
        BY <1>1, <2>3, <3>2, <3>3, <4>2, <4>4, <4>6
        DEF PrechargeInv, PwmOnlyOnOpenBus, PrechargeIsBounded, StopLeavesPulsesOnly
    <3>4. CASE ~(pwm' /\ pwm)
      <4>1. pwmTime' = 0
        BY <2>1, <3>4, TimeTypes DEF UpTo
      <4> QED
        BY <1>1, <2>3, <3>2, <3>4, <4>1, TimeTypes
        DEF PrechargeInv, PwmOnlyOnOpenBus, PrechargeIsBounded, StopLeavesPulsesOnly
    <3> QED
      BY <3>3, <3>4
  <2>4. CASE ~install.precharge
    <3>1. UNCHANGED <<prechargeStatus, pwm, inverterConnected, prechargeAge>>
      BY <1>2, <2>4 DEF TenMs, RunPrecharge, prechargeVars
    <3>2. pwmTime' = 0
      BY <2>1, <2>4, <3>1 DEF PrechargeInv
    <3> QED
      BY <1>1, <2>4, <3>1, <3>2, TimeTypes
      DEF PrechargeInv, PwmOnlyOnOpenBus, PrechargeIsBounded, StopLeavesPulsesOnly
  <2> QED
    BY <2>3, <2>4
<1>3. CASE /\ UNCHANGED <<prechargeStatus, pwm, inverterConnected, prechargeAge>>
           /\ UNCHANGED <<pwmTime, stopped>>
  BY <1>1, <1>3 DEF PrechargeInv, PwmOnlyOnOpenBus, PrechargeIsBounded, StopLeavesPulsesOnly
<1> QED
  BY <1>2, <1>3, PrechargeSteps

(***************************************************************************)
(* Whatever the BMS, the inverter, the operator, stops and faults do, the  *)
(* PWM drives the precharge only onto an open bus, not beyond its time, and*)
(* in a stop or a FAULT never for two calls in a row                       *)
(* (precharge_control.cpp:76-128).                                         *)
(***************************************************************************)
THEOREM PrechargesAreSafe == Spec => []PrechargeIsSafe
<1>1. PrechargeInv => PrechargeIsSafe
  BY DEF PrechargeInv, PrechargeIsSafe
<1> QED
  BY <1>1, PrechargeInvInit, PrechargeInvNext, PTL DEF Spec

-----------------------------------------------------------------------------
(***************************************************************************)
(* The packs and the inverter: who has been heard, who may join.           *)
(***************************************************************************)
LEMMA PackSteps ==
  ASSUME [Next]_vars
  PROVE  \/ Second
         \/ \E p \in AllPacks : Frame(p)
         \/ InverterFrame
         \/ UNCHANGED <<parallelVars, aliveVars, packObservers>>
<1>1. CASE TenMs
  BY <1>1 DEF TenMs
<1>2. CASE Switch
  BY <1>2 DEF Switch, observers
<1>3. CASE Driver
  BY <1>3 DEF Driver, observers
<1>4. CASE ChangePermission
  BY <1>4 DEF ChangePermission, observers
<1>5. CASE Operator
  BY <1>5 DEF Operator, PauseFromOutside, ClearEvents, SwitchRecovery, SwitchVoltageLimits,
              observers
<1>6. CASE SetRemoteLimits
  BY <1>6 DEF SetRemoteLimits
<1>7. CASE MebReset \/ OtherEvent
  BY <1>7 DEF MebReset, OtherEvent, observers
<1>8. CASE UNCHANGED vars
  BY <1>8 DEF vars, observers
<1> QED
  BY <1>1, <1>2, <1>3, <1>4, <1>5, <1>6, <1>7, <1>8 DEF Next

PackTypes ==
  /\ install \in Installations
  /\ ParallelTypeOK
  /\ AliveTypeOK
  /\ silentFor \in [AllPacks -> Nat]
  /\ inverterSilentFor \in Nat
  /\ outOfStep \in [PackIds -> Nat]
  /\ faultFor \in [PackIds -> Nat]

\* A full counter means a frame, and so does everything that follows from it.
HeardInv ==
  /\ \A p \in AllPacks : alive[p] = StillAlive \/ detected[p] => p \in heard
  /\ \A p \in PackIds : joinAllowed[p] => detected[p]

\* The counter of the code is the number of checks out of step, up to its limit.
DriftInv ==
  \A p \in PackIds :
    /\ outOfStep[p] <= MaxDrift => drift[p] = outOfStep[p]
    /\ outOfStep[p] > MaxDrift => drift[p] = MaxDrift /\ ~joinAllowed[p]

\* A check in FAULT that leaves the permission has counted as drift.
FaultInv == \A p \in PackIds : joinAllowed[p] => faultFor[p] <= drift[p]

\* A counter tells the time since the last frame, to within a second.
Tells(counter, time) ==
  /\ counter >= StillAlive - 1 - time
  /\ counter = 0 \/ counter <= StillAlive - time

\* The long timeout: three seconds for one.
TellsSlowly(counter, third, time) ==
  /\ counter > 0 => /\ 3 * counter - third + time >= 3 * (StillAlive - 1)
                    /\ 3 * counter - third + time <= 3 * StillAlive
  /\ counter = 0 => time >= 3 * (StillAlive - 1)

SilenceInv ==
  /\ install.battery => Tells(alive[1], silentFor[1])
  /\ install.inverter = "NORMAL" => Tells(inverterAlive, inverterSilentFor)
  /\ install.inverter = "SLOW" => TellsSlowly(inverterAlive, slowCount, inverterSilentFor)

PacksInv == PackTypes /\ HeardInv /\ DriftInv /\ FaultInv /\ SilenceInv

LEMMA PacksInvInit == Init => PacksInv
<1> SUFFICES ASSUME Init PROVE PacksInv
  OBVIOUS
<1>1. /\ alive = [p \in AllPacks |-> StillAlive - 1]
      /\ detected = [p \in AllPacks |-> FALSE]
      /\ inverterAlive = StillAlive - 1 /\ slowCount = 0
      /\ drift = [p \in PackIds |-> 0] /\ joinAllowed = [p \in PackIds |-> FALSE]
      /\ silentFor = [p \in AllPacks |-> 0] /\ inverterSilentFor = 0 /\ heard = {}
      /\ outOfStep = [p \in PackIds |-> 0] /\ faultFor = [p \in PackIds |-> 0]
  BY DEF Init, AliveInit, BootAlive, ParallelInit
<1>2. PackTypes
  <2>1. ParallelTypeOK
    BY <1>1, TimeTypes DEF ParallelTypeOK
  <2>2. AliveTypeOK
    BY <1>1, TimeTypes DEF AliveTypeOK
  <2> QED
    BY <1>1, <2>1, <2>2 DEF Init, PackTypes
<1>3. HeardInv
  BY <1>1, TimeTypes DEF HeardInv, AllPacks
<1>4. DriftInv /\ FaultInv
  BY <1>1, TimeTypes DEF DriftInv, FaultInv
<1>5. SilenceInv
  BY <1>1, TimeTypes DEF SilenceInv, Tells, TellsSlowly, AllPacks
<1> QED
  BY <1>2, <1>3, <1>4, <1>5 DEF PacksInv

LEMMA InverterKind ==
  ASSUME install \in Installations
  PROVE  install.inverter \in {"NONE", "NORMAL", "SLOW"}
  BY InstallationAssumption

LEMMA CountDownType ==
  ASSUME NEW n \in 0..StillAlive
  PROVE  /\ CountDown(n) \in 0..StillAlive
         /\ CountDown(n) = (IF n = 0 THEN 0 ELSE n - 1)
         /\ CountDown(n) # StillAlive
  BY TimeTypes DEF CountDown

-----------------------------------------------------------------------------
\* What a second does to the packs.
LEMMA SecondOfPacks ==
  ASSUME Second
  PROVE  /\ CheckPacks(Present)
         /\ CheckInverter(install.inverter)
         /\ silentFor' = [p \in AllPacks |-> UpTo(StillAlive + 1, silentFor[p] + 1)]
         /\ inverterSilentFor' = UpTo(3 * StillAlive + 1, inverterSilentFor + 1)
         /\ outOfStep' = [p \in PackIds |->
              IF ~Checked(p) THEN outOfStep[p]
              ELSE IF InStep(Voltages[1], Voltages[p]) THEN 0 ELSE UpTo(MaxDrift + 1, outOfStep[p] + 1)]
         /\ \E touch \in Touches :
              /\ CheckParallel(Compared, Voltages, FaultAtCheck(touch))
              /\ faultFor' = [p \in PackIds |->
                   IF ~Checked(p) THEN faultFor[p]
                   ELSE IF FaultAtCheck(touch)[p] THEN UpTo(MaxDrift + 1, faultFor[p] + 1) ELSE 0]
         /\ UNCHANGED <<heard, install>>
  BY DEF Second, SecondWith, ObserveSecond

\* The check of one pack: drift, permission and the two observers.
LEMMA CheckOfPack ==
  ASSUME PacksInv, Second, NEW p \in PackIds
  PROVE  /\ drift'[p] \in 0..MaxDrift
         /\ joinAllowed'[p] \in BOOLEAN
         /\ outOfStep'[p] \in Nat /\ faultFor'[p] \in Nat
         /\ joinAllowed'[p] => joinAllowed[p] \/ detected[p]
         /\ outOfStep'[p] <= MaxDrift => drift'[p] = outOfStep'[p]
         /\ outOfStep'[p] > MaxDrift => drift'[p] = MaxDrift /\ ~joinAllowed'[p]
         /\ joinAllowed'[p] => faultFor'[p] <= drift'[p]
<1>a. PICK touch \in Touches :
        /\ CheckParallel(Compared, Voltages, FaultAtCheck(touch))
        /\ faultFor' = [q \in PackIds |->
             IF ~Checked(q) THEN faultFor[q]
             ELSE IF FaultAtCheck(touch)[q] THEN UpTo(MaxDrift + 1, faultFor[q] + 1) ELSE 0]
  BY SecondOfPacks
<1> DEFINE v == Voltages[1]
           w == Voltages[p]
           Fault == FaultAtCheck(touch)[p]
<1>1. /\ drift'[p] = IF p \in Compared THEN DriftAfter(p, v, w) ELSE drift[p]
      /\ joinAllowed'[p] = IF p \in Compared THEN JoinAfter(p, v, w, Fault) ELSE joinAllowed[p]
  BY <1>a DEF CheckParallel
<1>2. /\ outOfStep'[p] = IF ~Checked(p) THEN outOfStep[p]
                         ELSE IF InStep(v, w) THEN 0 ELSE UpTo(MaxDrift + 1, outOfStep[p] + 1)
      /\ faultFor'[p] = IF ~Checked(p) THEN faultFor[p]
                        ELSE IF Fault THEN UpTo(MaxDrift + 1, faultFor[p] + 1) ELSE 0
  BY <1>a, SecondOfPacks
<1> HIDE DEF v, w, Fault
<1>3. /\ drift[p] \in 0..MaxDrift /\ joinAllowed[p] \in BOOLEAN
      /\ outOfStep[p] \in Nat /\ faultFor[p] \in Nat
  BY DEF PacksInv, PackTypes, ParallelTypeOK
<1>4. /\ outOfStep[p] <= MaxDrift => drift[p] = outOfStep[p]
      /\ outOfStep[p] > MaxDrift => drift[p] = MaxDrift /\ ~joinAllowed[p]
      /\ joinAllowed[p] => faultFor[p] <= drift[p]
  BY DEF PacksInv, DriftInv, FaultInv
<1>5. CASE ~Checked(p)
  <2>1. drift'[p] = drift[p] /\ joinAllowed'[p] = joinAllowed[p]
    BY <1>1, <1>5 DEF Checked, DriftAfter, JoinAfter, v, w
  <2>2. outOfStep'[p] = outOfStep[p] /\ faultFor'[p] = faultFor[p]
    BY <1>2, <1>5
  <2> QED
    BY <1>3, <1>4, <2>1, <2>2
<1>6. CASE Checked(p) /\ InStep(v, w)
  <2>1. drift'[p] = 0 /\ joinAllowed'[p] = ~Fault /\ outOfStep'[p] = 0 /\ detected[p]
    BY <1>1, <1>2, <1>6 DEF Checked, Compared, DriftAfter, JoinAfter, v, w
  <2>2. joinAllowed'[p] => faultFor'[p] = 0
    BY <1>2, <1>6, <2>1
  <2>3. faultFor'[p] \in Nat
    BY <1>2, <1>3, UpToBound, TimeTypes
  <2>4. joinAllowed'[p] \in BOOLEAN
    BY Zenon, <2>1
  <2> QED
    BY <2>1, <2>2, <2>3, <2>4, TimeTypes
<1>7. CASE Checked(p) /\ ~InStep(v, w)
  <2>1. /\ drift'[p] = IF drift[p] < MaxDrift THEN drift[p] + 1 ELSE drift[p]
        /\ joinAllowed'[p] = IF drift[p] < MaxDrift THEN joinAllowed[p] ELSE FALSE
    BY <1>1, <1>7 DEF Checked, Compared, DriftAfter, JoinAfter, v, w
  <2>2. /\ outOfStep'[p] = UpTo(MaxDrift + 1, outOfStep[p] + 1)
        /\ faultFor'[p] = IF Fault THEN UpTo(MaxDrift + 1, faultFor[p] + 1) ELSE 0
    BY <1>2, <1>7
  <2>3. UpTo(MaxDrift + 1, outOfStep[p] + 1) = IF outOfStep[p] < MaxDrift THEN outOfStep[p] + 1 ELSE MaxDrift + 1
    BY <1>3, TimeTypes DEF UpTo
  <2>4. UpTo(MaxDrift + 1, faultFor[p] + 1) \in Nat /\ UpTo(MaxDrift + 1, faultFor[p] + 1) <= faultFor[p] + 1
    BY <1>3, TimeTypes DEF UpTo
  <2>5. CASE drift[p] < MaxDrift
    BY <1>3, <1>4, <2>1, <2>2, <2>3, <2>4, <2>5, TimeTypes
  <2>6. CASE ~(drift[p] < MaxDrift)
    BY <1>3, <1>4, <2>1, <2>2, <2>3, <2>4, <2>6, TimeTypes
  <2> QED
    BY <2>5, <2>6
<1> QED
  BY <1>5, <1>6, <1>7

\* The counters of a second: those of the packs and the inverter's.
LEMMA SecondCounts ==
  ASSUME PacksInv, Second
  PROVE  /\ AliveTypeOK'
         /\ silentFor' \in [AllPacks -> Nat] /\ inverterSilentFor' \in Nat
         /\ \A p \in AllPacks : /\ detected[p] => detected'[p]
                                /\ detected'[p] => detected[p] \/ alive[p] = StillAlive
                                /\ alive'[p] = StillAlive => alive[p] = StillAlive
         /\ SilenceInv'
<1>1. /\ alive \in [AllPacks -> 0..StillAlive] /\ detected \in [AllPacks -> BOOLEAN]
      /\ inverterAlive \in 0..StillAlive /\ slowCount \in 0..2
      /\ silentFor \in [AllPacks -> Nat] /\ inverterSilentFor \in Nat
  BY DEF PacksInv, PackTypes, AliveTypeOK
<1>2. /\ detected' = [p \in AllPacks |-> detected[p] \/ (p \in Present /\ alive[p] = StillAlive)]
      /\ alive' = [p \in AllPacks |-> IF p \in Present THEN CountDown(alive[p]) ELSE alive[p]]
  BY SecondOfPacks DEF CheckPacks
<1>3. /\ silentFor' = [p \in AllPacks |-> UpTo(StillAlive + 1, silentFor[p] + 1)]
      /\ inverterSilentFor' = UpTo(3 * StillAlive + 1, inverterSilentFor + 1)
      /\ install' = install
  BY SecondOfPacks
<1>4. alive' \in [AllPacks -> 0..StillAlive]
  BY <1>1, <1>2, CountDownType
<1>5. detected' \in [AllPacks -> BOOLEAN]
  <2>1. \A p \in AllPacks : (detected[p] \/ (p \in Present /\ alive[p] = StillAlive)) \in BOOLEAN
    BY Zenon
  <2> QED
    BY Zenon, <1>2, <2>1
<1>6. \A p \in AllPacks : /\ detected[p] => detected'[p]
                          /\ detected'[p] => detected[p] \/ alive[p] = StillAlive
                          /\ alive'[p] = StillAlive => alive[p] = StillAlive
  BY <1>1, <1>2, CountDownType
<1>7. silentFor' \in [AllPacks -> Nat]
  <2>1. \A p \in AllPacks : UpTo(StillAlive + 1, silentFor[p] + 1) \in Nat
    BY <1>1, TimeTypes DEF UpTo
  <2> QED
    BY <1>3, <2>1
<1>8. inverterSilentFor' \in Nat
  BY <1>1, <1>3, TimeTypes DEF UpTo
<1>9. CheckInverter(install.inverter)
  BY SecondOfPacks
<1>10. install.inverter \in {"NONE", "NORMAL", "SLOW"}
  BY InverterKind DEF PacksInv, PackTypes
<1>11. inverterAlive' \in 0..StillAlive /\ slowCount' \in 0..2
  <2>1. CASE install.inverter = "NONE"
    BY <1>1, <1>9, <2>1 DEF CheckInverter
  <2>2. CASE install.inverter = "NORMAL"
    BY <1>1, <1>9, <2>2, CountDownType DEF CheckInverter
  <2>3. CASE install.inverter = "SLOW"
    BY <1>1, <1>9, <2>3, TimeTypes DEF CheckInverter
  <2> QED
    BY <1>10, <2>1, <2>2, <2>3
<1>12. install.battery => Tells(alive'[1], silentFor'[1])
  <2> SUFFICES ASSUME install.battery PROVE Tells(alive'[1], silentFor'[1])
    OBVIOUS
  <2>1. 1 \in AllPacks /\ 1 \in Present
    BY DEF AllPacks, Present
  <2>2. alive'[1] = CountDown(alive[1]) /\ silentFor'[1] = UpTo(StillAlive + 1, silentFor[1] + 1)
    BY <1>2, <1>3, <2>1
  <2>3. Tells(alive[1], silentFor[1]) /\ alive[1] \in 0..StillAlive /\ silentFor[1] \in Nat
    BY <1>1, <2>1 DEF PacksInv, SilenceInv
  <2> QED
    BY <2>2, <2>3, TimeTypes DEF Tells, UpTo, CountDown
<1>13. install.inverter = "NORMAL" => Tells(inverterAlive', inverterSilentFor')
  <2> SUFFICES ASSUME install.inverter = "NORMAL" PROVE Tells(inverterAlive', inverterSilentFor')
    OBVIOUS
  <2>1. inverterAlive' = CountDown(inverterAlive)
    BY <1>9 DEF CheckInverter
  <2>2. Tells(inverterAlive, inverterSilentFor)
    BY DEF PacksInv, SilenceInv
  <2> QED
    BY <1>1, <1>3, <2>1, <2>2, TimeTypes DEF Tells, UpTo, CountDown
<1>14. install.inverter = "SLOW" => TellsSlowly(inverterAlive', slowCount', inverterSilentFor')
  <2> SUFFICES ASSUME install.inverter = "SLOW"
               PROVE  TellsSlowly(inverterAlive', slowCount', inverterSilentFor')
    OBVIOUS
  <2>1. TellsSlowly(inverterAlive, slowCount, inverterSilentFor)
    BY DEF PacksInv, SilenceInv
  <2>2. CASE inverterAlive = 0
    <3>1. inverterAlive' = 0
      BY <1>9, <2>2 DEF CheckInverter
    <3> QED
      BY <1>1, <1>3, <2>1, <2>2, <3>1, TimeTypes DEF TellsSlowly, UpTo
  <2>3. CASE inverterAlive # 0 /\ slowCount = 2
    <3>1. inverterAlive' = inverterAlive - 1 /\ slowCount' = 0
      BY <1>9, <2>3 DEF CheckInverter
    <3> QED
      BY <1>1, <1>3, <2>1, <2>3, <3>1, TimeTypes DEF TellsSlowly, UpTo
  <2>4. CASE inverterAlive # 0 /\ slowCount # 2
    <3>1. inverterAlive' = inverterAlive /\ slowCount' = slowCount + 1
      BY <1>9, <2>4 DEF CheckInverter
    <3> QED
      BY <1>1, <1>3, <2>1, <2>4, <3>1, TimeTypes DEF TellsSlowly, UpTo
  <2> QED
    BY <2>2, <2>3, <2>4
<1>15. SilenceInv'
  BY <1>3, <1>12, <1>13, <1>14 DEF SilenceInv
<1> QED
  BY <1>4, <1>5, <1>6, <1>7, <1>8, <1>11, <1>15 DEF AliveTypeOK

LEMMA PacksInvNext == PacksInv /\ [Next]_vars => PacksInv'
<1> SUFFICES ASSUME PacksInv, [Next]_vars PROVE PacksInv'
  OBVIOUS
<1>1. install' = install
  BY ButtonSteps
<1>2. PackTypes /\ HeardInv /\ DriftInv /\ FaultInv /\ SilenceInv
  BY DEF PacksInv
<1>3. CASE Second
  <2>1. heard' = heard
    BY <1>3, SecondOfPacks
  <2>2. \A p \in PackIds :
          /\ drift'[p] \in 0..MaxDrift
          /\ joinAllowed'[p] \in BOOLEAN
          /\ outOfStep'[p] \in Nat /\ faultFor'[p] \in Nat
          /\ joinAllowed'[p] => joinAllowed[p] \/ detected[p]
    BY <1>3, CheckOfPack
  <2>3. DriftInv' /\ FaultInv'
    BY <1>3, CheckOfPack DEF DriftInv, FaultInv
  <2>4. ParallelTypeOK' /\ outOfStep' \in [PackIds -> Nat] /\ faultFor' \in [PackIds -> Nat]
    BY <1>3, <2>2, SecondOfPacks DEF CheckParallel, ParallelTypeOK
  <2>5. PackTypes'
    BY <1>1, <1>2, <1>3, <2>4, SecondCounts DEF PackTypes
  <2>6. HeardInv'
    <3>a. \A p \in AllPacks : /\ detected[p] => detected'[p]
                              /\ detected'[p] => detected[p] \/ alive[p] = StillAlive
                              /\ alive'[p] = StillAlive => alive[p] = StillAlive
      BY <1>3, SecondCounts
    <3>1. ASSUME NEW p \in AllPacks, alive'[p] = StillAlive \/ detected'[p] PROVE p \in heard'
      <4>1. alive[p] = StillAlive \/ detected[p]
        BY <3>a, <3>1
      <4> QED
        BY <1>2, <2>1, <4>1 DEF HeardInv
    <3>2. ASSUME NEW p \in PackIds, joinAllowed'[p] PROVE detected'[p]
      <4>1. detected[p]
        BY <1>2, <2>2, <3>2 DEF HeardInv
      <4> QED
        BY <3>a, <4>1 DEF AllPacks
    <3> QED
      BY <3>1, <3>2 DEF HeardInv
  <2> QED
    BY <1>3, <2>3, <2>5, <2>6, SecondCounts DEF PacksInv
<1>4. ASSUME NEW p \in AllPacks, Frame(p) PROVE PacksInv'
  <2>1. /\ alive' = [alive EXCEPT ![p] = StillAlive] /\ heard' = heard \cup {p}
        /\ silentFor' = [silentFor EXCEPT ![p] = 0]
        /\ UNCHANGED <<detected, inverterAlive, slowCount, drift, joinAllowed,
                       inverterSilentFor, outOfStep, faultFor>>
    BY <1>4 DEF Frame, HearPack, parallelVars
  <2>2. PackTypes'
    BY <1>1, <1>2, <2>1, TimeTypes DEF PackTypes, AliveTypeOK, ParallelTypeOK
  <2>3. HeardInv' /\ DriftInv' /\ FaultInv'
    BY <1>2, <2>1 DEF PackTypes, AliveTypeOK, HeardInv, DriftInv, FaultInv
  <2>4. SilenceInv'
    BY <1>1, <1>2, <2>1, TimeTypes
    DEF PackTypes, AliveTypeOK, SilenceInv, Tells, TellsSlowly, AllPacks
  <2> QED
    BY <2>2, <2>3, <2>4 DEF PacksInv
<1>5. CASE InverterFrame
  <2>1. /\ inverterAlive' = StillAlive /\ inverterSilentFor' = 0
        /\ UNCHANGED <<alive, detected, slowCount, drift, joinAllowed,
                       silentFor, heard, outOfStep, faultFor>>
    BY <1>5 DEF InverterFrame, HearInverter, parallelVars
  <2>2. PackTypes' /\ HeardInv' /\ DriftInv' /\ FaultInv'
    BY <1>1, <1>2, <2>1, TimeTypes
    DEF PackTypes, AliveTypeOK, ParallelTypeOK, HeardInv, DriftInv, FaultInv
  <2>3. SilenceInv'
    BY <1>1, <1>2, <2>1, TimeTypes DEF PackTypes, AliveTypeOK, SilenceInv, Tells, TellsSlowly
  <2> QED
    BY <2>2, <2>3 DEF PacksInv
<1>6. CASE UNCHANGED <<parallelVars, aliveVars, packObservers>>
  <2>1. UNCHANGED <<alive, detected, inverterAlive, slowCount, drift, joinAllowed,
                    silentFor, inverterSilentFor, heard, outOfStep, faultFor>>
    BY <1>6 DEF parallelVars, aliveVars, packObservers
  <2> QED
    BY <1>1, <1>2, <2>1
    DEF PacksInv, PackTypes, AliveTypeOK, ParallelTypeOK, HeardInv, DriftInv, FaultInv, SilenceInv
<1> QED
  BY <1>3, <1>4, <1>5, <1>6, PackSteps

(***************************************************************************)
(* A secondary pack may join only after a frame of its own, and not while  *)
(* it has been out of step, or in a FAULT, for more than MaxDrift checks   *)
(* in a row (datalayer.h:129, parallel_safety.cpp:7-37).                   *)
(***************************************************************************)
THEOREM PacksStayGuarded == Spec => []PacksAreGuarded
<1>1. PacksInv => PacksAreGuarded
  <2> SUFFICES ASSUME PacksInv PROVE PacksAreGuarded
    OBVIOUS
  <2>1. UnheardPackStaysOut
    BY DEF PacksInv, HeardInv, UnheardPackStaysOut, AllPacks
  <2>2. DriftDisengages
    BY DEF PacksInv, DriftInv, DriftDisengages
  <2>3. FaultDisengages
    BY TimeTypes DEF PacksInv, PackTypes, ParallelTypeOK, FaultInv, FaultDisengages
  <2> QED
    BY <2>1, <2>2, <2>3 DEF PacksAreGuarded
<1> QED
  BY <1>1, PacksInvInit, PacksInvNext, PTL DEF Spec

(***************************************************************************)
(* A pack or an inverter silent for its time is an error in the next       *)
(* second, and never one much sooner (safety.cpp:47-58, 345-363).          *)
(***************************************************************************)
THEOREM SilenceIsReported == Spec => SilenceIsNoticed
<1>1. PacksInv /\ [Next]_vars => [Unnoticed(errors') \/ TooSoon(errors') => ~Second]_vars
  <2> SUFFICES ASSUME PacksInv, Second PROVE ~Unnoticed(errors') /\ ~TooSoon(errors')
    OBVIOUS
  <2>1. /\ install.battery => Tells(alive[1], silentFor[1])
        /\ install.inverter = "NORMAL" => Tells(inverterAlive, inverterSilentFor)
        /\ install.inverter = "SLOW" => TellsSlowly(inverterAlive, slowCount, inverterSilentFor)
    BY DEF PacksInv, SilenceInv
  <2>2. /\ alive[1] \in 0..StillAlive /\ inverterAlive \in 0..StillAlive /\ slowCount \in 0..2
        /\ silentFor[1] \in Nat /\ inverterSilentFor \in Nat
        /\ install.inverter \in {"NONE", "NORMAL", "SLOW"}
    BY InverterKind DEF PacksInv, PackTypes, AliveTypeOK, AllPacks
  <2>3. /\ "MISSING" \in errors' <=> MainSilent
        /\ "INVERTER" \in errors' <=> InverterSilent /\ ~install.offgrid
    BY DEF Second, SecondWith, EventsAfter, ErrorsAfter, SilenceErrors
  <2>4. install.battery =>
          (MainSilent => silentFor[1] >= StillAlive - 1) /\ (silentFor[1] >= StillAlive => MainSilent)
    BY <2>1, <2>2, TimeTypes DEF MainSilent, Tells
  <2>5. install.inverter # "NONE" =>
          /\ InverterSilent => inverterSilentFor >= InverterTime * (StillAlive - 1)
          /\ inverterSilentFor >= InverterTime * StillAlive => InverterSilent
    <3>1. CASE install.inverter = "NORMAL"
      <4>1. InverterTime = 1
        BY <3>1 DEF InverterTime
      <4> QED
        BY <2>1, <2>2, <3>1, <4>1, TimeTypes DEF InverterSilent, Tells
    <3>2. CASE install.inverter = "SLOW"
      <4>1. InverterTime = 3
        BY <3>2 DEF InverterTime
      <4> QED
        BY <2>1, <2>2, <3>2, <4>1, TimeTypes DEF InverterSilent, TellsSlowly
    <3> QED
      BY <2>2, <3>1, <3>2
  <2>6. InverterTime * (StillAlive - 1) \in Int /\ InverterTime * StillAlive \in Int
    BY TimeTypes DEF InverterTime
  <2>7. ~Unnoticed(errors')
    BY <2>3, <2>4, <2>5 DEF Unnoticed
  <2>8. (MainSilent => install.battery) /\ (InverterSilent => install.inverter # "NONE")
    BY DEF MainSilent, InverterSilent
  <2>9. ~TooSoon(errors')
    BY <2>2, <2>3, <2>4, <2>5, <2>6, <2>8, TimeTypes DEF TooSoon
  <2> QED
    BY <2>7, <2>9
<1> QED
  BY <1>1, PacksInvInit, PacksInvNext, PTL DEF Spec, SilenceIsNoticed

=============================================================================
