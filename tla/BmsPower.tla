------------------------------- MODULE BmsPower ------------------------------
(***************************************************************************)
(* The BMS power cycle of comm_contactorcontrol.cpp: start_bms_reset(),    *)
(* called by MQTT and by the periodic timer, and the state machine of      *)
(* handle_BMSpower(), which the contactor handler calls every 10 ms.       *)
(*                                                                         *)
(* As in ContactorLadder a timestamp is represented by its age, which      *)
(* stops growing where no test can tell its values apart.  The ages grow   *)
(* with the clock (Age), whether the handler does anything or not.         *)
(***************************************************************************)
EXTENDS Integers, PauseControl

CONSTANTS
  ContactorControl,   (* contactor_control_enabled: we drive the contactors *)
  Periodic,           (* periodic_bms_reset                                 *)
  Remote,             (* remote_bms_reset                                   *)
  DeferLowSoc,        (* periodic_bms_reset_defer_low_soc                   *)
  SkipBalancing,      (* periodic_bms_reset_skip_balancing                  *)
  ResetInterval,      (* bms_reset_interval_ms()                            *)
  SettleTime,         (* 5 s: from then on a low current will do            *)
  GiveUpTime,         (* 10 s: from then on give up                         *)
  OffTime,            (* user_set_bms_reset_duration_ms                     *)
  WarmupTime,         (* bmsWarmupDuration                                  *)
  KeepaliveInterval,  (* BMS_RESET_CAN_KEEPALIVE_INTERVAL_MS                *)
  StillAliveMax       (* CAN_STILL_ALIVE                                    *)

ASSUME SwitchAssumption ==
  {ContactorControl, Periodic, Remote, DeferLowSoc, SkipBalancing} \subseteq BOOLEAN

ASSUME DurationAssumption ==
  /\ {ResetInterval, SettleTime, GiveUpTime, OffTime, WarmupTime,
      KeepaliveInterval, StillAliveMax} \subseteq Nat
  /\ StillAliveMax > 0
  /\ SettleTime <= GiveUpTime /\ GiveUpTime <= ResetInterval

VARIABLES
  bmsResetStatus,          (* datalayer bms_reset_status                   *)
  bmsPowered,              (* the BMS_POWER pin                            *)
  sincePowerRemoval,       (* age of lastPowerRemovalTime                  *)
  sincePowerOn,            (* age of bmsPowerOnTime                        *)
  sinceKeepalive,          (* age of lastCanKeepaliveTime                  *)
  balancingPeriodSkipped,  (* balancingPeriodSkipped                       *)
  stillAlive               (* datalayer CAN_battery_still_alive            *)

bmsClocks == <<sincePowerRemoval, sincePowerOn, sinceKeepalive>>
bmsVars == <<bmsResetStatus, bmsPowered, bmsClocks, balancingPeriodSkipped, stillAlive>>

ResetStatus == {"IDLE", "WAITING_FOR_PAUSE", "POWERED_OFF", "POWERING_ON"}

(***************************************************************************)
(* What handle_BMSpower() can see of the battery currents of all packs.    *)
(* "low" is below 1 A, "residual" below the 1.8 A of update_pause_state(). *)
(***************************************************************************)
Current == {"zero", "low", "residual", "load"}

\* abs(current_dA) < 18 for every pack: the test of update_pause_state().
BelowPauseThreshold(i) == i # "load"

\* The age that decides everything the code asks of lastPowerRemovalTime.
RemovalCap == IF OffTime > ResetInterval THEN OffTime ELSE ResetInterval

AtMost(t, cap) == IF t > cap THEN cap ELSE t

Age(d) ==
  /\ sincePowerRemoval' = AtMost(sincePowerRemoval + d, RemovalCap)
  /\ sincePowerOn' = AtMost(sincePowerOn + d, WarmupTime)
  /\ sinceKeepalive' = AtMost(sinceKeepalive + d, KeepaliveInterval)

BmsTypeOK ==
  /\ bmsResetStatus \in ResetStatus
  /\ bmsPowered \in BOOLEAN
  /\ sincePowerRemoval \in 0..RemovalCap
  /\ sincePowerOn \in 0..WarmupTime
  /\ sinceKeepalive \in 0..KeepaliveInterval
  /\ balancingPeriodSkipped \in BOOLEAN
  /\ stillAlive \in 0..StillAliveMax

BmsInit ==
  /\ bmsResetStatus = "IDLE"
  /\ bmsPowered = TRUE
  /\ sincePowerRemoval = 0 /\ sincePowerOn = 0 /\ sinceKeepalive = 0
  /\ balancingPeriodSkipped = FALSE
  /\ stillAlive = StillAliveMax - 1

-----------------------------------------------------------------------------
Enabled == Periodic \/ Remote

\* bms_reset_needs_can_keepalive: only for off times beyond the alive window.
NeedsKeepalive == OffTime > KeepaliveInterval

\* A pause of our own: charge and discharge power to zero, CAN not paused.
PauseBattery(i) == SetBatteryPause(TRUE, FALSE, "UNCHANGED", BelowPauseThreshold(i))
ResumeBattery(i) == SetBatteryPause(FALSE, FALSE, "UNCHANGED", BelowPauseThreshold(i))

(***************************************************************************)
(* start_bms_reset().  If we drive the contactors ourselves the BMS loses  *)
(* its power at once; otherwise the pause must take effect first, because  *)
(* the BMS holds the contactors.                                           *)
(***************************************************************************)
StartBmsReset(i) ==
  /\ Enabled
  /\ bmsResetStatus = "IDLE"
  /\ sincePowerRemoval' = 0
  /\ sinceKeepalive' = 0
  /\ PauseBattery(i)
  /\ IF ContactorControl
       THEN bmsPowered' = FALSE /\ bmsResetStatus' = "POWERED_OFF"
       ELSE bmsResetStatus' = "WAITING_FOR_PAUSE" /\ UNCHANGED bmsPowered

\* A reset requested over MQTT, which is only looked at when Remote is set.
RemoteReset(i) ==
  /\ Remote
  /\ StartBmsReset(i)
  /\ UNCHANGED <<sincePowerOn, balancingPeriodSkipped, stillAlive>>

-----------------------------------------------------------------------------
(* One call of handle_BMSpower(): the ages have been advanced by d, the    *)
(* steps below say "Aged" for an age this call leaves alone.               *)

AgedRemoval(d) == sincePowerRemoval' = AtMost(sincePowerRemoval + d, RemovalCap)
AgedPowerOn(d) == sincePowerOn' = AtMost(sincePowerOn + d, WarmupTime)
AgedKeepalive(d) == sinceKeepalive' = AtMost(sinceKeepalive + d, KeepaliveInterval)

Due(d) == Periodic /\ sincePowerRemoval + d >= ResetInterval

Verdict(lowSoc, balancing) ==
  IF DeferLowSoc /\ lowSoc THEN "Defer"
  ELSE IF SkipBalancing /\ ~balancingPeriodSkipped /\ balancing THEN "SkipPeriod"
  ELSE "Run"

\* Idle, and nothing is due or the reset is deferred: it stays due.
StayIdle(d, lowSoc, balancing) ==
  /\ bmsResetStatus = "IDLE"
  /\ ~Due(d) \/ Verdict(lowSoc, balancing) = "Defer"
  /\ Age(d)
  /\ UNCHANGED <<pauseVars, bmsResetStatus, bmsPowered, balancingPeriodSkipped,
                 stillAlive>>

\* Seeded fault: the allowance of one skipped period is never used up.
SkipPeriod_NotNoted(d, lowSoc, balancing) ==
  /\ bmsResetStatus = "IDLE"
  /\ Due(d) /\ Verdict(lowSoc, balancing) = "SkipPeriod"
  /\ sincePowerRemoval' = 0
  /\ AgedPowerOn(d) /\ AgedKeepalive(d)
  /\ UNCHANGED <<pauseVars, bmsResetStatus, bmsPowered, balancingPeriodSkipped,
                 stillAlive>>

\* A balancing pack costs the reset one period, which starts anew.
SkipPeriod(d, lowSoc, balancing) ==
  /\ bmsResetStatus = "IDLE"
  /\ Due(d) /\ Verdict(lowSoc, balancing) = "SkipPeriod"
  /\ sincePowerRemoval' = 0
  /\ balancingPeriodSkipped' = TRUE
  /\ AgedPowerOn(d) /\ AgedKeepalive(d)
  /\ UNCHANGED <<pauseVars, bmsResetStatus, bmsPowered, stillAlive>>

RunPeriodic(d, lowSoc, balancing, i) ==
  /\ Due(d) /\ Verdict(lowSoc, balancing) = "Run"
  /\ StartBmsReset(i)
  /\ balancingPeriodSkipped' = FALSE
  /\ AgedPowerOn(d)
  /\ UNCHANGED stillAlive

\* May the BMS, which holds the contactors, lose its power now?
SafeToCut(d, i) ==
  i = "zero" \/ (i \in {"zero", "low"} /\ sincePowerRemoval + d >= SettleTime)

\* Seeded fault: the off time is measured from the request.
CutPower_NotStamped(d, i) ==
  /\ bmsResetStatus = "WAITING_FOR_PAUSE"
  /\ SafeToCut(d, i)
  /\ bmsPowered' = FALSE
  /\ bmsResetStatus' = "POWERED_OFF"
  /\ Age(d)
  /\ UNCHANGED <<pauseVars, balancingPeriodSkipped, stillAlive>>

CutPower(d, i) ==
  /\ bmsResetStatus = "WAITING_FOR_PAUSE"
  /\ SafeToCut(d, i)
  /\ bmsPowered' = FALSE
  /\ sincePowerRemoval' = 0
  /\ bmsResetStatus' = "POWERED_OFF"
  /\ AgedPowerOn(d) /\ AgedKeepalive(d)
  /\ UNCHANGED <<pauseVars, balancingPeriodSkipped, stillAlive>>

\* Still under load after GiveUpTime: no reset.  The pause is not released.
GiveUp(d, i) ==
  /\ bmsResetStatus = "WAITING_FOR_PAUSE"
  /\ ~SafeToCut(d, i)
  /\ sincePowerRemoval + d >= GiveUpTime
  /\ bmsResetStatus' = "IDLE"
  /\ Age(d)
  /\ UNCHANGED <<pauseVars, bmsPowered, balancingPeriodSkipped, stillAlive>>

AwaitPause(d, i) ==
  /\ bmsResetStatus = "WAITING_FOR_PAUSE"
  /\ ~SafeToCut(d, i)
  /\ sincePowerRemoval + d < GiveUpTime
  /\ Age(d)
  /\ UNCHANGED <<pauseVars, bmsResetStatus, bmsPowered, balancingPeriodSkipped,
                 stillAlive>>

\* Seeded fault: the counter is refreshed one interval and a call late.
KeepaliveTick_Late(d) ==
  IF NeedsKeepalive /\ sinceKeepalive = KeepaliveInterval /\ d > 0
    THEN stillAlive' = StillAliveMax /\ sinceKeepalive' = 0
    ELSE AgedKeepalive(d) /\ UNCHANGED stillAlive

\* bms_reset_can_keepalive_tick, if nothing else refreshes the counter.
KeepaliveTick(d) ==
  IF NeedsKeepalive /\ sinceKeepalive + d >= KeepaliveInterval
    THEN stillAlive' = StillAliveMax /\ sinceKeepalive' = 0
    ELSE AgedKeepalive(d) /\ UNCHANGED stillAlive

\* Seeded fault: every call starts the off time anew.
StayPoweredOff_Restamped(d) ==
  /\ bmsResetStatus = "POWERED_OFF"
  /\ sincePowerRemoval + d < OffTime
  /\ KeepaliveTick(d)
  /\ sincePowerRemoval' = 0
  /\ AgedPowerOn(d)
  /\ UNCHANGED <<pauseVars, bmsResetStatus, bmsPowered, balancingPeriodSkipped>>

StayPoweredOff(d) ==
  /\ bmsResetStatus = "POWERED_OFF"
  /\ sincePowerRemoval + d < OffTime
  /\ KeepaliveTick(d)
  /\ AgedRemoval(d) /\ AgedPowerOn(d)
  /\ UNCHANGED <<pauseVars, bmsResetStatus, bmsPowered, balancingPeriodSkipped>>

\* The off time is over; a long reset refreshes the alive counter once more.
PowerOn(d) ==
  /\ bmsResetStatus = "POWERED_OFF"
  /\ sincePowerRemoval + d >= OffTime
  /\ bmsPowered' = TRUE
  /\ sincePowerOn' = 0
  /\ bmsResetStatus' = "POWERING_ON"
  /\ IF NeedsKeepalive
       THEN stillAlive' = StillAliveMax /\ sinceKeepalive' = 0
       ELSE AgedKeepalive(d) /\ UNCHANGED stillAlive
  /\ AgedRemoval(d)
  /\ UNCHANGED <<pauseVars, balancingPeriodSkipped>>

AwaitWarmup(d) ==
  /\ bmsResetStatus = "POWERING_ON"
  /\ sincePowerOn + d < WarmupTime
  /\ KeepaliveTick(d)
  /\ AgedRemoval(d) /\ AgedPowerOn(d)
  /\ UNCHANGED <<pauseVars, bmsResetStatus, bmsPowered, balancingPeriodSkipped>>

FinishReset(d, i) ==
  /\ bmsResetStatus = "POWERING_ON"
  /\ sincePowerOn + d >= WarmupTime
  /\ KeepaliveTick(d)
  /\ ResumeBattery(i)
  /\ bmsResetStatus' = "IDLE"
  /\ AgedRemoval(d) /\ AgedPowerOn(d)
  /\ UNCHANGED <<bmsPowered, balancingPeriodSkipped>>

\* An equipment stop, or no reset configured: the state machine stands still.
StandStill(d) ==
  /\ equipmentStop \/ ~Enabled
  /\ Age(d)
  /\ UNCHANGED <<pauseVars, bmsResetStatus, bmsPowered, balancingPeriodSkipped,
                 stillAlive>>

(***************************************************************************)
(* handle_BMSpower(), d units after the previous call: the SOC is low, a   *)
(* pack is balancing, and the battery current is i.                        *)
(***************************************************************************)
HandleBmsPower(d, lowSoc, balancing, i) ==
  \/ StandStill(d)
  \/ /\ ~equipmentStop /\ Enabled
     /\ \/ StayIdle(d, lowSoc, balancing)
        \/ SkipPeriod(d, lowSoc, balancing)
        \/ RunPeriodic(d, lowSoc, balancing, i)
        \/ CutPower(d, i)
        \/ GiveUp(d, i)
        \/ AwaitPause(d, i)
        \/ StayPoweredOff(d)
        \/ PowerOn(d)
        \/ AwaitWarmup(d)
        \/ FinishReset(d, i)

=============================================================================
