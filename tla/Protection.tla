------------------------------ MODULE Protection ------------------------------
(***************************************************************************)
(* The 1 s phase between the readings of the battery and the limits the    *)
(* inverter is told: update_machineryprotection() of safety.cpp and, from  *)
(* Software.cpp, the caps before it and the taper and the filter after it. *)
(*                                                                         *)
(* "errors" holds the active events of level ERROR by their origin; only   *)
(* they decide the system status.  Events of a lower level are left out,   *)
(* with the checks that raise nothing else.                                *)
(***************************************************************************)
EXTENDS Limits, RemoteLimits

CONSTANTS
  MinVoltage,          (* min_design_voltage_dV                            *)
  MaxCell, MinCell,    (* max_cell_voltage_mV, min_cell_voltage_mV         *)
  CellHysteresis,      (* CELL_HYSTERESIS_MV: 20                           *)
  CellCritical,        (* CELL_CRITICAL_MV: 100                            *)
  LowestRecoveryCell,  (* LOWEST_ALLOWED_CELLVOLTAGE_RECOVERY_CHARGE_MV    *)
  RecoveryCurrent,     (* MAX_CHARGEPOWER_RECOVERY_CHARGE_DA: 50           *)
  RecoveryTime,        (* recovery_charge_max_time_ms, in seconds          *)
  UserMaxVoltage,      (* max_user_set_charge_voltage_dV                   *)
  UserMinVoltage,      (* max_user_set_discharge_voltage_dV                *)
  UserHysteresis       (* HYSTERESIS_OFFSET_DV: 20                         *)

ASSUME ProtectionAssumption ==
  /\ MinVoltage \in Nat /\ UserMaxVoltage \in Nat /\ UserMinVoltage \in Nat
  /\ UserHysteresis \in Nat /\ MaxCell \in Nat /\ MinCell \in Nat
  /\ CellHysteresis \in Nat /\ CellCritical \in Nat /\ LowestRecoveryCell \in Nat
  /\ RecoveryCurrent \in Nat /\ RecoveryTime \in Nat \ {0}

VARIABLES
  limits,            (* the limits in the data layer                       *)
  sent,              (* those inverter->update_values() has taken          *)
  filtered,          (* charge_power_W_filtered, discharge_..._filtered    *)
  filterReady,       (* power_filter_initialized                           *)
  cellBlocked,       (* cell_overvoltage_charge_blocked                    *)
  chargeBlocked,     (* charge_blocked                                     *)
  dischargeBlocked,  (* discharge_blocked                                  *)
  voltageLimits,     (* user_set_voltage_limits_active                     *)
  recoveryMode,      (* user_requests_forced_charging_recovery_mode        *)
  recoveryAge,       (* time since recovery_charge_start_time_ms           *)
  errors,            (* origins of the active events of level ERROR        *)
  status             (* system_status                                      *)

outputVars == <<sent, filtered, filterReady>>
latchVars == <<cellBlocked, chargeBlocked, dischargeBlocked>>
recoveryVars == <<recoveryMode, recoveryAge>>
eventVars == <<errors, status>>
protectionVars == <<limits, outputVars, latchVars, voltageLimits, recoveryVars, eventVars, remoteVars>>

NotStarted == -1
Origin == {"STOP", "DRIVER", "CHECK", "CRITICAL", "MISSING", "INVERTER", "PRECHARGE"}
NoLimit == [charge |-> 0, discharge |-> 0, chargeA |-> 0, dischargeA |-> 0]

\* What the driver of a pack has decoded; error: the pack is overheated;
\* fault: the driver itself reports an error, as an open interlock.
Reading == [voltage : Nat, cellMax : Nat, cellMin : Nat, soc : 0..Full, realSoc : 0..Full,
            charge : Nat, discharge : Nat, low : BOOLEAN, error : BOOLEAN, fault : BOOLEAN]

ProtectionTypeOK ==
  /\ limits \in Limit
  /\ sent \in Limit
  /\ filtered \in [charge : Nat, discharge : Nat]
  /\ filterReady \in BOOLEAN
  /\ cellBlocked \in BOOLEAN
  /\ chargeBlocked \in BOOLEAN
  /\ dischargeBlocked \in BOOLEAN
  /\ voltageLimits \in BOOLEAN
  /\ recoveryMode \in BOOLEAN
  /\ recoveryAge \in NotStarted..RecoveryTime
  /\ errors \subseteq Origin
  /\ status \in {"ACTIVE", "FAULT"}

ProtectionInit ==
  /\ limits = NoLimit
  /\ sent = NoLimit
  /\ filtered = [charge |-> 0, discharge |-> 0]
  /\ filterReady = FALSE
  /\ cellBlocked = FALSE
  /\ chargeBlocked = FALSE
  /\ dischargeBlocked = FALSE
  /\ voltageLimits = FALSE
  /\ recoveryMode = FALSE
  /\ recoveryAge = NotStarted
  /\ errors = {}
  /\ status = "ACTIVE"
  /\ RemoteInit

\* update_bms_status(): recovery keeps the system ACTIVE whatever is wrong.
StatusFor(errs, recovery) == IF errs # {} /\ ~recovery THEN "FAULT" ELSE "ACTIVE"

-----------------------------------------------------------------------------
(***************************************************************************)
(* The latches with hysteresis.                                            *)
(***************************************************************************)
\* Seeded fault: the latch opens as soon as the cell is below the ceiling.
CellBlockedAfter_NoHysteresis(r) == r.cellMax >= MaxCell

CellBlockedAfter(r) ==
  r.cellMax >= MaxCell \/ (cellBlocked /\ r.cellMax >= MaxCell - CellHysteresis)

\* The latches of the user's voltages stand still while the option is off.
ChargeBlockedAfter(r) ==
  IF voltageLimits
    THEN r.voltage >= UserMaxVoltage \/ (chargeBlocked /\ r.voltage >= UserMaxVoltage - UserHysteresis)
    ELSE chargeBlocked

DischargeBlockedAfter(r) ==
  IF voltageLimits
    THEN r.voltage <= UserMinVoltage \/ (dischargeBlocked /\ r.voltage <= UserMinVoltage + UserHysteresis)
    ELSE dischargeBlocked

-----------------------------------------------------------------------------
(***************************************************************************)
(* Events.  Each one that is set, and each active one that is cleared,     *)
(* brings the status up to date, those below ERROR included.  "touch" is   *)
(* when the first of these falls in the second: before the power is taken  *)
(* away, before the check for an empty battery, later or never.  "errs"    *)
(* and "now" are the errors and the status where the power is taken away.  *)
(***************************************************************************)
AtPower == 4
AtEmpty == 5
AtEnd == 6
Never == 7

Critical(r) == r.cellMax >= MaxCell + CellCritical \/ r.cellMin <= MinCell - CellCritical

\* Of the checks up to the one for an empty battery.
EarlyErrors(errs, r) ==
  (errs \ {"CHECK"}) \cup (IF r.error THEN {"CHECK"} ELSE {})
                     \cup (IF Critical(r) THEN {"CRITICAL"} ELSE {})

\* Some early check sets an event, which updates the status.
EarlyEvent(errs, r) ==
  \/ EarlyErrors(errs, r) # errs
  \/ r.error
  \/ r.voltage > MaxVoltage \/ r.voltage < MinVoltage
  \/ r.cellMax >= MaxCell \/ r.cellMin <= MinCell

StatusAtEmpty(errs, now, r, touch) ==
  IF touch <= AtEmpty \/ EarlyEvent(errs, r) THEN StatusFor(EarlyErrors(errs, r), recoveryMode) ELSE now

\* The errors of counters that have run out.
SilenceErrors(mainSilent, inverterMissing) ==
  (IF mainSilent THEN {"MISSING"} ELSE {}) \cup (IF inverterMissing THEN {"INVERTER"} ELSE {})

ErrorsAfter(early, mainSilent, inverterMissing) ==
  (early \ {"MISSING", "INVERTER"}) \cup SilenceErrors(mainSilent, inverterMissing)

-----------------------------------------------------------------------------
(***************************************************************************)
(* Emergency recovery charging.                                            *)
(***************************************************************************)
\* Seeded fault: every second starts the period anew.
RecoveryAgeNow_Restarts == 0

RecoveryAgeNow ==
  IF recoveryAge = NotStarted THEN 0
  ELSE IF recoveryAge < RecoveryTime THEN recoveryAge + 1
  ELSE recoveryAge

RecoveryOver == RecoveryAgeNow >= RecoveryTime

RecoveryAfter(r) ==
  /\ recoveryMode' = (recoveryMode /\ ~RecoveryOver /\ r.cellMin >= LowestRecoveryCell)
  /\ recoveryAge' = IF recoveryMode
                      THEN (IF RecoveryOver THEN NotStarted ELSE RecoveryAgeNow)
                      ELSE (IF recoveryAge = NotStarted THEN NotStarted ELSE RecoveryAgeNow)

\* The recovery sets or clears one of its events in this second.
RecoveryEvent(r) ==
  recoveryMode /\ (recoveryAge \in {NotStarted, 0} \/ RecoveryOver \/ r.cellMin < LowestRecoveryCell)

-----------------------------------------------------------------------------
(***************************************************************************)
(* The limits.                                                             *)
(***************************************************************************)
\* Seeded fault: only a pause takes the power away.
ZeroPower_OnlyPause(paused, now) == paused

ZeroPower(paused, now) == paused \/ now = "FAULT"

ChargeForbidden(r, zero) ==
  \/ zero
  \/ r.voltage > MaxVoltage
  \/ CellBlockedAfter(r)
  \/ voltageLimits /\ ChargeBlockedAfter(r)
  \/ r.soc = Full \/ r.realSoc = Full

\* emptyCounts: the status is not FAULT when the check for an empty battery comes.
DischargeForbidden(r, zero, emptyCounts) ==
  \/ zero
  \/ r.voltage < MinVoltage
  \/ r.cellMin <= MinCell
  \/ voltageLimits /\ DischargeBlockedAfter(r)
  \/ emptyCounts /\ (r.soc = 0 \/ r.realSoc = 0)

\* Powers a check forbids are zero, and their currents with them.
Allowed(l, noCharge, noDischarge) ==
  LET charge == IF noCharge THEN 0 ELSE l.charge
      discharge == IF noDischarge THEN 0 ELSE l.discharge
  IN  [charge |-> charge, discharge |-> discharge,
       chargeA |-> IF charge = 0 THEN 0 ELSE l.chargeA,
       dischargeA |-> IF discharge = 0 THEN 0 ELSE l.dischargeA]

\* Recovery allows a small charge current all the same.
Recovered(l) ==
  IF recoveryMode
    THEN [charge |-> l.charge, discharge |-> l.discharge,
          chargeA |-> Lower(UserCharge, RecoveryCurrent), dischargeA |-> l.dischargeA]
    ELSE l

\* Seeded fault: the recovery current is set before the checks.
Protected_RecoveryFirst(l, r, zero, emptyCounts) ==
  Allowed(Recovered(l), ChargeForbidden(r, zero), DischargeForbidden(r, zero, emptyCounts))

\* Seeded fault: the currents of forbidden powers are left as they are.
Protected_PowersOnly(l, r, zero, emptyCounts) ==
  Recovered([charge |-> IF ChargeForbidden(r, zero) THEN 0 ELSE l.charge,
             discharge |-> IF DischargeForbidden(r, zero, emptyCounts) THEN 0 ELSE l.discharge,
             chargeA |-> l.chargeA, dischargeA |-> l.dischargeA])

\* update_machineryprotection().
Protected(l, r, zero, emptyCounts) ==
  Recovered(Allowed(l, ChargeForbidden(r, zero), DischargeForbidden(r, zero, emptyCounts)))

\* update_calculated_values() with the lowest powers of all packs.
CapsOf(charge, discharge, r) ==
  Calculated(charge, discharge, r.voltage,
             CapAfterExpiry("charge", UserCharge), CapAfterExpiry("discharge", UserDischarge))

TaperedIf(taper, l, r) ==
  IF taper THEN Tapered(l, r.soc, r.voltage, CapAfterExpiry("charge", UserCharge)) ELSE l

\* Seeded fault: the filter does not see what the safeties took away.
FilterSees_Unprotected(taper, l, r, zero, emptyCounts) == TaperedIf(taper, l, r)

\* What reaches the filter.
FilterSees(taper, l, r, zero, emptyCounts) ==
  TaperedIf(taper, Protected(l, r, zero, emptyCounts), r)

\* The whole way of the limits l of the packs in one second.
LimitsAfter(taper, filter, l, r, zero, emptyCounts) ==
  \E safe \in {FilterSees(taper, l, r, zero, emptyCounts)} :
    /\ filtered' = IF filter THEN FilterAfter(safe, r.voltage, filtered, filterReady) ELSE filtered
    /\ filterReady' = (filterReady \/ filter)
    /\ limits' = IF filter THEN Filtered(safe, r.voltage, filtered') ELSE safe

(***************************************************************************)
(* The events of the second from l. 143 of safety.cpp on.  A silent        *)
(* inverter is an event in any case, and an error if inverterMissing.      *)
(***************************************************************************)
EventsAfter(r, errs, now, mainSilent, inverterSilent, inverterMissing, touch) ==
  LET final == ErrorsAfter(EarlyErrors(errs, r), mainSilent, inverterMissing)
      changed == \/ touch # Never \/ EarlyEvent(errs, r) \/ final # errs
                 \/ mainSilent \/ inverterSilent \/ RecoveryEvent(r)
  IN  /\ errors' = final
      /\ status' = IF changed THEN StatusFor(final, recoveryMode') ELSE now

\* The 1 s phase from l. 143 of safety.cpp on, with the caps that come before.
Protect(taper, filter, charge, discharge, r, paused, errs, now, touch) ==
  /\ cellBlocked' = CellBlockedAfter(r)
  /\ chargeBlocked' = ChargeBlockedAfter(r)
  /\ dischargeBlocked' = DischargeBlockedAfter(r)
  /\ RecoveryAfter(r)
  /\ ExpireRemote
  /\ UNCHANGED voltageLimits
  /\ LimitsAfter(taper, filter, CapsOf(charge, discharge, r), r, ZeroPower(paused, now),
                 StatusAtEmpty(errs, now, r, touch) = "ACTIVE")
  /\ sent' = limits'

=============================================================================
