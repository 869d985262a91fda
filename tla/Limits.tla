-------------------------------- MODULE Limits --------------------------------
(***************************************************************************)
(* The arithmetic on the power and current limits between the battery and  *)
(* the inverter: the caps of update_calculated_values(), the taper near    *)
(* full and the low pass filter of Software.cpp.                           *)
(*                                                                         *)
(* A limit is a record of the four fields of datalayer.battery.status:     *)
(* max_charge_power_W, max_discharge_power_W and the same as currents in   *)
(* dA.  Divisions truncate as in the code; no product exceeds 32 bits      *)
(* below 400 kW.                                                           *)
(***************************************************************************)
EXTENDS Integers

CONSTANTS
  MaxVoltage,    (* max_design_voltage_dV                                  *)
  UserCharge,    (* max_user_set_charge_dA                                 *)
  UserDischarge, (* max_user_set_discharge_dA                              *)
  Full,          (* 100.00 % of SOC: 10000                                 *)
  Band,          (* charge_taper_band_pptt                                 *)
  FloorPower,    (* charge_taper_floor_W                                   *)
  NewShare       (* weight of the new value in the filter, of 100: 10      *)

ASSUME LimitsAssumption ==
  /\ MaxVoltage \in Nat /\ MaxVoltage > 10
  /\ UserCharge \in Nat /\ UserDischarge \in Nat
  /\ Full \in Nat /\ Band \in 1..Full /\ FloorPower \in Nat
  /\ NewShare \in 1..100

Limit == [charge : Nat, discharge : Nat, chargeA : Nat, dischargeA : Nat]

Lower(a, b) == IF a <= b THEN a ELSE b

\* The live voltage, or the design voltage while the pack reports none.
ConversionVoltage(v) == IF v <= 10 THEN MaxVoltage ELSE v

AsCurrent(power, v) == (power * 100) \div ConversionVoltage(v)
AsPower(current, v) == (current * ConversionVoltage(v)) \div 100

\* Currents from the powers, no higher than the caps.
Calculated(charge, discharge, v, chargeCap, dischargeCap) ==
  [charge     |-> charge,
   discharge  |-> discharge,
   chargeA    |-> Lower(AsCurrent(charge, v), chargeCap),
   dischargeA |-> Lower(AsCurrent(discharge, v), dischargeCap)]

-----------------------------------------------------------------------------
\* The power that the taper leaves of base.
TaperedPower(base, soc) ==
  LET share == (base * (Full - soc)) \div Band
  IN  IF base > 0 /\ soc < Full /\ share < FloorPower THEN FloorPower ELSE share

\* filter_charge_taper_soc(), with an soc of at most Full.
Tapered(l, soc, v, chargeCap) ==
  LET power == TaperedPower(Lower(l.charge, AsPower(chargeCap, v)), soc)
  IN  IF soc >= Full - Band
        THEN [charge     |-> power,
              discharge  |-> l.discharge,
              chargeA    |-> Lower(l.chargeA, AsCurrent(power, v)),
              dischargeA |-> l.dischargeA]
        ELSE l

-----------------------------------------------------------------------------
\* Seeded fault: the filter also follows an increase at once.
FilterStep_NoRamp(in, old) == in

\* Seeded fault: the lower value sticks.
FilterStep_Sticks(in, old) == Lower(in, old)

\* Down at once, up by a share of the difference.
FilterStep(in, old) ==
  IF in > old THEN (in * NewShare + old * (100 - NewShare)) \div 100 ELSE in

\* What filter_inverter_limits() sends in.
FilterInput(l, v) ==
  [charge    |-> Lower(l.charge, AsPower(UserCharge, v)),
   discharge |-> Lower(l.discharge, AsPower(UserDischarge, v))]

\* The filter after one second; its first input passes.
FilterAfter(l, v, old, initialized) ==
  LET in == FilterInput(l, v)
  IN  IF initialized
        THEN [charge    |-> FilterStep(in.charge, old.charge),
              discharge |-> FilterStep(in.discharge, old.discharge)]
        ELSE in

\* The limits with the filtered powers f.
Filtered(l, v, f) ==
  [charge     |-> f.charge,
   discharge  |-> f.discharge,
   chargeA    |-> Lower(l.chargeA, AsCurrent(f.charge, v)),
   dischargeA |-> Lower(l.dischargeA, AsCurrent(f.discharge, v))]

=============================================================================
