----------------------------- MODULE Limits_proofs -----------------------------
(***************************************************************************)
(* Lemmas about the arithmetic of Limits for all voltages, caps and        *)
(* settings: every limit stays a number, no current comes without power,   *)
(* and what the taper and the filter may do to a power.                    *)
(***************************************************************************)
EXTENDS Limits, TLAPS

\* Division as the proofs need it.
LEMMA Quotient ==
  ASSUME NEW a \in Nat, NEW b \in Nat, b > 0
  PROVE  /\ a \div b \in Nat
         /\ b * (a \div b) <= a
         /\ a = 0 => a \div b = 0
         /\ \A c \in Nat : a <= b * c => a \div b <= c
<1>1. a \div b \in Nat /\ b * (a \div b) <= a /\ (a = 0 => a \div b = 0)
  BY SMT
<1>2. ASSUME NEW c \in Nat, a <= b * c PROVE a \div b <= c
  <2>1. b * (a \div b) <= b * c
    BY <1>1, <1>2, SMT
  <2> QED
    BY <1>1, <2>1, SMT
<1> QED
  BY <1>1, <1>2

LEMMA Product ==
  ASSUME NEW a \in Nat, NEW b \in Nat
  PROVE  /\ a * b \in Nat
         /\ a = 0 \/ b = 0 => a * b = 0
         /\ \A c \in Nat : b <= c => a * b <= a * c
  BY SMT

LEMMA LowerType ==
  ASSUME NEW a \in Nat, NEW b \in Nat
  PROVE  Lower(a, b) \in Nat /\ Lower(a, b) <= a /\ Lower(a, b) <= b
  BY DEF Lower

LEMMA ConversionVoltageType ==
  ASSUME NEW v \in Nat
  PROVE  ConversionVoltage(v) \in Nat /\ ConversionVoltage(v) > 0
  BY LimitsAssumption DEF ConversionVoltage

\* Currents and powers are numbers, and no power is no current.
LEMMA ConversionTypes ==
  ASSUME NEW x \in Nat, NEW v \in Nat
  PROVE  /\ AsCurrent(x, v) \in Nat
         /\ AsPower(x, v) \in Nat
         /\ AsCurrent(0, v) = 0
<1> DEFINE c == ConversionVoltage(v)
<1>1. c \in Nat /\ c > 0
  BY ConversionVoltageType
<1> HIDE DEF c
<1>2. x * 100 \in Nat /\ 0 * 100 = 0 /\ x * c \in Nat
  BY <1>1, Product
<1>3. (x * 100) \div c \in Nat /\ 0 \div c = 0 /\ (x * c) \div 100 \in Nat
  BY <1>1, <1>2, Quotient
<1> QED
  BY <1>2, <1>3 DEF AsCurrent, AsPower, c

-----------------------------------------------------------------------------
(***************************************************************************)
(* The taper gives nothing where nothing is allowed; elsewhere it stays    *)
(* within the allowance, but for its floor (Software.cpp:198-212).         *)
(***************************************************************************)
LEMMA TaperBounds ==
  ASSUME NEW base \in Nat, NEW soc \in 0..Full
  PROVE  /\ TaperedPower(base, soc) \in Nat
         /\ base = 0 => TaperedPower(base, soc) = 0
         /\ soc >= Full - Band =>
              TaperedPower(base, soc) <= base \/ (base > 0 /\ TaperedPower(base, soc) <= FloorPower)
<1> DEFINE share == (base * (Full - soc)) \div Band
<1>1. Full \in Nat /\ Band \in Nat /\ Band > 0 /\ FloorPower \in Nat /\ Full - soc \in Nat
  BY LimitsAssumption
<1>2. base * (Full - soc) \in Nat /\ (base = 0 => base * (Full - soc) = 0)
  BY <1>1, Product
<1>3. share \in Nat /\ (base = 0 => share = 0)
  BY <1>1, <1>2, Quotient
<1>4. soc >= Full - Band => share <= base
  <2> SUFFICES ASSUME soc >= Full - Band PROVE share <= base
    OBVIOUS
  <2>1. Full - soc <= Band
    BY <1>1
  <2>2. base * (Full - soc) <= base * Band /\ base * Band = Band * base
    BY <1>1, <2>1, Product
  <2> QED
    BY <1>1, <1>2, <2>2, Quotient
<1>5. TaperedPower(base, soc) = IF base > 0 /\ soc < Full /\ share < FloorPower THEN FloorPower ELSE share
  BY DEF TaperedPower
<1> HIDE DEF share
<1> QED
  BY <1>1, <1>3, <1>4, <1>5

LEMMA TaperedType ==
  ASSUME NEW l \in Limit, NEW soc \in 0..Full, NEW v \in Nat, NEW cap \in Nat
  PROVE  /\ Tapered(l, soc, v, cap) \in Limit
         /\ l.charge = 0 /\ l.chargeA = 0 =>
              Tapered(l, soc, v, cap).charge = 0 /\ Tapered(l, soc, v, cap).chargeA = 0
         /\ l.charge = 0 => Tapered(l, soc, v, cap).charge = 0
         /\ Tapered(l, soc, v, cap).charge = 0 /\ l.charge # 0 => Tapered(l, soc, v, cap).chargeA = 0
         /\ Tapered(l, soc, v, cap).chargeA <= l.chargeA
         /\ Tapered(l, soc, v, cap).discharge = l.discharge
         /\ Tapered(l, soc, v, cap).dischargeA = l.dischargeA
         /\ \/ Tapered(l, soc, v, cap).charge <= l.charge
            \/ l.charge > 0 /\ Tapered(l, soc, v, cap).charge <= FloorPower
<1> DEFINE base == Lower(l.charge, AsPower(cap, v))
           power == TaperedPower(base, soc)
           current == Lower(l.chargeA, AsCurrent(power, v))
<1>1. l.charge \in Nat /\ l.discharge \in Nat /\ l.chargeA \in Nat /\ l.dischargeA \in Nat
  BY DEF Limit
<1>2. base \in Nat /\ base <= l.charge
  BY <1>1, ConversionTypes, LowerType
<1>3. /\ power \in Nat
      /\ base = 0 => power = 0
      /\ soc >= Full - Band => power <= base \/ (base > 0 /\ power <= FloorPower)
  BY <1>2, TaperBounds
<1>4. current \in Nat /\ current <= l.chargeA /\ (power = 0 => current = 0)
  <2>1. AsCurrent(power, v) \in Nat /\ (power = 0 => AsCurrent(power, v) = 0)
    BY <1>3, ConversionTypes
  <2> HIDE DEF power
  <2> QED
    BY <1>1, <2>1 DEF Lower
<1>5. Tapered(l, soc, v, cap) =
        IF soc >= Full - Band
          THEN [charge |-> power, discharge |-> l.discharge,
                chargeA |-> current, dischargeA |-> l.dischargeA]
          ELSE l
  BY DEF Tapered
<1> HIDE DEF base, power, current
<1>6. CASE soc >= Full - Band
  <2>1. Tapered(l, soc, v, cap) = [charge |-> power, discharge |-> l.discharge,
                                   chargeA |-> current, dischargeA |-> l.dischargeA]
    BY <1>5, <1>6
  <2>2. l.charge = 0 => power = 0
    BY <1>1, <1>2, <1>3
  <2>3. power <= l.charge \/ (l.charge > 0 /\ power <= FloorPower)
    BY <1>1, <1>2, <1>3, <1>6, LimitsAssumption
  <2> QED
    BY <1>1, <1>3, <1>4, <2>1, <2>2, <2>3 DEF Limit
<1>7. CASE ~(soc >= Full - Band)
  <2>1. Tapered(l, soc, v, cap) = l
    BY <1>5, <1>7
  <2> QED
    BY <1>1, <2>1
<1> QED
  BY <1>6, <1>7

-----------------------------------------------------------------------------
(***************************************************************************)
(* One step of the filter: a number, never above its input, at once at an  *)
(* input that is lower, and towards a higher one by its share of the       *)
(* difference at most (Software.cpp:335-350).                              *)
(***************************************************************************)
LEMMA FilterStepBounds ==
  ASSUME NEW in \in Nat, NEW old \in Nat
  PROVE  /\ FilterStep(in, old) \in Nat
         /\ FilterStep(in, old) <= in
         /\ in <= old => FilterStep(in, old) = in
         /\ in > old => 100 * FilterStep(in, old) <= NewShare * in + (100 - NewShare) * old
<1> DEFINE sum == in * NewShare + old * (100 - NewShare)
<1>1. NewShare \in Nat /\ 100 - NewShare \in Nat
  BY LimitsAssumption
<1>2. in * NewShare \in Nat /\ old * (100 - NewShare) \in Nat
  BY <1>1, Product
<1>3. sum \in Nat /\ sum = NewShare * in + (100 - NewShare) * old
  BY <1>1, <1>2, SMT
<1>4. sum \div 100 \in Nat /\ 100 * (sum \div 100) <= sum
  <2> HIDE DEF sum
  <2> QED
    BY <1>3, Quotient
<1>5. in > old => sum \div 100 <= in
  <2> SUFFICES ASSUME in > old PROVE sum \div 100 <= in
    OBVIOUS
  <2>1. (100 - NewShare) * old <= (100 - NewShare) * in
    BY <1>1, Product
  <2>2. NewShare * in + (100 - NewShare) * in = 100 * in
    BY <1>1, SMT
  <2>3. NewShare * in \in Nat /\ (100 - NewShare) * in \in Nat /\ (100 - NewShare) * old \in Nat
    BY <1>1, Product
  <2> HIDE DEF sum
  <2>4. sum <= 100 * in
    BY <1>3, <2>1, <2>2, <2>3
  <2> QED
    BY <1>3, <2>4, Quotient
<1>6. FilterStep(in, old) = IF in > old THEN sum \div 100 ELSE in
  BY DEF FilterStep
<1> HIDE DEF sum
<1> QED
  BY <1>3, <1>4, <1>5, <1>6

\* A rising input is approached: never away from it, and by 1 at least while it
\* is further away than what the division loses.
LEMMA FilterApproaches ==
  ASSUME NEW in \in Nat, NEW old \in Nat, in > old
  PROVE  /\ FilterStep(in, old) >= old
         /\ in - old > 99 \div NewShare => FilterStep(in, old) > old
<1> DEFINE gap == in - old
           sum == in * NewShare + old * (100 - NewShare)
           lost == 99 \div NewShare
<1>1. NewShare \in Nat /\ NewShare > 0 /\ NewShare <= 100 /\ gap \in Nat
  BY LimitsAssumption
<1>2. NewShare * gap \in Nat /\ sum = 100 * old + NewShare * gap
  BY <1>1, SMT
<1>3. lost \in Nat /\ 100 <= NewShare * (lost + 1)
  BY <1>1, SMT
<1>4. FilterStep(in, old) = sum \div 100
  BY DEF FilterStep
<1> HIDE DEF gap, sum, lost
<1>5. gap > lost => NewShare * (lost + 1) <= NewShare * gap
  BY <1>1, <1>3, Product
<1>6. gap > lost => 100 <= NewShare * gap
  <2>1. NewShare * (lost + 1) \in Nat
    BY <1>1, <1>3, Product
  <2> QED
    BY <1>2, <1>3, <1>5, <2>1
<1>7. sum \in Nat /\ sum >= 100 * old /\ (gap > lost => sum >= 100 * (old + 1))
  BY <1>2, <1>6
<1>8. sum \div 100 >= old /\ (gap > lost => sum \div 100 >= old + 1)
  BY <1>7, SMT
<1> QED
  BY <1>4, <1>7, <1>8, SMT DEF gap, lost

LEMMA FilterInputType ==
  ASSUME NEW l \in Limit, NEW v \in Nat
  PROVE  /\ FilterInput(l, v).charge \in Nat /\ FilterInput(l, v).charge <= l.charge
         /\ FilterInput(l, v).discharge \in Nat /\ FilterInput(l, v).discharge <= l.discharge
  BY LimitsAssumption, ConversionTypes, LowerType DEF FilterInput, Limit

\* The filter never gives more than it gets.
LEMMA FilterAfterType ==
  ASSUME NEW l \in Limit, NEW v \in Nat, NEW old \in [charge : Nat, discharge : Nat], NEW ready
  PROVE  /\ FilterAfter(l, v, old, ready) \in [charge : Nat, discharge : Nat]
         /\ FilterAfter(l, v, old, ready).charge <= l.charge
         /\ FilterAfter(l, v, old, ready).discharge <= l.discharge
         /\ ready => /\ FilterAfter(l, v, old, ready).charge =
                          FilterStep(FilterInput(l, v).charge, old.charge)
                     /\ FilterAfter(l, v, old, ready).discharge =
                          FilterStep(FilterInput(l, v).discharge, old.discharge)
<1> DEFINE in == FilterInput(l, v)
           c == FilterStep(in.charge, old.charge)
           d == FilterStep(in.discharge, old.discharge)
<1>1. /\ in.charge \in Nat /\ in.charge <= l.charge
      /\ in.discharge \in Nat /\ in.discharge <= l.discharge
  BY FilterInputType
<1>2. l.charge \in Nat /\ l.discharge \in Nat
  BY DEF Limit
<1>3. c \in Nat /\ c <= in.charge /\ d \in Nat /\ d <= in.discharge
  BY <1>1, FilterStepBounds
<1>4. in = [charge |-> in.charge, discharge |-> in.discharge]
  BY DEF FilterInput
<1>5. FilterAfter(l, v, old, ready) = IF ready THEN [charge |-> c, discharge |-> d] ELSE in
  BY DEF FilterAfter
<1>6. c = FilterStep(FilterInput(l, v).charge, old.charge) /\
      d = FilterStep(FilterInput(l, v).discharge, old.discharge)
  OBVIOUS
<1> HIDE DEF in, c, d
<1>7. CASE ready
  <2>1. FilterAfter(l, v, old, ready) = [charge |-> c, discharge |-> d]
    BY <1>5, <1>7
  <2> QED
    BY <1>1, <1>2, <1>3, <1>6, <2>1
<1>8. CASE ~ready
  <2>1. FilterAfter(l, v, old, ready) = in
    BY <1>5, <1>8
  <2> QED
    BY <1>1, <1>2, <1>4, <1>8, <2>1
<1> QED
  BY <1>7, <1>8

LEMMA FilteredType ==
  ASSUME NEW l \in Limit, NEW v \in Nat, NEW f \in [charge : Nat, discharge : Nat]
  PROVE  /\ Filtered(l, v, f) \in Limit
         /\ Filtered(l, v, f).charge = f.charge
         /\ Filtered(l, v, f).discharge = f.discharge
         /\ Filtered(l, v, f).chargeA <= l.chargeA
         /\ Filtered(l, v, f).dischargeA <= l.dischargeA
         /\ f.charge = 0 => Filtered(l, v, f).chargeA = 0
         /\ f.discharge = 0 => Filtered(l, v, f).dischargeA = 0
<1> DEFINE c == Lower(l.chargeA, AsCurrent(f.charge, v))
           d == Lower(l.dischargeA, AsCurrent(f.discharge, v))
<1>1. l.chargeA \in Nat /\ l.dischargeA \in Nat /\ f.charge \in Nat /\ f.discharge \in Nat
  BY DEF Limit
<1>2. /\ AsCurrent(f.charge, v) \in Nat /\ (f.charge = 0 => AsCurrent(f.charge, v) = 0)
      /\ AsCurrent(f.discharge, v) \in Nat /\ (f.discharge = 0 => AsCurrent(f.discharge, v) = 0)
  BY <1>1, ConversionTypes
<1>3. /\ c \in Nat /\ c <= l.chargeA /\ (f.charge = 0 => c = 0)
      /\ d \in Nat /\ d <= l.dischargeA /\ (f.discharge = 0 => d = 0)
  BY <1>1, <1>2 DEF Lower
<1>4. Filtered(l, v, f) = [charge |-> f.charge, discharge |-> f.discharge,
                           chargeA |-> c, dischargeA |-> d]
  BY DEF Filtered
<1> HIDE DEF c, d
<1> QED
  BY <1>1, <1>3, <1>4 DEF Limit

LEMMA CalculatedType ==
  ASSUME NEW charge \in Nat, NEW discharge \in Nat, NEW v \in Nat, NEW cap \in Nat, NEW dcap \in Nat
  PROVE  /\ Calculated(charge, discharge, v, cap, dcap) \in Limit
         /\ Calculated(charge, discharge, v, cap, dcap).charge = charge
         /\ Calculated(charge, discharge, v, cap, dcap).discharge = discharge
         /\ Calculated(charge, discharge, v, cap, dcap).chargeA <= cap
         /\ Calculated(charge, discharge, v, cap, dcap).dischargeA <= dcap
<1> DEFINE c == Lower(AsCurrent(charge, v), cap)
           d == Lower(AsCurrent(discharge, v), dcap)
<1>1. c \in Nat /\ c <= cap /\ d \in Nat /\ d <= dcap
  BY ConversionTypes, LowerType
<1>2. Calculated(charge, discharge, v, cap, dcap) =
        [charge |-> charge, discharge |-> discharge, chargeA |-> c, dischargeA |-> d]
  BY DEF Calculated
<1> HIDE DEF c, d
<1> QED
  BY <1>1, <1>2 DEF Limit

=============================================================================
