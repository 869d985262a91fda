-------------------------- MODULE CoreLoopPower_proofs -------------------------
(***************************************************************************)
(* Proofs about the power in CoreLoop, for all settings, caps, messages,   *)
(* readings and installations: the types, and what the 1 s phase lets      *)
(* through to the inverter.                                                *)
(***************************************************************************)
EXTENDS CoreLoop_proofs, Limits_proofs

-----------------------------------------------------------------------------
(***************************************************************************)
(* The lowest of the packs.                                                *)
(***************************************************************************)
LEMMA LowestOfThree ==
  ASSUME NEW a \in Nat, NEW b \in Nat, NEW c \in Nat, NEW S,
         S = {a} \/ S = {a, b} \/ S = {a, c} \/ S = {a, b, c}
  PROVE  LowestOf(S) \in S /\ \A y \in S : LowestOf(S) <= y
<1>1. \E x \in S : \A y \in S : x <= y
  <2>1. \E x \in {a, b, c} : x <= a /\ x <= b /\ x <= c
    BY SMT
  <2>2. \E x \in {a, b} : x <= a /\ x <= b
    BY SMT
  <2>3. \E x \in {a, c} : x <= a /\ x <= c
    BY SMT
  <2> QED
    BY <2>1, <2>2, <2>3
<1> QED
  BY <1>1 DEF LowestOf

LEMMA LowestPack ==
  ASSUME NEW f, \A p \in AllPacks : f[p] \in Nat, NEW P \in SUBSET PackIds
  PROVE  /\ LowestOf({f[p] : p \in {1} \cup P}) \in Nat
         /\ \A p \in {1} \cup P : LowestOf({f[q] : q \in {1} \cup P}) <= f[p]
<1> DEFINE S == {f[p] : p \in {1} \cup P}
           b == IF 2 \in P THEN f[2] ELSE f[1]
           c == IF 3 \in P THEN f[3] ELSE f[1]
<1>1. {1} \cup P \subseteq AllPacks /\ P \subseteq {2, 3}
  BY TimeTypes DEF AllPacks
<1>2. f[1] \in Nat /\ b \in Nat /\ c \in Nat
  BY <1>1
<1>3. S = {f[1], b, c}
  BY <1>1
<1> HIDE DEF S, b, c
<1>4. LowestOf(S) \in S /\ \A y \in S : LowestOf(S) <= y
  BY <1>2, <1>3, LowestOfThree
<1> QED
  BY <1>1, <1>4 DEF S

\* Every reading is one, and allows no more than PowerCap.
ReadingInv ==
  /\ install \in Installations
  /\ reading \in [AllPacks -> Reading]
  /\ \A p \in AllPacks : reading[p].charge <= PowerCap /\ reading[p].discharge <= PowerCap

LEMMA LowestPowers ==
  ASSUME ReadingInv
  PROVE  /\ LowestCharge \in Nat /\ LowestDischarge \in Nat
         /\ LowestCharge <= PowerCap /\ LowestDischarge <= PowerCap
         /\ \A p \in {1} \cup install.packs : /\ LowestCharge <= reading[p].charge
                                              /\ LowestDischarge <= reading[p].discharge
<1>1. install.packs \in SUBSET PackIds
  BY InstallationAssumption DEF ReadingInv
<1>2. \A p \in AllPacks : reading[p].charge \in Nat /\ reading[p].discharge \in Nat
  BY DEF ReadingInv, Reading
<1> DEFINE f == [p \in AllPacks |-> reading[p].charge]
           g == [p \in AllPacks |-> reading[p].discharge]
           S == {f[p] : p \in {1} \cup install.packs}
           T == {g[p] : p \in {1} \cup install.packs}
<1>3. {1} \cup install.packs \subseteq AllPacks
  BY <1>1 DEF AllPacks
<1>4. LowestCharge = LowestOf(S) /\ LowestDischarge = LowestOf(T)
  <2>1. S = {reading[p].charge : p \in {1} \cup install.packs}
    BY <1>3
  <2>2. T = {reading[p].discharge : p \in {1} \cup install.packs}
    BY <1>3
  <2> HIDE DEF S, T
  <2> QED
    BY <2>1, <2>2 DEF LowestCharge, LowestDischarge
<1>5. \A p \in AllPacks : f[p] \in Nat /\ g[p] \in Nat
  BY <1>2
<1> HIDE DEF f, g
<1>6. LowestOf(S) \in Nat /\ \A p \in {1} \cup install.packs : LowestOf(S) <= f[p]
  BY <1>1, <1>5, LowestPack
<1>7. LowestOf(T) \in Nat /\ \A p \in {1} \cup install.packs : LowestOf(T) <= g[p]
  BY <1>1, <1>5, LowestPack
<1> HIDE DEF S, T
<1>8. \A p \in {1} \cup install.packs : f[p] = reading[p].charge /\ g[p] = reading[p].discharge
  BY <1>3 DEF f, g
<1>9. reading[1].charge \in Nat /\ reading[1].charge <= PowerCap
      /\ reading[1].discharge \in Nat /\ reading[1].discharge <= PowerCap
  BY <1>2 DEF ReadingInv, AllPacks
<1>10. LowestCharge <= PowerCap /\ LowestDischarge <= PowerCap
  BY <1>4, <1>6, <1>7, <1>8, <1>9, InstallationAssumption
<1> QED
  BY <1>4, <1>6, <1>7, <1>8, <1>10

LEMMA ReadingInvInit == Init => ReadingInv
  BY InstallationAssumption DEF Init, ReadingInv

LEMMA ReadingInvNext == ReadingInv /\ [Next]_vars => ReadingInv'
<1> SUFFICES ASSUME ReadingInv, [Next]_vars PROVE ReadingInv'
  OBVIOUS
<1>1. install' = install
  BY ButtonSteps
<1>2. ASSUME NEW p \in AllPacks, Frame(p) PROVE ReadingInv'
  <2>1. PICK r \in install.mainReadings \cup install.packReadings : reading' = [reading EXCEPT ![p] = r]
    BY <1>2 DEF Frame
  <2>2. r \in Reading /\ r.charge <= PowerCap /\ r.discharge <= PowerCap
    BY InstallationAssumption DEF ReadingInv
  <2> QED
    BY <1>1, <2>1, <2>2 DEF ReadingInv
<1>3. ASSUME reading' = reading PROVE ReadingInv'
  BY <1>1, <1>3 DEF ReadingInv
<1>4. CASE TenMs \/ InverterFrame \/ Switch \/ SetRemoteLimits
  BY <1>3, <1>4 DEF TenMs, InverterFrame, Switch, SetRemoteLimits, plantVars
<1>5. CASE Second
  BY <1>3, <1>5 DEF Second, SecondWith
<1>6. CASE Driver \/ MebReset \/ ChangePermission \/ OtherEvent
  BY <1>3, <1>6 DEF Driver, MebReset, ChangePermission, OtherEvent, plantVars
<1>7. CASE Operator
  BY <1>3, <1>7 DEF Operator, PauseFromOutside, ClearEvents, SwitchRecovery, SwitchVoltageLimits,
                    plantVars
<1>8. CASE UNCHANGED vars
  BY <1>3, <1>8 DEF vars, plantVars
<1> QED
  BY <1>2, <1>4, <1>5, <1>6, <1>7, <1>8 DEF Next

-----------------------------------------------------------------------------
(***************************************************************************)
(* What one second does to the limits, stage by stage.                     *)
(***************************************************************************)
LEMMA CapType ==
  ASSUME RemoteTypeOK
  PROVE  /\ CapAfterExpiry("charge", UserCharge) \in Nat
         /\ CapAfterExpiry("discharge", UserDischarge) \in Nat
  BY LimitsAssumption DEF CapAfterExpiry, RemoteTypeOK, Direction

\* The safeties take away and, save for the recovery, add nothing.
LEMMA ProtectedFacts ==
  ASSUME NEW l \in Limit, NEW r, NEW zero, NEW emptyCounts
  PROVE  LET P == Protected(l, r, zero, emptyCounts) IN
         /\ P \in Limit
         /\ P.charge <= l.charge /\ P.discharge <= l.discharge
         /\ ChargeForbidden(r, zero) => P.charge = 0
         /\ DischargeForbidden(r, zero, emptyCounts) => P.discharge = 0
         /\ P.discharge = 0 => P.dischargeA = 0
         /\ P.charge = 0 /\ ~recoveryMode => P.chargeA = 0
         /\ ~recoveryMode => P.chargeA <= l.chargeA
         /\ P.dischargeA <= l.dischargeA
         /\ recoveryMode => P.chargeA = Lower(UserCharge, RecoveryCurrent)
<1> DEFINE noCharge == ChargeForbidden(r, zero)
           noDischarge == DischargeForbidden(r, zero, emptyCounts)
           A == Allowed(l, noCharge, noDischarge)
<1>1. /\ l.charge \in Nat /\ l.discharge \in Nat /\ l.chargeA \in Nat /\ l.dischargeA \in Nat
  BY DEF Limit
<1>2. /\ A \in Limit
      /\ A.charge <= l.charge /\ A.discharge <= l.discharge
      /\ noCharge => A.charge = 0
      /\ noDischarge => A.discharge = 0
      /\ A.discharge = 0 => A.dischargeA = 0
      /\ A.charge = 0 => A.chargeA = 0
      /\ A.chargeA <= l.chargeA /\ A.dischargeA <= l.dischargeA
  <2> HIDE DEF noCharge, noDischarge
  <2> QED
    BY <1>1 DEF Allowed, Limit
<1>3. Lower(UserCharge, RecoveryCurrent) \in Nat
  BY LimitsAssumption, ProtectionAssumption, LowerType
<1>4. Protected(l, r, zero, emptyCounts) = Recovered(A)
  BY DEF Protected
<1> HIDE DEF noCharge, noDischarge, A
<1>5. CASE recoveryMode
  <2>1. Recovered(A) = [charge |-> A.charge, discharge |-> A.discharge,
                        chargeA |-> Lower(UserCharge, RecoveryCurrent), dischargeA |-> A.dischargeA]
    BY <1>5 DEF Recovered
  <2>2. Recovered(A) \in Limit
    BY <1>2, <1>3, <2>1 DEF Limit
  <2> QED
    BY <1>2, <1>4, <1>5, <2>1, <2>2 DEF noCharge, noDischarge
<1>6. CASE ~recoveryMode
  <2>1. Recovered(A) = A
    BY <1>6 DEF Recovered
  <2> QED
    BY <1>2, <1>4, <1>6, <2>1 DEF noCharge, noDischarge
<1> QED
  BY <1>5, <1>6

\* With the taper, if there is one.
LEMMA TaperedFacts ==
  ASSUME RemoteTypeOK, NEW l \in Limit, NEW r \in Reading, NEW taper \in BOOLEAN
  PROVE  LET T == TaperedIf(taper, l, r) IN
         /\ T \in Limit
         /\ l.charge = 0 => T.charge = 0
         /\ T.discharge = l.discharge /\ T.dischargeA = l.dischargeA
         /\ T.chargeA <= l.chargeA
         /\ T.charge = 0 /\ (l.charge = 0 => l.chargeA = 0) => T.chargeA = 0
         /\ ~taper => T = l
         /\ T.charge <= l.charge \/ (taper /\ l.charge > 0 /\ T.charge <= FloorPower)
<1>1. r.soc \in 0..Full /\ r.voltage \in Nat
  BY DEF Reading
<1>2. CapAfterExpiry("charge", UserCharge) \in Nat
  BY CapType
<1>3. l.charge \in Nat /\ l.chargeA \in Nat
  BY DEF Limit
<1>4. CASE taper
  <2> DEFINE T == Tapered(l, r.soc, r.voltage, CapAfterExpiry("charge", UserCharge))
  <2>1. TaperedIf(taper, l, r) = T
    BY <1>4 DEF TaperedIf
  <2>2. /\ T \in Limit
        /\ l.charge = 0 /\ l.chargeA = 0 => T.charge = 0 /\ T.chargeA = 0
        /\ l.charge = 0 => T.charge = 0
        /\ T.charge = 0 /\ l.charge # 0 => T.chargeA = 0
        /\ T.chargeA <= l.chargeA
        /\ T.discharge = l.discharge
        /\ T.dischargeA = l.dischargeA
        /\ T.charge <= l.charge \/ (l.charge > 0 /\ T.charge <= FloorPower)
    BY <1>1, <1>2, TaperedType
  <2> HIDE DEF T
  <2> QED
    BY <1>3, <1>4, <2>1, <2>2
<1>5. CASE ~taper
  <2>1. TaperedIf(taper, l, r) = l
    BY <1>5 DEF TaperedIf
  <2> QED
    BY <1>3, <1>5, <2>1
<1> QED
  BY <1>4, <1>5

FilterType == [charge : Nat, discharge : Nat]

\* The limits a second leaves behind, and sends.
LEMMA SecondLimits ==
  ASSUME ReadingInv, RemoteTypeOK, filtered \in FilterType, Second
  PROVE  /\ limits' \in Limit /\ sent' = limits'
         /\ filtered' \in FilterType
         /\ filterReady' = (filterReady \/ install.filter)
         /\ ChargeForbidden(reading[1], pauseRequest) => limits'.charge = 0
         /\ \/ pauseRequest
            \/ voltageLimits /\ DischargeBlockedAfter(reading[1])
            => limits'.discharge = 0
         /\ \E touch \in Touches : StatusAtPower(touch) = "FAULT" =>
              limits'.charge = 0 /\ limits'.discharge = 0
         /\ limits'.discharge = 0 => limits'.dischargeA = 0
         /\ limits'.charge = 0 /\ ~recoveryMode => limits'.chargeA = 0
         /\ recoveryMode /\ ~install.filter /\ ~install.taper =>
              limits'.chargeA = Lower(UserCharge, RecoveryCurrent)
         /\ ~recoveryMode => limits'.chargeA <= CapAfterExpiry("charge", UserCharge)
         /\ limits'.dischargeA <= CapAfterExpiry("discharge", UserDischarge)
         /\ limits'.discharge <= LowestDischarge
         /\ \/ limits'.charge <= LowestCharge
            \/ install.taper /\ LowestCharge > 0 /\ limits'.charge <= FloorPower
         /\ install.filter => /\ filtered'.charge = limits'.charge
                              /\ filtered'.discharge = limits'.discharge
         /\ install.filter /\ filterReady =>
              \E c \in 0..PowerCap, d \in 0..PowerCap :
                /\ limits'.charge = FilterStep(c, filtered.charge)
                /\ limits'.discharge = FilterStep(d, filtered.discharge)
<1> DEFINE r == reading[1]
           chargeCap == CapAfterExpiry("charge", UserCharge)
           dischargeCap == CapAfterExpiry("discharge", UserDischarge)
           l == CapsOf(LowestCharge, LowestDischarge, r)
<1>1. r \in Reading /\ r.voltage \in Nat
  BY DEF ReadingInv, AllPacks, Reading
<1>2. install.taper \in BOOLEAN /\ install.filter \in BOOLEAN /\ FloorPower \in Nat /\ PowerCap \in Nat
      /\ FloorPower <= PowerCap
  BY InstallationAssumption, LimitsAssumption DEF ReadingInv
<1>a. PICK touch \in Touches : SecondWith(touch)
  BY DEF Second
<1> DEFINE zero == ZeroPower(pauseRequest, StatusAtPower(touch))
           other == StatusAtEmpty(ErrorsAtPower, StatusAtPower(touch), r, touch) = "ACTIVE"
<1>3. LimitsAfter(install.taper, install.filter, l, r, zero, other)
  BY <1>a DEF SecondWith, Protect
<1>4. sent' = limits'
  BY <1>a DEF SecondWith, Protect
<1>b. pauseRequest \/ StatusAtPower(touch) = "FAULT" => zero
  BY DEF ZeroPower
<1> HIDE DEF zero, other
<1> DEFINE P == Protected(l, r, zero, other)
           safe == TaperedIf(install.taper, P, r)
<1>5. /\ LowestCharge \in Nat /\ LowestDischarge \in Nat
      /\ LowestCharge <= PowerCap /\ LowestDischarge <= PowerCap
  BY LowestPowers
<1>6. chargeCap \in Nat /\ dischargeCap \in Nat
  BY CapType
<1>7. /\ l \in Limit
      /\ l.charge = LowestCharge /\ l.discharge = LowestDischarge
      /\ l.chargeA <= chargeCap /\ l.dischargeA <= dischargeCap
  <2>1. l = Calculated(LowestCharge, LowestDischarge, r.voltage, chargeCap, dischargeCap)
    BY DEF CapsOf
  <2> DEFINE v == r.voltage
             a == LowestCharge
             b == LowestDischarge
  <2>2. v \in Nat /\ a \in Nat /\ b \in Nat
    BY <1>1, <1>5
  <2> HIDE DEF v, a, b, chargeCap, dischargeCap
  <2>3. /\ Calculated(a, b, v, chargeCap, dischargeCap) \in Limit
        /\ Calculated(a, b, v, chargeCap, dischargeCap).charge = a
        /\ Calculated(a, b, v, chargeCap, dischargeCap).discharge = b
        /\ Calculated(a, b, v, chargeCap, dischargeCap).chargeA <= chargeCap
        /\ Calculated(a, b, v, chargeCap, dischargeCap).dischargeA <= dischargeCap
    BY <1>6, <2>2, CalculatedType
  <2>4. l = Calculated(a, b, v, chargeCap, dischargeCap)
    BY <2>1 DEF a, b, v
  <2> HIDE DEF l
  <2> QED
    BY <2>3, <2>4 DEF a, b
<1> HIDE DEF l
<1>8. /\ P \in Limit
      /\ P.charge <= l.charge /\ P.discharge <= l.discharge
      /\ ChargeForbidden(r, zero) => P.charge = 0
      /\ DischargeForbidden(r, zero, other) => P.discharge = 0
      /\ P.discharge = 0 => P.dischargeA = 0
      /\ P.charge = 0 /\ ~recoveryMode => P.chargeA = 0
      /\ ~recoveryMode => P.chargeA <= l.chargeA
      /\ P.dischargeA <= l.dischargeA
      /\ recoveryMode => P.chargeA = Lower(UserCharge, RecoveryCurrent)
  BY <1>7, ProtectedFacts
<1>9. /\ pauseRequest \/ (voltageLimits /\ DischargeBlockedAfter(r))
         => DischargeForbidden(r, zero, other)
      /\ ChargeForbidden(r, pauseRequest) => ChargeForbidden(r, zero)
      /\ StatusAtPower(touch) = "FAULT" =>
           ChargeForbidden(r, zero) /\ DischargeForbidden(r, zero, other)
  BY <1>b DEF ChargeForbidden, DischargeForbidden
<1>10. FilterSees(install.taper, l, r, zero, other) = safe
  BY DEF FilterSees
<1> HIDE DEF P
<1>11. /\ safe \in Limit
       /\ P.charge = 0 => safe.charge = 0
       /\ safe.discharge = P.discharge /\ safe.dischargeA = P.dischargeA
       /\ safe.chargeA <= P.chargeA
       /\ safe.charge = 0 /\ (P.charge = 0 => P.chargeA = 0) => safe.chargeA = 0
       /\ ~install.taper => safe = P
       /\ safe.charge <= P.charge \/ (install.taper /\ P.charge > 0 /\ safe.charge <= FloorPower)
  BY <1>1, <1>2, <1>8, TaperedFacts
<1>12. /\ filtered' = IF install.filter THEN FilterAfter(safe, r.voltage, filtered, filterReady)
                       ELSE filtered
       /\ filterReady' = (filterReady \/ install.filter)
       /\ limits' = IF install.filter THEN Filtered(safe, r.voltage, filtered') ELSE safe
  BY <1>3, <1>10 DEF LimitsAfter
<1> HIDE DEF safe, chargeCap, dischargeCap
<1>13. /\ safe.charge \in Nat /\ safe.discharge \in Nat
       /\ safe.chargeA \in Nat /\ safe.dischargeA \in Nat
       /\ P.charge \in Nat /\ P.discharge \in Nat /\ P.chargeA \in Nat /\ P.dischargeA \in Nat
  BY <1>8, <1>11 DEF Limit
\* What has been proved of the limits before the filter.
<1>14. /\ ChargeForbidden(r, zero) => safe.charge = 0
       /\ DischargeForbidden(r, zero, other) => safe.discharge = 0
       /\ safe.discharge = 0 => safe.dischargeA = 0
       /\ safe.charge = 0 /\ ~recoveryMode => safe.chargeA = 0
       /\ recoveryMode /\ ~install.taper => safe.chargeA = Lower(UserCharge, RecoveryCurrent)
       /\ ~recoveryMode => safe.chargeA <= chargeCap
       /\ safe.dischargeA <= dischargeCap
       /\ safe.discharge <= LowestDischarge
       /\ safe.charge <= LowestCharge \/ (install.taper /\ LowestCharge > 0 /\ safe.charge <= FloorPower)
  <2>1. /\ l.chargeA \in Nat /\ l.dischargeA \in Nat
    BY <1>7 DEF Limit
  <2> QED
    BY <1>2, <1>5, <1>6, <1>7, <1>8, <1>11, <1>13, <2>1
<1>15. safe.charge <= PowerCap /\ safe.discharge <= PowerCap
  BY <1>2, <1>5, <1>13, <1>14
<1>16. CASE ~install.filter
  <2>1. limits' = safe /\ filtered' = filtered
    BY <1>12, <1>16
  <2> QED
    BY <1>a, <1>4, <1>9, <1>11, <1>12, <1>14, <1>16, <2>1 DEF chargeCap, dischargeCap
<1>17. CASE install.filter
  <2> DEFINE f == FilterAfter(safe, r.voltage, filtered, filterReady)
             in == FilterInput(safe, r.voltage)
  <2>1. filtered' = f /\ limits' = Filtered(safe, r.voltage, f)
    BY <1>12, <1>17
  <2>2. /\ f \in FilterType
        /\ f.charge <= safe.charge /\ f.discharge <= safe.discharge
        /\ filterReady => /\ f.charge = FilterStep(in.charge, filtered.charge)
                          /\ f.discharge = FilterStep(in.discharge, filtered.discharge)
    <3>1. filtered \in [charge : Nat, discharge : Nat]
      BY DEF FilterType
    <3> HIDE DEF r
    <3>2. /\ f \in [charge : Nat, discharge : Nat]
          /\ f.charge <= safe.charge /\ f.discharge <= safe.discharge
      BY <1>1, <1>11, <3>1, FilterAfterType
    <3>3. filterReady => /\ f.charge = FilterStep(FilterInput(safe, r.voltage).charge, filtered.charge)
                         /\ f.discharge = FilterStep(FilterInput(safe, r.voltage).discharge, filtered.discharge)
      BY DEF FilterAfter
    <3> QED
      BY <3>2, <3>3 DEF FilterType
  <2>3. in.charge \in 0..PowerCap /\ in.discharge \in 0..PowerCap
    <3>1. /\ in.charge \in Nat /\ in.charge <= safe.charge
          /\ in.discharge \in Nat /\ in.discharge <= safe.discharge
      BY <1>1, <1>11, FilterInputType
    <3> HIDE DEF in
    <3> QED
      BY <1>2, <1>13, <1>15, <3>1
  <2> HIDE DEF f, in
  <2>4. /\ limits' \in Limit
        /\ limits'.charge = f.charge /\ limits'.discharge = f.discharge
        /\ limits'.chargeA <= safe.chargeA /\ limits'.dischargeA <= safe.dischargeA
        /\ f.charge = 0 => limits'.chargeA = 0
        /\ f.discharge = 0 => limits'.dischargeA = 0
    BY <1>1, <1>11, <2>1, <2>2, FilteredType DEF FilterType
  <2>5. /\ limits'.charge \in Nat /\ limits'.discharge \in Nat
        /\ limits'.chargeA \in Nat /\ limits'.dischargeA \in Nat
    BY <2>4 DEF Limit
  <2>6. /\ ChargeForbidden(r, zero) => limits'.charge = 0
        /\ DischargeForbidden(r, zero, other) => limits'.discharge = 0
        /\ ~recoveryMode => limits'.chargeA <= chargeCap
        /\ limits'.dischargeA <= dischargeCap
        /\ limits'.discharge <= LowestDischarge
        /\ \/ limits'.charge <= LowestCharge
           \/ install.taper /\ LowestCharge > 0 /\ limits'.charge <= FloorPower
    BY <1>2, <1>5, <1>6, <1>13, <1>14, <2>2, <2>4, <2>5
  <2>7. filterReady => \E c \in 0..PowerCap, d \in 0..PowerCap :
                         /\ limits'.charge = FilterStep(c, filtered.charge)
                         /\ limits'.discharge = FilterStep(d, filtered.discharge)
    BY <2>2, <2>3, <2>4
  <2> QED
    BY <1>a, <1>4, <1>9, <1>12, <1>17, <2>1, <2>2, <2>4, <2>6, <2>7 DEF chargeCap, dischargeCap
<1> QED
  BY <1>16, <1>17

-----------------------------------------------------------------------------
(***************************************************************************)
(* Which steps change what.                                                *)
(***************************************************************************)
FromOutside == \E c \in {"PAUSE", "UNPAUSE", "STOP", "RESUME"} : PauseFromOutside(c)

Outputs == <<sent, filtered, filterReady, cellBlocked, chargeBlocked, dischargeBlocked,
             recoveryAge, hit, recovering, promised>>

LEMMA PowerSteps ==
  ASSUME [Next]_vars, ~Second
  PROVE  /\ UNCHANGED Outputs
         /\ UNCHANGED lowCurrent
         /\ SwitchRecovery \/ UNCHANGED <<recoveryMode, recoveryFor>>
         /\ SwitchVoltageLimits \/ UNCHANGED voltageLimits
         /\ SetRemoteLimits \/ UNCHANGED <<remoteVars, lost>>
         /\ TenMs \/ FromOutside \/ MebReset \/ UNCHANGED <<pauseVars, limits>>
         /\ \/ TenMs \/ FromOutside \/ ClearEvents \/ MebReset \/ OtherEvent
            \/ UNCHANGED <<errors, status>>
<1> USE DEF Outputs, plantVars, outputVars, latchVars, recoveryVars, eventVars, limitObservers
<1>1. CASE TenMs
  BY <1>1 DEF TenMs
<1>2. ASSUME NEW p \in AllPacks, Frame(p)
      PROVE  UNCHANGED <<Outputs, lowCurrent, recoveryMode, recoveryFor, voltageLimits, remoteVars,
                         lost, pauseVars, limits, errors, status>>
  BY <1>2 DEF Frame, protectionVars
<1>3. CASE InverterFrame
  BY <1>3 DEF InverterFrame, protectionVars
<1>4. CASE Switch
  BY <1>4 DEF Switch, protectionVars, observers
<1>5. CASE Driver
  BY <1>5 DEF Driver, protectionVars, observers
<1>6. CASE ChangePermission
  BY <1>6 DEF ChangePermission, protectionVars, observers
<1>7. CASE FromOutside
  BY <1>7 DEF FromOutside, PauseFromOutside
<1>8. CASE ClearEvents
  BY <1>8 DEF ClearEvents, observers
<1>9. CASE SwitchRecovery
  BY <1>9 DEF SwitchRecovery
<1>10. CASE SwitchVoltageLimits
  BY <1>10 DEF SwitchVoltageLimits, observers
<1>11. CASE SetRemoteLimits
  BY <1>11 DEF SetRemoteLimits
<1>12. CASE MebReset
  BY <1>12 DEF MebReset, observers
<1>13. CASE OtherEvent
  BY <1>13 DEF OtherEvent, observers
<1>14. CASE UNCHANGED vars
  BY <1>14 DEF vars, protectionVars, observers
<1> QED
  BY <1>1, <1>2, <1>3, <1>4, <1>5, <1>6, <1>7, <1>8, <1>9, <1>10, <1>11, <1>12, <1>13, <1>14
  DEF Next, Operator, FromOutside

-----------------------------------------------------------------------------
(***************************************************************************)
(* The pause.                                                              *)
(***************************************************************************)
\* One call of setBatteryPause(), whoever makes it.
LEMMA PauseCall ==
  ASSUME PauseTypeOK, NEW pause \in BOOLEAN, NEW cmd, lowCurrent \in BOOLEAN,
         limits \in Limit, Pause(pause, cmd)
  PROVE  /\ PauseTypeOK'
         /\ limits' \in Limit
         /\ pauseRequest' = pause
         /\ pause => limits'.charge = 0 /\ limits'.discharge = 0
<1>1. SetBatteryPause(pause, FALSE, cmd, lowCurrent) /\ limits' = LimitsAfterPause(pause)
  BY DEF Pause
<1>2. equipmentStop' \in BOOLEAN
  BY Zenon, <1>1 DEF SetBatteryPause, StopAfter, PauseTypeOK
<1>3. pauseRequest' = pause /\ pauseRequest' \in BOOLEAN /\ pauseCan' \in BOOLEAN
  BY Zenon, <1>1 DEF SetBatteryPause
<1>4. pauseStatus' \in PauseStatus
  BY <1>1 DEF SetBatteryPause, Settled, PauseStatus
<1>5. allowedToSend' \in BOOLEAN
  BY Zenon, <1>1 DEF SetBatteryPause, CanAllowed
<1>6. CASE pause
  <2>1. limits' = [charge |-> 0, discharge |-> 0, chargeA |-> limits.chargeA,
                   dischargeA |-> limits.dischargeA]
    BY <1>1, <1>6 DEF LimitsAfterPause
  <2> QED
    BY <1>2, <1>3, <1>4, <1>5, <2>1 DEF PauseTypeOK, Limit
<1>7. CASE ~pause
  <2>1. limits' = limits
    BY <1>1, <1>7 DEF LimitsAfterPause
  <2> QED
    BY <1>2, <1>3, <1>4, <1>5, <1>7, <2>1 DEF PauseTypeOK
<1> QED
  BY <1>6, <1>7

\* A step that touches the pause calls setBatteryPause() or leaves it alone.
LEMMA PauseSteps ==
  ASSUME [Next]_vars, ~Second
  PROVE  \/ UNCHANGED <<pauseVars, limits>>
         \/ \E pause \in BOOLEAN, cmd \in StopCommand : Pause(pause, cmd)
<1>1. CASE TenMs
  <2>1. Command \in StopCommand
    BY <1>1 DEF Command, ButtonCommand, StopCommand
  <2>2. MonitorButton
    BY <1>1 DEF TenMs
  <2>3. (Command = "STOP") \in BOOLEAN
    OBVIOUS
  <2> QED
    BY <2>1, <2>2, <2>3 DEF MonitorButton
<1>2. CASE FromOutside
  <2>1. PICK c \in {"PAUSE", "UNPAUSE", "STOP", "RESUME"} : PauseFromOutside(c)
    BY <1>2 DEF FromOutside
  <2> DEFINE cmd == IF c \in StopCommand THEN c ELSE "UNCHANGED"
  <2>2. Pause(c \in {"PAUSE", "STOP"}, cmd)
    BY <2>1 DEF PauseFromOutside
  <2>3. cmd \in StopCommand /\ (c \in {"PAUSE", "STOP"}) \in BOOLEAN
    BY DEF StopCommand
  <2> QED
    BY <2>2, <2>3
<1>3. CASE MebReset
  <2>1. UNCHANGED <<pauseVars, limits>> \/ \E pause \in BOOLEAN : Pause(pause, "UNCHANGED")
    BY <1>3 DEF MebReset, DriverPause
  <2> QED
    BY <2>1 DEF StopCommand
<1> QED
  BY <1>1, <1>2, <1>3, PowerSteps

-----------------------------------------------------------------------------
(***************************************************************************)
(* The types.                                                              *)
(***************************************************************************)
PowerTypes ==
  /\ ReadingInv
  /\ lowCurrent \in BOOLEAN
  /\ ProtectionTypeOK
  /\ RemoteTypeOK
  /\ PauseTypeOK

LEMMA PowerTypesInit == Init => PowerTypes
<1> SUFFICES ASSUME Init PROVE PowerTypes
  OBVIOUS
<1>1. ReadingInv
  BY ReadingInvInit
<1>2. NoLimit \in Limit
  BY DEF NoLimit, Limit
<1>3. ProtectionInit
  BY DEF Init
<1>4. /\ filterReady \in BOOLEAN /\ cellBlocked \in BOOLEAN /\ chargeBlocked \in BOOLEAN
      /\ dischargeBlocked \in BOOLEAN /\ voltageLimits \in BOOLEAN /\ recoveryMode \in BOOLEAN
  BY Zenon, <1>3 DEF ProtectionInit
<1>5. /\ limits \in Limit /\ sent \in Limit /\ filtered \in [charge : Nat, discharge : Nat]
      /\ recoveryAge \in NotStarted..RecoveryTime
      /\ errors \subseteq Origin /\ status \in {"ACTIVE", "FAULT"}
  BY <1>2, <1>3, ProtectionAssumption DEF ProtectionInit, NotStarted
<1>6. ProtectionTypeOK
  BY <1>4, <1>5 DEF ProtectionTypeOK
<1>7. RemoteTypeOK
  BY <1>3, RemoteAssumption DEF ProtectionInit, RemoteInit, RemoteTypeOK, MqttStep, Ahead
<1>8. PauseTypeOK /\ lowCurrent \in BOOLEAN
  BY Zenon DEF Init, PauseInit, PauseTypeOK, PauseStatus
<1> QED
  BY <1>1, <1>6, <1>7, <1>8 DEF PowerTypes

\* A message has numbers for its caps and a timeout within bounds.
LEMMA MessageTypes ==
  ASSUME NEW m \in Messages \cup {NoMessage}
  PROVE  /\ m.cap \in [Direction -> Nat \cup {NoCap}]
         /\ m.timeout \in 0..MaxRemoteTime
  BY RemoteAssumption DEF NoMessage

LEMMA StatusType ==
  ASSUME NEW errs, NEW recovery
  PROVE  StatusFor(errs, recovery) \in {"ACTIVE", "FAULT"}
  BY DEF StatusFor

LEMMA RecoveryAges ==
  ASSUME recoveryAge \in NotStarted..RecoveryTime
  PROVE  /\ RecoveryAgeNow \in 0..RecoveryTime
         /\ RecoveryAgeNow <= recoveryAge + 1
         /\ ~RecoveryOver => RecoveryAgeNow = recoveryAge + 1 /\ recoveryAge + 1 < RecoveryTime
  BY ProtectionAssumption DEF RecoveryAgeNow, RecoveryOver, NotStarted

LEMMA ExpiryTypes ==
  ASSUME RemoteTypeOK, ExpireRemote
  PROVE  RemoteTypeOK'
<1>1. remoteCap' \in [Direction -> Nat]
  BY DEF RemoteTypeOK, ExpireRemote
<1>2. remoteOn' \in [Direction -> BOOLEAN]
  <2>1. \A dir \in Direction : (remoteOn[dir] /\ ~Expired) \in BOOLEAN
    BY Zenon
  <2> QED
    BY Zenon, <2>1 DEF ExpireRemote
<1>3. remoteAge' \in Ahead..(MaxRemoteTime + 1)
  BY RemoteAssumption DEF RemoteTypeOK, ExpireRemote, Ahead
<1> QED
  BY <1>1, <1>2, <1>3 DEF RemoteTypeOK, ExpireRemote

LEMMA SetLimitsTypes ==
  ASSUME RemoteTypeOK, SetLimits
  PROVE  RemoteTypeOK'
<1>1. /\ message.cap \in [Direction -> Nat \cup {NoCap}]
      /\ message.timeout \in 0..MaxRemoteTime
  BY MessageTypes DEF RemoteTypeOK
<1>2. "charge" \in Direction /\ "discharge" \in Direction
  BY DEF Direction
<1>3. CASE Receive
  BY <1>3 DEF Receive, RemoteTypeOK, MqttStep
<1>4. ASSUME NEW step, NEW dir \in Direction, NEW next \in MqttStep, WriteCap(step, dir, next)
      PROVE  RemoteTypeOK'
  <2>1. (IF message.cap[dir] = NoCap THEN 0 ELSE message.cap[dir]) \in Nat
    BY <1>1
  <2> QED
    BY <1>4, <2>1 DEF WriteCap, RemoteTypeOK
<1>5. ASSUME NEW step, NEW dir \in Direction, NEW next \in MqttStep, WriteOn(step, dir, next)
      PROVE  RemoteTypeOK'
  <2>1. (message.cap[dir] # NoCap) \in BOOLEAN
    BY Zenon
  <2>2. remoteOn' \in [Direction -> BOOLEAN]
    BY Zenon, <1>5, <2>1 DEF WriteOn, RemoteTypeOK
  <2> QED
    BY <1>5, <2>2 DEF WriteOn, RemoteTypeOK
<1>6. CASE WriteTimeout
  BY <1>1, <1>6 DEF WriteTimeout, RemoteTypeOK, MqttStep
<1>7. CASE WriteTimestamp
  BY <1>7, RemoteAssumption DEF WriteTimestamp, RemoteTypeOK, MqttStep, Ahead
<1>8. {"chargeOn", "dischargeCap", "dischargeOn", "timeout"} \subseteq MqttStep
  BY DEF MqttStep
<1> QED
  BY <1>2, <1>3, <1>4, <1>5, <1>6, <1>7, <1>8 DEF SetLimits

\* What a second does to the events, and a FAULT that ends without an error.
LEMMA SecondEvents ==
  ASSUME NEW touch, SecondWith(touch)
  PROVE  /\ errors' = ErrorsAfter(EarlyErrors(ErrorsAtPower, reading[1]), MainSilent,
                                 InverterSilent /\ ~install.offgrid)
         /\ \/ status' = StatusFor(errors', recoveryMode')
            \/ status' = StatusAtPower(touch) /\ errors' = ErrorsAtPower
<1> DEFINE final == ErrorsAfter(EarlyErrors(ErrorsAtPower, reading[1]), MainSilent,
                                InverterSilent /\ ~install.offgrid)
           changed == \/ touch # Never \/ EarlyEvent(ErrorsAtPower, reading[1])
                      \/ final # ErrorsAtPower \/ MainSilent \/ InverterSilent
                      \/ RecoveryEvent(reading[1])
<1>1. /\ errors' = final
      /\ status' = IF changed THEN StatusFor(final, recoveryMode') ELSE StatusAtPower(touch)
  BY DEF SecondWith, EventsAfter
<1>2. final # ErrorsAtPower => changed
  OBVIOUS
<1> HIDE DEF final, changed
<1> QED
  BY <1>1, <1>2 DEF final

\* An error that the last driver has not taken back is one at l. 143.
LEMMA ErrorsThatStay ==
  ASSUME NEW touch
  PROVE  /\ ErrorsAtPower \subseteq errors \cup {"DRIVER"}
         /\ errors \ {"DRIVER"} \subseteq ErrorsAtPower
         /\ "DRIVER" \in ErrorsAtPower <=> LastFault(LastPack)
         /\ \/ StatusAtPower(touch) = StatusFor(ErrorsAtPower, recoveryMode)
            \/ /\ StatusAtPower(touch) = status
               /\ "DRIVER" \notin errors /\ ~LastFault(LastPack) /\ ErrorsAtPower = errors
<1>1. LastFault(LastPack) => DriverEvent(LastPack)
  BY DEF LastFault, DriverEvent
<1>2. "DRIVER" \in errors => DriverEvent(LastPack)
  BY DEF DriverEvent
<1>3. \/ StatusAtPower(touch) = StatusFor(ErrorsAtPower, recoveryMode)
      \/ StatusAtPower(touch) = status /\ ~DriverEvent(LastPack)
  BY DEF StatusAtPower, StatusWhen, ErrorsAtPower
<1>4. ErrorsAtPower = (errors \ {"DRIVER"}) \cup (IF LastFault(LastPack) THEN {"DRIVER"} ELSE {})
  BY DEF ErrorsAtPower, ErrorsOfDrivers
<1> QED
  BY <1>1, <1>2, <1>3, <1>4

LEMMA SecondTypes ==
  ASSUME PowerTypes, Second
  PROVE  /\ lowCurrent' \in BOOLEAN
         /\ ProtectionTypeOK'
         /\ RemoteTypeOK'
         /\ PauseTypeOK'
<1>1. /\ limits' \in Limit /\ sent' = limits' /\ filtered' \in FilterType
      /\ filterReady' = (filterReady \/ install.filter)
  BY SecondLimits DEF PowerTypes, ProtectionTypeOK, FilterType
<1>2. /\ cellBlocked' = CellBlockedAfter(reading[1])
      /\ chargeBlocked' = ChargeBlockedAfter(reading[1])
      /\ dischargeBlocked' = DischargeBlockedAfter(reading[1])
      /\ RecoveryAfter(reading[1])
      /\ ExpireRemote
      /\ UNCHANGED voltageLimits
  BY DEF Second, SecondWith, Protect
<1>3. /\ filterReady' \in BOOLEAN /\ cellBlocked' \in BOOLEAN /\ recoveryMode' \in BOOLEAN
      /\ voltageLimits' \in BOOLEAN
  <2>1. filterReady' \in BOOLEAN
    BY Zenon, <1>1
  <2>2. cellBlocked' \in BOOLEAN
    BY Zenon, <1>2 DEF CellBlockedAfter
  <2>3. recoveryMode' \in BOOLEAN
    BY Zenon, <1>2 DEF RecoveryAfter
  <2> QED
    BY <1>2, <2>1, <2>2, <2>3 DEF PowerTypes, ProtectionTypeOK
<1>4. chargeBlocked' \in BOOLEAN /\ dischargeBlocked' \in BOOLEAN
  BY Zenon, <1>2 DEF ChargeBlockedAfter, DischargeBlockedAfter, PowerTypes, ProtectionTypeOK
<1>5. recoveryAge' \in NotStarted..RecoveryTime
  BY <1>2, RecoveryAges, ProtectionAssumption
  DEF RecoveryAfter, PowerTypes, ProtectionTypeOK, NotStarted
<1> PICK touch \in Touches : SecondWith(touch)
  BY DEF Second
<1>6. errors' \subseteq Origin
  <2>1. ErrorsAtPower \subseteq Origin
    BY ErrorsThatStay DEF Origin, PowerTypes, ProtectionTypeOK
  <2>2. EarlyErrors(ErrorsAtPower, reading[1]) \subseteq Origin
    BY <2>1 DEF EarlyErrors, Origin
  <2>3. \A main, inverter : SilenceErrors(main, inverter) \subseteq Origin
    BY DEF SilenceErrors, Origin
  <2> QED
    BY <2>2, <2>3, SecondEvents DEF ErrorsAfter
<1>7. status' \in {"ACTIVE", "FAULT"}
  BY SecondEvents, ErrorsThatStay, StatusType DEF PowerTypes, ProtectionTypeOK
<1>8. ProtectionTypeOK'
  BY <1>1, <1>3, <1>4, <1>5, <1>6, <1>7 DEF ProtectionTypeOK, FilterType
<1>9. RemoteTypeOK'
  BY <1>2, ExpiryTypes DEF PowerTypes
<1>10. UpdatePauseState(lowCurrent) /\ lowCurrent' = Low
  BY DEF Second, SecondWith
<1>11. PauseTypeOK'
  <2>1. pauseStatus' \in PauseStatus
    BY <1>10 DEF UpdatePauseState, Settled, PauseStatus, PowerTypes, PauseTypeOK
  <2>2. allowedToSend' \in BOOLEAN
    BY Zenon, <1>10 DEF UpdatePauseState, CanAllowed
  <2> QED
    BY <1>10, <2>1, <2>2 DEF UpdatePauseState, PowerTypes, PauseTypeOK
<1>12. lowCurrent' \in BOOLEAN
  BY Zenon, <1>10 DEF Low
<1> QED
  BY <1>8, <1>9, <1>11, <1>12

\* The events of a step outside the 1 s phase.
LEMMA EventTypes ==
  ASSUME PowerTypes, [Next]_vars, ~Second
  PROVE  errors' \subseteq Origin /\ status' \in {"ACTIVE", "FAULT"}
<1>1. errors \subseteq Origin /\ status \in {"ACTIVE", "FAULT"}
  BY DEF PowerTypes, ProtectionTypeOK
<1>2. \A cmd : ErrorsAfterStop(cmd) \subseteq Origin
  BY <1>1 DEF ErrorsAfterStop, Origin
<1>3. ErrorsNow \subseteq Origin /\ StatusNow \in {"ACTIVE", "FAULT"}
  BY <1>1, <1>2, StatusType DEF ErrorsNow, StatusNow
<1>4. CASE TenMs
  BY <1>3, <1>4, StatusType DEF TenMs, RunPrecharge, Origin
<1>5. CASE FromOutside
  BY <1>2, <1>5, StatusType DEF FromOutside, PauseFromOutside
<1>6. CASE ClearEvents
  BY <1>6 DEF ClearEvents
<1>7. CASE MebReset \/ OtherEvent
  BY <1>1, <1>7, StatusType DEF MebReset, OtherEvent, DriverPause
<1> QED
  BY <1>1, <1>4, <1>5, <1>6, <1>7, PowerSteps

LEMMA PowerTypesNext == PowerTypes /\ [Next]_vars => PowerTypes'
<1> SUFFICES ASSUME PowerTypes, [Next]_vars PROVE PowerTypes'
  OBVIOUS
<1>1. ReadingInv'
  BY ReadingInvNext DEF PowerTypes
<1>2. CASE Second
  BY <1>1, <1>2, SecondTypes DEF PowerTypes
<1>3. CASE ~Second
  <2>1. /\ UNCHANGED <<sent, filtered, filterReady, cellBlocked, chargeBlocked, dischargeBlocked>>
        /\ UNCHANGED <<recoveryAge, lowCurrent>>
    BY <1>3, PowerSteps DEF Outputs
  <2>2. recoveryMode' \in BOOLEAN
    BY Zenon, <1>3, PowerSteps DEF SwitchRecovery, PowerTypes, ProtectionTypeOK
  <2>3. voltageLimits' \in BOOLEAN
    BY Zenon, <1>3, PowerSteps DEF SwitchVoltageLimits, PowerTypes, ProtectionTypeOK
  <2>4. PauseTypeOK' /\ limits' \in Limit
    <3>1. CASE UNCHANGED <<pauseVars, limits>>
      BY <3>1 DEF pauseVars, PowerTypes, PauseTypeOK, ProtectionTypeOK
    <3>2. ASSUME NEW pause \in BOOLEAN, NEW cmd \in StopCommand, Pause(pause, cmd)
          PROVE  PauseTypeOK' /\ limits' \in Limit
      BY <3>2, PauseCall DEF PowerTypes, ProtectionTypeOK
    <3> QED
      BY <1>3, <3>1, <3>2, PauseSteps
  <2>5. RemoteTypeOK'
    <3>1. CASE SetRemoteLimits
      BY <3>1, SetLimitsTypes DEF SetRemoteLimits, PowerTypes
    <3>2. CASE UNCHANGED remoteVars
      BY <3>2 DEF remoteVars, PowerTypes, RemoteTypeOK
    <3> QED
      BY <1>3, <3>1, <3>2, PowerSteps
  <2>6. errors' \subseteq Origin /\ status' \in {"ACTIVE", "FAULT"}
    BY <1>3, EventTypes
  <2> QED
    BY <1>1, <2>1, <2>2, <2>3, <2>4, <2>5, <2>6 DEF PowerTypes, ProtectionTypeOK
<1> QED
  BY <1>2, <1>3

-----------------------------------------------------------------------------
(***************************************************************************)
(* The inductive invariant for the power.  What is sent belongs to the     *)
(* last second and what is in the data layer may have been taken away      *)
(* since; the latches of the code cover the limits that have been hit; the *)
(* time of a recovery is at most one ahead of the code's clock, which may  *)
(* still run from an earlier one; the memory of the filter is what was     *)
(* sent.  The status may be out of date, but whatever takes the last error *)
(* away brings it up to date.                                              *)
(***************************************************************************)
RecoveryInv ==
  /\ recoveryFor \in Nat
  /\ recoveryMode => recoveryFor <= recoveryAge + 1 /\ recoveryFor <= RecoveryTime

HitInv ==
  /\ "CELL" \in hit => cellBlocked
  /\ "CHARGE" \in hit => chargeBlocked
  /\ "DISCHARGE" \in hit => dischargeBlocked
  /\ StaysBlocked

FilterInv ==
  install.filter => filtered.charge = sent.charge /\ filtered.discharge = sent.discharge

CauseInv == status = "FAULT" => errors # {}

PowerInv ==
  /\ PowerTypes
  /\ PauseMeansNoPower
  /\ CurrentsFollowPower
  /\ RecoveryReachesInverter
  /\ RecoveryInv
  /\ HitInv
  /\ FilterInv
  /\ CauseInv

LEMMA CauseInvNext == CauseInv /\ [Next]_vars => CauseInv'
<1> SUFFICES ASSUME CauseInv, [Next]_vars PROVE CauseInv'
  OBVIOUS
<1>1. \A errs, recovery : StatusFor(errs, recovery) = "FAULT" => errs # {}
  BY DEF StatusFor
<1>2. CASE Second
  <2>1. PICK touch \in Touches : SecondWith(touch)
    BY <1>2 DEF Second
  <2>2. StatusAtPower(touch) = "FAULT" => ErrorsAtPower # {}
    BY <1>1, ErrorsThatStay DEF CauseInv
  <2> QED
    BY <1>1, <2>1, <2>2, SecondEvents DEF CauseInv
<1>3. CASE ~Second
  <2>1. CASE TenMs
    <3>1. StatusNow = "FAULT" => ErrorsNow # {}
      BY <1>1 DEF StatusNow, ErrorsNow, CauseInv
    <3> QED
      BY <1>1, <2>1, <3>1 DEF TenMs, RunPrecharge, CauseInv
  <2>2. CASE FromOutside
    BY <1>1, <2>2 DEF FromOutside, PauseFromOutside, CauseInv
  <2>3. CASE ClearEvents
    BY <2>3 DEF ClearEvents, CauseInv
  <2>4. CASE MebReset \/ OtherEvent
    BY <1>1, <2>4 DEF MebReset, OtherEvent, DriverPause, CauseInv
  <2>5. CASE UNCHANGED <<errors, status>>
    BY <2>5 DEF CauseInv
  <2> QED
    BY <1>3, <2>1, <2>2, <2>3, <2>4, <2>5, PowerSteps
<1> QED
  BY <1>2, <1>3

LEMMA PowerInvInit == Init => PowerInv
<1> SUFFICES ASSUME Init PROVE PowerInv
  OBVIOUS
<1>1. PowerTypes
  BY PowerTypesInit
<1>2. /\ limits.charge = 0 /\ limits.discharge = 0
      /\ sent.charge = 0 /\ sent.discharge = 0 /\ sent.chargeA = 0 /\ sent.dischargeA = 0
      /\ filtered.charge = 0 /\ filtered.discharge = 0
  BY DEF Init, ProtectionInit, NoLimit
<1>3. /\ hit = {} /\ ~recovering /\ ~recoveryMode /\ recoveryFor = 0
      /\ status = "ACTIVE"
  BY DEF Init, ProtectionInit
<1> QED
  BY <1>1, <1>2, <1>3
  DEF PowerInv, PauseMeansNoPower, CurrentsFollowPower, RecoveryReachesInverter, RecoveryInv,
      HitInv, StaysBlocked, FilterInv, CauseInv

\* A second with a FAULT at l. 143, whenever its first event falls, allows nothing.
LEMMA FaultsReachLimits ==
  ASSUME PowerInv, Second, \A touch : StatusAtPower(touch) = "FAULT"
  PROVE  ~(sent'.charge > 0 \/ sent'.discharge > 0)
<1>1. sent'.charge = 0 /\ sent'.discharge = 0
  BY SecondLimits DEF PowerInv, PowerTypes, ProtectionTypeOK, FilterType
<1> QED
  BY <1>1

\* The limits that have been hit are those the latches hold.
LEMMA HitsAreLatched ==
  ASSUME PowerInv, Second
  PROVE  HitInv'
<1>1. /\ ChargeForbidden(reading[1], pauseRequest) => sent'.charge = 0
      /\ voltageLimits /\ DischargeBlockedAfter(reading[1]) => sent'.discharge = 0
  BY SecondLimits DEF PowerInv, PowerTypes, ProtectionTypeOK, FilterType
<1>2. /\ cellBlocked' = CellBlockedAfter(reading[1])
      /\ chargeBlocked' = ChargeBlockedAfter(reading[1])
      /\ dischargeBlocked' = DischargeBlockedAfter(reading[1])
  BY DEF Second, SecondWith, Protect
<1>3. hit' = HitAfter
  BY DEF Second, SecondWith, ObserveSecond
<1> DEFINE r == reading[1]
<1>4. "CELL" \in hit' => CellBlockedAfter(reading[1])
  <2>1. "CELL" \in hit' =>
          r.cellMax >= MaxCell \/ (~(r.cellMax < MaxCell - CellHysteresis) /\ "CELL" \in hit)
    BY <1>3 DEF HitAfter
  <2>2. r.cellMax \in Nat /\ MaxCell \in Nat /\ CellHysteresis \in Nat
    BY ProtectionAssumption DEF PowerInv, PowerTypes, ReadingInv, Reading, AllPacks
  <2>3. "CELL" \in hit => cellBlocked
    BY DEF PowerInv, HitInv
  <2> QED
    BY <2>1, <2>2, <2>3 DEF CellBlockedAfter
<1>a. /\ r.voltage \in Nat /\ UserMaxVoltage \in Nat /\ UserMinVoltage \in Nat
      /\ UserHysteresis \in Nat
  BY ProtectionAssumption DEF PowerInv, PowerTypes, ReadingInv, Reading, AllPacks
<1>5. "CHARGE" \in hit' => voltageLimits /\ ChargeBlockedAfter(reading[1])
  <2>1. "CHARGE" \in hit' =>
          /\ voltageLimits
          /\ \/ r.voltage >= UserMaxVoltage
             \/ ~(r.voltage < UserMaxVoltage - UserHysteresis) /\ "CHARGE" \in hit
    BY <1>3 DEF HitAfter
  <2>2. "CHARGE" \in hit => chargeBlocked
    BY DEF PowerInv, HitInv
  <2> QED
    BY <1>a, <2>1, <2>2 DEF ChargeBlockedAfter
<1>6. "DISCHARGE" \in hit' => voltageLimits /\ DischargeBlockedAfter(reading[1])
  <2>1. "DISCHARGE" \in hit' =>
          /\ voltageLimits
          /\ \/ r.voltage <= UserMinVoltage
             \/ ~(r.voltage > UserMinVoltage + UserHysteresis) /\ "DISCHARGE" \in hit
    BY <1>3 DEF HitAfter
  <2>2. "DISCHARGE" \in hit => dischargeBlocked
    BY DEF PowerInv, HitInv
  <2> QED
    BY <1>a, <2>1, <2>2 DEF DischargeBlockedAfter
<1>7. "CELL" \in hit' \/ "CHARGE" \in hit' => ChargeForbidden(reading[1], pauseRequest)
  BY <1>4, <1>5 DEF ChargeForbidden
<1> QED
  BY <1>1, <1>2, <1>4, <1>5, <1>6, <1>7 DEF HitInv, StaysBlocked

LEMMA PowerInvNext == PowerInv /\ [Next]_vars => PowerInv'
<1> SUFFICES ASSUME PowerInv, [Next]_vars PROVE PowerInv'
  OBVIOUS
<1>1. PowerTypes'
  BY PowerTypesNext DEF PowerInv
<1>2. install' = install
  BY ButtonSteps
<1>3. CASE Second
  <2>1. /\ limits' \in Limit /\ sent' = limits'
        /\ pauseRequest => limits'.discharge = 0
        /\ ChargeForbidden(reading[1], pauseRequest) => limits'.charge = 0
        /\ limits'.discharge = 0 => limits'.dischargeA = 0
        /\ limits'.charge = 0 /\ ~recoveryMode => limits'.chargeA = 0
        /\ recoveryMode /\ ~install.filter /\ ~install.taper =>
             limits'.chargeA = Lower(UserCharge, RecoveryCurrent)
        /\ install.filter => /\ filtered'.charge = limits'.charge
                             /\ filtered'.discharge = limits'.discharge
    BY <1>3, SecondLimits DEF PowerInv, PowerTypes, ProtectionTypeOK, FilterType
  <2>2. /\ pauseRequest' = pauseRequest /\ recovering' = recoveryMode
        /\ RecoveryAfter(reading[1])
        /\ recoveryFor' = IF recoveryMode THEN UpTo(RecoveryTime + 1, recoveryFor + 1) ELSE 0
    BY <1>3 DEF Second, SecondWith, UpdatePauseState, ObserveSecond, Protect
  <2>3. PauseMeansNoPower'
    BY <2>1, <2>2 DEF PauseMeansNoPower, ChargeForbidden
  <2>4. CurrentsFollowPower' /\ RecoveryReachesInverter'
    BY <1>2, <2>1, <2>2 DEF CurrentsFollowPower, RecoveryReachesInverter
  <2>5. RecoveryInv'
    <3>1. recoveryFor \in Nat /\ RecoveryTime \in Nat
      BY ProtectionAssumption DEF PowerInv, RecoveryInv
    <3>2. recoveryFor' \in Nat /\ recoveryFor' <= recoveryFor + 1
      BY <2>2, <3>1 DEF UpTo
    <3>3. recoveryAge \in NotStarted..RecoveryTime
      BY DEF PowerInv, PowerTypes, ProtectionTypeOK
    <3>4. ASSUME recoveryMode'
          PROVE  recoveryFor' <= recoveryAge' + 1 /\ recoveryFor' <= RecoveryTime
      <4>1. recoveryMode /\ ~RecoveryOver
        BY <2>2, <3>4 DEF RecoveryAfter
      <4>2. recoveryAge' = RecoveryAgeNow
        BY <2>2, <4>1 DEF RecoveryAfter
      <4>3. RecoveryAgeNow = recoveryAge + 1 /\ recoveryAge + 1 < RecoveryTime
        BY <3>3, <4>1, RecoveryAges
      <4>4. recoveryFor <= recoveryAge + 1
        BY <4>1 DEF PowerInv, RecoveryInv
      <4> QED
        BY <3>1, <3>2, <3>3, <4>2, <4>3, <4>4 DEF NotStarted
    <3> QED
      BY <3>2, <3>4 DEF RecoveryInv
  <2>6. FilterInv'
    BY <1>2, <2>1 DEF FilterInv
  <2> QED
    BY <1>1, <1>3, <2>3, <2>4, <2>5, <2>6, HitsAreLatched, CauseInvNext DEF PowerInv
<1>4. CASE ~Second
  <2>1. UNCHANGED <<sent, filtered, cellBlocked, chargeBlocked, dischargeBlocked, recoveryAge,
                    hit, recovering>>
    BY <1>4, PowerSteps DEF Outputs
  <2>2. PauseMeansNoPower'
    <3>1. CASE UNCHANGED <<pauseVars, limits>>
      BY <3>1 DEF pauseVars, PowerInv, PauseMeansNoPower
    <3>2. ASSUME NEW pause \in BOOLEAN, NEW cmd \in StopCommand, Pause(pause, cmd)
          PROVE  PauseMeansNoPower'
      <4>1. PauseTypeOK /\ lowCurrent \in BOOLEAN /\ limits \in Limit
        BY DEF PowerInv, PowerTypes, ProtectionTypeOK
      <4>2. pauseRequest' = pause /\ (pause => limits'.charge = 0 /\ limits'.discharge = 0)
        BY <3>2, <4>1, PauseCall
      <4> QED
        BY <4>2 DEF PauseMeansNoPower
    <3> QED
      BY <1>4, <3>1, <3>2, PauseSteps
  <2>3. RecoveryInv'
    <3>1. CASE SwitchRecovery
      <4>1. recoveryFor' = 0 /\ recoveryAge' \in NotStarted..RecoveryTime
        BY <3>1, <2>1 DEF SwitchRecovery, PowerInv, PowerTypes, ProtectionTypeOK
      <4> QED
        <5>1. RecoveryTime \in Nat /\ recoveryAge \in NotStarted..RecoveryTime
          BY ProtectionAssumption DEF PowerInv, PowerTypes, ProtectionTypeOK
        <5>2. 0 <= recoveryAge + 1 /\ 0 <= RecoveryTime
          BY <5>1 DEF NotStarted
        <5>3. recoveryAge' = recoveryAge
          BY <2>1
        <5> QED
          BY <4>1, <5>2, <5>3 DEF RecoveryInv
    <3>2. CASE UNCHANGED <<recoveryMode, recoveryFor>>
      BY <2>1, <3>2 DEF PowerInv, RecoveryInv
    <3> QED
      BY <1>4, <3>1, <3>2, PowerSteps
  <2>4. CurrentsFollowPower' /\ RecoveryReachesInverter' /\ HitInv' /\ FilterInv'
    BY <1>2, <2>1
    DEF PowerInv, CurrentsFollowPower, RecoveryReachesInverter, HitInv, StaysBlocked, FilterInv
  <2> QED
    BY <1>1, <2>2, <2>3, <2>4, CauseInvNext DEF PowerInv
<1> QED
  BY <1>3, <1>4

-----------------------------------------------------------------------------
(***************************************************************************)
(* The properties.                                                         *)
(***************************************************************************)

(***************************************************************************)
(* From the moment anybody asks for a pause until it is released, the data *)
(* layer allows no power (safety.cpp:143, 584-586).                        *)
(***************************************************************************)
THEOREM PausesHold == Spec => []PauseMeansNoPower
<1>1. PowerInv => PauseMeansNoPower
  BY DEF PowerInv
<1> QED
  BY <1>1, PowerInvInit, PowerInvNext, PTL DEF Spec

(***************************************************************************)
(* A FAULT with which a second begins, unless it is only that of a driver, *)
(* and an error that a driver reports in the second take the power away in *)
(* it; only recovery charging overrides them (safety.cpp:143,              *)
(* events.cpp:686-713).                                                    *)
(***************************************************************************)
THEOREM FaultsHold == Spec => FaultMeansNoPower
<1>1. PowerInv /\ [Next]_vars
      => [/\ ~recoveryMode
          /\ (status = "FAULT" /\ errors # {"DRIVER"}) \/ "DRIVER" \in errors'
          /\ sent'.charge > 0 \/ sent'.discharge > 0
          => ~Second]_vars
  <2> SUFFICES ASSUME PowerInv, Second, ~recoveryMode,
                      (status = "FAULT" /\ errors # {"DRIVER"}) \/ "DRIVER" \in errors'
               PROVE  ~(sent'.charge > 0 \/ sent'.discharge > 0)
    OBVIOUS
  <2>1. \A errs : errs # {} => StatusFor(errs, recoveryMode) = "FAULT"
    BY DEF StatusFor
  <2>2. CASE status = "FAULT" /\ errors # {"DRIVER"}
    <3>1. errors \ {"DRIVER"} # {}
      BY <2>2 DEF PowerInv, CauseInv
    <3> QED
      BY <2>1, <2>2, <3>1, ErrorsThatStay, FaultsReachLimits
  <2>3. CASE "DRIVER" \in errors'
    <3>1. "DRIVER" \in ErrorsAtPower
      <4>1. PICK touch \in Touches : SecondWith(touch)
        BY DEF Second
      <4>2. errors' = ErrorsAfter(EarlyErrors(ErrorsAtPower, reading[1]), MainSilent,
                                  InverterSilent /\ ~install.offgrid)
        BY <4>1, SecondEvents
      <4> QED
        BY <2>3, <4>2 DEF ErrorsAfter, EarlyErrors, SilenceErrors
    <3> QED
      BY <2>1, <3>1, ErrorsThatStay, FaultsReachLimits
  <2> QED
    BY <2>2, <2>3
<1> QED
  BY <1>1, PowerInvInit, PowerInvNext, PTL DEF Spec, FaultMeansNoPower

(***************************************************************************)
(* No current without power, save the charge current of a recovery, which  *)
(* without taper and filter reaches the inverter through every check       *)
(* (safety.cpp:495-511).                                                   *)
(***************************************************************************)
THEOREM CurrentsAgree == Spec => []CurrentsAreRight
<1>1. PowerInv => CurrentsAreRight
  BY DEF PowerInv, CurrentsAreRight
<1> QED
  BY <1>1, PowerInvInit, PowerInvNext, PTL DEF Spec

(***************************************************************************)
(* A recovery does not outlast its time (safety.cpp:521).                  *)
(***************************************************************************)
THEOREM RecoveriesEnd == Spec => []RecoveryIsBounded
<1>1. PowerInv => RecoveryIsBounded
  BY DEF PowerInv, RecoveryInv, RecoveryIsBounded
<1> QED
  BY <1>1, PowerInvInit, PowerInvNext, PTL DEF Spec

(***************************************************************************)
(* A limit that has been hit blocks its direction until a later second has *)
(* seen the pack well back (safety.cpp:187-240).                           *)
(***************************************************************************)
THEOREM HitsBlock == Spec => []StaysBlocked
<1>1. PowerInv => StaysBlocked
  BY DEF PowerInv, HitInv
<1> QED
  BY <1>1, PowerInvInit, PowerInvNext, PTL DEF Spec

\* No power rises by more than the filter lets through.
LEMMA FilterRamps ==
  ASSUME NEW c \in 0..PowerCap, NEW old \in Nat
  PROVE  ~Jumps(old, FilterStep(c, old))
<1> DEFINE new == FilterStep(c, old)
<1>1. PowerCap \in Nat /\ NewShare \in Nat /\ c \in Nat /\ c <= PowerCap
  BY InstallationAssumption, LimitsAssumption
<1>2. /\ new \in Nat
      /\ c <= old => new = c
      /\ c > old => 100 * new <= NewShare * c + (100 - NewShare) * old
  BY <1>1, FilterStepBounds
<1> HIDE DEF new
<1>3. NewShare * c \in Nat /\ NewShare * PowerCap \in Nat /\ (100 - NewShare) * old \in Int
      /\ NewShare * c <= NewShare * PowerCap
  <2>1. PowerCap - c \in Nat
    BY <1>1
  <2> DEFINE gap == PowerCap - c
  <2>2. NewShare * gap \in Nat /\ NewShare * c \in Nat /\ NewShare * PowerCap \in Nat
    BY <1>1, <2>1, Product
  <2>3. PowerCap = c + gap
    BY <1>1
  <2> HIDE DEF gap
  <2>4. NewShare * PowerCap = NewShare * c + NewShare * gap
    BY <1>1, <2>1, <2>3, SMT DEF gap
  <2>5. (100 - NewShare) * old \in Int
    BY <1>1
  <2> QED
    BY <2>2, <2>4, <2>5
<1> DEFINE x == NewShare * c
           y == NewShare * PowerCap
           z == (100 - NewShare) * old
<1>4. x \in Nat /\ y \in Nat /\ z \in Int /\ x <= y /\ (c > old => 100 * new <= x + z)
  BY <1>2, <1>3
<1> HIDE DEF x, y, z
<1>5. ~(new > old /\ 100 * new > y + z)
  BY <1>1, <1>2, <1>4
<1>6. ~(new > old /\ 100 * new > NewShare * PowerCap + (100 - NewShare) * old)
  BY <1>5 DEF y, z
<1> QED
  BY <1>6 DEF Jumps, new

(***************************************************************************)
(* With the filter on, the inverter never sees a power rise by more than   *)
(* the share of the filter (Software.cpp:248-254).                         *)
(***************************************************************************)
THEOREM IncreasesAreRamped == Spec => IncreaseIsRamped
<1>1. PowerInv /\ [Next]_vars
      => [/\ install.filter /\ filterReady
          /\ Jumps(sent.charge, sent'.charge) \/ Jumps(sent.discharge, sent'.discharge)
          => ~Second]_vars
  <2> SUFFICES ASSUME PowerInv, Second, install.filter, filterReady
               PROVE  ~Jumps(sent.charge, sent'.charge) /\ ~Jumps(sent.discharge, sent'.discharge)
    OBVIOUS
  <2>1. PICK c \in 0..PowerCap, d \in 0..PowerCap :
          /\ limits'.charge = FilterStep(c, filtered.charge)
          /\ limits'.discharge = FilterStep(d, filtered.discharge)
    BY SecondLimits DEF PowerInv, PowerTypes, ProtectionTypeOK, FilterType
  <2>2. sent' = limits'
    BY SecondLimits DEF PowerInv, PowerTypes, ProtectionTypeOK, FilterType
  <2>3. filtered.charge = sent.charge /\ filtered.discharge = sent.discharge
    BY DEF PowerInv, FilterInv
  <2>4. sent.charge \in Nat /\ sent.discharge \in Nat
    BY DEF PowerInv, PowerTypes, ProtectionTypeOK, Limit
  <2>5. /\ ~Jumps(sent.charge, FilterStep(c, sent.charge))
        /\ ~Jumps(sent.discharge, FilterStep(d, sent.discharge))
    BY <2>4, FilterRamps
  <2> QED
    BY <2>1, <2>2, <2>3, <2>5
<1> QED
  BY <1>1, PowerInvInit, PowerInvNext, PTL DEF Spec, IncreaseIsRamped

\* What an undisturbed second sends: the filter's step from the power before.
LEMMA UndisturbedSecond ==
  ASSUME PowerInv, Second, Undisturbed
  PROVE  /\ AllowedCharge \in Nat /\ sent.charge \in Nat
         /\ AllowedCharge' = AllowedCharge
         /\ sent'.charge = IF filterReady THEN FilterStep(AllowedCharge, sent.charge)
                                          ELSE AllowedCharge
<1> DEFINE r == reading[1]
           l == CapsOf(LowestCharge, LowestDischarge, r)
<1>1. /\ r \in Reading /\ r.voltage \in Nat /\ r.charge \in Nat
      /\ sent.charge \in Nat /\ filtered \in FilterType
  BY DEF PowerInv, PowerTypes, ReadingInv, AllPacks, Reading, ProtectionTypeOK, Limit, FilterType
<1>2. AllowedCharge \in Nat
  BY <1>1, ConversionTypes, LowerType, LimitsAssumption DEF AllowedCharge
<1>3. AllowedCharge' = AllowedCharge
  BY DEF Second, SecondWith, AllowedCharge
<1>4. LowestCharge = r.charge
  <2>1. {1} \cup install.packs = {1}
    BY DEF Undisturbed
  <2>2. {reading[p].charge : p \in {1}} = {r.charge}
    OBVIOUS
  <2>3. LowestOf({r.charge}) = r.charge
    <3> DEFINE c == r.charge
    <3>1. \E x \in {c} : \A y \in {c} : x <= y
      BY <1>1
    <3> HIDE DEF c
    <3>2. LowestOf({c}) \in {c}
      BY <3>1 DEF LowestOf
    <3> QED
      BY <3>2 DEF c
  <2> QED
    BY <2>1, <2>2, <2>3 DEF LowestCharge
<1>5. l.charge = r.charge
  BY <1>4 DEF CapsOf, Calculated
<1> HIDE DEF l
<1>a. PICK touch \in Touches : SecondWith(touch)
  BY DEF Second
<1> DEFINE zero == ZeroPower(pauseRequest, StatusAtPower(touch))
           other == StatusAtEmpty(ErrorsAtPower, StatusAtPower(touch), r, touch) = "ACTIVE"
<1>b. StatusAtPower(touch) = "ACTIVE"
  <2>1. Present = {1}
    BY DEF Undisturbed, Present
  <2>2. ~LastFault(LastPack)
    BY <2>1 DEF LastFault, Updated, Undisturbed
  <2>3. ErrorsAtPower = {}
    BY <2>2, ErrorsThatStay DEF Undisturbed
  <2> QED
    BY <2>3, ErrorsThatStay DEF StatusFor, Undisturbed
<1>6. ~ChargeForbidden(r, zero)
  BY <1>b DEF Undisturbed, ChargeForbidden, ZeroPower
<1>7. LimitsAfter(install.taper, install.filter, l, r, zero, other) /\ sent' = limits'
  BY <1>a DEF SecondWith, Protect, l
<1> HIDE DEF zero, other
<1> DEFINE safe == FilterSees(install.taper, l, r, zero, other)
<1>8. safe.charge = r.charge
  BY <1>5, <1>6 DEF Undisturbed, FilterSees, TaperedIf, Protected, Recovered, Allowed
<1>9. /\ filtered' = FilterAfter(safe, r.voltage, filtered, filterReady)
      /\ limits' = Filtered(safe, r.voltage, filtered')
  BY <1>7 DEF LimitsAfter, Undisturbed
<1> HIDE DEF safe
<1>10. sent'.charge = FilterAfter(safe, r.voltage, filtered, filterReady).charge
  BY <1>7, <1>9 DEF Filtered
<1>11. FilterInput(safe, r.voltage).charge = AllowedCharge
  BY <1>8 DEF FilterInput, AllowedCharge
<1>12. FilterAfter(safe, r.voltage, filtered, filterReady).charge =
         IF filterReady THEN FilterStep(AllowedCharge, filtered.charge) ELSE AllowedCharge
  BY <1>11 DEF FilterAfter
<1>13. filtered.charge = sent.charge
  BY DEF PowerInv, FilterInv, Undisturbed
<1> QED
  BY <1>1, <1>2, <1>3, <1>10, <1>12, <1>13

\* What an undisturbed pack allows beyond what the inverter is told.
PowerToRegain == AllowedCharge - sent.charge

(***************************************************************************)
(* Every undisturbed second reaches what is allowed, but for the loss of   *)
(* the division, or comes closer by a watt at least, and never goes above; *)
(* only a new reading takes any of this back.                              *)
(***************************************************************************)
LimitComesCloser ==
  [][/\ Undisturbed /\ Second =>
          /\ PowerToRegain' \in Nat
          /\ BackAgain' \/ PowerToRegain' < PowerToRegain
     /\ ~Second /\ UNCHANGED reading => UNCHANGED PowerToRegain]_vars

LEMMA RegainStep ==
  ASSUME PowerInv, Second, Undisturbed
  PROVE  PowerToRegain' \in Nat /\ (BackAgain' \/ PowerToRegain' < PowerToRegain)
<1> DEFINE in == AllowedCharge
           old == sent.charge
           new == sent'.charge
           loss == 99 \div NewShare
<1>1. in \in Nat /\ old \in Nat /\ in' = in
  BY UndisturbedSecond
<1>2. new = IF filterReady THEN FilterStep(in, old) ELSE in
  BY UndisturbedSecond
<1>3. PowerToRegain = in - old /\ PowerToRegain' = in - new
  BY <1>1 DEF PowerToRegain
<1>4. BackAgain' <=> in - new <= loss
  BY <1>1 DEF BackAgain
<1>5. loss \in Nat
  BY LimitsAssumption, Quotient
<1>6. /\ FilterStep(in, old) \in Nat /\ FilterStep(in, old) <= in
      /\ in <= old => FilterStep(in, old) = in
  BY <1>1, FilterStepBounds
<1>7. in > old => /\ FilterStep(in, old) >= old
                  /\ in - old > loss => FilterStep(in, old) > old
  BY <1>1, FilterApproaches
<1> HIDE DEF in, old, new, loss
<1>8. /\ new \in Nat /\ new <= in
      /\ new = in \/ (in > old /\ new >= old /\ (in - old > loss => new > old))
  BY <1>1, <1>2, <1>6, <1>7
<1>9. in - new \in Nat /\ (in - new <= loss \/ in - new < in - old)
  BY <1>1, <1>5, <1>8
<1> QED
  BY <1>3, <1>4, <1>9

(***************************************************************************)
(* After a disturbance the filter is back within as many seconds as there  *)
(* are watts to regain (Software.cpp:335-350).                             *)
(***************************************************************************)
THEOREM LimitReturnsInBoundedTime == Spec => LimitComesCloser
<1> DEFINE A ==
  /\ Undisturbed /\ Second => /\ PowerToRegain' \in Nat
                              /\ BackAgain' \/ PowerToRegain' < PowerToRegain
  /\ ~Second /\ UNCHANGED reading => UNCHANGED PowerToRegain
<1>1. PowerInv /\ [Next]_vars => [A]_vars
  <2> SUFFICES ASSUME PowerInv, [Next]_vars PROVE A
    OBVIOUS
  <2>1. ~Second => UNCHANGED sent
    BY PowerSteps DEF Outputs
  <2>2. ~Second /\ UNCHANGED reading => UNCHANGED PowerToRegain
    BY <2>1 DEF PowerToRegain, AllowedCharge
  <2> QED
    BY <2>2, RegainStep
<1> QED
  BY <1>1, PowerInvInit, PowerInvNext, PTL DEF Spec, LimitComesCloser

(***************************************************************************)
(* The inverter is never allowed more power than any of the packs allows,  *)
(* except by the floor of the taper (Software.cpp:198-212, 335-350).       *)
(***************************************************************************)
THEOREM PacksAreRespected == Spec => WithinEveryPack
<1>1. PowerInv /\ [Next]_vars
      => [(\E p \in {1} \cup install.packs : Exceeds(sent', reading[p])) => ~Second]_vars
  <2> SUFFICES ASSUME PowerInv, Second, NEW p \in {1} \cup install.packs
               PROVE  ~Exceeds(sent', reading[p])
    OBVIOUS
  <2>1. /\ limits' \in Limit /\ sent' = limits'
        /\ limits'.discharge <= LowestDischarge
        /\ \/ limits'.charge <= LowestCharge
           \/ install.taper /\ LowestCharge > 0 /\ limits'.charge <= FloorPower
    BY SecondLimits DEF PowerInv, PowerTypes, ProtectionTypeOK, FilterType
  <2>2. /\ LowestCharge \in Nat /\ LowestDischarge \in Nat
        /\ LowestCharge <= reading[p].charge /\ LowestDischarge <= reading[p].discharge
    BY LowestPowers DEF PowerInv, PowerTypes
  <2>3. p \in AllPacks
    BY InstallationAssumption DEF PowerInv, PowerTypes, ReadingInv, AllPacks
  <2>4. reading[p].charge \in Nat /\ reading[p].discharge \in Nat
    BY <2>3 DEF PowerInv, PowerTypes, ReadingInv, Reading
  <2>5. FloorPower \in Nat /\ sent'.charge \in Nat /\ sent'.discharge \in Nat
    BY <2>1, LimitsAssumption DEF Limit
  <2> QED
    BY <2>1, <2>2, <2>4, <2>5 DEF Exceeds
<1> QED
  BY <1>1, PowerInvInit, PowerInvNext, PTL DEF Spec, WithinEveryPack

-----------------------------------------------------------------------------
(***************************************************************************)
(* The remote limits.  Of a message that is not lost, what the MQTT task   *)
(* has written so far stands.                                              *)
(***************************************************************************)
WrittenCap(dir) == remoteCap[dir] = IF message.cap[dir] = NoCap THEN 0 ELSE message.cap[dir]
WrittenOn(dir) == remoteOn[dir] = (message.cap[dir] # NoCap)

Written ==
  /\ mqttStep # "chargeCap" => WrittenCap("charge")
  /\ mqttStep \notin {"chargeCap", "chargeOn"} => WrittenOn("charge")
  /\ mqttStep \notin {"chargeCap", "chargeOn", "dischargeCap"} => WrittenCap("discharge")
  /\ mqttStep \notin {"chargeCap", "chargeOn", "dischargeCap", "dischargeOn"} =>
       WrittenOn("discharge")
  /\ mqttStep \in {"timestamp", "idle"} => remoteTimeout = message.timeout

\* The message's own time has not passed since its stamp.
InTime == remoteAge \in 0..message.timeout

RemoteInv ==
  /\ ~lost /\ (mqttStep = "idle" => InTime) => Written
  /\ RemoteCapHolds

LEMMA RemoteInvInit == Init => RemoteInv
<1> SUFFICES ASSUME Init PROVE RemoteInv
  OBVIOUS
<1>1. /\ remoteCap = [dir \in Direction |-> 0] /\ remoteOn = [dir \in Direction |-> FALSE]
      /\ message = NoMessage /\ promised = NoMessage.cap /\ remoteTimeout = 0
  BY DEF Init, ProtectionInit, RemoteInit
<1>2. (\A dir \in Direction : NoMessage.cap[dir] = NoCap) /\ NoMessage.timeout = 0
  BY DEF NoMessage
<1>3. \A dir \in Direction : WrittenCap(dir) /\ WrittenOn(dir)
  BY <1>1, <1>2 DEF WrittenCap, WrittenOn
<1>4. "charge" \in Direction /\ "discharge" \in Direction
  BY DEF Direction
<1> QED
  BY <1>1, <1>2, <1>3, <1>4 DEF RemoteInv, Written, RemoteCapHolds

\* A write of the MQTT task adds to what it has written.
LEMMA WritesAdd ==
  ASSUME PowerTypes, RemoteInv, SetRemoteLimits, ~lost'
  PROVE  Written'
<1>1. SetLimits /\ lost' = (lost /\ mqttStep # "idle")
  BY DEF SetRemoteLimits
<1>2. mqttStep # "idle" => ~lost /\ Written
  BY <1>1 DEF RemoteInv
<1>3. "charge" \in Direction /\ "discharge" \in Direction
  BY DEF Direction
<1>4. remoteCap \in [Direction -> Nat] /\ remoteOn \in [Direction -> BOOLEAN]
  BY DEF PowerTypes, RemoteTypeOK
<1>5. CASE Receive
  BY <1>5 DEF Receive, Written
<1>6. ASSUME NEW step, NEW dir \in Direction, NEW next, WriteCap(step, dir, next)
      PROVE  /\ WrittenCap(dir)' /\ mqttStep = step /\ mqttStep' = next
             /\ \A other \in Direction : /\ WrittenOn(other)' <=> WrittenOn(other)
                                         /\ other # dir => (WrittenCap(other)' <=> WrittenCap(other))
  BY <1>4, <1>6 DEF WriteCap, WrittenCap, WrittenOn
<1>7. ASSUME NEW step, NEW dir \in Direction, NEW next, WriteOn(step, dir, next)
      PROVE  /\ WrittenOn(dir)' /\ mqttStep = step /\ mqttStep' = next
             /\ \A other \in Direction : /\ WrittenCap(other)' <=> WrittenCap(other)
                                         /\ other # dir => (WrittenOn(other)' <=> WrittenOn(other))
  <2>1. WrittenOn(dir)' /\ mqttStep = step /\ mqttStep' = next
    BY Zenon, <1>4, <1>7 DEF WriteOn, WrittenOn
  <2>2. ASSUME NEW other \in Direction PROVE WrittenCap(other)' <=> WrittenCap(other)
    BY <1>7 DEF WriteOn, WrittenCap
  <2>3. ASSUME NEW other \in Direction, other # dir PROVE WrittenOn(other)' <=> WrittenOn(other)
    <3>1. remoteOn'[other] = remoteOn[other] /\ message' = message
      BY <1>4, <1>7, <2>3 DEF WriteOn
    <3> QED
      BY <3>1 DEF WrittenOn
  <2> QED
    BY <2>1, <2>2, <2>3
<1>8. CASE WriteTimeout
  BY <1>2, <1>8 DEF WriteTimeout, Written, WrittenCap, WrittenOn
<1>9. CASE WriteTimestamp
  BY <1>2, <1>9 DEF WriteTimestamp, Written, WrittenCap, WrittenOn
<1>10. CASE WriteCap("chargeCap", "charge", "chargeOn")
  BY <1>3, <1>6, <1>10 DEF Written
<1>11. CASE WriteOn("chargeOn", "charge", "dischargeCap")
  BY <1>2, <1>3, <1>7, <1>11 DEF Written
<1>12. CASE WriteCap("dischargeCap", "discharge", "dischargeOn")
  BY <1>2, <1>3, <1>6, <1>12 DEF Written
<1>13. CASE WriteOn("dischargeOn", "discharge", "timeout")
  BY <1>2, <1>3, <1>7, <1>13 DEF Written
<1> QED
  BY <1>1, <1>5, <1>8, <1>9, <1>10, <1>11, <1>12, <1>13 DEF SetLimits

\* A second leaves what is written alone, or loses the message.
LEMMA SecondKeeps ==
  ASSUME PowerTypes, RemoteInv, Second, ~lost', mqttStep' = "idle" => InTime'
  PROVE  Written'
<1>1. ExpireRemote /\ lost' = (lost \/ (mqttStep # "idle" /\ Expired) \/ remoteAge = Ahead)
  BY DEF Second, SecondWith, ObserveSecond, Protect
<1>2. UNCHANGED <<remoteTimeout, mqttStep, message>>
  BY <1>1 DEF ExpireRemote
<1>3. /\ remoteAge \in Ahead..(MaxRemoteTime + 1)
      /\ remoteTimeout \in Nat /\ message.timeout \in Nat
  BY RemoteAssumption, MessageTypes DEF PowerTypes, RemoteTypeOK
<1>4. ~lost /\ ~Expired /\ Written
  <2>1. ~lost /\ (mqttStep # "idle" => ~Expired) /\ remoteAge # Ahead
    BY Zenon, <1>1
  <2>2. ASSUME mqttStep = "idle" PROVE ~Expired /\ InTime
    <3>1. remoteAge' \in 0..message.timeout
      BY <1>2, <2>2 DEF InTime
    <3>2. remoteAge \in Nat /\ remoteAge' >= remoteAge
      BY <1>1, <1>3, <2>1, RemoteAssumption DEF ExpireRemote, Ahead
    <3>3. InTime
      BY <1>3, <3>1, <3>2 DEF InTime
    <3>4. remoteTimeout = message.timeout
      BY <2>1, <2>2, <3>3 DEF RemoteInv, Written
    <3> QED
      BY <1>3, <2>1, <3>3, <3>4 DEF InTime, Expired
  <2> QED
    BY <2>1, <2>2 DEF RemoteInv
<1>5. Written
  BY <1>4
<1>6. remoteCap' = remoteCap
  BY <1>1, <1>4 DEF ExpireRemote, PowerTypes, RemoteTypeOK
<1>7. remoteOn' = remoteOn
  <2>1. \A dir \in Direction : (remoteOn[dir] /\ ~Expired) = remoteOn[dir]
    BY <1>4 DEF PowerTypes, RemoteTypeOK
  <2>2. remoteOn' = [dir \in Direction |-> remoteOn[dir]]
    BY <1>1, <2>1 DEF ExpireRemote
  <2> QED
    BY <2>2 DEF PowerTypes, RemoteTypeOK
<1> QED
  BY <1>2, <1>5, <1>6, <1>7 DEF Written, WrittenCap, WrittenOn

\* The caps of a message in force bound the currents of the second.
LEMMA SecondIsCapped ==
  ASSUME PowerTypes, RemoteInv, Second
  PROVE  RemoteCapHolds'
<1>1. /\ promised' = IF mqttStep = "idle" /\ InTime /\ ~lost THEN message.cap ELSE NoMessage.cap
      /\ recovering' = recoveryMode
  BY DEF Second, SecondWith, ObserveSecond, InTime
<1>2. /\ sent' = limits'
      /\ ~recoveryMode => limits'.chargeA <= CapAfterExpiry("charge", UserCharge)
      /\ limits'.dischargeA <= CapAfterExpiry("discharge", UserDischarge)
  BY SecondLimits DEF PowerTypes, ProtectionTypeOK, FilterType
<1>3. "charge" \in Direction /\ "discharge" \in Direction
  BY DEF Direction
<1>4. CASE mqttStep = "idle" /\ InTime /\ ~lost
  <2>1. promised' = message.cap
    BY <1>1, <1>4
  <2>2. /\ WrittenCap("charge") /\ WrittenOn("charge")
        /\ WrittenCap("discharge") /\ WrittenOn("discharge")
        /\ remoteTimeout = message.timeout
    BY <1>4 DEF RemoteInv, Written
  <2>a. ~Expired
    <3>1. message.timeout \in Nat
      BY RemoteAssumption, MessageTypes DEF PowerTypes, RemoteTypeOK
    <3> QED
      BY <1>4, <2>2, <3>1 DEF InTime, Expired, Ahead
  <2>3. message.cap["charge"] # NoCap => CapAfterExpiry("charge", UserCharge) = message.cap["charge"]
    BY <2>a, <2>2 DEF CapAfterExpiry, WrittenCap, WrittenOn
  <2>4. message.cap["discharge"] # NoCap
        => CapAfterExpiry("discharge", UserDischarge) = message.cap["discharge"]
    BY <2>a, <2>2 DEF CapAfterExpiry, WrittenCap, WrittenOn
  <2> QED
    BY <1>1, <1>2, <2>1, <2>3, <2>4 DEF RemoteCapHolds
<1>5. CASE ~(mqttStep = "idle" /\ InTime /\ ~lost)
  <2>1. promised'["charge"] = NoCap /\ promised'["discharge"] = NoCap
    BY <1>1, <1>3, <1>5 DEF NoMessage
  <2> QED
    BY <2>1 DEF RemoteCapHolds
<1> QED
  BY <1>4, <1>5

LEMMA RemoteInvNext == PowerTypes /\ RemoteInv /\ [Next]_vars => RemoteInv'
<1> SUFFICES ASSUME PowerTypes, RemoteInv, [Next]_vars PROVE RemoteInv'
  OBVIOUS
<1>1. CASE Second
  BY <1>1, SecondKeeps, SecondIsCapped DEF RemoteInv
<1>2. CASE ~Second
  <2>1. RemoteCapHolds'
    BY <1>2, PowerSteps DEF Outputs, RemoteInv, RemoteCapHolds
  <2>2. CASE SetRemoteLimits
    BY <2>1, <2>2, WritesAdd DEF RemoteInv
  <2>3. CASE UNCHANGED <<remoteVars, lost>>
    BY <2>1, <2>3 DEF RemoteInv, Written, WrittenCap, WrittenOn, InTime, remoteVars
  <2> QED
    BY <1>2, <2>2, <2>3, PowerSteps
<1> QED
  BY <1>1, <1>2

(***************************************************************************)
(* From its stamp to its timeout no current exceeds the limits of an MQTT  *)
(* message, except the charge current of a recovery, unless an expiry has  *)
(* cut through its writes or its stamp was ahead of the core loop's clock  *)
(* (mqtt.cpp:1007-1029, Software.cpp:620, safety.cpp:65-73).               *)
(***************************************************************************)
THEOREM RemoteCapsHold == Spec => []RemoteCapHolds
<1>1. PowerTypes /\ RemoteInv /\ [Next]_vars => (PowerTypes /\ RemoteInv)'
  BY PowerTypesNext, RemoteInvNext
<1>2. Init => PowerTypes /\ RemoteInv
  BY PowerTypesInit, RemoteInvInit
<1>3. PowerTypes /\ RemoteInv => RemoteCapHolds
  BY DEF RemoteInv
<1> QED
  BY <1>1, <1>2, <1>3, PTL DEF Spec

-----------------------------------------------------------------------------
(***************************************************************************)
(* The types of all parts together.                                        *)
(***************************************************************************)
DriverTypes ==
  /\ inverterConnected \in BOOLEAN /\ startPrecharging \in BOOLEAN
  /\ mebReset \in MebResetState /\ bmsStatus \in BmsStatus
  /\ batteryAllows \in BOOLEAN /\ inverterAllows \in BOOLEAN

\* Who changes what the precharge reads.
LEMMA DriverSteps ==
  ASSUME [Next]_vars
  PROVE  TenMs \/ Driver \/ MebReset \/ ChangePermission \/ UNCHANGED prechargeVars
<1>1. CASE Second
  BY <1>1 DEF Second, SecondWith
<1>2. ASSUME NEW p \in AllPacks, Frame(p) PROVE UNCHANGED prechargeVars
  BY <1>2 DEF Frame
<1>3. CASE InverterFrame \/ Switch \/ SetRemoteLimits \/ OtherEvent
  BY <1>3 DEF InverterFrame, Switch, SetRemoteLimits, OtherEvent
<1>4. CASE Operator
  BY <1>4 DEF Operator, PauseFromOutside, ClearEvents, SwitchRecovery, SwitchVoltageLimits
<1>5. CASE UNCHANGED vars
  BY <1>5 DEF vars
<1> QED
  BY <1>1, <1>2, <1>3, <1>4, <1>5 DEF Next

LEMMA DriverTypesInit == Init => DriverTypes
  BY Zenon DEF Init, PrechargeInit, DriverTypes, BmsStatus, MebResetState

LEMMA DriverTypesNext == PrechargeInv /\ DriverTypes /\ [Next]_vars => DriverTypes'
<1> SUFFICES ASSUME PrechargeInv, DriverTypes, [Next]_vars PROVE DriverTypes'
  OBVIOUS
<1>1. ASSUME NEW testMode, NEW fault, NEW stop, HandlePrecharge(testMode, fault, stop)
      PROVE  DriverTypes'
  <2>1. inverterConnected' \in BOOLEAN
    <3>1. \/ \E to : Leave(to)
          \/ Begin
          \/ UNCHANGED inverterConnected
      <4>1. prechargeStatus \in PrechargeStatus
        BY DEF PrechargeInv
      <4>2. \A bms : Precharging(bms, fault, stop) => (\E to : Leave(to)) \/ Stay
        BY Zenon DEF Precharging
      <4> QED
        BY <1>1, <4>1, <4>2 DEF HandlePrecharge, Stay, PrechargeStatus
    <3> QED
      BY <3>1 DEF Leave, Begin, DriverTypes
  <2>2. bmsStatus' \in BmsStatus
    BY <1>1 DEF HandlePrecharge, SeenBms, BmsStatus, DriverTypes
  <2>3. startPrecharging' \in BOOLEAN
    BY Zenon, <1>1 DEF HandlePrecharge, DriverTypes
  <2> QED
    BY <1>1, <2>1, <2>2, <2>3 DEF HandlePrecharge, DriverTypes
<1>2. CASE UNCHANGED prechargeVars
  BY <1>2 DEF prechargeVars, driverVars, DriverTypes
<1>3. CASE TenMs
  BY <1>1, <1>2, <1>3 DEF TenMs, RunPrecharge
<1>4. CASE Driver
  <2>1. UNCHANGED <<inverterConnected, inverterAllows>>
    BY <1>4 DEF Driver
  <2>2. CASE MebReport
    <3>1. bmsStatus' \in BmsStatus /\ UNCHANGED <<startPrecharging, mebReset>>
      BY <2>2 DEF MebReport, ReportedStatus, BmsStatus
    <3>2. batteryAllows' \in BOOLEAN
      BY <2>2 DEF MebReport
    <3> QED
      BY <2>1, <3>1, <3>2 DEF DriverTypes
  <2>3. ASSUME NEW fault, NEW stop, MebRequest(fault, stop) PROVE DriverTypes'
    <3>1. startPrecharging' \in BOOLEAN
      BY Zenon, <2>3 DEF MebRequest
    <3> QED
      BY <2>1, <2>3, <3>1 DEF MebRequest, DriverTypes
  <2> QED
    BY <1>4, <2>2, <2>3 DEF Driver
<1>5. CASE ChangePermission
  <2>1. inverterAllows' \in BOOLEAN
    BY Zenon, <1>5 DEF ChangePermission
  <2> QED
    BY <1>5, <2>1 DEF ChangePermission, driverVars, DriverTypes
<1>6. CASE MebReset
  <2>1. /\ UNCHANGED <<inverterConnected, inverterAllows, startPrecharging, batteryAllows>>
        /\ bmsStatus' = bmsStatus \/ bmsStatus' = "DISCONNECTED"
        /\ mebReset' \in MebResetState
    BY <1>6
    DEF MebReset, AskForPause, GiveUpReset, WakeBms, PutToSleep, ResetGoesOn, MebResetState
  <2> QED
    BY <2>1 DEF DriverTypes, BmsStatus, MebResetState
<1> QED
  BY <1>2, <1>3, <1>4, <1>5, <1>6, DriverSteps

(***************************************************************************)
(* Every variable keeps its type.                                          *)
(***************************************************************************)
THEOREM CoreLoopTypes == Spec => []TypeOK
<1> DEFINE Inv == ButtonInv /\ PrechargeInv /\ PacksInv /\ PowerTypes /\ DriverTypes
<1>1. Init => Inv
  BY ButtonInvInit, PrechargeInvInit, PacksInvInit, PowerTypesInit, DriverTypesInit
<1>2. Inv /\ [Next]_vars => Inv'
  BY ButtonInvNext, PrechargeInvNext, PacksInvNext, PowerTypesNext, DriverTypesNext
<1>3. Inv => TypeOK
  BY DEF TypeOK, ButtonInv, PrechargeInv, PrechargeTypeOK, PacksInv, PackTypes, PowerTypes,
         ReadingInv, DriverTypes
<1> HIDE DEF Inv
<1> QED
  BY <1>1, <1>2, <1>3, PTL DEF Spec

=============================================================================
