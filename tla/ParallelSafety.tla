---------------------------- MODULE ParallelSafety ----------------------------
(***************************************************************************)
(* check_parallel_battery_safety(): whether a secondary pack may join the  *)
(* main one, from the voltages of both, once Aliveness has detected it.    *)
(* The two branches of the function are the same code for packs 2 and 3.   *)
(***************************************************************************)
EXTENDS Aliveness

CONSTANTS
  MaxDrift,      (* seconds out of step before the pack is disengaged: 10  *)
  SyncDiff,      (* 1.5 V, in dV: 15                                       *)
  StartVoltage   (* the value of a voltage not read yet: 3700              *)

ASSUME ParallelAssumption ==
  MaxDrift \in Nat /\ SyncDiff \in Nat /\ StartVoltage \in Nat

VARIABLES
  drift,         (* secondsOutOfVoltageSyncBattery2, ...3                  *)
  joinAllowed    (* battery2_allowed_contactor_closing, ...3               *)

parallelVars == <<drift, joinAllowed>>

ParallelTypeOK ==
  /\ drift \in [PackIds -> 0..MaxDrift]
  /\ joinAllowed \in [PackIds -> BOOLEAN]

ParallelInit ==
  /\ drift = [p \in PackIds |-> 0]
  /\ joinAllowed = [p \in PackIds |-> FALSE]

Known(v) == v # 0 /\ v # StartVoltage

InStep(v, w) == v - w <= SyncDiff /\ w - v <= SyncDiff

\* Seeded fault: the counter goes round and never gets to the last branch.
DriftAfter_Restarts(p, v, w) ==
  IF ~(Known(v) /\ Known(w)) THEN drift[p]
  ELSE IF InStep(v, w) THEN 0
  ELSE IF drift[p] + 1 < MaxDrift THEN drift[p] + 1
  ELSE 0

\* The counter after a check of pack p, with main voltage v and its own w.
DriftAfter(p, v, w) ==
  IF ~(Known(v) /\ Known(w)) THEN drift[p]
  ELSE IF InStep(v, w) THEN 0
  ELSE IF drift[p] < MaxDrift THEN drift[p] + 1
  ELSE drift[p]

\* Seeded fault: a pack in step joins whatever the state of the system.
JoinAfter_InFault(p, v, w, fault) ==
  IF ~(Known(v) /\ Known(w)) THEN joinAllowed[p]
  ELSE IF InStep(v, w) THEN TRUE
  ELSE IF drift[p] < MaxDrift THEN joinAllowed[p]
  ELSE FALSE

\* Its permission to join after the check.
JoinAfter(p, v, w, fault) ==
  IF ~(Known(v) /\ Known(w)) THEN joinAllowed[p]
  ELSE IF InStep(v, w) THEN ~fault
  ELSE IF drift[p] < MaxDrift THEN joinAllowed[p]
  ELSE FALSE

\* All packs in checked are checked; v gives the voltages, pack 1 is the main one,
\* and fault[p] tells whether the check of pack p finds the system in FAULT.
CheckParallel(checked, v, fault) ==
  /\ drift' = [p \in PackIds |-> IF p \in checked THEN DriftAfter(p, v[1], v[p]) ELSE drift[p]]
  /\ joinAllowed' = [p \in PackIds |->
       IF p \in checked THEN JoinAfter(p, v[1], v[p], fault[p]) ELSE joinAllowed[p]]

=============================================================================
