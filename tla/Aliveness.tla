------------------------------- MODULE Aliveness ------------------------------
(***************************************************************************)
(* The counters of safety.cpp that notice a silent battery or inverter:    *)
(* every frame fills them, every second takes one away, and at 0 the       *)
(* component counts as missing.                                            *)
(***************************************************************************)
EXTENDS Integers

CONSTANTS
  PackIds,       (* the secondary packs: a subset of {2, 3}                *)
  StillAlive     (* CAN_STILL_ALIVE: 60 seconds                            *)

ASSUME AlivenessAssumption == StillAlive \in Nat \ {0} /\ PackIds \subseteq {2, 3}

AllPacks == {1} \cup PackIds

VARIABLES
  alive,         (* CAN_battery_still_alive of every pack                  *)
  detected,      (* battery_detected, battery2_detected, battery3_detected *)
  inverterAlive, (* CAN_inverter_still_alive                               *)
  slowCount      (* slow_start_counter                                     *)

aliveVars == <<alive, detected, inverterAlive, slowCount>>

AliveTypeOK ==
  /\ alive \in [AllPacks -> 0..StillAlive]
  /\ detected \in [AllPacks -> BOOLEAN]
  /\ inverterAlive \in 0..StillAlive
  /\ slowCount \in 0..2

\* Seeded fault: the counters start full, as if a frame had come.
BootAlive_Full == StillAlive

\* One short of full: only a frame makes a component detected.
BootAlive == StillAlive - 1

AliveInit ==
  /\ alive = [p \in AllPacks |-> BootAlive]
  /\ detected = [p \in AllPacks |-> FALSE]
  /\ inverterAlive = BootAlive
  /\ slowCount = 0

\* Seeded fault: a counter that has run out starts again.
CountDown_Wraps(n) == IF n = 0 THEN StillAlive ELSE n - 1

\* Seeded fault: the counter runs below zero.
CountDown_Below(n) == n - 1

CountDown(n) == IF n = 0 THEN 0 ELSE n - 1

\* check_can_component_alive() for the packs in present.
CheckPacks(present) ==
  /\ detected' = [p \in AllPacks |-> detected[p] \/ (p \in present /\ alive[p] = StillAlive)]
  /\ alive' = [p \in AllPacks |-> IF p \in present THEN CountDown(alive[p]) ELSE alive[p]]

\* The inverter's counter; with the long timeout only every third second counts.
CheckInverter(kind) ==
  CASE kind = "NONE" -> UNCHANGED <<inverterAlive, slowCount>>
    [] kind = "NORMAL" -> inverterAlive' = CountDown(inverterAlive) /\ UNCHANGED slowCount
    [] kind = "SLOW" ->
         IF inverterAlive = 0 THEN UNCHANGED <<inverterAlive, slowCount>>
         ELSE IF slowCount = 2 THEN inverterAlive' = inverterAlive - 1 /\ slowCount' = 0
         ELSE slowCount' = slowCount + 1 /\ UNCHANGED inverterAlive

HearPack(p) ==
  /\ alive' = [alive EXCEPT ![p] = StillAlive]
  /\ UNCHANGED <<detected, inverterAlive, slowCount>>

HearInverter ==
  /\ inverterAlive' = StillAlive
  /\ UNCHANGED <<alive, detected, slowCount>>

=============================================================================
