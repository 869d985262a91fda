------------------------------ MODULE StopButton ------------------------------
(***************************************************************************)
(* The equipment stop button: debounceButton() and the commands that       *)
(* monitor_equipment_stop_button() derives from it in every 10 ms phase.   *)
(* The switch is normally closed: the pin reads LOW while it is engaged.   *)
(* Times are ages in calls; each is counted up to the value that decides.  *)
(***************************************************************************)
EXTENDS Integers

CONSTANTS
  DebounceDelay,   (* equipment_button_debounce_duration: 200 ms           *)
  LongPress        (* equipment_button_long_press_duration: 15 s           *)

ASSUME ButtonAssumption == DebounceDelay \in Nat /\ LongPress \in Nat

VARIABLES
  engaged,         (* the pin reads LOW                                    *)
  lastEngaged,     (* lastButtonState is LOW                               *)
  buttonPressed,   (* buttonState, the accepted one, is LOW                *)
  debounceAge,     (* time since lastDebounceTime                          *)
  pressAge         (* time since ulPressTime                               *)

buttonVars == <<engaged, lastEngaged, buttonPressed, debounceAge, pressAge>>

Behaviour == {"NOT_CONNECTED", "LATCHING", "MOMENTARY"}

ButtonTypeOK ==
  /\ engaged \in BOOLEAN
  /\ lastEngaged \in BOOLEAN
  /\ buttonPressed \in BOOLEAN
  /\ debounceAge \in 0..(DebounceDelay + 1)
  /\ pressAge \in 0..LongPress

\* initDebouncedButton(): the switch counts as released, wherever it is.
ButtonInit ==
  /\ engaged \in BOOLEAN
  /\ lastEngaged = FALSE
  /\ buttonPressed = FALSE
  /\ debounceAge = 0
  /\ pressAge = 0

UpTo(bound, age) == IF age < bound THEN age ELSE bound

\* Seeded fault: a bounce does not start the delay anew.
StableFor_NoRestart == UpTo(DebounceDelay + 1, debounceAge + 1)

\* How long this call has known the reading.
StableFor == IF engaged # lastEngaged THEN 0 ELSE UpTo(DebounceDelay + 1, debounceAge + 1)

\* The call accepts a new state.
Accepts == StableFor > DebounceDelay /\ engaged # buttonPressed

\* debounceButton(); an accepted change returns before lastButtonState is set.
Debounce ==
  /\ debounceAge' = StableFor
  /\ buttonPressed' = IF Accepts THEN engaged ELSE buttonPressed
  /\ lastEngaged' = IF Accepts THEN lastEngaged ELSE engaged
  /\ pressAge' = IF Accepts /\ engaged THEN 0 ELSE UpTo(LongPress, pressAge + 1)
  /\ UNCHANGED engaged

\* Seeded fault: only the end of a stop is taken from a latching switch.
ButtonCommand_OnlyReleased(behaviour) ==
  CASE Accepts /\ behaviour = "LATCHING" /\ ~engaged -> "RESUME"
    [] Accepts /\ behaviour = "MOMENTARY" /\ ~engaged ->
         IF pressAge + 1 < LongPress THEN "STOP" ELSE "RESUME"
    [] OTHER -> "UNCHANGED"

\* The command of this call; a momentary switch acts when it is let go.
ButtonCommand(behaviour) ==
  CASE Accepts /\ behaviour = "LATCHING" -> IF engaged THEN "STOP" ELSE "RESUME"
    [] Accepts /\ behaviour = "MOMENTARY" /\ ~engaged ->
         IF pressAge + 1 < LongPress THEN "STOP" ELSE "RESUME"
    [] OTHER -> "UNCHANGED"

MoveSwitch == engaged' = ~engaged /\ UNCHANGED <<lastEngaged, buttonPressed, debounceAge, pressAge>>

=============================================================================
