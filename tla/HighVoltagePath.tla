--------------------------- MODULE HighVoltagePath ---------------------------
(***************************************************************************)
(* What the contactor control promises about the high-voltage path between *)
(* the main pack and the inverter, whatever makes it open or close: the    *)
(* path becomes direct only after the inverter's capacitors have been      *)
(* charged through the precharge resistor for MinSoak, and once it has     *)
(* been tripped it stays open until the next power-up.                     *)
(***************************************************************************)
EXTENDS Integers

CONSTANTS MinSoak, Delays

VARIABLES
  path,      (* "open", through the "resistor", or "direct"               *)
  soak,      (* how long the path has gone through the resistor           *)
  tripped    (* a fault has opened the path for good                      *)

pathVars == <<path, soak, tripped>>

Soaked(t) == IF t > MinSoak THEN MinSoak ELSE t

PathInit == path = "open" /\ soak = 0 /\ ~tripped

BeginSoak ==
  /\ ~tripped
  /\ path = "open"
  /\ path' = "resistor"
  /\ soak' = 0
  /\ UNCHANGED tripped

Soak(d) ==
  /\ path = "resistor"
  /\ soak' = Soaked(soak + d)
  /\ UNCHANGED <<path, tripped>>

Connect(d) ==
  /\ path = "resistor"
  /\ soak + d >= MinSoak
  /\ path' = "direct"
  /\ soak' = 0
  /\ UNCHANGED tripped

Disconnect ==
  /\ path = "direct"
  /\ path' = "open"
  /\ soak' = 0
  /\ UNCHANGED tripped

Trip ==
  /\ path' = "open"
  /\ soak' = 0
  /\ tripped' = TRUE

PathNext ==
  \/ BeginSoak
  \/ \E d \in Delays : Soak(d) \/ Connect(d)
  \/ Disconnect
  \/ Trip

\* The program starts again: nothing is connected and nothing latched.
PowerUp == path' = "open" /\ soak' = 0 /\ ~tripped'

PathSpec == PathInit /\ [][PathNext]_pathVars

=============================================================================
