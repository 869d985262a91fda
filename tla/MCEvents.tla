------------------------------ MODULE MCEvents -------------------------------
(***************************************************************************)
(* Events for TLC: an error the core loop checks every second, the error   *)
(* of the equipment stop, which is set once, and a warning.                *)
(***************************************************************************)
EXTENDS Events

MCEvent == {"overvoltage", "stop", "pause"}
MCLevelOf == [e \in MCEvent |-> IF e = "pause" THEN 2 ELSE 4]
MCRecurring == {"overvoltage"}
=============================================================================
