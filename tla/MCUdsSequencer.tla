--------------------------- MODULE MCUdsSequencer ---------------------------
(***************************************************************************)
(* UdsSequencer for TLC: two ECUs whose address is detected, two PIDs at   *)
(* boot, the first of which is asked again while its value is 0, and two   *)
(* in steady state.                                                        *)
(***************************************************************************)
EXTENDS UdsSequencer

MCBootList == <<1, 2>>
MCSteadyList == <<3, 4>>
=============================================================================
