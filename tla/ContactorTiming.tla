--------------------------- MODULE ContactorTiming ---------------------------
(***************************************************************************)
(* Contactors with observers the code does not have: how long the          *)
(* precharge relay has been energised, how long the equipment stop has     *)
(* been active, and whether the start time of a wait for the current to    *)
(* fall has outlived that wait.                                            *)
(***************************************************************************)
EXTENDS Contactors, FiniteSetsExt

\* There is a longest time between two calls: the core loop has a watchdog.
LateCallsEnd == \E longest \in Delays : \A d \in Delays : longest >= d

VARIABLES
  resistorTime,   (* time the precharge relay has been closed without break *)
  stopAge,        (* time since the last call that saw no equipment stop    *)
  staleWait       (* COMPLETED was left with a wait running, and the next   *)
                  (*   one would find its start time                        *)

timedVars == <<vars, resistorTime, stopAge, staleWait>>

LongestDelay == Max(Delays)

\* The largest resistorTime told apart.
ResistorCap == PrechargeTime + PrechargeOffTime + 2 * LongestDelay + 1

TimedInit == Init /\ resistorTime = 0 /\ stopAge = 0 /\ staleWait = FALSE

TimedTick ==
  \E d \in Delays :
    /\ HandleContactors(d)
    /\ resistorTime' = IF pin["PRE"] = "OFF" THEN 0
                       ELSE Capped(resistorTime + d, ResistorCap)
    /\ stopAge' = IF equipmentStop THEN Capped(stopAge + d, EstopTimeout + 1)
                  ELSE 0
    /\ staleWait' = (estopOpenWait' # NoWait
                     /\ (staleWait \/ contactorStatus' # "COMPLETED"))

TimedNext ==
  \/ TimedTick
  \/ /\ Environment
     /\ UNCHANGED <<resistorTime, stopAge, staleWait>>

TimedSpec == TimedInit /\ [][TimedNext]_timedVars

\* core_loop calls the handler in every 10 ms phase; time does not stop.
FairTimedSpec == TimedSpec /\ WF_timedVars(TimedTick)

-----------------------------------------------------------------------------
\* A wait of t, rounded up to a call of the handler, and at least one call.
Rounded(t) == (IF t = 0 THEN 1 ELSE t) + LongestDelay - 1

(***************************************************************************)
(* The precharge resistor is rated for one precharge.  Its relay is closed *)
(* for the configured time and the overlap with the positive contactor,    *)
(* each rounded up to a call of the handler, and never longer, whatever    *)
(* faults, stops and inverter commands arrive meanwhile.  The time is      *)
(* complete in the state that follows the opening of the relay.            *)
(***************************************************************************)
ResistorBounded ==
  resistorTime <= Rounded(PrechargeTime) + Rounded(PrechargeOffTime)

(***************************************************************************)
(* An equipment stop opens the contactors of a running system only when    *)
(* the current is known to be down (PAUSED) or the stop has been active    *)
(* for longer than ESTOP_OPEN_TIMEOUT_MS (comm_contactorcontrol.cpp:249).  *)
(***************************************************************************)
StopOpensUnloadedOrLate ==
  [][contactorStatus = "COMPLETED" /\ contactorStatus' = "DISCONNECTED"
     /\ inverterAllows'
       => paused \/ stopAge' > EstopTimeout]_timedVars

(***************************************************************************)
(* It does, except for a wait that finds the start time of an earlier one: *)
(* the only way to leave such a time behind is an inverter that revokes    *)
(* its permission while the contactors wait.                               *)
(***************************************************************************)
FreshStopOpensUnloadedOrLate ==
  [][contactorStatus = "COMPLETED" /\ contactorStatus' = "DISCONNECTED"
     /\ inverterAllows' /\ ~staleWait
       => paused \/ stopAge' > EstopTimeout]_timedVars

(***************************************************************************)
(* The negative contactor, the first relay of the ladder, closes only in a *)
(* call that is allowed to: the inverter permits it and no equipment stop  *)
(* is active (comm_contactorcontrol.cpp:227).                              *)
(***************************************************************************)
ClosingIsPermitted ==
  [][pin["NEG"] = "OFF" /\ pin'["NEG"] # "OFF"
       => inverterAllows' /\ ~equipmentStop]_timedVars

=============================================================================
