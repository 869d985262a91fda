-------------------------------- MODULE Events -------------------------------
(***************************************************************************)
(* The event store of events.cpp and the system status derived from it.    *)
(* set_event(), clear_event() and reset_all_events() are called by the     *)
(* core loop and by the web and MQTT tasks on the other core, without a    *)
(* lock: every step below is one access to the shared level or status, and *)
(* the calls of different tasks interleave between them.                   *)
(*                                                                         *)
(* A level is its position in EVENTS_LEVEL_TYPE.  LevelOf is the effective *)
(* level: the offgrid downgrade is read from flash at power-up and does    *)
(* not change while the program runs.                                      *)
(***************************************************************************)
EXTENDS Integers, FiniteSetsExt

CONSTANTS
  Event,      (* the events of the store                                   *)
  LevelOf,    (* effective_level() of each                                 *)
  Recurring,  (* events update_machineryprotection() sets or clears every  *)
              (*   second, as their condition holds or not                 *)
  Tasks,      (* the callers                                               *)
  Core        (* the task that runs update_machineryprotection()           *)

ASSUME EventsAssumption ==
  /\ Event # {}
  /\ LevelOf \in [Event -> 0..4]
  /\ Recurring \subseteq Event
  /\ Core \in Tasks

VARIABLES
  state,       (* events.entries[].state                                   *)
  level,       (* events.level                                             *)
  status,      (* datalayer system_status                                  *)
  recovery,    (* user_requests_forced_charging_recovery_mode              *)
  call,        (* the call each task is in, and the value it has read      *)
  present,     (* the recurring events whose condition holds               *)
  overlapped,  (* observer: two calls have been in progress at once        *)
  staleMode    (* observer: recovery has changed since the status was set  *)

observers == <<overlapped, staleMode>>
vars == <<state, level, status, recovery, call, present, observers>>

EventState == {"INACTIVE", "ACTIVE", "ACTIVE_LATCHED"}
Stage == {"idle", "max", "scan", "store", "look", "apply"}

INFO == 0
UPDATE == 3
ERROR == 4

Idle == [stage |-> "idle", event |-> CHOOSE e \in Event : TRUE, seen |-> INFO]

Init ==
  /\ state = [e \in Event |-> "INACTIVE"]
  /\ level = INFO
  /\ status = "ACTIVE"
  /\ recovery = FALSE
  /\ call = [t \in Tasks |-> Idle]
  /\ present = {}
  /\ overlapped = FALSE
  /\ staleMode = FALSE

\* Seeded fault: a latched event does not count.
Active_NotLatched(e) == state[e] = "ACTIVE"

Active(e) == state[e] \in {"ACTIVE", "ACTIVE_LATCHED"}

HighestActive == Max({INFO} \cup {LevelOf[e] : e \in {x \in Event : Active(x)}})

\* update_bms_status(), for the level it has read.
StatusFor(lvl) ==
  CASE lvl = UPDATE -> "UPDATING"
    [] lvl = ERROR -> IF recovery THEN "ACTIVE" ELSE "FAULT"
    [] OTHER -> "ACTIVE"

-----------------------------------------------------------------------------
Goto(t, stage, seen) ==
  call' = [call EXCEPT ![t] = [@ EXCEPT !.stage = stage, !.seen = seen]]

Enter(t, stage, e) ==
  /\ call[t].stage = "idle"
  /\ call' = [call EXCEPT ![t] = [stage |-> stage, event |-> e, seen |-> INFO]]
  /\ overlapped' = (overlapped \/ \E u \in Tasks \ {t} : call[u].stage # "idle")
  /\ UNCHANGED <<level, status, recovery, present, staleMode>>

\* Seeded fault: an event that is already set is not set again.
SetEvent_OnlyOnce(t, e, latched) ==
  /\ ~Active(e)
  /\ Enter(t, "max", e)
  /\ state' = [state EXCEPT ![e] = IF latched THEN "ACTIVE_LATCHED" ELSE "ACTIVE"]

\* set_event() and set_event_latched() store the state first ...
SetEvent(t, e, latched) ==
  /\ Enter(t, "max", e)
  /\ state' = [state EXCEPT ![e] = IF latched THEN "ACTIVE_LATCHED" ELSE "ACTIVE"]

\* ... and then raise the level, which they read before they write it.
ReadLevel(t) ==
  /\ call[t].stage = "max"
  /\ Goto(t, "store", Max({level, LevelOf[call[t].event]}))
  /\ UNCHANGED <<state, level, status, recovery, present, observers>>

\* clear_event() of an event that is active, but not latched.
ClearEvent(t, e) ==
  /\ state[e] = "ACTIVE"
  /\ Enter(t, "scan", e)
  /\ state' = [state EXCEPT ![e] = "INACTIVE"]

\* update_event_level() looks at all events before it stores the level.
Scan(t) ==
  /\ call[t].stage = "scan"
  /\ Goto(t, "store", HighestActive)
  /\ UNCHANGED <<state, level, status, recovery, present, observers>>

\* reset_all_events() stores the lowest level without looking.
ResetAllEvents(t) ==
  /\ Enter(t, "store", CHOOSE e \in Event : TRUE)
  /\ state' = [e \in Event |-> "INACTIVE"]

StoreLevel(t) ==
  /\ call[t].stage = "store"
  /\ level' = call[t].seen
  /\ Goto(t, "look", call[t].seen)
  /\ UNCHANGED <<state, status, recovery, present, observers>>

LookAtLevel(t) ==
  /\ call[t].stage = "look"
  /\ Goto(t, "apply", level)
  /\ UNCHANGED <<state, level, status, recovery, present, observers>>

ApplyStatus(t) ==
  /\ call[t].stage = "apply"
  /\ status' = StatusFor(call[t].seen)
  /\ staleMode' = FALSE
  /\ Goto(t, "idle", INFO)
  /\ UNCHANGED <<state, level, recovery, present, overlapped>>

Steps(t) ==
  ReadLevel(t) \/ Scan(t) \/ StoreLevel(t) \/ LookAtLevel(t) \/ ApplyStatus(t)

-----------------------------------------------------------------------------
\* The checks of update_machineryprotection(), once per second.
Check(e) ==
  \/ e \in present /\ SetEvent(Core, e, FALSE)
  \/ e \notin present /\ ClearEvent(Core, e)

\* The other tasks, and the core loop for events of its own.
Report(t) ==
  \/ \E e \in Event \ Recurring :
       SetEvent(t, e, FALSE) \/ SetEvent(t, e, TRUE) \/ ClearEvent(t, e)
  \/ t # Core /\ ResetAllEvents(t)

\* The web page switches the recovery charge on and off.
SwitchRecovery ==
  /\ recovery' = ~recovery
  /\ staleMode' = TRUE
  /\ UNCHANGED <<state, level, status, call, present, overlapped>>

ConditionChanges(e) ==
  /\ present' = (present \ {e}) \cup ({e} \ present)
  /\ UNCHANGED <<state, level, status, recovery, call, observers>>

CoreStep == (\E e \in Recurring : Check(e)) \/ Steps(Core)

Next ==
  \/ CoreStep
  \/ \E t \in Tasks : Steps(t) \/ Report(t)
  \/ SwitchRecovery
  \/ \E e \in Recurring : ConditionChanges(e)

Spec == Init /\ [][Next]_vars

\* The core loop runs, and so does every call that has been begun.
FairSpec ==
  /\ Spec
  /\ \A e \in Recurring : SF_vars(Check(e))
  /\ \A t \in Tasks : WF_vars(Steps(t))

-----------------------------------------------------------------------------
TypeOK ==
  /\ state \in [Event -> EventState]
  /\ level \in 0..4
  /\ status \in {"ACTIVE", "UPDATING", "FAULT"}
  /\ recovery \in BOOLEAN
  /\ call \in [Tasks -> [stage : Stage, event : Event, seen : 0..4]]
  /\ present \subseteq Recurring
  /\ overlapped \in BOOLEAN
  /\ staleMode \in BOOLEAN

Quiet == \A t \in Tasks : call[t].stage = "idle"

(***************************************************************************)
(* Calls that never overlap leave the level exact and the status in line   *)
(* with it, however they are mixed: latched and plain settings, clearings  *)
(* and resets.                                                             *)
(***************************************************************************)
SerialCallsAreExact ==
  Quiet /\ ~overlapped =>
    /\ level = HighestActive
    /\ staleMode \/ status = StatusFor(level)

(***************************************************************************)
(* With overlapping calls the level can be lost, but an error whose        *)
(* condition lasts is not lost for good: set_event() updates the level     *)
(* even when the event is active already, so the next check restores it,   *)
(* once the other tasks leave the store alone.  Without that a lost update *)
(* would leave the contactors closed on a lasting fault for ever.          *)
(***************************************************************************)
OthersQuiet == \A t \in Tasks \ {Core} : call[t].stage = "idle"

LastingErrorIsFault ==
  \A e \in Recurring :
    LevelOf[e] = ERROR =>
      (<>[](e \in present /\ ~recovery /\ OthersQuiet) => <>[](status = "FAULT"))

=============================================================================
