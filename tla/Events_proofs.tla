---------------------------- MODULE Events_proofs ----------------------------
(***************************************************************************)
(* Proofs about Events for every set of events, levels and tasks: the      *)
(* types, and that calls which never overlap keep level and status exact.  *)
(***************************************************************************)
EXTENDS Events, TLAPS

USE DEF INFO, UPDATE, ERROR

Levels == 0..4

-----------------------------------------------------------------------------
\* Max returns the largest member of a nonempty set of levels.
LEMMA MaxOfLevels ==
  ASSUME NEW S \in SUBSET Levels, S # {}
  PROVE  /\ Max(S) \in S
         /\ \A y \in S : Max(S) >= y
<1>1. PICK x \in S : \A y \in S : x >= y
  <2>1. CASE 4 \in S
    BY <2>1 DEF Levels
  <2>2. CASE 4 \notin S /\ 3 \in S
    BY <2>2 DEF Levels
  <2>3. CASE 4 \notin S /\ 3 \notin S /\ 2 \in S
    BY <2>3 DEF Levels
  <2>4. CASE 4 \notin S /\ 3 \notin S /\ 2 \notin S /\ 1 \in S
    BY <2>4 DEF Levels
  <2>5. CASE 4 \notin S /\ 3 \notin S /\ 2 \notin S /\ 1 \notin S
    <3>1. \A y \in S : y = 0
      BY <2>5 DEF Levels
    <3>2. 0 \in S /\ \A y \in S : 0 >= y
      BY <3>1
    <3>3. QED
      BY <3>2
  <2>6. QED
    BY <2>1, <2>2, <2>3, <2>4, <2>5
<1>2. QED
  BY <1>1, Zenon DEF Max

\* The largest member is the only one at or above all others.
LEMMA MaxIsUnique ==
  ASSUME NEW S \in SUBSET Levels, NEW x \in S, \A y \in S : x >= y
  PROVE  Max(S) = x
<1>1. Max(S) \in S /\ Max(S) >= x
  BY MaxOfLevels
<1>2. x >= Max(S)
  BY <1>1
<1>3. Max(S) \in Levels /\ x \in Levels
  BY <1>1
<1>4. \A a, b \in Levels : a >= b /\ b >= a => a = b
  BY DEF Levels
<1>5. QED
  BY <1>1, <1>2, <1>3, <1>4, Zenon

\* Raising a level is the maximum of the two.
LEMMA MaxOfTwo ==
  ASSUME NEW a \in Levels, NEW b \in Levels
  PROVE  Max({a, b}) = IF a >= b THEN a ELSE b
<1>1. {a, b} \in SUBSET Levels
  OBVIOUS
<1>2. CASE a >= b
  BY <1>1, <1>2, MaxIsUnique DEF Levels
<1>3. CASE ~(a >= b)
  <2>1. b >= a /\ b >= b
    BY <1>3 DEF Levels
  <2>2. Max({a, b}) = b
    BY <1>1, <2>1, MaxIsUnique
  <2>3. QED
    BY <1>3, <2>2
<1>4. QED
  BY <1>2, <1>3

-----------------------------------------------------------------------------
\* The levels of the active events, with the floor of the scan.
ActiveLevels == {INFO} \cup {LevelOf[e] : e \in {x \in Event : Active(x)}}

LEMMA ActiveLevelsType ==
  /\ ActiveLevels \in SUBSET Levels
  /\ INFO \in ActiveLevels
  /\ HighestActive = Max(ActiveLevels)
  /\ HighestActive \in Levels
<1>1. ActiveLevels \in SUBSET Levels /\ INFO \in ActiveLevels
  BY EventsAssumption DEF ActiveLevels, Levels
<1>2. HighestActive = Max(ActiveLevels)
  BY DEF HighestActive, ActiveLevels
<1>3. QED
  BY <1>1, <1>2, MaxOfLevels

\* Setting an event raises the highest active level to its own.
LEMMA SetRaises ==
  ASSUME NEW e \in Event, state \in [Event -> EventState],
         NEW s \in {"ACTIVE", "ACTIVE_LATCHED"},
         state' = [state EXCEPT ![e] = s]
  PROVE  HighestActive' = Max({HighestActive, LevelOf[e]})
<1>1. LevelOf[e] \in Levels
  BY EventsAssumption DEF Levels
<1>2. ActiveLevels' = ActiveLevels \cup {LevelOf[e]}
  <2>1. \A x \in Event : Active(x)' <=> Active(x) \/ x = e
    BY DEF Active, EventState
  <2>2. QED
    BY <2>1 DEF ActiveLevels
<1>3. HighestActive' = Max(ActiveLevels')
  BY DEF HighestActive, ActiveLevels
<1>4. DEFINE h == HighestActive
             l == LevelOf[e]
             m == IF h >= l THEN h ELSE l
<1>5. h \in ActiveLevels /\ \A y \in ActiveLevels : h >= y
  BY ActiveLevelsType, MaxOfLevels
<1>6. h \in Levels /\ l \in Levels
  BY <1>1, ActiveLevelsType
<1>7. m \in ActiveLevels' /\ \A y \in ActiveLevels' : m >= y
  <2>1. ActiveLevels \in SUBSET Levels
    BY ActiveLevelsType
  <2>2. m \in ActiveLevels'
    BY <1>2, <1>5
  <2>3. m >= h /\ m >= l /\ m \in Levels
    <3>. HIDE DEF h, l
    <3>1. QED
      BY <1>6 DEF Levels
  <2>4. ASSUME NEW y \in ActiveLevels'
        PROVE  m >= y
    <3>1. CASE y = l
      BY <3>1, <2>3
    <3>2. CASE y \in ActiveLevels
      <4>1. h >= y /\ y \in Levels
        BY <3>2, <1>5, <2>1
      <4>. HIDE DEF m, h
      <4>2. QED
        BY <4>1, <2>3, <1>6 DEF Levels
    <3>3. QED
      BY <1>2, <3>1, <3>2, <2>4
  <2>5. QED
    BY <2>2, <2>4
<1>8. ActiveLevels' \in SUBSET Levels
  BY <1>2, <1>6, ActiveLevelsType
<1>9. Max(ActiveLevels') = m
  BY <1>7, <1>8, MaxIsUnique, Zenon
<1>10. Max({h, l}) = m
  BY <1>6, MaxOfTwo
<1>11. QED
  BY <1>3, <1>9, <1>10

\* With nothing active the level is the lowest.
LEMMA NoneActive ==
  ASSUME state' = [e \in Event |-> "INACTIVE"]
  PROVE  HighestActive' = INFO
<1>1. ActiveLevels' = {INFO}
  BY DEF ActiveLevels, Active
<1>2. {INFO} \in SUBSET Levels
  BY DEF Levels
<1>3. Max({INFO}) = INFO
  BY <1>2, MaxOfLevels
<1>4. QED
  BY <1>1, <1>3 DEF HighestActive, ActiveLevels

\* While no event changes, neither does the highest active level.
LEMMA SameHighest ==
  ASSUME UNCHANGED state
  PROVE  HighestActive' = HighestActive
  BY DEF HighestActive, Active

-----------------------------------------------------------------------------
(***************************************************************************)
(* Type correctness: whatever the tasks interleave, level, status and the  *)
(* values the calls carry stay levels and statuses.                        *)
(***************************************************************************)
LEMMA StatusForType == ASSUME NEW l \in Levels
                       PROVE  StatusFor(l) \in {"ACTIVE", "UPDATING", "FAULT"}
  BY DEF StatusFor

LEMMA TypeStart == Init => TypeOK
<1>. SUFFICES ASSUME Init
              PROVE  TypeOK
  OBVIOUS
<1>1. (CHOOSE e \in Event : TRUE) \in Event
  BY EventsAssumption
<1>2. Idle \in [stage : Stage, event : Event, seen : 0..4]
  BY <1>1 DEF Idle, Stage
<1>3. call \in [Tasks -> [stage : Stage, event : Event, seen : 0..4]]
  <2>. HIDE DEF Idle
  <2>1. QED
    BY <1>2 DEF Init
<1>4. state \in [Event -> EventState] /\ level \in 0..4
  BY DEF Init, EventState
<1>5. QED
  BY <1>3, <1>4 DEF Init, TypeOK

\* Entering a call at any stage keeps the types.
LEMMA EnterType ==
  ASSUME TypeOK, NEW t \in Tasks, NEW s \in Stage, NEW e \in Event, Enter(t, s, e),
         state' \in [Event -> EventState]
  PROVE  TypeOK'
<1>1. call' \in [Tasks -> [stage : Stage, event : Event, seen : 0..4]]
  BY DEF Enter, TypeOK
<1>2. overlapped' \in BOOLEAN
  BY DEF Enter, TypeOK
<1>3. QED
  BY <1>1, <1>2 DEF Enter, TypeOK

\* So does every step inside a call.
LEMMA StepsType ==
  ASSUME TypeOK, NEW t \in Tasks, Steps(t)
  PROVE  TypeOK'
<1>1. call[t].event \in Event /\ call[t].seen \in Levels /\ level \in Levels
  BY DEF TypeOK, Levels
<1>2. ASSUME NEW s \in Stage, NEW l \in Levels, Goto(t, s, l)
      PROVE  call' \in [Tasks -> [stage : Stage, event : Event, seen : 0..4]]
  BY <1>2 DEF Goto, TypeOK, Levels
<1>3. CASE ReadLevel(t)
  <2>1. LevelOf[call[t].event] \in Levels
    BY <1>1, EventsAssumption DEF Levels
  <2>2. Max({level, LevelOf[call[t].event]}) \in Levels
    BY <1>1, <2>1, MaxOfTwo
  <2>3. QED
    BY <1>2, <1>3, <2>2 DEF ReadLevel, TypeOK, Stage, observers
<1>4. CASE Scan(t)
  BY <1>2, <1>4, ActiveLevelsType DEF Scan, TypeOK, Stage, observers
<1>5. CASE StoreLevel(t)
  <2>1. level' \in 0..4
    BY <1>1, <1>5 DEF StoreLevel, Levels
  <2>2. QED
    BY <1>1, <1>2, <1>5, <2>1 DEF StoreLevel, TypeOK, Stage, observers
<1>6. CASE LookAtLevel(t)
  BY <1>1, <1>2, <1>6 DEF LookAtLevel, TypeOK, Stage, observers
<1>7. CASE ApplyStatus(t)
  <2>1. status' \in {"ACTIVE", "UPDATING", "FAULT"}
    BY <1>1, <1>7, StatusForType DEF ApplyStatus
  <2>2. INFO \in Levels
    BY DEF Levels
  <2>3. QED
    BY <1>2, <1>7, <2>1, <2>2 DEF ApplyStatus, TypeOK, Stage
<1>8. QED
  BY <1>3, <1>4, <1>5, <1>6, <1>7 DEF Steps

\* Every call a task can begin, with the stage and the event it begins at.
LEMMA Beginnings ==
  ASSUME TypeOK,
         \/ \E e \in Recurring : Check(e)
         \/ \E t \in Tasks : Report(t)
  PROVE  \E t \in Tasks, e \in Event :
           \/ \E latched \in BOOLEAN : SetEvent(t, e, latched)
           \/ ClearEvent(t, e)
           \/ ResetAllEvents(t)
<1>1. CASE \E e \in Recurring : Check(e)
  BY <1>1, EventsAssumption DEF Check
<1>2. CASE \E t \in Tasks : Report(t)
  BY <1>2, EventsAssumption DEF Report
<1>3. QED
  BY <1>1, <1>2

LEMMA TypeStep == TypeOK /\ [Next]_vars => TypeOK'
<1>. SUFFICES ASSUME TypeOK, [Next]_vars
              PROVE  TypeOK'
  OBVIOUS
<1>1. CASE \E t \in Tasks : Steps(t)
  BY <1>1, StepsType
<1>2. CASE (\E e \in Recurring : Check(e)) \/ (\E t \in Tasks : Report(t))
  <2>1. PICK t \in Tasks, e \in Event :
           \/ \E latched \in BOOLEAN : SetEvent(t, e, latched)
           \/ ClearEvent(t, e)
           \/ ResetAllEvents(t)
    BY <1>2, Beginnings
  <2>2. CASE \E latched \in BOOLEAN : SetEvent(t, e, latched)
    <3>1. state' \in [Event -> EventState] /\ Enter(t, "max", e)
      BY <2>2 DEF SetEvent, TypeOK, EventState
    <3>2. QED
      BY <3>1, EnterType DEF Stage
  <2>3. CASE ClearEvent(t, e)
    <3>1. state' \in [Event -> EventState] /\ Enter(t, "scan", e)
      BY <2>3 DEF ClearEvent, TypeOK, EventState
    <3>2. QED
      BY <3>1, EnterType DEF Stage
  <2>4. CASE ResetAllEvents(t)
    <3>1. state' \in [Event -> EventState] /\ Enter(t, "store", CHOOSE x \in Event : TRUE)
      BY <2>4 DEF ResetAllEvents, EventState
    <3>2. (CHOOSE x \in Event : TRUE) \in Event
      BY EventsAssumption
    <3>3. QED
      BY <3>1, <3>2, EnterType DEF Stage
  <2>5. QED
    BY <2>1, <2>2, <2>3, <2>4
<1>3. CASE SwitchRecovery
  BY <1>3 DEF SwitchRecovery, TypeOK
<1>4. CASE \E e \in Recurring : ConditionChanges(e)
  BY <1>4 DEF ConditionChanges, TypeOK, observers
<1>5. CASE UNCHANGED vars
  BY <1>5 DEF vars, observers, TypeOK
<1>6. QED
  BY <1>1, <1>2, <1>3, <1>4, <1>5, EventsAssumption DEF Next, CoreStep

(***************************************************************************)
(* Every variable of the store and of the calls in progress keeps its      *)
(* type, for any set of events and tasks.                                  *)
(***************************************************************************)
THEOREM TypeCorrect == Spec => []TypeOK
  BY TypeStart, TypeStep, PTL DEF Spec

-----------------------------------------------------------------------------
(***************************************************************************)
(* The inductive invariant of serial calls: while no two calls have been   *)
(* in progress together, at most one task is in a call, and what remains   *)
(* to be done of that call makes the level exact: the level that has been  *)
(* raised or stored is that of the events, and the value carried to the    *)
(* status is that level.                                                   *)
(***************************************************************************)
OneCall ==
  \A t, u \in Tasks : call[t].stage # "idle" /\ call[u].stage # "idle" => t = u

StageIsExact(t) ==
  /\ call[t].stage = "max" => HighestActive = Max({level, LevelOf[call[t].event]})
  /\ call[t].stage = "store" => call[t].seen = HighestActive
  /\ call[t].stage \in {"look", "apply"} => level = HighestActive
  /\ call[t].stage = "apply" => call[t].seen = level

RestIsExact ==
  Quiet => /\ level = HighestActive
           /\ staleMode \/ status = StatusFor(level)

SerialInv ==
  ~overlapped => OneCall /\ (\A t \in Tasks : StageIsExact(t)) /\ RestIsExact

LEMMA SerialStart == Init => SerialInv
<1>. SUFFICES ASSUME Init
              PROVE  SerialInv
  OBVIOUS
<1>1. \A t \in Tasks : call[t].stage = "idle"
  BY DEF Init, Idle
<1>2. HighestActive = INFO
  <2>1. ActiveLevels = {INFO}
    BY DEF ActiveLevels, Active, Init
  <2>2. {INFO} \in SUBSET Levels
    BY DEF Levels
  <2>3. QED
    BY <2>1, <2>2, MaxOfLevels, ActiveLevelsType
<1>3. RestIsExact
  BY <1>2 DEF RestIsExact, StatusFor, Init
<1>4. QED
  BY <1>1, <1>3 DEF SerialInv, OneCall, StageIsExact

\* A task inside a call is the only one, and the others stay idle.
LEMMA OnlyOneMoves ==
  ASSUME TypeOK, OneCall, NEW t \in Tasks, call[t].stage # "idle",
         NEW s \in Stage, NEW l, Goto(t, s, l)
  PROVE  /\ call'[t].stage = s /\ call'[t].seen = l /\ call'[t].event = call[t].event
         /\ \A u \in Tasks \ {t} : call'[u].stage = "idle"
         /\ OneCall'
<1>1. call'[t] = [call[t] EXCEPT !.stage = s, !.seen = l]
  BY DEF Goto, TypeOK
<1>2. call[t] \in [stage : Stage, event : Event, seen : 0..4]
  BY DEF TypeOK
<1>3. \A u \in Tasks \ {t} : call'[u] = call[u] /\ call[u].stage = "idle"
  BY DEF Goto, TypeOK, OneCall
<1>4. call'[t].stage = s /\ call'[t].seen = l /\ call'[t].event = call[t].event
  BY <1>1, <1>2
<1>5. OneCall'
  BY <1>3 DEF OneCall
<1>6. QED
  BY <1>3, <1>4, <1>5

LEMMA SerialSteps ==
  ASSUME TypeOK, SerialInv, NEW t \in Tasks, Steps(t)
  PROVE  SerialInv'
<1>. SUFFICES ASSUME ~overlapped'
              PROVE  OneCall' /\ (\A u \in Tasks : StageIsExact(u)') /\ RestIsExact'
  BY DEF SerialInv
<1>1. ~overlapped
  BY DEF Steps, ReadLevel, Scan, StoreLevel, LookAtLevel, ApplyStatus, observers
<1>2. OneCall /\ StageIsExact(t)
  BY <1>1 DEF SerialInv
<1>3. HighestActive' = HighestActive
  BY SameHighest DEF Steps, ReadLevel, Scan, StoreLevel, LookAtLevel, ApplyStatus
<1>4. ASSUME call'[t].stage # "idle", \A u \in Tasks \ {t} : call'[u].stage = "idle",
             StageIsExact(t)'
      PROVE  (\A u \in Tasks : StageIsExact(u)') /\ RestIsExact'
  <2>1. ASSUME NEW u \in Tasks \ {t} PROVE StageIsExact(u)'
    BY <1>4, <2>1 DEF StageIsExact
  <2>2. QED
    BY <1>4, <2>1 DEF RestIsExact, Quiet
<1>5. CASE ReadLevel(t)
  <2>1. /\ call'[t].stage = "store" /\ call'[t].seen = Max({level, LevelOf[call[t].event]})
        /\ \A u \in Tasks \ {t} : call'[u].stage = "idle"
        /\ OneCall'
    BY <1>2, <1>5, OnlyOneMoves DEF ReadLevel, Stage
  <2>2. StageIsExact(t)'
    BY <1>2, <1>3, <1>5, <2>1 DEF StageIsExact, ReadLevel
  <2>3. QED
    BY <1>4, <2>1, <2>2
<1>6. CASE Scan(t)
  <2>1. /\ call'[t].stage = "store" /\ call'[t].seen = HighestActive
        /\ \A u \in Tasks \ {t} : call'[u].stage = "idle"
        /\ OneCall'
    BY <1>2, <1>6, OnlyOneMoves DEF Scan, Stage
  <2>2. StageIsExact(t)'
    BY <1>3, <2>1 DEF StageIsExact
  <2>3. QED
    BY <1>4, <2>1, <2>2
<1>7. CASE StoreLevel(t)
  <2>1. /\ call'[t].stage = "look"
        /\ \A u \in Tasks \ {t} : call'[u].stage = "idle"
        /\ OneCall'
    BY <1>2, <1>7, OnlyOneMoves DEF StoreLevel, Stage
  <2>2. level' = HighestActive
    BY <1>2, <1>7 DEF StageIsExact, StoreLevel
  <2>3. StageIsExact(t)'
    BY <1>3, <2>1, <2>2 DEF StageIsExact
  <2>4. QED
    BY <1>4, <2>1, <2>3
<1>8. CASE LookAtLevel(t)
  <2>1. /\ call'[t].stage = "apply" /\ call'[t].seen = level
        /\ \A u \in Tasks \ {t} : call'[u].stage = "idle"
        /\ OneCall'
    BY <1>2, <1>8, OnlyOneMoves DEF LookAtLevel, Stage
  <2>2. level' = level /\ level = HighestActive
    BY <1>2, <1>8 DEF StageIsExact, LookAtLevel
  <2>3. StageIsExact(t)'
    BY <1>3, <2>1, <2>2 DEF StageIsExact
  <2>4. QED
    BY <1>4, <2>1, <2>3
<1>9. CASE ApplyStatus(t)
  <2>1. /\ call'[t].stage = "idle"
        /\ \A u \in Tasks \ {t} : call'[u].stage = "idle"
        /\ OneCall'
    BY <1>2, <1>9, OnlyOneMoves DEF ApplyStatus, Stage
  <2>2. level' = HighestActive' /\ call[t].seen = level'
    BY <1>2, <1>3, <1>9 DEF StageIsExact, ApplyStatus
  <2>3. status' = StatusFor(level)'
    <3>1. status' = StatusFor(level') /\ recovery' = recovery
      BY <1>9, <2>2 DEF ApplyStatus
    <3>2. StatusFor(level)' = StatusFor(level')
      BY <3>1 DEF StatusFor
    <3>3. QED
      BY <3>1, <3>2
  <2>4. ASSUME NEW u \in Tasks PROVE StageIsExact(u)'
    BY <2>1 DEF StageIsExact
  <2>5. QED
    BY <2>1, <2>2, <2>3, <2>4 DEF RestIsExact
<1>10. QED
  BY <1>5, <1>6, <1>7, <1>8, <1>9 DEF Steps

\* A call that begins alone finds the level exact.
LEMMA BeginsAlone ==
  ASSUME TypeOK, SerialInv, NEW t \in Tasks, NEW s \in Stage, NEW e, Enter(t, s, e),
         ~overlapped'
  PROVE  /\ Quiet /\ level = HighestActive /\ level' = level
         /\ call'[t] = [stage |-> s, event |-> e, seen |-> INFO]
         /\ \A u \in Tasks \ {t} : call'[u].stage = "idle"
<1>1. ~overlapped /\ \A u \in Tasks \ {t} : call[u].stage = "idle"
  BY DEF Enter
<1>2. Quiet
  BY <1>1 DEF Enter, Quiet
<1>3. level = HighestActive
  BY <1>1, <1>2 DEF SerialInv, RestIsExact
<1>4. call'[t] = [stage |-> s, event |-> e, seen |-> INFO]
  BY DEF Enter, TypeOK
<1>5. \A u \in Tasks \ {t} : call'[u].stage = "idle"
  BY <1>1 DEF Enter, TypeOK
<1>6. QED
  BY <1>2, <1>3, <1>4, <1>5 DEF Enter

LEMMA SerialStep == TypeOK /\ SerialInv /\ [Next]_vars => SerialInv'
<1>. SUFFICES ASSUME TypeOK, SerialInv, [Next]_vars
              PROVE  SerialInv'
  OBVIOUS
<1>1. CASE \E t \in Tasks : Steps(t)
  BY <1>1, SerialSteps
<1>2. CASE (\E e \in Recurring : Check(e)) \/ (\E t \in Tasks : Report(t))
  <2>. SUFFICES ASSUME ~overlapped'
                PROVE  OneCall' /\ (\A u \in Tasks : StageIsExact(u)') /\ RestIsExact'
    BY DEF SerialInv
  <2>1. PICK t \in Tasks, e \in Event :
           \/ \E latched \in BOOLEAN : SetEvent(t, e, latched)
           \/ ClearEvent(t, e)
           \/ ResetAllEvents(t)
    BY <1>2, Beginnings
  <2>2. ASSUME call'[t].stage # "idle", \A u \in Tasks \ {t} : call'[u].stage = "idle",
               StageIsExact(t)'
        PROVE  OneCall' /\ (\A u \in Tasks : StageIsExact(u)') /\ RestIsExact'
    <3>1. ASSUME NEW u \in Tasks \ {t} PROVE StageIsExact(u)'
      BY <2>2, <3>1 DEF StageIsExact
    <3>2. QED
      BY <2>2, <3>1 DEF RestIsExact, Quiet, OneCall
  <2>3. CASE \E latched \in BOOLEAN : SetEvent(t, e, latched)
    <3>1. PICK latched \in BOOLEAN : SetEvent(t, e, latched)
      BY <2>3
    <3>2. Enter(t, "max", e) /\ "max" \in Stage
      BY <3>1 DEF SetEvent, Stage
    <3>3. /\ level = HighestActive /\ level' = level
          /\ call'[t] = [stage |-> "max", event |-> e, seen |-> INFO]
          /\ \A u \in Tasks \ {t} : call'[u].stage = "idle"
      BY <3>2, BeginsAlone
    <3>4. HighestActive' = Max({HighestActive, LevelOf[e]})
      BY <3>1, SetRaises DEF SetEvent, TypeOK
    <3>5. HighestActive' = Max({level', LevelOf[e]})
      BY <3>3, <3>4
    <3>6. StageIsExact(t)'
      BY <3>3, <3>5 DEF StageIsExact
    <3>7. QED
      BY <2>2, <3>3, <3>6
  <2>4. CASE ClearEvent(t, e)
    <3>1. Enter(t, "scan", e) /\ "scan" \in Stage
      BY <2>4 DEF ClearEvent, Stage
    <3>2. /\ call'[t] = [stage |-> "scan", event |-> e, seen |-> INFO]
          /\ \A u \in Tasks \ {t} : call'[u].stage = "idle"
      BY <3>1, BeginsAlone
    <3>3. StageIsExact(t)'
      BY <3>2 DEF StageIsExact
    <3>4. QED
      BY <2>2, <3>2, <3>3
  <2>5. CASE ResetAllEvents(t)
    <3>1. Enter(t, "store", CHOOSE x \in Event : TRUE) /\ "store" \in Stage
      BY <2>5 DEF ResetAllEvents, Stage
    <3>2. /\ call'[t] = [stage |-> "store", event |-> CHOOSE x \in Event : TRUE,
                          seen |-> INFO]
          /\ \A u \in Tasks \ {t} : call'[u].stage = "idle"
      BY <3>1, BeginsAlone
    <3>3. HighestActive' = INFO
      BY <2>5, NoneActive DEF ResetAllEvents
    <3>4. StageIsExact(t)'
      BY <3>2, <3>3 DEF StageIsExact
    <3>5. QED
      BY <2>2, <3>2, <3>4
  <2>6. QED
    BY <2>1, <2>3, <2>4, <2>5
<1>3. CASE SwitchRecovery
  <2>1. HighestActive' = HighestActive
    BY <1>3, SameHighest DEF SwitchRecovery
  <2>2. QED
    BY <1>3, <2>1
    DEF SwitchRecovery, SerialInv, OneCall, StageIsExact, RestIsExact, Quiet
<1>4. CASE (\E e \in Recurring : ConditionChanges(e)) \/ UNCHANGED vars
  <2>1. UNCHANGED <<state, level, status, recovery, call, overlapped, staleMode>>
    BY <1>4 DEF ConditionChanges, vars, observers
  <2>2. HighestActive' = HighestActive
    BY <2>1, SameHighest
  <2>3. StatusFor(level)' = StatusFor(level)
    BY <2>1 DEF StatusFor
  <2>4. QED
    BY <2>1, <2>2, <2>3 DEF SerialInv, OneCall, StageIsExact, RestIsExact, Quiet
<1>5. QED
  BY <1>1, <1>2, <1>3, <1>4, EventsAssumption DEF Next, CoreStep

(***************************************************************************)
(* For any set of events, levels and tasks: as long as no two calls have   *)
(* overlapped, the level between calls is the highest of the active events *)
(* and the status the one of that level, unless the recovery mode has been *)
(* switched since.  What the missing lock can spoil is overlaps alone.     *)
(***************************************************************************)
THEOREM SerialCallsExact == Spec => []SerialCallsAreExact
<1>1. SerialInv => SerialCallsAreExact
  BY DEF SerialInv, RestIsExact, SerialCallsAreExact
<1>2. QED
  BY <1>1, TypeStart, TypeStep, SerialStart, SerialStep, PTL DEF Spec

=============================================================================
