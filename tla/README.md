# A TLA+ development of the battery emulator's core

This directory holds TLA+ modules of the part of this repository that decides
whether a high-voltage battery is connected, paused, stopped, limited,
interrogated or power-cycled, the TLC configurations that check them, and TLAPS proofs about them.
`PROJECT.json` lists, for every definition, the source lines it stands for, and
for every run and theorem what it shows.

    tlc -config contactors_safety.cfg Contactors.tla
    tlc -config core_loop.cfg MCCoreLoop.tla
    tlapm Contactors_proofs.tla
    tlapm CoreLoop_proofs.tla

The same goes for the other runs of section 3 and the other modules whose name
ends in `_proofs`.

## 1. The system

The firmware runs on an ESP32 with two cores. It sits between the CAN bus of an
electric vehicle's battery and a solar inverter: it decodes the battery's
frames into a shared *data layer*, checks them, drives contactors, and encodes
the data layer for the inverter.

* `core_loop()` (`Software/Software.cpp:603-708`) has a core of its own and runs
  every millisecond. It receives frames, and in turn runs a **10 ms phase**
  (stop button, LED, `handle_contactors()`, precharge control) and a **1 s
  phase** (`update_pause_state()`, driver updates, parallel pack safety,
  calculated values, `update_machineryprotection()`, limit filters,
  `update_restart_progress()`). The two phases never overlap.
* The MQTT task, the asynchronous web server and the Wi-Fi task run on the other
  core. Their handlers call `setBatteryPause()`, `start_bms_reset()`,
  `set_event()`, `reset_all_events()` and `graceful_restart()` directly, without
  a lock, at any moment of the core loop.

| Component | State it keeps | Operations | Talks to |
|---|---|---|---|
| Contactor control (`comm_contactorcontrol.cpp`) | `contactorStatus`, relay pins, four timestamps, fault tick counter | `handle_contactors`, `_battery2/3`, `init_contactors` | reads system status, stop, pause, inverter permission; writes `contactors_engaged`, `dc_bus_live` |
| BMS power reset (same file) | `bms_reset_status`, the BMS power pin, three timestamps, `balancingPeriodSkipped` | `start_bms_reset`, `handle_BMSpower`, keepalive | pauses the battery, refreshes the alive counter |
| Pause and equipment stop (`safety.cpp:560-674`) | `emulator_pause_status`, two request flags, `allowed_to_send_CAN`, `equipment_stop_active` | `setBatteryPause`, `update_pause_state` | called by eight places in three tasks; events, flash |
| Safety checks (`safety.cpp:75-557`) | alive counters, failure counters, hysteresis latches, recovery and balancing timers | `update_machineryprotection` | events, power limits |
| Events (`events.cpp`) | state and level per event, highest level | `set_event`, `set_event_latched`, `clear_event`, `reset_all_events` | derives `system_status` (ACTIVE, UPDATING, FAULT) |
| Stored settings (`comm_nvm.cpp`) | settings in flash | `init_stored_settings`, `store_settings_equipment_stop` | restores the equipment stop at power-up |
| Restart (`safety.cpp:610-634`) | time of the request | `graceful_restart`, `update_restart_progress` | pauses, then resets the chip |
| Parallel pack safety (`parallel_safety.cpp`) | seconds out of step per pack, its permission to join | `check_parallel_battery_safety` | grants packs their contactors |
| Stop button (`comm_equipmentstopbutton.cpp`, `debounce_button.cpp`) | debounced state and two times | `monitor_equipment_stop_button` | stops and resumes |
| Automatic precharge (`precharge_control.cpp`) | status, PWM and disconnect pins, start time | `handle_precharge_control` | the MEB driver starts it and tells it of the battery's contactors |
| Limits (`Software.cpp:150-400`) | memory of the filter | `update_calculated_values`, charge taper, limit filter | between driver, safety checks and inverter |
| Remote limits (`mqtt.cpp:960-1030`, `safety.cpp:65-73`) | two caps with flags, timeout and time stamp | `SET_LIMITS`, expiry | caps the currents |
| UDS diagnostics (`UdsCanBattery.cpp`, `isotp.cpp`) | transaction, queue, PID scan, pause, transport receiver | tick, frame handlers, `start_sequence` | ECUs, an external tool, the operator |
| Drivers of batteries, inverters, chargers; display, Wi-Fi, SD card, HAL, vendored code | decoded readings | | data mapping and I/O, not modelled |

What is hard about it, and what a unit test hardly reaches (each at its line
under "hazards" in `PROJECT.json`):

* **Interleaving and ordering.** The ladder reads five flags other components
  change between any two calls; outputs are evaluated before the ladder moves
  and lag it by a call; events, pauses and resets are written by two cores.
* **Time.** Waits measured from a timestamp that a way out of a state forgets to
  take or clear; a 59 s refresh racing a 60 s counter; the wrap of `millis()`.
* **Order within a second.** Driver, caps, pack comparison, checks, taper and
  filter work on the same four limits one after the other; whatever one takes
  away the next must not give back, and a FAULT raised late acts a second later.
* **Failure.** Restarts and power losses between two steps, resets that give up,
  stops during resets and resets during stops; frames that are lost, late, out
  of turn or of another ECU.
* **Liveness.** A stop that must open the path even if the current never falls,
  a reset that must end, a restart that must come, a reset that balancing must
  not put off for ever.

For each component, what makes it correct: the relays are those of the ladder's
rung and the pack is never connected directly without a full precharge
(contactor control); the BMS is without power for the configured time, and comes
back (reset); the stop survives a restart, and ends when it is resumed (pause,
flash, events); the status follows the level, and the level the events (events);
in a pause or FAULT no power is allowed, no pack is asked for more than it
allows, a limit that was hit stays hit until it is well left, a recovery ends
(checks and limits); a pack joins only when heard, in step and without a fault
(parallel packs); the PWM never works on a connected bus, nor for ever
(precharge); a bounce does nothing and an engaged switch stops (button); no
request waits for ever and answers are not mixed up (diagnostics).

## 2. Modules

    HighVoltagePath      abstract specification of the high-voltage path
    ContactorLadder      the state of the contactor file, one action per way through a call,
                         and its view as a high-voltage path
      Contactors         ... against a free environment; implements HighVoltagePath
        ContactorTiming  ... with observers for durations
        Contactors_proofs
      Supervisor         ... with pause, events, flash, restarts (EXTENDS PauseControl)
        Supervisor_proofs
    PauseControl         setBatteryPause() and update_pause_state()
      BmsPower           start_bms_reset() and handle_BMSpower()
        BmsReset         ... with the core loop, the BMS and the operator
          BmsReset_proofs
    Events, MCEvents     set_event() etc. access by access, on two cores
      Events_proofs
    StopButton           debounceButton() and the commands of the switch
    PrechargeControl     handle_precharge_control() and what the MEB driver tells it, with
                         that driver's own reset of the BMS
    Aliveness            the counters that notice silence
      ParallelSafety     check_parallel_battery_safety()
    Limits               caps, taper and filter, as operators
    RemoteLimits         SET_LIMITS write by write, and its expiry
      Protection         update_machineryprotection() between caps, taper and filter
    CoreLoop             both phases of the core loop, with all of the last seven and PauseControl
      MCCoreLoop         ... seventeen installations for TLC
      CoreLoop_proofs, CoreLoopPower_proofs, Limits_proofs
    IsoTp                the receiving half of the transport protocol
      UdsSequencer       the diagnostics of a driver, between ECUs and an external tool
        MCUdsSequencer, UdsSequencer_proofs

**ContactorLadder.** `LadderTick` is one call of `handle_contactors()`. It is a
conjunction of the clock, the secondary packs, `dc_bus_live`, the fault counter,
and one of the ways through the rest of the call, each an action named after
what it does (`ShutDown`, `Arm`, `CloseNegative`, ... `StayCompleted`); their
guards are disjoint and together cover every state. The order of the code is in
the primes: `FollowMain` and `ReportBus` read the state the call finds
(`contactorStatus`), the latch the counter the call has just updated
(`timeSpentInFaultedMode'`). What the handler reads from the data layer is a
parameter.

**Time.** A timestamp `t` becomes its age `millis() - t`, which is all the code
ever computes; unsigned subtraction makes this exact across the wrap of
`millis()`. An age stops growing just above the largest limit it is compared
with. The one place where the code looks at `millis()` itself is the ten-second
gate after power-up (`comm_contactorcontrol.cpp:278`): `uptime` is therefore kept,
and may fall back to 0 when `MillisWraps` is TRUE. `Delays` is the set of
possible times between two calls. The three timestamps of the ladder
(`prechargeStartTime`, `negativeStartTime`, `prechargeCompletedTime`) are never
read in the same state, so one age, `sinceStep`, stands for the one the current
state reads.

**Contactors** adds the environment: each flag the handler reads changes in an
action of its own, between calls. The answer of the inverter, polled first in
the call, is changed the same way, so a call is deterministic but for the clock.

**HighVoltagePath** promises three things: the path is connected directly only
from a resistor connection that has lasted at least the precharge time, it can
be cut at any moment, and a trip is final. `PowerUp` is what a restart of the
program does to it: the path is open and not tripped, whatever it was. It is not
part of the path's own next-state relation; `Supervisor` allows it in a `Boot`.

**Supervisor** replaces that environment by the components that really write the
flags: the pause, the equipment stop with its event and its copy in flash, the
other errors as one flag, restarts and power losses at any point. It refines the
same abstract path between any two restarts.

**BmsPower / BmsReset.** One action per branch of `handle_BMSpower()`. The unit
of time is the second of the 1 s phase, and a call either sees a new second or
not, so that both orders of a 10 ms and a 1 s phase at a limit occur. The
currents are abstracted to the four classes the code tells apart. One battery's
alive counter is modelled.

**Events.** Each access to the shared level or status is a step of its own, with
a program counter per task, so that calls overlap as they do on two cores. The
state PENDING of the code, which is never told apart from INACTIVE, is INACTIVE.

**CoreLoop.** A 10 ms phase (`TenMs`) and a 1 s phase (`Second`) are one step
each: they run in one task, one after the other, and never overlap. Within a
step the order of the code is that of the operators. In the 10 ms phase
`RunPrecharge` sees the status and the stop that `MonitorButton` has just
changed. In the 1 s phase the drivers report their errors, the packs are compared
with last second's detection and the status as it then is, and the lowest powers of all packs go through `CapsOf`,
`Protected`, `TaperedIf` and `Filtered`, each taking what the one before left,
into what the inverter is `sent`. Between the phases, frames of packs and
inverter, the switch, the MEB driver with its own reset of the BMS, the web page
and the MQTT task act in any order; a `SET_LIMITS` message is seven steps, one per
write, since the expiry in the core loop falls between any two of them. Its stamp
may be newer than the time the core loop took at the start of its pass
(`Software.cpp:620`): the age is then `Ahead`, and the unsigned difference makes
the message as old as can be (`safety.cpp:66`).

What is fitted in a plant is stored in the settings and read once: packs, button,
precharge, taper, filter, the inverter's timeout and whether it works off the
grid, where its silence is a warning only (`events.cpp:41-56`). The variable `install` holds
one choice, with the readings its battery may report and the commands its
operator uses. The specification and the proofs are for any set of installations;
TLC takes seventeen, one per group of features that touch each other, because the
product of all features would only multiply states of parts that do not interact.

Active events are the set `errors` of their origins, since level ERROR is all
that decides between ACTIVE and FAULT. Every event that is set, and every active
one that is cleared, makes the code evaluate the status again
(`events.cpp:686-713`), a warning too. That matters only while the status is out
of date, which it is after the web page has switched recovery charging. `status`
is therefore evaluated at each point of a second that reads it: where each pack is
compared, where the power is taken away (`safety.cpp:143`), at the check for an
empty battery, at the end. The errors of drivers come before all of these; `touch`
says at which of them the first event below ERROR falls, and `OtherEvent` is one
between two phases. All drivers report under the same events, so the last one
decides (`LastFault`). Readings are records of what the checks look at. The integer
divisions of powers and currents are those of the code.

Variables under "Observers" are not in the code: they count what a property
speaks of (seconds of silence, calls of PWM, limits hit) from the inputs, so
that the counters of the code are compared with something independent of them.

**UdsSequencer.** Every 100 ms `Tick` runs the code's tick to its end: transport
poll, timeout with retry, queue, scan. A frame is any of the frames an ECU may
send, whether asked for or not, in any order; a lost frame is one that does not
come. The sequences are those of `MG-GEN1-BATTERY.cpp` and `UdsCanBattery.cpp`,
payloads are reduced to what the code branches on (positive, negative, pending, a
value of zero). `IsoTp` gives the receiver after a frame or a poll as operators.

Comments "Seeded fault" mark variants of definitions used to show that each
property can fail; no specification uses them.

## 3. Runs

| Run | Properties | Shows |
|---|---|---|
| `contactors_safety` | RelaysAndReportsAgree, PackFollowsWithinOneTick, ImplementsHighVoltagePath | relays, reports and packs agree with the ladder; refinement |
| `contactor_timing` | ResistorBounded, FreshStopOpensUnloadedOrLate, ClosesWhenPermitted, StopEventuallyOpens, FaultEventuallyOpens | durations and liveness, calls of varying length |
| `contactor_stale_wait` | StopOpensUnloadedOrLate | finding 1 |
| `contactor_armed_closing` | ClosingIsPermitted | finding 2 |
| `bms_reset` | ResetIsNotAMissingBattery, OffForTheWholeTime, ResetEnds, PeriodicResetBegins | the reset with all interruptions |
| `bms_reset_in_stop` | NoPowerCycleDuringStop | finding 3 |
| `bms_reset_gives_up` | PausedOnlyDuringReset | finding 4 |
| `supervisor` | StopEventEndsWithStop, StopSurvivesRestart, ImplementsHighVoltagePath, RestartHappens | stop, flash, events and restarts together; the path is refined by the whole |
| `stop_latches` | StopIsRecoverable | finding 5 |
| `events` | SerialCallsAreExact, LastingErrorIsFault | level and status under concurrent calls |
| `uds_diagnostics` | EveryWaitHasATimer, OneTransaction, ReceptionIsFromOneEcu, ToolIsLeftAlone, QueuedSequenceStarts, SequenceEnds, QuietBusWorksOn | no endless wait, no overlap, no mixed answers, tool left alone, scan and sequences go on |
| `core_loop` | TypeOK; power: PauseMeansNoPower, FaultMeansNoPower, CurrentsAreRight, RecoveryIsBounded, StaysBlocked, RemoteCapHolds, IncreaseIsRamped, WithinEveryPack, LimitComesBack; packs: PacksAreGuarded, SilenceIsNoticed; precharge: PrechargeIsSafe; button: NoBounceActs, EngagedSwitchStops | what the two phases promise, in every order of events |

The type invariants of the modules without `TypeOK` in this table are proved
(section 5) and not checked again.

**Bounds.** Limits are scaled down, keeping their order and letting each be
missed, met and passed: with `Delays = {1, 2}` a precharge of 3 units is met in
two or three calls, exactly or late; the stop timeout of 2 and three fault ticks
leave room for every interruption before, at and after the limit. Two secondary
packs with different permissions suffice because packs do not look at each
other. In `bms_reset` the off time (4) is longer than the keepalive interval
(3), which is one less than the alive counter's start (4): the relation of
390 s, 59 s and 60 s that makes the refresh necessary. The interval of the
periodic reset is no longer than the off time there; the code does not relate
them while a reset is in progress. `contactor_timing` has no secondary packs
and no wrap: neither is read by its properties, and a wrap makes the bound of
`ResistorBounded` false (section 6). That bound is the two waits of the rungs that
close the relay of the resistor, each rounded up to the call that ends it, so it
is met in the run and would be missed by one unit less. In `supervisor` the
precharge takes two calls, one more than the other rungs, so that leaving it early
would show. `Events` has two tasks, two events of the
highest level, one of them checked every second, and one warning; three
different levels are all that `max` tells apart.

In `uds_diagnostics` two ECUs are enough for frames to mix; two boot PIDs, of
which one is asked for again, and two steady ones let the scan wrap in both
lists; messages take up to two consecutive frames with sequence numbers modulo
2, so that a repeated, a skipped and a wrapped number occur; every timeout can
be met by an answer just before, in and after its last tick, and the back-off of
the tool and the pause after a reset are of equal length, which lets either
replace the other.

In `core_loop` voltages are about 20 V and powers some watts, so that a filter
that takes half of the new value has few states and still leaves a rest; every
reading is at, above or below a limit of the checks; counters run to 2 or 3, one
more than what tells "at once" from "later". `Touches` looks at the different
times of a first event only while the status is out of date; otherwise they are
all the same. The divisions are those of the code,
so the losses at their rounding are in the model. Nothing else is bounded: no run
has a state constraint.

`ClosesWhenPermitted` speaks of every closing, not of the first: once the
permission lasts, the ladder comes to COMPLETED and stays there, also after earlier
stops, faults below the latch and revoked permissions; only a fault that has been
latched keeps it open.

**Fairness.** Weak fairness of the calls of the core loop only: the loop is
watched by a task watchdog (`esp_task_wdt_add`, `esp_task_wdt_reset`) that resets
the chip if it stops, and `BmsReset` adds that its clock advances
(`Handler(1)`). In `CoreLoop` this is asked for only of the phase a property
needs, the 10 ms phase where a latching switch is fitted and the 1 s phase where
the filter is on; in `UdsSequencer`, of `Tick`, which the core loop reaches
through `transmit_can()`. In `Events` the calls, once begun, end (they contain no
wait), and each recurring check is strongly fair, because the core loop may be in
another call whenever one becomes due. Nothing is assumed of operators, the
inverter, the battery, the ECUs or the network, and deadlock is checked in every
run.

## 4. Findings

1. **A stale wait opens contactors under load** (`contactor_stale_wait`).
   `estop_open_wait_start_ms` is not reset when the inverter revokes its
   permission during an equipment stop's wait. The next stop that meets
   COMPLETED in its first call counts as timed out at once.
   `FreshStopOpensUnloadedOrLate` shows that this is the only way.
2. **An armed ladder closes during a stop** (`contactor_armed_closing`). The
   permission is tested before the boot gate, the closing happens after it.
3. **A remote reset power-cycles the BMS during an equipment stop**
   (`bms_reset_in_stop`), which the comment at l. 469 excludes.
4. **A reset that gives up leaves the battery paused** (`bms_reset_gives_up`).
5. **A stop of more than ten seconds is not recoverable** (`stop_latches`): the
   stop is itself a FAULT, and the fault latch counts it.

Divergences noted while modelling, without a run of their own. Of the contactors,
the reset and the events:

* The reset goes on, and cuts the power, after the operator has released its
  pause during WAITING_FOR_PAUSE (`comm_contactorcontrol.cpp:515`), although the
  comment at l. 592-594 wants the pause in effect.
* The comment at l. 363 says CAN messages are not sent during the reset; every
  caller passes `pause_CAN` false, so they are.
* "Refreshing one second before the window closes keeps the counter from ever
  reaching zero" (l. 64-65) holds only for a BMS that was heard just before the
  reset; `ResetIsNotAMissingBattery` carries that precondition.
* "Downward changes are done in Software.ino:loop()" (`events.cpp:686`) is out of
  date: `clear_event()` and `reset_all_events()` lower the level in any task.

Of powers and checks:

* `safety.cpp:502` allows a small charge current during a recovery in spite of
  everything; the filter (`Software.cpp:298-314`) and, near full, the taper
  (l. 221-224) then cap that current by a power that is 0.
  `CurrentsAreRight` therefore promises it only without them.
* The floor of the taper (`Software.cpp:214`) raises a charge power between 0
  and the floor up to the floor, above what a pack or the user's cap allows;
  `WithinEveryPack` allows exactly that.
* The filter's integer division stops up to 9 W below its target, and a target
  below 10 W is never approached from 0 (`LimitComesBack`).
* A `SET_LIMITS` message that the expiry of an older one cuts through loses its
  limits, or leaves a cap of 0 with the flag set, until its own expiry
  (`mqtt.cpp:1007-1029`: the time stamp is written last). A complete message is
  expired at once when its stamp is newer than the `currentMillis` the core loop
  took at the start of the pass (`Software.cpp:620`, `safety.cpp:66`: the
  difference wraps). The comment at `safety.cpp:61-64` calls the subtraction
  "wrap-safe" and names this very outcome ("fresh limits expire immediately") as
  that of the naive comparison. A remote cap replaces the user's and may exceed it (`safety.cpp:65-73`, `Software.cpp:352-396`).
* Switching recovery off, or its abort for a dead cell (`safety.cpp:531`), leaves
  its start time: the next recovery is cut short. The abort still sends the
  recovery current for that second.
* A FAULT raised by this second's checks takes the power away in the next one
  (`safety.cpp:143` comes first), and not that of the second pack (l. 378). One
  raised by a driver, which runs before, takes it away at once; and a FAULT of
  nothing but a driver's error ends in the second in which the driver takes the
  error back, before the power is looked at.
* The drivers of the second and third pack set and clear the events of the first
  (one event for an open interlock, for example): the pack updated last decides,
  and its driver clears a FAULT that another one has raised in the same second.
* Switching recovery charging does not evaluate the status: until the next event
  of any level a FAULT holds although recovery is on, or power flows in ACTIVE
  although it is off and an error is active (`webserver.cpp:638`).
* The comments at l. 387-394 and 437-444 call the cell voltage events of
  secondary packs "critical latching error without automatic reset"; they are
  warnings (`events.cpp:218-219`), and neither latch nor block power. The
  comment at l. 355 says 2 s per count, the code takes 3. One event stands for
  the cell deviation of two packs (l. 285, 402), the last one wins.
* The latches of the user's voltages stand still while the option is off
  (l. 216-240) and act again, stale, in the second it is switched on.
* During an equipment stop, clearing the events and releasing the pause brings
  power back: nothing raises the event of the stop again.

Of packs, precharge and button:

* `parallel_safety.cpp:12` takes 370.0 V for "not read yet": a pack that really
  reads it is neither compared nor disengaged in a FAULT. The test
  `Battery1FaultDisengagesBattery2` of `voltage_sync_tests.cpp` uses this voltage
  and so passes without reaching the code it is about. Some drivers publish
  another, plausible voltage before their first frame (`CMFA-EV-BATTERY.h:216`,
  `CMP-SMART-CAR-BATTERY.h:165`, `RELION-LV-BATTERY.h:74`): only the alive
  counter keeps their packs out.
* The MEB driver's reset of the BMS (`MEB-BATTERY.cpp:1325-1411`) ends or gives up
  with a release of the pause, whoever asked for it, and takes a BMS out of
  BMS_FAULT: the only way out of it, and one that `handle_precharge_control()` sees
  as DISCONNECTED.
* While the MEB driver's request stays set, a stop or FAULT does not end the
  automatic precharge but turns it into single PWM calls, one in three
  (`precharge_control.cpp:76`), and its timeout never ends them.
* With a normally open disconnect contactor the inverter is off the bus from
  power-up until a precharge has ended.
* A momentary stop switch acts when it is let go; a RESUME from MQTT or the web
  page ends the stop of a latching switch that is still engaged.

Of the diagnostics:

* With an automatically detected address a stray frame of another ECU pins that
  ECU (`UdsCanBattery.cpp:184, 362`), and the real answer is ignored until the
  timeout.
* A queued sequence is lost when the tick that takes it from the queue finds a
  PID between two tries (l. 57-67, 118-124); the header (l. 151-155) promises
  that it starts. `QueuedSequenceStarts` excuses exactly this.
* The pause after a BMS reset replaces the back-off for an external tool
  (l. 148-151, `MG-GEN1-BATTERY.cpp:737`) and lets the PID scan through.
* The reset of the MG driver goes on when the diagnostic session is refused
  (`MG-GEN1-BATTERY.cpp:730-733`), and a read of trouble codes that times out is
  never reported.

## 5. Proofs

All theorems are for every value of the constants that the named assumptions of
the modules allow: times are natural numbers, some of them positive, sets are
subsets of what the code knows.

`Contactors_proofs.tla`, for all thresholds, delays, sets of packs and both kinds
of inverter:

* `TypeCorrect`, and `RelaysAndReportsCorrect`: `Spec => []RelaysAndReportsAgree`.
* `PacksFollow`: the action property about secondary packs.
* `Refinement`: `Spec => ImplementsHighVoltagePath`.
* `ResistorIsSpared`: `ResistorBounded`, if `millis()` does not wrap and the time
  between two calls has a bound (`LateCallsEnd`, which any finite `Delays` meets).
* `FreshStopsOpenInTime`: `FreshStopOpensUnloadedOrLate`, wraps included.
* `FaultOpensInBoundedTime`, `StopOpensInBoundedTime`, `ClosesInBoundedTime`:
  bounded response, see below.

The inductive invariant is the conjunction of the type invariant and the three
parts of `RelaysAndReportsAgree`: the two about the reports are not inductive
alone, because a call that leaves the relays as they are preserves them only if
the relays fitted the rung before. `HandlerPreserves` has one step per way through
the call. The refinement maps the relays to the path and the age of the rung to
the soaking time; `HandlerImplements` again has one step per way, and `SoakAges`
is the arithmetic that capping an age at each step or at the end comes to the
same. The assumptions are those of `ContactorLadder`: thresholds are natural
numbers, delays positive. `ResistorIsSpared` needs `GateIsOpen`, that the gate of
l. 278 never closes on a ladder that has passed it (the conjunct a wrap breaks),
and `ResistorInv`, which says for each rung how the observer's time is made up of
the age of that rung and the wait of the one before. `FreshStopsOpenInTime` compares
the observer's age of a stop with the age of `estop_open_wait_start_ms`: unless
the wait began with a stale time, the code's is never the older one.

`BmsReset_proofs.tla`, for all durations, configurations and sets of commands:

* `TypeCorrect`, and `WholeOffTime`: `Spec => OffForTheWholeTime`.
* `KeepaliveDoesItsJob`: `Spec => []ResetIsNotAMissingBattery`, for durations
  related as `KeepaliveCovers` says.
* `ResetEndsInBoundedTime`, `ResetBeginsInBoundedTime`: bounded response, see below.

The property speaks of the observer `offTime`, the code tests
`lastPowerRemovalTime`; the invariant `AgeIsOffTime` says that, while the BMS has
no power, the two agree as far as they are counted, and `PowerMatchesStatus` that
power is off in `POWERED_OFF` and in no other state. `HandlerSound` has one step
per branch of `handle_BMSpower()`; `AgesTogether` is the arithmetic of the two
caps. It uses that durations are numbers and `CAN_STILL_ALIVE` positive.

That the keepalive does its job is arithmetic between four times: while a watched
reset lasts, the alive counter has lost no more than the age of the last refresh
and the second or two around the start of the reset, and that age stays below the
interval. `KeepaliveCovers` is the relation of the code's constants that this
needs: the counter starts one above the interval (60 and 59 s), the wait for the
pause gives up well before it (10 s), and a reset short enough to need no
keepalive is over within one interval. The code tests the off time alone for that
(`comm_contactorcontrol.cpp:60-66`), so off times just below the interval, from
about 47 s on when the contactors are held and from 57 s on otherwise, do not meet
the last conjunct: with the waits before and after them such a reset outlasts the
counter. The comment there calls this the original behaviour of short resets.

`Supervisor_proofs.tla`, for all thresholds, packs and sets of commands:

* `TypeCorrect`, `EventEndsWithStop` (`StopEventEndsWithStop`) and `StopIsKept`
  (`StopSurvivesRestart`).
* `RelaysAgreeInTheSystem` (`RelaysAndReportsAgree` in the composed system) and
  `SystemRefinement`: `Spec => ImplementsHighVoltagePath`.
* `RestartsInBoundedTime`: bounded response, see below.

The first two properties are not inductive alone. At a restart the stop and its
event are both read from flash, so the invariant adds `FlashAgrees`; and the relays
stay open across any number of calls because a ladder that starts in DISCONNECTED
under a stop can only be latched, which is `HeldOpen` and the lemma
`StopKeepsOpen`. What was proved of the ladder against a free environment is used
again, not proved again: the module instantiates `Contactors_proofs` with the flags of the system (status FAULT for
the fault, `PAUSED` for the pause, no secondary packs), shows that a 10 ms phase
is a call of that ladder, and that every other step but `Boot` leaves the ladder
alone; `Boot` re-establishes the invariant.

`Events_proofs.tla`, for all sets of events, levels and tasks:

* `TypeCorrect`, and `SerialCallsExact`: `Spec => []SerialCallsAreExact`.

The property speaks of the moments between calls; `SerialInv` says what each stage
inside a call still owes: before the level is raised, the maximum of the stored
level and the event's own is the level of the events; before it is stored, the
value carried is; after that the level itself is. `OneCall` makes this enough: without an
overlap no other task disturbs it. The lemma `SetRaises` is about the maximum of
the active levels after one more is set. It uses that there is an event and that
levels lie between 0 and 4.

`UdsSequencer_proofs.tla`, for all lists, timeouts and sets of ECUs:

* `TypeCorrect`, `WaitsAreTimed`, `RequestsDoNotOverlap`, `NoMixedReception`,
  `ToolUndisturbed`, `QueuedSequencesStart`: the safety properties of
  `uds_diagnostics`.
* `SequencesEndInBoundedTime`: bounded response, see below.

That a reception comes from one ECU needs `PinnedSender`: while a request lives,
the pinned address is the ECU the reception began with. That the tool is left
alone needs `QuietCovered`: the observer's quiet time is covered by a pause of
the code, at a level that stops everything or, after a reset, all but the scan;
the assumption `ToolBackoff <= PostReset` is what makes the reset's pause long
enough. `ReceiverInv`, `TransactionInv` and `PauseInv` are kept by one step per
action, through lemmas about one tick and one frame each.

`CoreLoop_proofs.tla` treats the parts that keep to variables of their own; for
each a lemma says which actions touch them, and an inductive invariant follows:

* `ButtonIsDebounced` (`NoBounceActs`): by `ButtonInv` the debounce timer
  never exceeds the observer's count of equal readings.
* `AcceptedSwitchHolds` and `SwitchActsInBoundedTime`: bounded response, see below.
* `PrechargesAreSafe` (`PrechargeIsSafe`): `PrechargeInv` adds that the PWM is on
  in PRECHARGING and only there, and for no longer than the age of the start time.
* `PacksStayGuarded` (`PacksAreGuarded`) and `SilenceIsReported`
  (`SilenceIsNoticed`): `PacksInv` says that a full counter or a detected pack
  means a frame, that the drift counter is the number of checks out of step up to
  its limit, that checks in FAULT which left a permission have counted as drift,
  and that each alive counter tells the silence to within a second, for the long
  timeout of an inverter to within three.

`CoreLoopPower_proofs.tla` treats the power, with the arithmetic in
`Limits_proofs.tla` (what caps, taper and filter do to each of the four limits):

* `CoreLoopTypes`, `PausesHold`, `FaultsHold`, `CurrentsAgree`, `RecoveriesEnd`,
  `HitsBlock`, `IncreasesAreRamped`, `PacksAreRespected`, `RemoteCapsHold`.
* `LimitReturnsInBoundedTime`: bounded response, see below.

`PowerInv` adds to the properties that the latches of the code cover the limits
observed as hit, that a recovery's clock is at most one second behind the
observer (it may run on from an earlier recovery, so it can be far ahead),
that the memory of the filter is what was sent, and that a status FAULT has an
error behind it (`CauseInv`): with `ErrorsThatStay`, which compares the errors at
the beginning of a second with those at l. 143, this gives `FaultsHold` for every
place at which the first event of the second may fall. `RemoteInv` follows a
message write by write: unless an expiry has fallen between or the stamp was ahead
of the clock, what has been written agrees with the message, its timeout included,
for as long as its own time has not passed. The proof that a second keeps the order goes through the four
limits in the order of the code. It needs `MaxVoltage > 10`, so that no
conversion divides by zero, and the bound `PowerCap` on what packs allow.

**Bounded response.** Liveness cannot be proved with this prover, but the argument
behind it can, up to the fairness itself. For each of the properties below a
theorem states an action property about a natural number computed from the state:
no step in which the premise holds makes it larger, and each step of the core loop
(the one fairness is about) makes it smaller until the goal is reached. As the
number cannot fall for ever, the goal comes within as many steps as it shows,
which is more than the liveness property says.

| Liveness property | Theorem | Number |
|---|---|---|
| `FaultEventuallyOpens` | `FaultOpensInBoundedTime` | `CallsToLatch` |
| `StopEventuallyOpens` | `StopOpensInBoundedTime` | `CallsToOpen`: rest of the last rung, of the timeout |
| `ClosesWhenPermitted` | `ClosesInBoundedTime` | `CallsToClose`: rest of the gate and of the rungs |
| `ResetEnds` | `ResetEndsInBoundedTime` | `SecondsToEnd`: rest of the three waits |
| `PeriodicResetBegins` | `ResetBeginsInBoundedTime` | `SecondsToBegin`: rest of the interval, one more if none was skipped |
| `RestartHappens` | `RestartsInBoundedTime` | `TimeToRestart` |
| `SequenceEnds` | `SequencesEndInBoundedTime` | `TicksToEnd`: tries left times their timeout |
| `EngagedSwitchStops` | `SwitchActsInBoundedTime`, `AcceptedSwitchHolds` | `CallsToAccept`: rest of the debounce delay |
| `LimitComesBack` | `LimitReturnsInBoundedTime` | `PowerToRegain`: watts below what is allowed |

The steps that may make a number larger are named in the formulas and are what
the liveness properties exclude too: an operator who asks for another restart, an
ECU that asks for more time, a queued sequence that takes the place of one that
has ended, a switch that is moved, a pack that allows more than before.
`AcceptedSwitchHolds` adds to the first of the switch's theorems that the stop it
has caused stays, which is an invariant of its own. `StopOpensInBoundedTime` needs
`BootInhibit > 0` (10 s in the code): the code takes a wait that begins when `millis()` reads 0 for one that
has not begun, and `uptime`, which is counted up to the gate only, could not tell
0 from later.

## 6. Only model-checked, and why

* **Liveness** (`ClosesWhenPermitted`, `StopEventuallyOpens`, `FaultEventuallyOpens`,
  `ResetEnds`, `PeriodicResetBegins`, `RestartHappens`, `LastingErrorIsFault`,
  `SequenceEnds`, `QuietBusWorksOn`, `EngagedSwitchStops`, `LimitComesBack`):
  the proof system does not handle fairness. Nine of them have a proved bound
  (section 5).
* With `MillisWraps` the precharge relay can stay closed for ten seconds longer
  than its precharge, once in 49.7 days at the worst moment: the gate at l. 278
  also stops a ladder that is running. `contactors_safety` includes the wrap and
  shows that it breaks nothing else.

## 7. Not modelled

* The decoders of some seventy batteries and the encoders of some fifty inverters
  are mappings of data without interaction; what they feed back into the core
  (readings, alive counters, permission to close) is an action of the
  environment. Of the MEB driver the precharge request and the reset of the BMS are
  modelled, of the Chargebyte driver nothing.
  Drivers that do not rewrite their powers each second are taken as if they did.
* The single statements of `setBatteryPause()` against those of the core loop: a
  pause set in the middle of a 1 s phase may see the filter or the taper write the
  old powers back for one second. Each phase is one step of `CoreLoop`, so its
  properties speak of what happens between phases.
* Of the 1 s phase: the scaling of the state of charge, the counters of exceeded
  limits, forced balancing, the event of a low state of health, the status
  UPDATING and the grace some inverters get at start-up. The last of these only
  delays the error of a silent inverter.
* The contactor ladder is not a part of `CoreLoop`: it takes part in the same
  10 ms phase, but its composition with pause and status is `Supervisor`, and what
  the packs' permissions do is `Contactors`.
* The sending of a UDS request in several frames: no request of the drivers needs
  it. Its code keeps a wait counter and a remaining length across calls
  (`isotp.cpp:71, 189`) that nobody resets.
* Windows that ignore CAN errors, over-the-air updates, holding pins across a
  restart, the user interface, hardware drivers and vendored libraries. A level
  that is written by two cores is assumed to be written as a whole.

## 8. Plan

In this order:

1. Proofs: bounds for `LastingErrorIsFault` and `QuietBusWorksOn`; an abstract request channel (one request, one answer or a
   timeout) that `UdsSequencer` implements.
2. `PauseRace`: `setBatteryPause()`, `update_pause_state()`, `handle_BMSpower()`
   and `start_bms_reset()` statement by statement on two cores, to be compared
   with `PauseControl` and `BmsPower` as their abstractions.
3. The precharge of the Chargebyte driver.
4. The scaling of the state of charge, as operators beside `Limits`.
5. `CoreLoop` with the ladder in its 10 ms phase.
