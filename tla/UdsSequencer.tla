---------------------------- MODULE UdsSequencer ----------------------------
(***************************************************************************)
(* UDS diagnostics of UdsCanBattery.cpp on top of ISO-TP, with the BMS     *)
(* reset and the two PID lists of MG-GEN1-BATTERY.cpp.                     *)
(*                                                                         *)
(* One request is in flight at a time: a step of a sequence (read or clear *)
(* the trouble codes, reset the BMS) or a PID of the scan list.  Several   *)
(* ECUs answer on the bus and an external diagnostic tool may use it too;  *)
(* any of them sends any frame at any time.                                *)
(*                                                                         *)
(* A sequence is named by its requests: seqState is the one in flight.     *)
(* Payloads and the trouble codes read are left out.                       *)
(***************************************************************************)
EXTENDS IsoTp, Sequences, FiniteSets

CONSTANTS
  Ecus,          (* response addresses in the range 0x780..0x7EF           *)
  NoAddr,        (* address 0                                              *)
  FixedEcu,      (* uds_response_address; NoAddr: take any (auto-detect)   *)
  BootList,      (* UDS_BOOT_PID_LIST                                      *)
  SteadyList,    (* UDS_STEADY_PID_LIST                                    *)
  RetryPids,     (* PIDs asked again while their value is 0                *)
  PidTimeout,    (* UDS_TIMEOUT_READ_DID, in 100 ms ticks                  *)
  StepTimeout,   (* UDS_TIMEOUT_READ_DTC and the like                      *)
  MaxRetries,    (* of a sequence step: 2                                  *)
  MaxPidRetries, (* UDS_PID_MAX_RETRIES                                    *)
  ToolBackoff,   (* UDS_EXTERNAL_TOOL_BACKOFF_TICKS                        *)
  PostReset,     (* MG_UDS_POST_RESET_PAUSE                                *)
  Tasks          (* the sequences an operator starts                       *)

Pids == {BootList[i] : i \in DOMAIN BootList} \cup {SteadyList[i] : i \in DOMAIN SteadyList}

ASSUME UdsAssumption ==
  /\ NoAddr \notin Ecus /\ FixedEcu \in Ecus \cup {NoAddr}
  /\ BootList \in Seq(Nat \ {0}) /\ Len(BootList) > 0
  /\ SteadyList \in Seq(Nat \ {0}) /\ Len(SteadyList) > 0
  /\ RetryPids \subseteq Pids
  /\ {PidTimeout, StepTimeout, MaxPidRetries, ToolBackoff, PostReset} \subseteq Nat \ {0}
  /\ MaxRetries \in Nat
  /\ ToolBackoff <= PostReset
  /\ Tasks \subseteq {"READ_DTC", "CLEAR_DTC", "RESET_DIAG"}

VARIABLES
  rx,          (* the ISO-TP receiver                                      *)
  respAddr,    (* uds_current_response_address                             *)
  seqState,    (* the request of the sequence in flight, or "IDLE"         *)
  retries,     (* seq_msg.retries                                          *)
  timeout,     (* uds_transaction_timeout                                  *)
  pendingSeq,  (* pending_seq_state, by its first request                  *)
  scan,        (* the PID scan: list, index, next, pending, retries        *)
  pause,       (* [ticks, level]: seq_pause_ticks, seq_pause_level         *)
  toolQuiet,   (* observer: ticks the external tool must be left alone     *)
  rxFrom,      (* observer: the ECUs the current reception came from       *)
  rxOutlived   (* observer: a request timed out during this reception      *)

transaction == <<seqState, retries, timeout, pendingSeq, scan>>
vars == <<rx, respAddr, transaction, pause, toolQuiet, rxFrom, rxOutlived>>

-----------------------------------------------------------------------------
(***************************************************************************)
(* The initial state: setup_uds() and set_pid_scan_list() of setup().      *)
(***************************************************************************)
Requests == {"READ_DTC", "CLEAR_DTC", "RESET_DIAG", "RESET_SEND"}

\* UdsPriority
Level == [Sequence |-> 0, PidScan |-> 1, Custom |-> 2]

Dec(n) == IF n > 0 THEN n - 1 ELSE 0

PidList(name) == IF name = "boot" THEN BootList ELSE SteadyList

\* A position of the PID scan, with no request in flight.
At(list, index, next) ==
  [list |-> list, index |-> index, next |-> next, pending |-> 0, retries |-> 0]

Init ==
  /\ rx = RxIdle
  /\ respAddr = NoAddr
  /\ seqState = "IDLE"
  /\ retries = 0
  /\ timeout = 0
  /\ pendingSeq = "IDLE"
  /\ scan = At("boot", 0, 0)
  /\ pause = [ticks |-> 0, level |-> Level.PidScan]
  /\ toolQuiet = 0
  /\ rxFrom = {}
  /\ rxOutlived = FALSE

\* uds_paused_for()
PausedFor(p, level) == p.ticks > 0 /\ level <= p.level

\* send_sequence_message() is refused while a PID is in flight and in a pause.
StepAccepted(p) == scan'.pending = 0 /\ ~PausedFor(p, Level.Sequence)

SendStep(step) == seqState' = step /\ retries' = 0 /\ timeout' = StepTimeout

\* The retry counter is read only while a step is in flight.
NoStep == seqState' = "IDLE" /\ retries' = 0 /\ timeout' = 0

-----------------------------------------------------------------------------
(***************************************************************************)
(* The PID scan.                                                           *)
(***************************************************************************)
\* advance_pid_scan() at the end of a PID, whatever its outcome.
NextPid(sc) ==
  At(sc.list, IF sc.index + 1 >= Len(PidList(sc.list)) THEN 0 ELSE sc.index + 1, 0)

\* Seeded fault: a PID that does not answer is asked for ever.
PidTimedOut_Stuck(sc) ==
  IF sc.retries + 1 < MaxPidRetries THEN [sc EXCEPT !.retries = @ + 1]
  ELSE [sc EXCEPT !.pending = 0, !.retries = 0]

\* on_uds_pid_scan_timeout(): the PID stays pending between two tries.
PidTimedOut(sc) ==
  IF sc.retries + 1 < MaxPidRetries THEN [sc EXCEPT !.retries = @ + 1] ELSE NextPid(sc)

\* A request of the scan: the detour of handle_pid(), or the next of the list.
RequestPid(sc) ==
  LET pid == IF sc.next # 0 THEN sc.next ELSE PidList(sc.list)[sc.index + 1]
  IN  [sc EXCEPT !.next = pid, !.pending = pid]

\* handle_pid() of MG-GEN1 and what follows it: a value of 0 is asked for
\* again, the last of the boot list begins the steady list.
PidAnswered(sc, m) ==
  CASE m.kind = "zero" -> At(sc.list, sc.index, m.did)
    [] m.kind # "zero" /\ m.did = BootList[Len(BootList)] -> At("steady", 0, SteadyList[1])
    [] OTHER -> NextPid(sc)

-----------------------------------------------------------------------------
(***************************************************************************)
(* transmit_uds_can(): the ISO-TP poll, and every 100 ms the tick.         *)
(***************************************************************************)
ReceiverPolled ==
  /\ rx' = PollRx(rx)
  /\ rxFrom' = IF rx'.state = "IDLE" THEN {} ELSE rxFrom

Poll ==
  /\ rx.state = "WAIT_DATA"
  /\ ReceiverPolled
  /\ rxOutlived' = (rxOutlived /\ rx'.state # "IDLE")
  /\ UNCHANGED <<respAddr, transaction, pause, toolQuiet>>

\* The transaction times out in this tick.
Expires == timeout = 1

\* Seeded fault: a step is retried into a pause.
Retries_InPause == Expires /\ seqState # "IDLE" /\ retries < MaxRetries

\* A step is given up instead of retried when a pause blocks it.
Retries ==
  /\ Expires /\ seqState # "IDLE" /\ retries < MaxRetries
  /\ ~PausedFor(pause', Level.Sequence)

\* transaction_tick() leaves the bus to a new request.
Over == timeout <= 1 /\ ~Retries

MayRequest == Over /\ rx'.state = "IDLE" /\ (seqState = "IDLE" \/ Expires)

ScanAfter == IF Expires /\ seqState = "IDLE" /\ scan.pending # 0 THEN PidTimedOut(scan) ELSE scan

AwaitAnswer ==
  /\ timeout > 1
  /\ timeout' = timeout - 1
  /\ UNCHANGED <<seqState, retries, pendingSeq, scan>>

\* Seeded fault: the tries are not counted.
RetryStep_Uncounted ==
  /\ Retries
  /\ timeout' = StepTimeout
  /\ UNCHANGED <<seqState, retries, pendingSeq, scan>>

RetryStep ==
  /\ Retries
  /\ retries' = retries + 1
  /\ timeout' = StepTimeout
  /\ UNCHANGED <<seqState, pendingSeq, scan>>

\* Seeded fault: the sequence is taken from the queue during a pause.
StartQueued_InPause ==
  /\ MayRequest /\ pendingSeq # "IDLE"
  /\ pendingSeq' = "IDLE"
  /\ scan' = ScanAfter
  /\ IF StepAccepted(pause') THEN SendStep(pendingSeq) ELSE NoStep

\* The sequence leaves the queue whether or not its first step is accepted.
StartQueued ==
  /\ MayRequest /\ pendingSeq # "IDLE" /\ pause'.ticks = 0
  /\ pendingSeq' = "IDLE"
  /\ scan' = ScanAfter
  /\ IF StepAccepted(pause') THEN SendStep(pendingSeq) ELSE NoStep

\* transmit_uds_pid_scan()
ScanOn ==
  /\ MayRequest /\ pendingSeq = "IDLE" /\ ~PausedFor(pause', Level.PidScan)
  /\ scan' = RequestPid(ScanAfter)
  /\ timeout' = PidTimeout
  /\ seqState' = "IDLE" /\ retries' = 0
  /\ UNCHANGED pendingSeq

Rest ==
  /\ Over
  /\ ~(MayRequest /\ IF pendingSeq = "IDLE" THEN ~PausedFor(pause', Level.PidScan)
                                            ELSE pause'.ticks = 0)
  /\ scan' = ScanAfter
  /\ IF Expires \/ seqState = "IDLE" THEN NoStep ELSE UNCHANGED <<seqState, retries, timeout>>
  /\ UNCHANGED pendingSeq

Tick ==
  /\ ReceiverPolled
  /\ pause' = [pause EXCEPT !.ticks = Dec(@)]
  /\ toolQuiet' = Dec(toolQuiet)
  /\ respAddr' = IF Expires THEN NoAddr ELSE respAddr
  /\ rxOutlived' = ((rxOutlived \/ Expires) /\ rx'.state # "IDLE")
  /\ (AwaitAnswer \/ RetryStep \/ StartQueued \/ ScanOn \/ Rest)

-----------------------------------------------------------------------------
(***************************************************************************)
(* What others do: the operator, the external tool, the ECUs.              *)
(***************************************************************************)
\* start_sequence(): refused while one is queued.
StartSequence(task) ==
  /\ pendingSeq = "IDLE"
  /\ pendingSeq' = task
  /\ UNCHANGED <<rx, respAddr, seqState, retries, timeout, scan, pause, toolQuiet,
                 rxFrom, rxOutlived>>

\* A request that is not ours: pause_uds().
ToolFrame ==
  /\ pause' = [ticks |-> ToolBackoff, level |-> Level.Custom]
  /\ toolQuiet' = ToolBackoff
  /\ UNCHANGED <<rx, respAddr, transaction, rxFrom, rxOutlived>>

\* Seeded fault: the address of the ECU in mid-answer is not looked at.
FromExpected_AnyEcu(e) == FixedEcu \in {NoAddr, e}

\* The tests of handle_incoming_uds_can_frame().
FromExpected(e) == respAddr \in {NoAddr, e} /\ FixedEcu \in {NoAddr, e}

\* Complete messages: the answer to a step, or to a PID request.
Messages ==
  [of : Requests, kind : {"positive", "negative", "pending"}, did : {0}]
  \cup [of : {"PID"}, kind : {"positive"}, did : Pids]
  \cup [of : {"PID"}, kind : {"zero"}, did : RetryPids]
  \cup [of : {"PID"}, kind : {"negative", "pending"}, did : {0}]

\* Nothing in flight: the response address is not pinned.
Unasked ==
  /\ seqState = "IDLE" /\ scan.pending = 0
  /\ respAddr' = NoAddr
  /\ UNCHANGED <<transaction, pause>>

\* ResponsePending of the step in flight.
ExtendStep(e, m) ==
  /\ m.of = seqState /\ m.kind = "pending"
  /\ timeout' = StepTimeout
  /\ respAddr' = e
  /\ UNCHANGED <<seqState, retries, pendingSeq, scan, pause>>

\* Seeded fault: the request is over but its timeout runs on.
FinishStep_TimeoutKept(m) ==
  /\ m.of = seqState /\ m.kind # "pending"
  /\ respAddr' = NoAddr
  /\ scan' = scan
  /\ seqState' = "IDLE" /\ retries' = 0 /\ UNCHANGED timeout
  /\ pause' = IF seqState = "RESET_SEND" THEN [ticks |-> PostReset, level |-> Level.Sequence]
              ELSE pause
  /\ UNCHANGED pendingSeq

\* The step is answered, positively or not; on_uds_sequence_step() sends the
\* reset after the session control, and pauses after the reset.
FinishStep(m) ==
  /\ m.of = seqState /\ m.kind # "pending"
  /\ respAddr' = NoAddr
  /\ scan' = scan
  /\ IF seqState = "RESET_DIAG" /\ StepAccepted(pause) THEN SendStep("RESET_SEND") ELSE NoStep
  /\ pause' = IF seqState = "RESET_SEND" THEN [ticks |-> PostReset, level |-> Level.Sequence]
              ELSE pause
  /\ UNCHANGED pendingSeq

\* Does the message finish the PID request in flight?
FinishesPid(m) == m.of = "PID" /\ (m.kind = "negative" \/ m.did = scan.pending)

\* on_uds_pid_scan_response()
FinishPid(m) ==
  /\ seqState = "IDLE" /\ scan.pending # 0 /\ FinishesPid(m)
  /\ respAddr' = NoAddr
  /\ scan' = IF m.kind = "negative" THEN NextPid(scan) ELSE PidAnswered(scan, m)
  /\ timeout' = 0
  /\ UNCHANGED <<seqState, retries, pendingSeq, pause>>

\* A message that ends no request; its sender stays pinned.
Stray(e, m) ==
  /\ IF seqState # "IDLE" THEN m.of # seqState ELSE scan.pending # 0 /\ ~FinishesPid(m)
  /\ respAddr' = e
  /\ UNCHANGED <<transaction, pause>>

\* on_uds_receive()
Receive(e, m) == Unasked \/ ExtendStep(e, m) \/ FinishStep(m) \/ FinishPid(m) \/ Stray(e, m)

\* The receiver takes a frame of e.
Received(e, next, from) ==
  /\ FromExpected(e)
  /\ rx' = next
  /\ rxFrom' = IF next.state = "IDLE" THEN {} ELSE from
  /\ UNCHANGED toolQuiet

\* A frame that completes no message only pins its sender.
NoMessage(e) == respAddr' = e /\ UNCHANGED <<transaction, pause>>

SingleFrame(e, m) ==
  /\ Received(e, RxIdle, {})
  /\ rxOutlived' = FALSE
  /\ Receive(e, m)

FirstFrame(e, frames) ==
  /\ Received(e, AfterFirstFrame(frames), {e})
  /\ rxOutlived' = FALSE
  /\ NoMessage(e)

\* A consecutive frame with nothing to continue is ignored.
ConsecutiveFrame(e, sn) ==
  /\ ~Completes(rx, sn)
  /\ Received(e, AfterConsecutiveFrame(rx, sn), rxFrom \cup {e})
  /\ rxOutlived' = (rxOutlived /\ rx'.state # "IDLE")
  /\ NoMessage(e)

LastFrame(e, sn, m) ==
  /\ Completes(rx, sn)
  /\ Received(e, RxIdle, {})
  /\ rxOutlived' = FALSE
  /\ Receive(e, m)

\* A single frame of no valid length ends a reception; flow control is ignored.
EmptyFrame(e) ==
  /\ \/ Received(e, RxIdle, {}) /\ rxOutlived' = FALSE
     \/ Received(e, rx, rxFrom) /\ UNCHANGED rxOutlived
  /\ NoMessage(e)

Frame ==
  \E e \in Ecus :
    \/ EmptyFrame(e)
    \/ \E frames \in 1..(MaxFrames + 1) : FirstFrame(e, frames)
    \/ \E sn \in 0..(SnModulus - 1) : ConsecutiveFrame(e, sn)
    \/ \E m \in Messages :
         \/ SingleFrame(e, m)
         \/ \E sn \in 0..(SnModulus - 1) : LastFrame(e, sn, m)

Next == Poll \/ Tick \/ ToolFrame \/ (\E task \in Tasks : StartSequence(task)) \/ Frame

Spec == Init /\ [][Next]_vars

\* transmit_can() is called all the time.
FairSpec == Spec /\ WF_vars(Tick)

-----------------------------------------------------------------------------
(***************************************************************************)
(* Properties.                                                             *)
(***************************************************************************)
\* A scan position lies within its list.
ScanOK(sc) ==
  /\ sc \in [list : {"boot", "steady"}, index : Nat, next : Pids \cup {0},
            pending : Pids \cup {0}, retries : 0..(MaxPidRetries - 1)]
  /\ sc.index < Len(PidList(sc.list))

\* Types, and the position of the scan.
TypeOK ==
  /\ rx \in RxState
  /\ respAddr \in Ecus \cup {NoAddr}
  /\ seqState \in Requests \cup {"IDLE"}
  /\ retries \in 0..MaxRetries
  /\ timeout \in Nat
  /\ pendingSeq \in Tasks \cup {"IDLE"}
  /\ ScanOK(scan)
  /\ pause \in [ticks : Nat, level : 0..2]
  /\ toolQuiet \in Nat
  /\ rxFrom \subseteq Ecus
  /\ rxOutlived \in BOOLEAN

\* Nothing waits for ever: a reception and a step in flight always have a
\* running timer, else every later request would be blocked (lines 46-55 of
\* UdsCanBattery.cpp).
EveryWaitHasATimer ==
  /\ rx.state = "WAIT_DATA" => rx.timer > 0 /\ rx.left > 0
  /\ seqState # "IDLE" => timeout > 0

\* A sequence step and a PID request are never both in flight, and a timeout
\* runs only for one of them: the answer of one is not taken for the other's.
OneTransaction ==
  /\ ~(seqState # "IDLE" /\ scan.pending # 0)
  /\ timeout > 0 => seqState # "IDLE" \/ scan.pending # 0

\* The frames of a reception come from one ECU, although the frames of
\* several interleave on the bus; only a reception that has outlived the
\* request it answers may be continued by another ECU.
ReceptionIsFromOneEcu == rxOutlived \/ Cardinality(rxFrom) <= 1

\* A ResponsePending extends the step in flight; a retry forgets the sender.
Extended ==
  seqState # "IDLE" /\ seqState' = seqState /\ timeout' > timeout /\ respAddr' # NoAddr

\* A request goes out.
Sends == \/ timeout' > timeout /\ ~Extended
         \/ seqState' \notin {seqState, "IDLE"}

\* While an external tool is at work nothing is sent, not even a retry or the
\* next step of a sequence.  The pause after a BMS reset replaces that of the
\* tool, and lets the PID scan through.
ToolIsLeftAlone ==
  [][Sends => toolQuiet' = 0 \/ (scan'.pending # 0 /\ pause'.level = Level.Sequence)]_vars

\* A queued sequence that leaves the queue is started, unless a PID waits
\* for its next try: then it is lost.
QueuedSequenceStarts ==
  [][pendingSeq # "IDLE" /\ pendingSeq' = "IDLE" =>
       seqState' = pendingSeq \/ scan'.pending # 0]_vars

\* The operator asks for a sequence.
Asked == pendingSeq = "IDLE" /\ pendingSeq' # "IDLE"

\* Unless the ECU asks for more time, or the operator for more sequences,
\* again and again, every sequence ends, whatever else is on the bus and
\* whatever is lost.
SequenceEnds == <>[][~Extended /\ ~Asked]_vars => []<>(seqState = "IDLE")

\* When nobody else uses the bus any more, and no ECU answers, the queue is
\* served and every PID of the list is asked for again and again.
QuietBusWorksOn ==
  <>[][Tick \/ Poll]_vars =>
    /\ []<>(pendingSeq = "IDLE")
    /\ \A i \in 1..Len(SteadyList) : []<>(scan.list = "steady" => scan.pending = SteadyList[i])
    /\ \A i \in 1..Len(BootList) : []<>(scan.list = "boot" => scan.pending = BootList[i])

=============================================================================
