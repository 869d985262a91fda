------------------------- MODULE UdsSequencer_proofs -------------------------
(***************************************************************************)
(* Proofs about UdsSequencer for all timeouts, lists, retry budgets and    *)
(* sets of ECUs: the types, that no wait is without a timer, that requests *)
(* never overlap, that receptions are not mixed, that an external tool is  *)
(* left alone, and that a sequence ends within the tries of its steps.     *)
(***************************************************************************)
EXTENDS UdsSequencer, FiniteSetTheorems, TLAPS

-----------------------------------------------------------------------------
(***************************************************************************)
(* The constants and the operators.                                        *)
(***************************************************************************)
LEMMA Constants ==
  /\ CrTimeout \in Nat \ {0} /\ SnModulus \in Nat \ {0} /\ MaxFrames \in Nat
  /\ PidTimeout \in Nat \ {0} /\ StepTimeout \in Nat \ {0}
  /\ MaxPidRetries \in Nat \ {0} /\ MaxRetries \in Nat
  /\ ToolBackoff \in Nat \ {0} /\ PostReset \in Nat \ {0} /\ ToolBackoff <= PostReset
  /\ NoAddr \notin Ecus
  BY IsoTpAssumption, UdsAssumption

LEMMA IdleType == RxIdle \in RxState /\ RxIdle.state = "IDLE"
<1>1. 0 \in 0..MaxFrames /\ 0 \in 0..(SnModulus - 1) /\ 0 \in 0..CrTimeout
  BY Constants
<1> QED
  BY <1>1, Zenon DEF RxIdle, RxState

LEMMA Levels == Level.Sequence = 0 /\ Level.PidScan = 1 /\ Level.Custom = 2
  BY DEF Level

LEMMA TaskNames == Tasks \subseteq Requests /\ "IDLE" \notin Requests /\ "IDLE" \notin Tasks
  BY UdsAssumption DEF Requests

\* PIDs are not 0, and the lists hold PIDs only.
LEMMA Lists ==
  /\ 0 \notin Pids
  /\ \A l \in {"boot", "steady"} :
       /\ Len(PidList(l)) \in Nat \ {0}
       /\ \A i \in 1..Len(PidList(l)) : PidList(l)[i] \in Pids
<1>1. BootList \in Seq(Nat \ {0}) /\ Len(BootList) > 0 /\ SteadyList \in Seq(Nat \ {0}) /\ Len(SteadyList) > 0
  BY UdsAssumption
<1>2. /\ \A i \in 1..Len(BootList) : BootList[i] \in Nat \ {0}
      /\ \A i \in 1..Len(SteadyList) : SteadyList[i] \in Nat \ {0}
      /\ DOMAIN BootList = 1..Len(BootList)
      /\ DOMAIN SteadyList = 1..Len(SteadyList)
      /\ Len(BootList) \in Nat /\ Len(SteadyList) \in Nat
  BY <1>1
<1>3. 0 \notin Pids
  BY <1>2 DEF Pids
<1>4. /\ \A i \in 1..Len(BootList) : BootList[i] \in Pids
      /\ \A i \in 1..Len(SteadyList) : SteadyList[i] \in Pids
  BY <1>2 DEF Pids
<1> QED
  BY <1>1, <1>2, <1>3, <1>4 DEF PidList

\* Each step of the scan keeps its position within the list.
LEMMA AtOK ==
  ASSUME NEW l \in {"boot", "steady"}, NEW i \in Nat, i < Len(PidList(l)), NEW p \in Pids \cup {0}
  PROVE  ScanOK(At(l, i, p)) /\ At(l, i, p).pending = 0
<1>1. 0 \in 0..(MaxPidRetries - 1)
  BY Constants
<1>2. At(l, i, p) \in [list : {"boot", "steady"}, index : Nat, next : Pids \cup {0},
                       pending : Pids \cup {0}, retries : 0..(MaxPidRetries - 1)]
  BY <1>1, Zenon DEF At
<1>3. At(l, i, p).list = l /\ At(l, i, p).index = i /\ At(l, i, p).pending = 0
  BY DEF At
<1> QED
  BY <1>2, <1>3 DEF ScanOK

LEMMA ScanFields ==
  ASSUME NEW sc, ScanOK(sc)
  PROVE  /\ sc.list \in {"boot", "steady"}
         /\ sc.index \in Nat
         /\ sc.index < Len(PidList(sc.list))
         /\ sc.retries \in 0..(MaxPidRetries - 1)
  BY DEF ScanOK

LEMMA NextPidOK == ASSUME NEW sc, ScanOK(sc) PROVE ScanOK(NextPid(sc)) /\ NextPid(sc).pending = 0
<1> DEFINE i == IF sc.index + 1 >= Len(PidList(sc.list)) THEN 0 ELSE sc.index + 1
<1>1. i \in Nat /\ i < Len(PidList(sc.list))
  BY ScanFields, Lists
<1>2. NextPid(sc) = At(sc.list, i, 0)
  BY DEF NextPid
<1> HIDE DEF i
<1> QED
  BY <1>1, <1>2, ScanFields, AtOK

LEMMA PidTimedOutOK == ASSUME NEW sc, ScanOK(sc) PROVE ScanOK(PidTimedOut(sc))
<1>1. CASE sc.retries + 1 < MaxPidRetries
  <2>1. sc.retries + 1 \in 0..(MaxPidRetries - 1)
    BY <1>1, ScanFields, Constants
  <2>2. PidTimedOut(sc) = [sc EXCEPT !.retries = sc.retries + 1]
    BY <1>1 DEF PidTimedOut
  <2> QED
    BY <2>1, <2>2 DEF ScanOK
<1>2. CASE ~(sc.retries + 1 < MaxPidRetries)
  BY <1>2, NextPidOK DEF PidTimedOut
<1> QED
  BY <1>1, <1>2

LEMMA RequestPidOK ==
  ASSUME NEW sc, ScanOK(sc)
  PROVE  ScanOK(RequestPid(sc)) /\ RequestPid(sc).pending # 0
<1>1. PidList(sc.list)[sc.index + 1] \in Pids
  BY Lists DEF ScanOK
<1> QED
  BY <1>1, Lists DEF RequestPid, ScanOK

LEMMA PidAnsweredOK ==
  ASSUME NEW sc, ScanOK(sc), NEW m \in Messages, m.of = "PID"
  PROVE  ScanOK(PidAnswered(sc, m)) /\ PidAnswered(sc, m).pending = 0
<1>1. m.kind = "zero" => m.did \in Pids
  BY UdsAssumption DEF Messages, Requests
<1>2. CASE m.kind = "zero"
  BY <1>1, <1>2, ScanFields, AtOK DEF PidAnswered
<1>3. CASE m.kind # "zero" /\ m.did = BootList[Len(BootList)]
  <2>1. SteadyList[1] \in Pids /\ 0 < Len(PidList("steady"))
    BY Lists DEF PidList
  <2> QED
    BY <1>3, <2>1, AtOK DEF PidAnswered
<1>4. CASE m.kind # "zero" /\ m.did # BootList[Len(BootList)]
  BY <1>4, NextPidOK DEF PidAnswered
<1> QED
  BY <1>2, <1>3, <1>4

-----------------------------------------------------------------------------
(***************************************************************************)
(* The inductive invariant.  A reception within the life of its request    *)
(* comes from the ECU whose address is pinned; the pause in force covers   *)
(* the time the external tool must be left alone.                          *)
(***************************************************************************)
RxLive == rx.state = "WAIT_DATA" => rx.timer > 0 /\ rx.left > 0

PinnedSender ==
  /\ rx.state = "IDLE" => rxFrom = {} /\ ~rxOutlived
  /\ rx.state = "WAIT_DATA" /\ ~rxOutlived => respAddr # NoAddr /\ rxFrom = {respAddr}

QuietCovered ==
  toolQuiet > 0 => /\ pause.ticks >= toolQuiet
                   /\ pause.level \in {Level.Sequence, Level.Custom}

ReceiverInv ==
  /\ rx \in RxState
  /\ respAddr \in Ecus \cup {NoAddr}
  /\ rxFrom \subseteq Ecus
  /\ rxOutlived \in BOOLEAN
  /\ RxLive
  /\ PinnedSender

TransactionInv ==
  /\ seqState \in Requests \cup {"IDLE"}
  /\ retries \in 0..MaxRetries
  /\ timeout \in Nat
  /\ pendingSeq \in Tasks \cup {"IDLE"}
  /\ ScanOK(scan)
  /\ seqState # "IDLE" => timeout > 0
  /\ OneTransaction

PauseInv ==
  /\ pause \in [ticks : Nat, level : 0..2]
  /\ toolQuiet \in Nat
  /\ QuietCovered

IInv == ReceiverInv /\ TransactionInv /\ PauseInv

LEMMA Initially == Init => IInv
<1> SUFFICES ASSUME Init PROVE IInv
  OBVIOUS
<1>1. ReceiverInv
  <2>1. rx \in RxState /\ rx.state = "IDLE"
    BY IdleType DEF Init
  <2> QED
    BY <2>1 DEF Init, ReceiverInv, RxLive, PinnedSender
<1>2. ScanOK(scan) /\ scan.pending = 0
  BY Lists, AtOK DEF Init
<1>3. TransactionInv
  BY <1>2, Constants DEF Init, TransactionInv, OneTransaction
<1>4. PauseInv
  BY Levels DEF Init, PauseInv, QuietCovered
<1> QED
  BY <1>1, <1>3, <1>4 DEF IInv

-----------------------------------------------------------------------------
(***************************************************************************)
(* The receiver.                                                           *)
(***************************************************************************)
LEMMA IdleReceiver ==
  ASSUME rx' = RxIdle, rxFrom' = {}, rxOutlived' = FALSE, respAddr' \in Ecus \cup {NoAddr}
  PROVE  ReceiverInv'
<1>1. rx' \in RxState /\ rx'.state = "IDLE"
  BY IdleType
<1>2. RxLive' /\ PinnedSender'
  BY <1>1 DEF RxLive, PinnedSender
<1> QED
  BY <1>1, <1>2 DEF ReceiverInv

\* A poll lets the reception go on, with the time that is left, or ends it.
LEMMA PolledReceiver ==
  ASSUME ReceiverInv
  PROVE  /\ PollRx(rx) \in RxState
         /\ PollRx(rx).state = "WAIT_DATA" => /\ PollRx(rx).timer > 0
                                              /\ PollRx(rx).left > 0
                                              /\ rx.state = "WAIT_DATA"
<1>1. rx \in RxState /\ RxLive
  BY DEF ReceiverInv
<1> QED
  BY <1>1, Constants DEF PollRx, RxIdle, RxState, RxLive

LEMMA PollReceiver == ASSUME ReceiverInv, Poll PROVE ReceiverInv'
<1>1. rx' = PollRx(rx) /\ respAddr' = respAddr
  BY DEF Poll, ReceiverPolled
<1>2. rx' \in RxState /\ RxLive'
  BY <1>1, PolledReceiver DEF RxLive
<1>3. rx'.state \in {"IDLE", "WAIT_DATA"}
  BY <1>2 DEF RxState
<1>4. CASE rx'.state = "IDLE"
  <2>1. rxFrom' = {} /\ rxOutlived' = FALSE
    BY <1>4 DEF Poll, ReceiverPolled
  <2> QED
    BY <1>1, <1>2, <1>4, <2>1 DEF ReceiverInv, PinnedSender
<1>5. CASE rx'.state = "WAIT_DATA"
  <2>1. rxFrom' = rxFrom /\ rxOutlived' = rxOutlived
    BY <1>5 DEF Poll, ReceiverPolled, ReceiverInv
  <2> QED
    BY <1>1, <1>2, <1>5, <2>1, PolledReceiver DEF ReceiverInv, PinnedSender
<1> QED
  BY <1>3, <1>4, <1>5

\* A request that times out during the reception forgets its sender.
LEMMA TickReceiver == ASSUME ReceiverInv, Tick PROVE ReceiverInv'
<1>1. /\ rx' = PollRx(rx)
      /\ respAddr' = IF Expires THEN NoAddr ELSE respAddr
      /\ rxFrom' = IF rx'.state = "IDLE" THEN {} ELSE rxFrom
      /\ rxOutlived' = ((rxOutlived \/ Expires) /\ rx'.state # "IDLE")
  BY DEF Tick, ReceiverPolled
<1>2. rx' \in RxState /\ RxLive'
  BY <1>1, PolledReceiver DEF RxLive
<1>3. rx'.state \in {"IDLE", "WAIT_DATA"}
  BY <1>2 DEF RxState
<1>4. respAddr' \in Ecus \cup {NoAddr} /\ rxFrom' \subseteq Ecus /\ rxOutlived' \in BOOLEAN
  BY <1>1 DEF ReceiverInv
<1>5. CASE rx'.state = "IDLE"
  BY <1>1, <1>2, <1>4, <1>5 DEF ReceiverInv, PinnedSender
<1>6. CASE rx'.state = "WAIT_DATA"
  <2>1. rx.state = "WAIT_DATA"
    BY <1>1, <1>6, PolledReceiver
  <2>2. ~rxOutlived' => ~rxOutlived /\ ~Expires
    BY <1>1, <1>6
  <2> QED
    BY <1>1, <1>2, <1>4, <1>6, <2>1, <2>2 DEF ReceiverInv, PinnedSender
<1> QED
  BY <1>3, <1>5, <1>6

LEMMA FrameReceiver ==
  ASSUME ReceiverInv, NEW e \in Ecus, NEW next \in RxState, NEW from \in SUBSET Ecus,
         Received(e, next, from), respAddr' = e,
         next.state = "WAIT_DATA" => next.timer > 0 /\ next.left > 0,
         next.state = "IDLE" => rxOutlived' = FALSE,
         rxOutlived' \in BOOLEAN,
         next.state = "WAIT_DATA" /\ ~rxOutlived' => from = {e}
  PROVE  ReceiverInv'
<1>1. rx' = next /\ rxFrom' = IF next.state = "IDLE" THEN {} ELSE from
  BY DEF Received
<1>2. RxLive'
  BY <1>1 DEF RxLive
<1>3. PinnedSender'
  BY <1>1, Constants DEF PinnedSender
<1> QED
  BY <1>1, <1>2, <1>3 DEF ReceiverInv

LEMMA ReceiveAddr ==
  ASSUME NEW e \in Ecus, NEW m, Receive(e, m)
  PROVE  respAddr' \in Ecus \cup {NoAddr}
  BY DEF Receive, Unasked, ExtendStep, FinishStep, FinishPid, Stray

LEMMA FramesReceiver == ASSUME ReceiverInv, Frame PROVE ReceiverInv'
<1>1. PICK e \in Ecus :
        \/ EmptyFrame(e)
        \/ \E frames \in 1..(MaxFrames + 1) : FirstFrame(e, frames)
        \/ \E sn \in 0..(SnModulus - 1) : ConsecutiveFrame(e, sn)
        \/ \E m \in Messages : SingleFrame(e, m) \/ \E sn \in 0..(SnModulus - 1) : LastFrame(e, sn, m)
  BY DEF Frame
<1>2. RxIdle \in RxState /\ RxIdle.state = "IDLE"
  BY IdleType
<1>3. CASE EmptyFrame(e)
  <2>1. CASE Received(e, RxIdle, {}) /\ rxOutlived' = FALSE
    BY <1>2, <1>3, <2>1, IdleReceiver DEF EmptyFrame, NoMessage, Received
  <2>2. CASE Received(e, rx, rxFrom) /\ UNCHANGED rxOutlived
    <3>1. respAddr' = e /\ respAddr \in {NoAddr, e}
      BY <1>3, <2>2 DEF EmptyFrame, NoMessage, Received, FromExpected
    <3>2. rx.state = "WAIT_DATA" /\ ~rxOutlived => rxFrom = {e}
      BY <3>1 DEF ReceiverInv, PinnedSender
    <3> QED
      BY <2>2, <3>1, <3>2, FrameReceiver DEF ReceiverInv, RxLive, PinnedSender
  <2> QED
    BY <1>3, <2>1, <2>2 DEF EmptyFrame
<1>4. ASSUME NEW frames \in 1..(MaxFrames + 1), FirstFrame(e, frames) PROVE ReceiverInv'
  <2> DEFINE next == AfterFirstFrame(frames)
  <2>1. next \in RxState
    BY <1>2, Constants DEF AfterFirstFrame, RxState
  <2>2. next.state = "WAIT_DATA" => next.timer > 0 /\ next.left > 0
    BY <1>2, Constants DEF AfterFirstFrame
  <2> HIDE DEF next
  <2>3. Received(e, next, {e}) /\ rxOutlived' = FALSE /\ respAddr' = e
    BY <1>4 DEF FirstFrame, NoMessage, next
  <2> QED
    BY <2>1, <2>2, <2>3, FrameReceiver
<1>5. ASSUME NEW sn \in 0..(SnModulus - 1), ConsecutiveFrame(e, sn) PROVE ReceiverInv'
  <2> DEFINE next == AfterConsecutiveFrame(rx, sn)
  <2>1. rx \in RxState /\ RxLive
    BY DEF ReceiverInv
  <2>2. /\ next \in RxState
        /\ next.state = "WAIT_DATA" => next.timer > 0 /\ next.left > 0 /\ rx.state = "WAIT_DATA"
    <3>1. CASE InTurn(rx, sn) /\ rx.left > 1
      <4>1. /\ rx.left - 1 \in 0..MaxFrames /\ rx.left - 1 > 0
            /\ (rx.sn + 1) % SnModulus \in 0..(SnModulus - 1)
            /\ CrTimeout \in 0..CrTimeout /\ CrTimeout > 0
            /\ rx.state = "WAIT_DATA"
        BY <2>1, <3>1, Constants DEF RxState, InTurn
      <4>2. next = [rx EXCEPT !.left = rx.left - 1, !.sn = (rx.sn + 1) % SnModulus, !.timer = CrTimeout]
        BY <3>1 DEF AfterConsecutiveFrame, NextFrame
      <4>3. next = [state |-> rx.state, left |-> rx.left - 1, sn |-> (rx.sn + 1) % SnModulus,
                    timer |-> CrTimeout]
        BY <2>1, <4>2 DEF RxState
      <4> QED
        BY <2>1, <4>1, <4>3 DEF RxState
    <3>2. CASE ~(InTurn(rx, sn) /\ rx.left > 1)
      BY <1>2, <3>2 DEF AfterConsecutiveFrame
    <3> QED
      BY <3>1, <3>2
  <2> HIDE DEF next
  <2>3. /\ Received(e, next, rxFrom \cup {e}) /\ respAddr' = e /\ rx' = next
        /\ rxOutlived' = (rxOutlived /\ rx'.state # "IDLE") /\ respAddr \in {NoAddr, e}
    BY <1>5 DEF ConsecutiveFrame, NoMessage, Received, FromExpected, next
  <2>4. next.state = "WAIT_DATA" /\ ~rxOutlived' => rxFrom \cup {e} = {e}
    BY <2>2, <2>3 DEF ReceiverInv, PinnedSender
  <2>5. rxFrom \cup {e} \in SUBSET Ecus /\ rxOutlived' \in BOOLEAN /\ (next.state = "IDLE" => rxOutlived' = FALSE)
    BY <2>3 DEF ReceiverInv
  <2> QED
    BY <2>2, <2>3, <2>4, <2>5, FrameReceiver
<1>6. ASSUME NEW m \in Messages,
             SingleFrame(e, m) \/ \E sn \in 0..(SnModulus - 1) : LastFrame(e, sn, m)
      PROVE  ReceiverInv'
  <2>1. Received(e, RxIdle, {}) /\ rxOutlived' = FALSE /\ Receive(e, m)
    BY <1>6 DEF SingleFrame, LastFrame
  <2> QED
    BY <1>2, <2>1, ReceiveAddr, IdleReceiver DEF Received
<1> QED
  BY <1>1, <1>3, <1>4, <1>5, <1>6

-----------------------------------------------------------------------------
(***************************************************************************)
(* The transaction.                                                        *)
(***************************************************************************)
LEMMA StepSent ==
  ASSUME NEW step \in Requests, SendStep(step)
  PROVE  seqState' = step /\ seqState' # "IDLE" /\ retries' \in 0..MaxRetries /\ timeout' \in Nat \ {0}
  BY Constants, TaskNames DEF SendStep

LEMMA NothingSent ==
  ASSUME NoStep
  PROVE  seqState' = "IDLE" /\ retries' \in 0..MaxRetries /\ timeout' = 0
  BY Constants DEF NoStep

LEMMA StepOrNothing ==
  ASSUME NEW step \in Requests, ScanOK(scan'), pendingSeq' \in Tasks \cup {"IDLE"},
         \/ SendStep(step) /\ scan'.pending = 0
         \/ NoStep
  PROVE  TransactionInv'
  BY StepSent, NothingSent, Constants DEF TransactionInv, OneTransaction

LEMMA TickTransaction == ASSUME TransactionInv, Tick PROVE TransactionInv'
<1> USE Constants, TaskNames
<1>1. ScanOK(ScanAfter) /\ (seqState # "IDLE" => ScanAfter = scan)
  BY PidTimedOutOK DEF ScanAfter, TransactionInv
<1>2. CASE AwaitAnswer
  BY <1>2 DEF AwaitAnswer, TransactionInv, OneTransaction
<1>3. CASE RetryStep
  BY <1>3 DEF RetryStep, Retries, TransactionInv, OneTransaction
<1>4. CASE StartQueued
  <2>1. pendingSeq \in Requests /\ pendingSeq' = "IDLE" /\ scan' = ScanAfter
    BY <1>4 DEF StartQueued, TransactionInv
  <2>2. \/ SendStep(pendingSeq) /\ scan'.pending = 0
        \/ NoStep
    BY <1>4, Zenon DEF StartQueued, StepAccepted
  <2> QED
    BY <1>1, <2>1, <2>2, StepOrNothing
<1>5. CASE ScanOn
  <2>1. ScanOK(scan') /\ scan'.pending # 0
    BY <1>1, <1>5, RequestPidOK DEF ScanOn
  <2> QED
    BY <1>5, <2>1 DEF ScanOn, TransactionInv, OneTransaction
<1>6. CASE Rest
  <2>1. scan' = ScanAfter /\ pendingSeq' = pendingSeq
    BY <1>6 DEF Rest
  <2>2. CASE Expires \/ seqState = "IDLE"
    <3>1. NoStep
      BY <1>6, <2>2, Zenon DEF Rest
    <3> QED
      BY <1>1, <2>1, <3>1, StepOrNothing DEF TransactionInv, Requests
  <2>3. CASE ~(Expires \/ seqState = "IDLE")
    BY <1>1, <1>6, <2>1, <2>3 DEF Rest, TransactionInv, OneTransaction
  <2> QED
    BY <2>2, <2>3
<1> QED
  BY <1>2, <1>3, <1>4, <1>5, <1>6 DEF Tick

LEMMA ReceiveTransaction ==
  ASSUME TransactionInv, NEW e \in Ecus, NEW m \in Messages, Receive(e, m)
  PROVE  TransactionInv'
<1> USE Constants, TaskNames
<1>1. CASE Unasked
  BY <1>1 DEF Unasked, transaction, TransactionInv, OneTransaction
<1>2. CASE ExtendStep(e, m)
  <2>1. m.of # "IDLE"
    BY DEF Messages, Requests
  <2> QED
    BY <1>2, <2>1 DEF ExtendStep, TransactionInv, OneTransaction
<1>3. CASE FinishStep(m)
  <2>1. scan' = scan /\ pendingSeq' = pendingSeq /\ "RESET_SEND" \in Requests
    BY <1>3 DEF FinishStep, Requests
  <2>2. \/ SendStep("RESET_SEND") /\ scan'.pending = 0
        \/ NoStep
    BY <1>3, Zenon DEF FinishStep, StepAccepted
  <2> QED
    BY <2>1, <2>2, StepOrNothing DEF TransactionInv
<1>4. CASE FinishPid(m)
  <2>1. m.of = "PID" /\ ScanOK(scan)
    BY <1>4 DEF FinishPid, FinishesPid, TransactionInv
  <2>2. ScanOK(scan')
    BY <1>4, <2>1, NextPidOK, PidAnsweredOK DEF FinishPid
  <2> QED
    BY <1>4, <2>2 DEF FinishPid, TransactionInv, OneTransaction
<1>5. CASE Stray(e, m)
  BY <1>5 DEF Stray, transaction, TransactionInv, OneTransaction
<1> QED
  BY <1>1, <1>2, <1>3, <1>4, <1>5 DEF Receive

LEMMA SameTransaction ==
  ASSUME TransactionInv, UNCHANGED transaction
  PROVE  TransactionInv'
  BY DEF transaction, TransactionInv, OneTransaction

\* A frame completes a message or leaves the transaction and the pause alone.
LEMMA FrameCases ==
  ASSUME Frame
  PROVE  /\ UNCHANGED toolQuiet
         /\ \/ \E e \in Ecus, m \in Messages : Receive(e, m)
            \/ UNCHANGED <<transaction, pause>>
  BY Zenon DEF Frame, EmptyFrame, FirstFrame, ConsecutiveFrame, SingleFrame, LastFrame,
               Received, NoMessage

-----------------------------------------------------------------------------
(***************************************************************************)
(* The pause.                                                              *)
(***************************************************************************)
LEMMA TickPause == ASSUME PauseInv, Tick PROVE PauseInv'
<1>1. pause' = [pause EXCEPT !.ticks = Dec(pause.ticks)] /\ toolQuiet' = Dec(toolQuiet)
  BY DEF Tick
<1>2. pause.ticks \in Nat /\ pause.level \in 0..2 /\ toolQuiet \in Nat
  BY DEF PauseInv
<1>3. pause'.ticks = Dec(pause.ticks) /\ pause'.level = pause.level
  BY <1>1 DEF PauseInv
<1>4. Dec(pause.ticks) \in Nat /\ Dec(toolQuiet) \in Nat
  BY <1>2 DEF Dec
<1>5. pause' \in [ticks : Nat, level : 0..2]
  BY <1>1, <1>4 DEF PauseInv
<1>6. QuietCovered'
  BY <1>1, <1>2, <1>3 DEF PauseInv, QuietCovered, Dec
<1> QED
  BY <1>1, <1>4, <1>5, <1>6 DEF PauseInv

\* The time of the tool never exceeds its back-off.
QuietBound == toolQuiet <= ToolBackoff

LEMMA ReceivePause ==
  ASSUME PauseInv, QuietBound, NEW e, NEW m, Receive(e, m), UNCHANGED toolQuiet
  PROVE  PauseInv'
<1>1. CASE pause' = pause
  BY <1>1 DEF PauseInv, QuietCovered
<1>2. CASE pause' = [ticks |-> PostReset, level |-> Level.Sequence]
  BY <1>2, Constants, Levels DEF PauseInv, QuietCovered, QuietBound
<1> QED
  BY <1>1, <1>2, Zenon DEF Receive, Unasked, ExtendStep, FinishStep, FinishPid, Stray

-----------------------------------------------------------------------------
(***************************************************************************)
(* Every step.                                                             *)
(***************************************************************************)
Inv == IInv /\ QuietBound

LEMMA Step == ASSUME Inv, [Next]_vars PROVE Inv'
<1> USE DEF Inv, IInv
<1>1. CASE Poll
  <2>1. UNCHANGED <<transaction, pause, toolQuiet>>
    BY <1>1 DEF Poll
  <2> QED
    BY <1>1, <2>1, PollReceiver, SameTransaction DEF PauseInv, QuietCovered, QuietBound
<1>2. CASE Tick
  <2>1. QuietBound'
    BY <1>2, Constants DEF Tick, Dec, PauseInv, QuietBound
  <2> QED
    BY <1>2, <2>1, TickReceiver, TickTransaction, TickPause
<1>3. CASE ToolFrame
  <2>1. ReceiverInv' /\ TransactionInv'
    BY <1>3, SameTransaction DEF ToolFrame, ReceiverInv, RxLive, PinnedSender
  <2>2. PauseInv' /\ QuietBound'
    BY <1>3, Constants, Levels DEF ToolFrame, PauseInv, QuietCovered, QuietBound
  <2> QED
    BY <2>1, <2>2
<1>4. ASSUME NEW task \in Tasks, StartSequence(task) PROVE Inv'
  <2>1. ReceiverInv' /\ PauseInv' /\ QuietBound'
    BY <1>4 DEF StartSequence, ReceiverInv, RxLive, PinnedSender, PauseInv, QuietCovered, QuietBound
  <2>2. TransactionInv'
    BY <1>4 DEF StartSequence, TransactionInv, OneTransaction
  <2> QED
    BY <2>1, <2>2
<1>5. CASE Frame
  <2>1. ReceiverInv' /\ QuietBound'
    BY <1>5, FramesReceiver, FrameCases DEF QuietBound
  <2>2. CASE UNCHANGED <<transaction, pause>>
    BY <1>5, <2>1, <2>2, SameTransaction, FrameCases DEF PauseInv, QuietCovered
  <2>3. ASSUME NEW e \in Ecus, NEW m \in Messages, Receive(e, m) PROVE Inv'
    BY <1>5, <2>1, <2>3, ReceiveTransaction, ReceivePause, FrameCases
  <2> QED
    BY <1>5, <2>2, <2>3, FrameCases
<1>6. CASE UNCHANGED vars
  BY <1>6, SameTransaction DEF vars, ReceiverInv, RxLive, PinnedSender, PauseInv, QuietCovered, QuietBound
<1> QED
  BY <1>1, <1>2, <1>3, <1>4, <1>5, <1>6 DEF Next

LEMMA Invariance == Spec => []Inv
<1>1. Init => Inv
  BY Initially, Constants DEF Init, Inv, QuietBound
<1> QED
  BY <1>1, Step, PTL DEF Spec

-----------------------------------------------------------------------------
(***************************************************************************)
(* Every variable of the diagnostics keeps its type, and the scan stays    *)
(* within its list.                                                        *)
(***************************************************************************)
THEOREM TypeCorrect == Spec => []TypeOK
<1>1. Inv => TypeOK
  BY Zenon DEF Inv, IInv, ReceiverInv, TransactionInv, PauseInv, TypeOK
<1> QED
  BY <1>1, Invariance, PTL

(***************************************************************************)
(* No reception and no step in flight is ever without a running timer.     *)
(***************************************************************************)
THEOREM WaitsAreTimed == Spec => []EveryWaitHasATimer
<1>1. Inv => EveryWaitHasATimer
  BY DEF Inv, IInv, ReceiverInv, RxLive, TransactionInv, EveryWaitHasATimer
<1> QED
  BY <1>1, Invariance, PTL

(***************************************************************************)
(* A sequence step and a PID request are never both in flight, and a       *)
(* timeout belongs to one of them.                                         *)
(***************************************************************************)
THEOREM RequestsDoNotOverlap == Spec => []OneTransaction
<1>1. Inv => OneTransaction
  BY DEF Inv, IInv, TransactionInv
<1> QED
  BY <1>1, Invariance, PTL

(***************************************************************************)
(* Whatever frames interleave, a reception within the life of its request  *)
(* is put together from the frames of one ECU.                             *)
(***************************************************************************)
THEOREM NoMixedReception == Spec => []ReceptionIsFromOneEcu
<1>1. ASSUME Inv PROVE ReceptionIsFromOneEcu
  <2>1. rx.state \in {"IDLE", "WAIT_DATA"}
    BY <1>1 DEF Inv, IInv, ReceiverInv, RxState
  <2>2. rxOutlived \/ rxFrom = {} \/ rxFrom = {respAddr}
    BY <1>1, <2>1 DEF Inv, IInv, ReceiverInv, PinnedSender
  <2>3. Cardinality({}) = 0 /\ Cardinality({respAddr}) = 1
    BY FS_EmptySet, FS_Singleton
  <2> QED
    BY <2>2, <2>3 DEF ReceptionIsFromOneEcu
<1> QED
  BY <1>1, Invariance, PTL

(***************************************************************************)
(* After a frame of an external tool nothing is sent for the whole back-   *)
(* off, save by the PID scan in the pause that follows a BMS reset.        *)
(***************************************************************************)
THEOREM ToolUndisturbed == Spec => ToolIsLeftAlone
<1> DEFINE Quiet == Sends => toolQuiet' = 0 \/ (scan'.pending # 0 /\ pause'.level = Level.Sequence)
<1>1. ASSUME Inv, Inv', Next PROVE Quiet
  <2> USE Constants, TaskNames
  <2>1. toolQuiet' \in Nat /\ timeout \in Nat
    BY <1>1 DEF Inv, IInv, PauseInv, TransactionInv
  <2>2. toolQuiet' # 0 => /\ PausedFor(pause', Level.Sequence)
                          /\ pause'.level # Level.Sequence => PausedFor(pause', Level.PidScan)
    BY <1>1, <2>1, Levels DEF Inv, IInv, PauseInv, QuietCovered, PausedFor
  <2>3. CASE UNCHANGED <<seqState, timeout>>
    BY <2>1, <2>3 DEF Sends
  <2>4. CASE Tick
    <3>1. CASE AwaitAnswer
      BY <2>1, <3>1 DEF AwaitAnswer, Sends
    <3>2. CASE RetryStep
      BY <2>2, <3>2 DEF RetryStep, Retries
    <3>3. CASE StartQueued
      <4>1. CASE toolQuiet' # 0
        <5>1. NoStep
          BY <2>2, <3>3, <4>1, Zenon DEF StartQueued, StepAccepted
        <5> QED
          BY <2>1, <5>1 DEF NoStep, Sends
      <4> QED
        BY <4>1
    <3>4. CASE ScanOn
      <4>1. scan'.pending # 0
        BY <1>1, <3>4 DEF ScanOn, Inv, IInv, TransactionInv, OneTransaction
      <4> QED
        BY <2>2, <3>4, <4>1 DEF ScanOn
    <3>5. CASE Rest
      BY <2>1, <3>5 DEF Rest, NoStep, Sends
    <3> QED
      BY <2>4, <3>1, <3>2, <3>3, <3>4, <3>5 DEF Tick
  <2>5. ASSUME NEW e \in Ecus, NEW m \in Messages, Receive(e, m), UNCHANGED toolQuiet
        PROVE Quiet
    <3>1. CASE Unasked \/ Stray(e, m)
      BY <2>3, <3>1 DEF Unasked, Stray, transaction
    <3>2. CASE ExtendStep(e, m)
      <4>1. m.of # "IDLE" /\ e # NoAddr
        BY DEF Messages, Requests
      <4> QED
        BY <3>2, <4>1 DEF ExtendStep, Sends, Extended
    <3>3. CASE FinishStep(m)
      <4>1. CASE NoStep
        BY <2>1, <4>1 DEF NoStep, Sends
      <4>2. CASE ~NoStep
        <5>1. seqState = "RESET_DIAG" /\ ~PausedFor(pause, Level.Sequence) /\ pause' = pause
          BY <3>3, <4>2 DEF FinishStep, StepAccepted
        <5> QED
          BY <2>2, <5>1
      <4> QED
        BY <4>1, <4>2
    <3>4. CASE FinishPid(m)
      BY <2>1, <3>4 DEF FinishPid, Sends
    <3> QED
      BY <2>5, <3>1, <3>2, <3>3, <3>4 DEF Receive
  <2>6. CASE Frame
    <3>1. CASE UNCHANGED <<transaction, pause>>
      BY <2>3, <3>1 DEF transaction
    <3> QED
      BY <2>5, <2>6, <3>1, FrameCases
  <2>7. CASE Poll \/ ToolFrame \/ \E task \in Tasks : StartSequence(task)
    BY <2>3, <2>7 DEF Poll, ToolFrame, StartSequence, transaction
  <2> QED
    BY <1>1, <2>4, <2>6, <2>7 DEF Next
<1>2. ASSUME Inv, Inv', [Next]_vars PROVE [Quiet]_vars
  BY <1>1, <1>2
<1> QED
  BY <1>2, Invariance, PTL DEF Spec, ToolIsLeftAlone

(***************************************************************************)
(* A sequence leaves the queue only to be started, or while a PID waits    *)
(* for its next try, which loses it.                                       *)
(***************************************************************************)
THEOREM QueuedSequencesStart == Spec => QueuedSequenceStarts
<1> DEFINE Starts == pendingSeq # "IDLE" /\ pendingSeq' = "IDLE" =>
                       seqState' = pendingSeq \/ scan'.pending # 0
<1>1. ASSUME Next PROVE Starts
  <2>1. CASE pendingSeq' = pendingSeq
    BY <2>1
  <2>2. CASE Tick
    <3>1. CASE StartQueued
      <4>1. ~PausedFor(pause', Level.Sequence)
        BY <3>1, Levels DEF StartQueued, PausedFor
      <4> QED
        BY <3>1, <4>1 DEF StartQueued, StepAccepted, SendStep
    <3> QED
      BY <2>1, <2>2, <3>1 DEF Tick, AwaitAnswer, RetryStep, ScanOn, Rest
  <2>3. CASE Frame
    <3>1. ASSUME NEW e \in Ecus, NEW m \in Messages, Receive(e, m) PROVE pendingSeq' = pendingSeq
      BY <3>1 DEF Receive, Unasked, ExtendStep, FinishStep, FinishPid, Stray, transaction
    <3> QED
      BY <2>1, <2>3, <3>1, FrameCases DEF transaction
  <2>4. CASE Poll \/ ToolFrame \/ \E task \in Tasks : StartSequence(task)
    BY <2>1, <2>4 DEF Poll, ToolFrame, StartSequence, transaction
  <2> QED
    BY <1>1, <2>2, <2>3, <2>4 DEF Next
<1>2. ASSUME [Next]_vars PROVE [Starts]_vars
  BY <1>1, <1>2
<1> QED
  BY <1>2, PTL DEF Spec, QueuedSequenceStarts

-----------------------------------------------------------------------------
(***************************************************************************)
(* Bounded response.  A sequence in flight is a bounded number of ticks    *)
(* away from its end: those of the tries its step has left, and for a BMS  *)
(* reset those of the second step.  With the fairness of the ticks         *)
(* SequenceEnds follows.                                                   *)
(***************************************************************************)
\* Ticks of the tries a step has left after n retries and the try in flight.
TriesLeft(n) == (MaxRetries - n) * StepTimeout

TicksToEnd ==
  CASE seqState = "IDLE" -> 0
    [] seqState = "RESET_DIAG" -> TriesLeft(retries) + timeout + TriesLeft(0) + StepTimeout
    [] OTHER -> TriesLeft(retries) + timeout

(***************************************************************************)
(* Unless its ECU asks for more time, or the next sequence takes its       *)
(* place, no frame, tool or pause puts off the end of a sequence, and      *)
(* every tick brings it closer.                                            *)
(***************************************************************************)
SequenceComesCloser ==
  [][seqState # "IDLE" /\ ~Extended /\ ~(pendingSeq # "IDLE" /\ pendingSeq' = "IDLE") =>
       /\ TicksToEnd' \in Nat /\ TicksToEnd' <= TicksToEnd
       /\ Tick => TicksToEnd' < TicksToEnd]_vars

\* A retry takes as many ticks from those left as it gives to the try in flight.
LEMMA RetrySpends ==
  ASSUME NEW n \in 0..MaxRetries
  PROVE  /\ TriesLeft(n) \in Nat
         /\ n < MaxRetries => TriesLeft(n + 1) \in Nat /\ TriesLeft(n + 1) + StepTimeout = TriesLeft(n)
<1>1. MaxRetries - n \in Nat
  BY Constants
<1>2. \A m, t \in Nat : m * t \in Nat /\ (m > 0 => (m - 1) * t \in Nat /\ (m - 1) * t + t = m * t)
  OBVIOUS
<1>3. TriesLeft(n) \in Nat
  BY <1>1, <1>2, Constants DEF TriesLeft
<1>4. ASSUME n < MaxRetries
      PROVE  TriesLeft(n + 1) \in Nat /\ TriesLeft(n + 1) + StepTimeout = TriesLeft(n)
  <2>1. MaxRetries - (n + 1) = (MaxRetries - n) - 1 /\ MaxRetries - n > 0
    BY <1>4, Constants
  <2> QED
    BY <1>1, <1>2, <2>1, Constants DEF TriesLeft
<1> QED
  BY <1>3, <1>4

\* What the measure is in each state, in numbers.
LEMMA TicksType ==
  ASSUME Inv
  PROVE  /\ timeout \in Nat /\ (seqState # "IDLE" => timeout > 0)
         /\ TriesLeft(retries) \in Nat /\ TriesLeft(0) \in Nat /\ StepTimeout \in Nat
         /\ TicksToEnd \in Nat
         /\ seqState # "IDLE" => TicksToEnd > 0
         /\ seqState = "RESET_DIAG" => TicksToEnd >= TriesLeft(0) + StepTimeout
<1>1. /\ timeout \in Nat /\ retries \in 0..MaxRetries /\ 0 \in 0..MaxRetries
      /\ seqState # "IDLE" => timeout > 0
  BY Constants DEF Inv, IInv, TransactionInv
<1>2. TriesLeft(retries) \in Nat /\ TriesLeft(0) \in Nat /\ StepTimeout \in Nat
  BY <1>1, RetrySpends, Constants
<1>3. TicksToEnd \in Nat
  BY <1>1, <1>2 DEF TicksToEnd
<1>4. seqState # "IDLE" => TicksToEnd > 0
  BY <1>1, <1>2 DEF TicksToEnd
<1>5. seqState = "RESET_DIAG" => TicksToEnd >= TriesLeft(0) + StepTimeout
  BY <1>1, <1>2 DEF TicksToEnd
<1> QED
  BY <1>1, <1>2, <1>3, <1>4, <1>5

(***************************************************************************)
(* While the step in flight stays the same, the measure moves with the     *)
(* tries and the ticks it has left.                                        *)
(***************************************************************************)
LEMMA SameStep ==
  ASSUME Inv, seqState # "IDLE", seqState' = seqState, timeout' \in Nat,
         TriesLeft(retries') \in Nat
  PROVE  /\ TriesLeft(retries') + timeout' <= TriesLeft(retries) + timeout =>
              TicksToEnd' \in Nat /\ TicksToEnd' <= TicksToEnd
         /\ TriesLeft(retries') + timeout' < TriesLeft(retries) + timeout =>
              TicksToEnd' \in Nat /\ TicksToEnd' < TicksToEnd
<1> DEFINE now == TriesLeft(retries) + timeout
           next == TriesLeft(retries') + timeout'
           rest == TriesLeft(0) + StepTimeout
<1>1. now \in Nat /\ next \in Nat /\ rest \in Nat
  BY TicksType
<1>2. CASE seqState = "RESET_DIAG"
  <2>1. TicksToEnd = now + rest
    BY <1>2, TicksType DEF TicksToEnd
  <2>2. TicksToEnd' = TriesLeft(retries') + timeout' + TriesLeft(0) + StepTimeout
    BY <1>2 DEF TicksToEnd, TriesLeft
  <2>3. TicksToEnd' = next + rest
    BY <2>2, TicksType
  <2> HIDE DEF now, next, rest
  <2>4. \A a, b, c \in Nat : /\ a <= b => a + c \in Nat /\ a + c <= b + c
                             /\ a < b => a + c \in Nat /\ a + c < b + c
    OBVIOUS
  <2>5. /\ next <= now => TicksToEnd' \in Nat /\ TicksToEnd' <= TicksToEnd
        /\ next < now => TicksToEnd' \in Nat /\ TicksToEnd' < TicksToEnd
    BY <1>1, <2>1, <2>3, <2>4
  <2> QED
    BY <2>5 DEF now, next
<1>3. CASE seqState # "RESET_DIAG"
  <2>1. TicksToEnd = now
    BY <1>3 DEF TicksToEnd
  <2>2. TicksToEnd' = next
    BY <1>3 DEF TicksToEnd, TriesLeft
  <2> QED
    BY <1>1, <2>1, <2>2
<1> QED
  BY <1>2, <1>3

\* The end of a step, or the second step of a BMS reset in place of the first.
LEMMA StepEnds ==
  ASSUME Inv, seqState # "IDLE",
         NoStep \/ (seqState = "RESET_DIAG" /\ SendStep("RESET_SEND"))
  PROVE  TicksToEnd' \in Nat /\ TicksToEnd' <= TicksToEnd
<1>1. CASE NoStep
  <2>1. TicksToEnd' = 0
    BY <1>1 DEF NoStep, TicksToEnd
  <2> QED
    BY <2>1, TicksType
<1>2. CASE seqState = "RESET_DIAG" /\ SendStep("RESET_SEND")
  <2>1. seqState' = "RESET_SEND" /\ retries' = 0 /\ timeout' = StepTimeout
    BY <1>2 DEF SendStep
  <2>2. TicksToEnd' = TriesLeft(0) + StepTimeout
    BY <2>1 DEF TicksToEnd, TriesLeft
  <2> QED
    BY <1>2, <2>2, TicksType
<1> QED
  BY <1>1, <1>2

(***************************************************************************)
(* A tick counts down, retries a step with one try less, or gives it up.   *)
(***************************************************************************)
LEMMA TickComesCloser ==
  ASSUME Inv, Tick, seqState # "IDLE", ~(pendingSeq # "IDLE" /\ pendingSeq' = "IDLE")
  PROVE  TicksToEnd' \in Nat /\ TicksToEnd' < TicksToEnd
<1>1. CASE AwaitAnswer
  <2>1. /\ seqState' = seqState /\ retries' = retries /\ timeout' = timeout - 1
        /\ timeout > 1
    BY <1>1 DEF AwaitAnswer
  <2>2. /\ timeout' \in Nat
        /\ TriesLeft(retries') + timeout' < TriesLeft(retries) + timeout
    BY <2>1, TicksType
  <2> QED
    BY <2>1, <2>2, TicksType, SameStep
<1>2. CASE RetryStep
  <2>1. /\ seqState' = seqState /\ retries' = retries + 1 /\ timeout' = StepTimeout
        /\ timeout = 1 /\ retries < MaxRetries /\ retries \in 0..MaxRetries
    BY <1>2 DEF RetryStep, Retries, Expires, Inv, IInv, TransactionInv
  <2>2. TriesLeft(retries') \in Nat /\ TriesLeft(retries') + timeout' = TriesLeft(retries)
    BY <2>1, RetrySpends
  <2>3. TriesLeft(retries') + timeout' < TriesLeft(retries) + timeout
    BY <2>1, <2>2, TicksType
  <2> QED
    BY <2>1, <2>2, <2>3, TicksType, SameStep
<1>3. CASE ScanOn \/ Rest
  <2>1. seqState' = "IDLE"
    <3>1. Rest => Expires
      BY TicksType DEF Rest, Over, Expires
    <3> QED
      BY <1>3, <3>1 DEF ScanOn, Rest, NoStep
  <2>2. TicksToEnd' = 0
    BY <2>1 DEF TicksToEnd
  <2> QED
    BY <2>2, TicksType
<1>4. ~StartQueued
  BY DEF StartQueued
<1> QED
  BY <1>1, <1>2, <1>3, <1>4 DEF Tick

\* Whatever an ECU sends, but for a request for more time, puts the end off.
LEMMA FrameComesCloser ==
  ASSUME Inv, seqState # "IDLE", ~Extended, NEW e \in Ecus, NEW m \in Messages, Receive(e, m)
  PROVE  TicksToEnd' \in Nat /\ TicksToEnd' <= TicksToEnd
<1>1. CASE UNCHANGED transaction
  BY <1>1, TicksType DEF transaction, TicksToEnd, TriesLeft
<1>2. CASE ExtendStep(e, m)
  <2>1. /\ seqState' = seqState /\ retries' = retries /\ timeout' = StepTimeout
        /\ respAddr' # NoAddr
    BY <1>2, Constants DEF ExtendStep
  <2>2. timeout' \in Nat /\ ~(timeout' > timeout)
    BY <2>1, TicksType DEF Extended
  <2>3. TriesLeft(retries') + timeout' <= TriesLeft(retries) + timeout
    BY <2>1, <2>2, TicksType
  <2> QED
    BY <2>1, <2>2, <2>3, TicksType, SameStep
<1>3. CASE FinishStep(m)
  BY <1>3, StepEnds DEF FinishStep
<1> QED
  BY <1>1, <1>2, <1>3 DEF Receive, Unasked, FinishPid, Stray

(***************************************************************************)
(* A sequence ends within the tries of its steps, counted in ticks, unless *)
(* the ECU itself asks for more time.                                      *)
(***************************************************************************)
THEOREM SequencesEndInBoundedTime == Spec => SequenceComesCloser
<1> DEFINE A == seqState # "IDLE" /\ ~Extended /\ ~(pendingSeq # "IDLE" /\ pendingSeq' = "IDLE") =>
                  /\ TicksToEnd' \in Nat /\ TicksToEnd' <= TicksToEnd
                  /\ Tick => TicksToEnd' < TicksToEnd
<1>1. Inv /\ [Next]_vars => [A]_vars
  <2> SUFFICES ASSUME Inv, Next, seqState # "IDLE", ~Extended,
                      ~(pendingSeq # "IDLE" /\ pendingSeq' = "IDLE")
               PROVE  /\ TicksToEnd' \in Nat /\ TicksToEnd' <= TicksToEnd
                      /\ Tick => TicksToEnd' < TicksToEnd
    OBVIOUS
  <2>1. ASSUME Tick PROVE TicksToEnd' \in Nat /\ TicksToEnd' < TicksToEnd
    BY <2>1, TickComesCloser
  <2>2. ASSUME UNCHANGED <<seqState, retries, timeout>>
        PROVE  TicksToEnd' \in Nat /\ TicksToEnd' <= TicksToEnd
    BY <2>2, TicksType DEF TicksToEnd, TriesLeft
  <2>3. ASSUME Frame PROVE TicksToEnd' \in Nat /\ TicksToEnd' <= TicksToEnd
    BY <2>2, <2>3, FrameCases, FrameComesCloser DEF transaction
  <2>4. ASSUME Poll \/ ToolFrame \/ \E task \in Tasks : StartSequence(task)
        PROVE  UNCHANGED <<seqState, retries, timeout>>
    BY <2>4 DEF Poll, ToolFrame, StartSequence, transaction
  <2> QED
    BY <2>1, <2>2, <2>3, <2>4, TicksType DEF Next
<1> QED
  BY <1>1, Invariance, PTL DEF Spec, SequenceComesCloser

=============================================================================
