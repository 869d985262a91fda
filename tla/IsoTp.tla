-------------------------------- MODULE IsoTp --------------------------------
(***************************************************************************)
(* The receiving half of the ISO-TP transport of isotp.cpp: a message      *)
(* longer than a CAN frame comes in as a first frame and consecutive       *)
(* frames, numbered modulo 16.  What every driver sends fits a single      *)
(* frame, so the sending half is idle between two calls and left out; so   *)
(* are the flow control frames the receiver puts on the bus.               *)
(*                                                                         *)
(* Each operator gives the receiver, a record, after a frame or a poll.    *)
(* The length of a message is the number of consecutive frames it needs;   *)
(* its content is opaque until it is complete.                             *)
(***************************************************************************)
EXTENDS Integers

CONSTANTS
  CrTimeout,    (* CONFIG_ISOTP_CR_TIMEOUT: polls until the next frame     *)
  SnModulus,    (* sequence numbers: 16                                    *)
  MaxFrames     (* CONFIG_ISOTP_MAX_MSG_LENGTH, in consecutive frames      *)

ASSUME IsoTpAssumption ==
  /\ CrTimeout \in Nat \ {0}
  /\ SnModulus \in Nat \ {0}
  /\ MaxFrames \in Nat

RxState == [state : {"IDLE", "WAIT_DATA"}, left : 0..MaxFrames,
            sn : 0..(SnModulus - 1), timer : 0..CrTimeout]

RxIdle == [state |-> "IDLE", left |-> 0, sn |-> 0, timer |-> 0]

\* rcv_ff(): a message that is too long is refused, and ends the current one.
AfterFirstFrame(frames) ==
  IF frames > MaxFrames THEN RxIdle
  ELSE [state |-> "WAIT_DATA", left |-> frames, sn |-> 1 % SnModulus, timer |-> CrTimeout]

InTurn(rx, sn) == rx.state = "WAIT_DATA" /\ sn = rx.sn

\* Does this frame complete the message being received?
Completes(rx, sn) == InTurn(rx, sn) /\ rx.left = 1

NextFrame(rx) == [rx EXCEPT !.left = @ - 1, !.sn = (@ + 1) % SnModulus, !.timer = CrTimeout]

\* Seeded fault: the timer is only started by the first frame.
AfterConsecutiveFrame_TimerLost(rx, sn) ==
  IF InTurn(rx, sn) /\ rx.left > 1 THEN [NextFrame(rx) EXCEPT !.timer = 0] ELSE RxIdle

\* rcv_cf(): a frame out of turn ends the message.
AfterConsecutiveFrame(rx, sn) ==
  IF InTurn(rx, sn) /\ rx.left > 1 THEN NextFrame(rx) ELSE RxIdle

\* isotp_poll()
PollRx(rx) ==
  IF rx.state = "WAIT_DATA" /\ rx.timer > 0
  THEN IF rx.timer = 1 THEN RxIdle ELSE [rx EXCEPT !.timer = @ - 1]
  ELSE rx

=============================================================================
