----------------------------- MODULE RemoteLimits -----------------------------
(***************************************************************************)
(* The current limits set over MQTT.  The MQTT task writes them one after  *)
(* the other, with the time stamp that keeps them alive last, while the    *)
(* core loop of the other CPU core expires them once per second.           *)
(***************************************************************************)
EXTENDS Integers

CONSTANTS
  Messages,        (* what SET_LIMITS can ask for                          *)
  MaxRemoteTime    (* the longest timeout of a message, in seconds         *)

Direction == {"charge", "discharge"}
NoCap == -1
Ahead == -1

ASSUME RemoteAssumption ==
  /\ MaxRemoteTime \in Nat
  /\ \A m \in Messages :
       /\ m.cap \in [Direction -> Nat \cup {NoCap}]
       /\ m.timeout \in 0..MaxRemoteTime

VARIABLES
  remoteCap,       (* max_remote_set_charge_dA, ..._discharge_dA           *)
  remoteOn,        (* remote_settings_limit_charge, ..._discharge          *)
  remoteTimeout,   (* remote_set_timeout                                   *)
  remoteAge,       (* age of remote_set_timestamp at the coming expiry, in *)
                   (*   seconds rounded up, or Ahead of its clock          *)
  mqttStep,        (* the next write of the MQTT task                      *)
  message          (* the message it has read                              *)

remoteVars == <<remoteCap, remoteOn, remoteTimeout, remoteAge, mqttStep, message>>

NoMessage == [cap |-> [dir \in Direction |-> NoCap], timeout |-> 0]

MqttStep == {"idle", "chargeCap", "chargeOn", "dischargeCap", "dischargeOn", "timeout", "timestamp"}

RemoteTypeOK ==
  /\ remoteCap \in [Direction -> Nat]
  /\ remoteOn \in [Direction -> BOOLEAN]
  /\ remoteTimeout \in 0..MaxRemoteTime
  /\ remoteAge \in Ahead..(MaxRemoteTime + 1)
  /\ mqttStep \in MqttStep
  /\ message \in Messages \cup {NoMessage}

RemoteInit ==
  /\ remoteCap = [dir \in Direction |-> 0]
  /\ remoteOn = [dir \in Direction |-> FALSE]
  /\ remoteTimeout = 0
  /\ remoteAge = 0
  /\ mqttStep = "idle"
  /\ message = NoMessage

-----------------------------------------------------------------------------
Receive ==
  /\ mqttStep = "idle"
  /\ message' \in Messages
  /\ mqttStep' = "chargeCap"
  /\ UNCHANGED <<remoteCap, remoteOn, remoteTimeout, remoteAge>>

WriteCap(step, dir, next) ==
  /\ mqttStep = step
  /\ remoteCap' = [remoteCap EXCEPT ![dir] = IF message.cap[dir] = NoCap THEN 0 ELSE message.cap[dir]]
  /\ mqttStep' = next
  /\ UNCHANGED <<remoteOn, remoteTimeout, remoteAge, message>>

WriteOn(step, dir, next) ==
  /\ mqttStep = step
  /\ remoteOn' = [remoteOn EXCEPT ![dir] = (message.cap[dir] # NoCap)]
  /\ mqttStep' = next
  /\ UNCHANGED <<remoteCap, remoteTimeout, remoteAge, message>>

WriteTimeout ==
  /\ mqttStep = "timeout"
  /\ remoteTimeout' = message.timeout
  /\ mqttStep' = "timestamp"
  /\ UNCHANGED <<remoteCap, remoteOn, remoteAge, message>>

(***************************************************************************)
(* The stamp may be as much as a second old when the core loop comes to    *)
(* it, or newer than the time the core loop took at the start of its pass. *)
(***************************************************************************)
WriteTimestamp ==
  /\ mqttStep = "timestamp"
  /\ remoteAge' \in {Ahead, 0, 1}
  /\ mqttStep' = "idle"
  /\ UNCHANGED <<remoteCap, remoteOn, remoteTimeout, message>>

SetLimits ==
  \/ Receive
  \/ WriteCap("chargeCap", "charge", "chargeOn")
  \/ WriteOn("chargeOn", "charge", "dischargeCap")
  \/ WriteCap("dischargeCap", "discharge", "dischargeOn")
  \/ WriteOn("dischargeOn", "discharge", "timeout")
  \/ WriteTimeout
  \/ WriteTimestamp

-----------------------------------------------------------------------------
\* Seeded fault: the last second of a message does not count.
Expired_Early == remoteAge = Ahead \/ remoteAge >= remoteTimeout

\* The difference is unsigned: a stamp ahead of the clock is as old as can be.
Expired == remoteAge = Ahead \/ remoteAge > remoteTimeout

\* Seeded fault: the remote cap may only raise the one of the user.
CapAfterExpiry_OnlyRaises(dir, user) ==
  IF remoteOn[dir] /\ remoteCap[dir] > user THEN remoteCap[dir] ELSE user

\* The cap on a current: the remote one if there is one, else the user's.
CapAfterExpiry(dir, user) == IF remoteOn[dir] /\ ~Expired THEN remoteCap[dir] ELSE user

\* update_remote_limit_expiry(), and the second that passes.
ExpireRemote ==
  /\ remoteCap' = [dir \in Direction |-> IF Expired THEN 0 ELSE remoteCap[dir]]
  /\ remoteOn' = [dir \in Direction |-> remoteOn[dir] /\ ~Expired]
  /\ remoteAge' = IF remoteAge = Ahead THEN 1
                  ELSE IF remoteAge <= MaxRemoteTime THEN remoteAge + 1 ELSE remoteAge
  /\ UNCHANGED <<remoteTimeout, mqttStep, message>>

=============================================================================
