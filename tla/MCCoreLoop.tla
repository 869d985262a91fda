------------------------------ MODULE MCCoreLoop ------------------------------
(***************************************************************************)
(* CoreLoop for TLC: one installation for each group of features, with the *)
(* readings that tell its cases apart.  The voltages are about 20 V and    *)
(* the powers some watts, which keeps the divisions of the code and their  *)
(* rests.                                                                  *)
(***************************************************************************)
EXTENDS CoreLoop

Good == [voltage |-> 200, cellMax |-> 3700, cellMin |-> 3700, soc |-> 5000, realSoc |-> 5000,
         charge |-> 12, discharge |-> 4, low |-> TRUE, error |-> FALSE, fault |-> FALSE]

\* What most drivers publish at power-up, and what some do.
AtPowerUp ==
  [Good EXCEPT !.voltage = 210, !.soc = 0, !.realSoc = 0, !.charge = 0, !.discharge = 0]
Preset == [AtPowerUp EXCEPT !.voltage = 200]

Loaded == [Good EXCEPT !.low = FALSE]
Wrong == [Good EXCEPT !.error = TRUE]
Interlock == [Good EXCEPT !.fault = TRUE]
Small == [Good EXCEPT !.charge = 5]
Drifted == [Good EXCEPT !.voltage = 230, !.charge = 3]
Unread == [Good EXCEPT !.voltage = 0]
High == [Good EXCEPT !.voltage = 251]
Deep == [Good EXCEPT !.voltage = 149]
Knee == [Good EXCEPT !.cellMax = 4190]
Ceiling == [Good EXCEPT !.cellMax = 4200]
Critically == [Good EXCEPT !.cellMax = 4300]
LowCell == [Good EXCEPT !.cellMin = 2800]
DeadCell == [Good EXCEPT !.cellMin = 1900]
AtFull == [Good EXCEPT !.soc = 10000, !.realSoc = 10000]
Emptied == [Good EXCEPT !.soc = 0, !.realSoc = 0]
NearFull == [Good EXCEPT !.soc = 9900, !.realSoc = 9800]
Trickle == [NearFull EXCEPT !.charge = 1]
UserHigh == [Good EXCEPT !.voltage = 240]
UserBand == [Good EXCEPT !.voltage = 230]
UserLow == [Good EXCEPT !.voltage = 160]

Plain == [battery |-> TRUE, packs |-> {}, button |-> "NOT_CONNECTED", precharge |-> FALSE,
          taper |-> FALSE, filter |-> FALSE, inverter |-> "NONE", offgrid |-> FALSE,
          uses |-> {}, initial |-> AtPowerUp, mainReadings |-> {Good},
          packReadings |-> {}]

MCInstallations == {
  [Plain EXCEPT !.button = "LATCHING", !.uses = {"STOP", "RESUME"}],
  [Plain EXCEPT !.button = "MOMENTARY", !.uses = {"RESUME"}],
  [Plain EXCEPT !.precharge = TRUE, !.uses = {"STOP"}, !.mainReadings = {AtPowerUp}],
  [Plain EXCEPT !.precharge = TRUE, !.uses = {"RESET"}, !.mainReadings = {AtPowerUp}],
  [Plain EXCEPT !.precharge = TRUE, !.battery = FALSE, !.uses = {"STOP", "RESUME", "CLEAR"}],
  [Plain EXCEPT !.packs = {2}, !.mainReadings = {Good, Wrong, Unread},
                !.packReadings = {Good, Drifted}],
  [Plain EXCEPT !.packs = {2}, !.uses = {"RECOVERY"}, !.mainReadings = {Good, Interlock},
                !.packReadings = {Good, Interlock}],
  [Plain EXCEPT !.packs = {2, 3}, !.initial = Preset, !.mainReadings = {Good, Drifted},
                !.packReadings = {Good}],
  [Plain EXCEPT !.uses = {"PAUSE", "UNPAUSE"},
                !.mainReadings = {Good, Loaded, Knee, Ceiling, Critically, LowCell}],
  [Plain EXCEPT !.uses = {"RECOVERY", "CLEAR"}, !.mainReadings = {Good, DeadCell, Emptied, High, Deep}],
  [Plain EXCEPT !.taper = TRUE, !.uses = {"PAUSE", "UNPAUSE", "RECOVERY"},
                !.mainReadings = {Good, AtFull, NearFull, Trickle}],
  [Plain EXCEPT !.filter = TRUE, !.uses = {"PAUSE", "UNPAUSE", "RECOVERY"},
                !.mainReadings = {Good, Small}],
  [Plain EXCEPT !.uses = {"VOLTAGE"}, !.mainReadings = {Good, UserHigh, UserBand, UserLow}],
  [Plain EXCEPT !.uses = {"LIMITS"}],
  [Plain EXCEPT !.inverter = "NORMAL", !.uses = {"CLEAR"}],
  [Plain EXCEPT !.inverter = "NORMAL", !.offgrid = TRUE],
  [Plain EXCEPT !.inverter = "SLOW", !.uses = {"CLEAR"}]
}

MCMessages == {
  [cap |-> [dir \in Direction |-> IF dir = "charge" THEN 1 ELSE NoCap], timeout |-> 2],
  [cap |-> [dir \in Direction |-> IF dir = "charge" THEN 5 ELSE 1], timeout |-> 1]
}
=============================================================================
