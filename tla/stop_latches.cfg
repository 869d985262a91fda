SPECIFICATION Spec
CONSTANTS
  MaxFaultTicks = 3
  NegativeTime = 1
  PrechargeTime = 1
  PrechargeOffTime = 1
  EstopTimeout = 1
  BootInhibit = 1
  Delays = {1}
  Packs = {}
  MillisWraps = FALSE
  RestartPausedTime = 1
  RestartTime = 2
  Commands = {"PAUSE", "UNPAUSE", "STOP", "RESUME"}
INVARIANT
  StopIsRecoverable
