SPECIFICATION Spec
CONSTANTS
  MaxFaultTicks = 2
  NegativeTime = 1
  PrechargeTime = 3
  PrechargeOffTime = 1
  EstopTimeout = 2
  BootInhibit = 2
  Delays = {1, 2}
  Packs = {2, 3}
  MillisWraps = TRUE
  InverterControls = TRUE
INVARIANT
  RelaysAndReportsAgree
PROPERTY
  PackFollowsWithinOneTick
  ImplementsHighVoltagePath
