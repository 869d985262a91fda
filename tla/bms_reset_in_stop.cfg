SPECIFICATION Spec
CONSTANTS
  ContactorControl = TRUE
  Periodic = TRUE
  Remote = TRUE
  DeferLowSoc = TRUE
  SkipBalancing = TRUE
  ResetInterval = 4
  SettleTime = 1
  GiveUpTime = 2
  OffTime = 4
  WarmupTime = 1
  KeepaliveInterval = 3
  StillAliveMax = 4
  Commands = {"PAUSE", "UNPAUSE", "STOP", "RESUME"}
PROPERTY
  NoPowerCycleDuringStop
