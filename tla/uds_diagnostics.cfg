SPECIFICATION FairSpec
CONSTANTS
  CrTimeout = 3
  SnModulus = 2
  MaxFrames = 2
  Ecus = {"bms", "other"}
  NoAddr = "none"
  FixedEcu = "none"
  BootList <- MCBootList
  SteadyList <- MCSteadyList
  RetryPids = {1}
  PidTimeout = 2
  StepTimeout = 3
  MaxRetries = 2
  MaxPidRetries = 3
  ToolBackoff = 3
  PostReset = 3
  Tasks = {"READ_DTC", "CLEAR_DTC", "RESET_DIAG"}
INVARIANT
  EveryWaitHasATimer
  OneTransaction
  ReceptionIsFromOneEcu
PROPERTY
  ToolIsLeftAlone
  QueuedSequenceStarts
  SequenceEnds
  QuietBusWorksOn
