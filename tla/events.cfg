SPECIFICATION FairSpec
CONSTANTS
  Event <- MCEvent
  LevelOf <- MCLevelOf
  Recurring <- MCRecurring
  Tasks = {"core", "web"}
  Core = "core"
INVARIANT
  SerialCallsAreExact
PROPERTY
  LastingErrorIsFault
