SPECIFICATION FairSpec
CONSTANTS
  DebounceDelay = 2
  LongPress = 3
  MaxPrecharge = 3
  PackIds = {2, 3}
  MaxDrift = 2
  SyncDiff = 15
  StartVoltage = 210
  StillAlive = 2
  MaxVoltage = 250
  UserCharge = 4
  UserDischarge = 1
  Full = 10000
  Band = 1000
  FloorPower = 3
  NewShare = 50
  Messages <- MCMessages
  MaxRemoteTime = 2
  MinVoltage = 150
  MaxCell = 4200
  MinCell = 2800
  CellHysteresis = 20
  CellCritical = 100
  LowestRecoveryCell = 2000
  RecoveryCurrent = 2
  RecoveryTime = 2
  UserMaxVoltage = 240
  UserMinVoltage = 160
  UserHysteresis = 20
  Installations <- MCInstallations
  PowerCap = 12
INVARIANT
  TypeOK
  PauseMeansNoPower
  CurrentsAreRight
  RecoveryIsBounded
  StaysBlocked
  RemoteCapHolds
  PacksAreGuarded
  PrechargeIsSafe
PROPERTY
  FaultMeansNoPower
  IncreaseIsRamped
  WithinEveryPack
  SilenceIsNoticed
  NoBounceActs
  EngagedSwitchStops
  LimitComesBack
