SPECIFICATION FairSpec
CONSTANTS
  r1 = r1  r2 = r2  key = key
  Requests = {r1, r2}
  Packages <- AllPackages
  SerialConfigs <- Installed
  FlashKernel = 5
  Keys = {key}
  NumDisks = 1
  DevicesFail = TRUE
  MaxBoots = 2
  MaxSpawns = 2
  NoKey = NoKey
  None = None
CHECK_DEADLOCK FALSE
PROPERTIES ApplianceSpec UpgradeEnds LoadedReboots
INVARIANTS TypeOK SshStopped NoDoubleClose
