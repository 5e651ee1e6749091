SPECIFICATION Spec
CONSTANTS
  r1 = r1  r2 = r2  key = key
  Requests = {r1, r2}
  Packages <- OlderPackages
  SerialConfigs <- NoSsh
  FlashKernel = 5
  Keys = {key}
  NumDisks = 1
  DevicesFail = FALSE
  MaxBoots = 2
  MaxSpawns = 2
  NoKey = NoKey
  None = None
CHECK_DEADLOCK FALSE
PROPERTY NoRollback
