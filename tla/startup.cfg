SPECIFICATION FairSpec
CONSTANTS
  full = full  part = part  big = big
  Text <- ThreeTexts
  Kernel <- Image
  Signature <- Signed
  MemSize = 3
  NoFile = NoFile
  Sent = {full, part}
  MaxSends = 3
  MaxDamage = 3
  MaxUpgrades = 2
  NumWg = 2
  NumPeers = 1
  Netifs <- Ifs
  NumDisks = 2
  Netboot = TRUE
INVARIANTS TypeOK TwoIntactSuffice SavedIsUsed KeyFilesClosed NetbootAfterDisks
PROPERTIES ConfigIntact Initialized
CHECK_DEADLOCK FALSE
