SPECIFICATION FairSpec
CONSTANTS
  MAX_MOUNTS = 4
  InitMBR = TRUE
  Modules <- MCModules
  Inner = {1, 2}
  RamNames = {"ram0", "ram1"}
  MountArgs <- MCMountArgs
  MaxDevs = 5
INVARIANTS ScannedOnce RootServed
PROPERTIES MountsStable BootEnds
