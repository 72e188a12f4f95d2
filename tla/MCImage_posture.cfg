SPECIFICATION MCSpec
CONSTANTS
  PeFiles <- MCFiles
  WordBase = 1024
  KernelFiles <- Kernels
  InitrdSizes = {0, 2}
  MaxDrivers = 1
  MaxSelections = 2
  MaxInstallFaults = 1
  HalfWord = 16
  Devices <- MCDevices
  Regions <- MCRegions
  Offsets <- MCOffsets
  Lengths <- MCLengths
  MAX_BOOT_FILE_BYTES = 15
  Events = {}
  MaxEvents = 0
  MaxBoots = 1
  AppendFails = FALSE
  Images <- MenuImages
  MaxAttempts = 2
  ByteFaults = TRUE
INVARIANT
  PostureAgrees
CHECK_DEADLOCK FALSE
