SPECIFICATION StartupSpec
CONSTANTS
  CounterMax = 6
  CrashThreshold = 3
  GenIds <- TwoIds
  NoGenId = none
  FlakyWrites <- NoFlaky
  g1 = g1
  g2 = g2
  Machines <- MCMachines
  LvNames <- MCLvNames
  MaxIndex = 99
  MaxMountFaults = 1
  Disks <- MCDisks
  GrubVars = {"$grub"}
  ArchNames = {"linux", "linux-lts"}
  ArchBase = "linux"
  VersionStrings <- MCVersions
INVARIANTS
  BootVolumeSafe
  OneHolder
  NothingMissed
  MenuOrdered
  EntriesSound
  KernelOnce
  MarksWhatBoots
  VersionOrder
PROPERTIES
  ComparisonEnds
  ImplementsCrashCounter
CHECK_DEADLOCK FALSE
