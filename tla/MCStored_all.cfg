SPECIFICATION StoredSpec
CONSTANTS
  Paths <- DoneAppears
  Payloads <- MCPayloads
  MaxLen = 2
  CacheLimit = 0
  Ranges = {}
  Failing = {"open", "read", "data", "delete", "overwrite_delete", "nvram"}
  NoFile = NoFile
  Good = Good
  NoDone = NoDone
  DashIds = {"e1"}
  Conf <- MCConf
  Tries = 3
  Events = {e1, e2}
  MaxEvents = 4
  MaxBoots = 2
  AppendFails = TRUE
  MAX_LOG_SIZE = 3
  DIAG_BUF_CAP = 3
  LineLengths = {1, 2}
  MaxLines = 3
  MaxPowerOns = 2
  MaxWriteFaults = 1
  ScanMax = 2
  SlotMax = 3
  Others = {"os"}
  Mine = "LamBoot"
  NoEntry = "none"
  MaxFaults = 2
  MaxEdits = 2
INVARIANTS
  EntryNeverLost
  AttemptCounted
  BlessTargetIsRunning
  SeqIdentifiesEvent
  LogsComplete
  NeverDuplicated
  OrphanOnlyIfCut
PROPERTIES
  TriesNeverGrow
  InstalledEventually
CHECK_DEADLOCK FALSE
