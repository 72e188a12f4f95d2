SPECIFICATION WritesSpec
CONSTANTS
  CounterMax = 5
  CrashThreshold = 3
  GenIds <- TwoIds
  NoGenId = none
  FlakyWrites <- StateAndGenId
  g1 = g1
  g2 = g2
  Paths = {p1, p2}
  Payloads <- MCPayloads
  MaxLen = 3
  CacheLimit = 2
  Ranges <- FullRead
  Failing = {"open", "read", "data", "delete"}
  NoFile = NoFile
INVARIANTS
  NoFalseCrashLoop
  CacheSound
  OkMeansDone
PROPERTIES
  CrashLoopEngages
  TrueAppendKeepsLog
