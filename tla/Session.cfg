\* Two clients and a daemon that suffers three troubles: two of them and one edit
\* under the first client, none under the second; a session of six tool calls and
\* commits; four writers of the panic state, three operations, one fault.  A
\* session may end: no deadlock check.
SPECIFICATION SessionSpec
CONSTANTS
  r1 = r1
  r2 = r2
  Requests = {r1, r2}
  Empty = Empty
  Partial = Partial
  NoEntry = NoEntry
  Polls = 2
  MaxTroubles = 3
  NoModule = NoModule
  NoHash = NoHash
  Calls <- CallSet
  Gaps = {0, 3}
  Start = 100
  DegradeLoad = 3
  StaleLoad = 8
  StaleD2Load = 10
  StaleD3Load = 14
  DegradeAge = 15
  StaleAge = 20
  GitCheckInterval = 2
  Window = 4
  DegradeSwitches = 1
  StaleSwitches = 2
  BurstSwitches = 3
  LocalSwitches = 0
  SwitchWeight = 1
  DensityBonus = 2
  BurstSpike = 3
  BurstWeight = 8
  DensityCooldown = 4
  SwitchDampening = 1
  UpThreshold <- Up
  DownThreshold <- Down
  ScoreMax = 20
  TrajectoryDelta = 3
  OscillationDelta = 2
  StaleDelta = 5
  LocalityRecovery = 1
  DecayTime = 2
  Refractory = 4
  RapidOrient = 6
  NormalRelief = 8
  RapidRelief = 3
  MaxSteps = 6
  Hooks = {h1, h2}
  Mcp = Mcp
  Watch = Watch
  NoLock = NoLock
  Dead = Dead
  Top = 2
  Injected = 2
  MaxOps = 3
  MaxFaults = 1
INVARIANTS DaemonTypeOK OneRebuild WipedIsRebuilt NoWipedStore HitIsARead
           LeaseTypeOK DepthMatches DecayKeepsTime SpamIsBounded
           PanicTypeOK CountIsExact LockExcludes
PROPERTIES FlushesReachTheGraph EveryCallIsAnswered OnlyWorsens RevisionGrows
CHECK_DEADLOCK FALSE
