SPECIFICATION SumSpec
CONSTANTS
  Command = {c1, c2, es}
  Stop = es
  Nobody = Nobody
  QLen = 4
  AlarmSlots = 4
  For = 1
  ClearAfter = 1
  Cooldown = 1
  Repeat = 2
  ChatterWindow = 2
  Shelf = 2
  Chatter = 2
  MaxNow = 4
  AlarmAsks = 2
  Trees <- MCTrees
  Readings = {212, 221, 230, 9999}
  Targets = {0, 230}
  Timers = 3
  Width = 3
  JudgedTicks = 4
  Temps = {0, 1, 2}
  Aims = {2}
  Marks = {2}
  Carries = {0, 1}
  Freeze = 1
  NoticeAsks = 3
  NoticeTicks = 2
  Phones = {"p1", "p2"}
  Codes = {"Probe_Temp_Achieved", "RULE_1"}
  MaxSubs = 2
  PushQLen = 2
  MaxEvents = 1
  LibrarySlots = 2
  Points = {100, 150}
  Near = 5
  MaxMeasures = 2
  Databases <- MCDatabases
  Runs <- MCRuns
  MaxStarts = 1
  MinCross = 5
  MaxCross = 12
  MaxResizes = 1
  MaxAdjusts = 2
  MaxRecentres = 1
  MaxTests = 1
  Objects <- MCObjects
  MaxScans = 3
  LinkSlots = {1, 2}
  Probes = {"pin", "any", "cq"}
  Passive = {"cq"}
  Pinned <- MCPinned
  Called <- MCCalled
  Peripherals = {"t", "q"}
  Nowhere = "nowhere"
  WriteQLen = 2
  Ssids = {"home"}
  NoSsid = "nothing"
  Setups <- MCSetups
  Links = {"chefiq"}
  MaxReloads = 3
  Samples = {0, 9, 20}
  Med = 5
  Mean = 3
  Slew = 1
  Hold = 4
  LongStep = 2
  Waits = {1, 3}
INVARIANTS
  ReportIsListed
  MeansWhatItSays
  SameInCelsius
  ActsOnce
  TwiceOnlyIfLost
  CleanMeasure
  ReadingIsLive
  ScanIsComing
  JoinIsNotForever
  ReadingIsItsOwn
  LastingIsBelieved
PROPERTIES
  ImplementsFifo
  TakenBack
CHECK_DEADLOCK FALSE
