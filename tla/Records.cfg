SPECIFICATION RecordsSpec
CONSTANTS
  Id = {"a", "b"}
  MaxWrites = 4
  MaxTears = 2
  Bystander = {"call"}
  WorkEvents = 2
  PageSize = 2
  ReplayLimit = 2
  MaxConnections = 2
  MaxAsked = 4
  Collections <- MCCollections
  Retain = 1
  MaxCheckpoints = 3
  MaxProgress = 1
  File = {"f", "g"}
  Content = {"c", "d"}
  ABSENT = ABSENT
  TORN = TORN
  MaxDeaths = 2
  ReplayKey = {"k", "l"}
  MaxJournal = 4
  WorkspaceFile = {"f", "g"}
  InDirectory = {"f", "g"}
  MaxFileSize = 2
  StorageLimit = 2
  BatchActions = 2
  MaxFileDeaths = 1
  MaxEvents = 6
  MaxTraceDeaths = 1
  MaxObservations = 3
  KeepRecent = 1
  MaxInputTokens = 8
  CompressAt = 6
  BaseTokens = {1, 6}
  SummaryLines = 1
  Rememberer = {"r1"}
  MaxEntries = 3
  RecallLimit = 2
  RecentWindow = 2
  MemoryScopes = {"run", "project", "another tenant"}
  MemoryWords = {"some of the goal", "the whole goal"}
  MemoryLives = {"limited"}
  Process = {"p", "q"}
  Version = {1}
  NONE = NONE
  MaxRestarts = 1
  Server = {"s1", "s2"}
  ApiRequest = {"q1", "q2"}
  Key = {"k1", "k2"}
  MaxServerDeaths = 1
  MaxFrames = 3
  Commands = 2
  MaxEdits = 1
  MaxReworks = 1
  MaxSessions = 2
INVARIANTS RecordsTypeOK PathsAreSound FilesSurviveDeaths ReplayTellsAll DriversAgree PromptIsTheRunsOwn DefinitionsAreKept AccessHolds StorageHolds TraceHolds
PROPERTIES CheckpointsAreKept ReadersSeeTheHistory ReadersArrive
CHECK_DEADLOCK FALSE
