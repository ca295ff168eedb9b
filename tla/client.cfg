SPECIFICATION ClientSpec
CONSTANTS
  NoOne = NoOne
  Client = Client
  Worker = Worker
  JobIds = {1, 2}
  MaxAsks = 2
  ElsewhereOps = {"submitWork"}
  PageActions <- SomePageActions
  Languages = {"es"}
  Criteria = {"category", "skills"}
  DashActions <- SomeDashActions
  PageSize = 1
  FeedWallets = {Worker}
  Terms = {"a", "b", "c"}
  MaxRecent = 2
  MaxCompare = 2
  Hashes = {1, 2, 3}
  FetchLimit = 2
  BatchCount = 7
  BatchPageSize = 2
  MaxConcurrent = 2
  WidgetIds <- SomeWidgets
  Hidden = {"earnings"}
  TxHashes = {"h", "i", "j"}
  MaxInteractions = 2
  FormEdits <- SomeEdits
  MaxPostsPerHour = 1
  Tags = {"a"}
  MaxSkills = 1
  MaxLinks = 1
  MaxHighlights = 2
  MaxBurst = 3
  MaxMessages = 2
  MaxMeetings = 2
  Slots <- SomeSlots
  MaxNotices = 2
  Events = {"a", "b"}
  LogSize = 1
  AdminPageSize = 2
  FlagNames = {"f", "g"}
  CaptchaAfter = 0
  MaxFailures = 0
  Networks = {"mainnet", "testnet"}
  MaxTokens = 7
  PageLimit = 1
  ExportLimit = 2
  ExportCap = 3
  Methods = {"topUp", "read"}
  Reads = {"read"}
  Repeatable = {"topUp"}
  MaxCalls = 2
  MaxAtOnce = 2
  Sweeps = {1}
  MaxRetries = 2
  Threshold = 2
  Cooldown = 1
  QueueSize = 2
  Patches <- SomePatches
INVARIANTS
  WritesOneAtATime NeverBlind SimilarMatchesChoice SwipeWasOffered DescriptionsPumped
  StoredIsShown HighlightsEarned UnreadAgrees
  MeetingsDisjoint ConsentAsked StaysDisconnected ExportComplete
  ReportsAreComplete SuccessWasApplied
PROPERTIES LostOnlyBySharedId CallsEnd CircuitRecovers
CHECK_DEADLOCK FALSE
