SPECIFICATION ConsoleSpec
CONSTANTS
  TreeKey = {"a", "ab", "ec"}
  Parts <- MCParts
  KhText <- MCText
  KhMaxRev = 3
  Context = 1
  MaxCells = 20
  Input = {"", "a", "b"}
  Completions <- MCCompletions
  PageSize = 1
  MaxPages = 2
  MaxSeq = 3
  Cmd = {"help", "clear", "get"}
  MaxEntries = 4
  Caller = {1, 2, 3}
  Own = {1, 2}
  FirstLease = 11
  Spacing = 4
  MaxLeases = 3
  RuleSet = {"none", "both", "typo"}
  NoRules = "none"
  FirstSet = "both"
  Valid = {"none", "both"}
  CanEdit <- MCCanEdit
  PageUser = "me"
  OtherUser = "you"
  MaxSaves = 2
  AvUser = {"ann", "p/bob"}
  PeerOf <- MCPeerOf
  AvCluster = {"c"}
  AvKey = {"", "/", "/long", "*"}
  AvPrefix = {"", "/", "/long", "*"}
  LengthOf <- MCLengthOf
  StartWith <- MCStartWith
  AvAccess = {1, 3}
  MaxRules = 2
  MaxRuleEdits = 2
  RbUser = {"root", "app"}
  RbRole = {"ops"}
  Root = "root"
  MaxChanges = 2
  Keyword = "DELETE"
  MaxAsks = 3
  DlFile = {"f", "g", "h"}
  GoodFile = {"f", "h"}
  PresetId = {"", "k8s"}
  MtCluster = {"c", "d"}
  MtEndpoint = {"p", "q"}
  MtEndpoints <- MCEndpoints
  MaxClock = 4
  MaxSize = 2
  MtWindow = 3
  MaxSamples = 3
  SameSample = 1
  MtQuota = 3
  MtLease = {"l", "m"}
  MtFile = {"f", "g"}
  MxNode = {"m", "n"}
  MaxPolls = 3
  MaxCount = 2
  MxPoints = 2
  MxEntries = 2
  MxRows = 3
  SameTime = 1
  PkCluster <- MCClusters
  MaxPins = 4
  ViewName = {"v", "w", "x"}
  StoredViews <- MCStored
  LimitOption = {5, 10}
  FirstLimit = 10
  CustomLimit = {0, 3, 12}
  MinWidth = 3
  MaxWidth = 6
  FirstWidth = 4
  TxKey = {"k", "kk"}
  Below <- MCBelow
  TxText = {1}
  CondChoice <- MCCond
  OpChoice <- MCOp
  MaxTxRev = 2
  MaxEdits = 3
  DfCluster = {"c", "d"}
  DfKey = {"a", "b"}
  DfPrefix = {"", "a"}
  DfRange <- MCRange
  FirstStore <- MCStore
  MaxDiffs = 2
  MaxValue = 2
  MaxWrites = 1
VIEW View
CHECK_DEADLOCK FALSE
INVARIANT
  RowsAreTheTreeHere
  DiffTellsTheChangeHere
  SuggestionsFitHere
  ResultsFindTheirEntryHere
  OneHolderHere
  NoRulesAreLostHere
  ViewsTellTheRulesHere
  RolesShowWhatIsHere
  YesIsMeantHere
  FiguresTellHere
  PickersShowWhatIsHere
  TxnTellsWhatRanHere
  DiffTellsTheDifferenceHere
