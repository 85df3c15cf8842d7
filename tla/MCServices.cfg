\* One background service at a time, each on an instance of its own.
SPECIFICATION ServicesSpec
CONSTANTS
    None = None
    TopHolders = 2
    Top10Limit = 70
    AssessmentTTL = 1
    DayTicks = 4
    MaxRugScore = 60
    MinWalletConfidence = 65
    MinConfidence = 60
    MaxRisk = 70
    MinLiquidity = 25
    MinCap = 10
    MaxCap = 50000
    FixedSize = 50
    MaxPosition = 500
    MaxExposure = 2000
    DustSize = 1
    MinOutcomeAge = 0
    UnknownAfter = 2
    MinRugs = 1
    MinSamples = 1
    Buys <- MCBuys
    FirstFacts <- MCFacts
    HolderLists <- MCHolders
    Snapshots <- MCSnapshots
    OpsWeights <- MCOps
    MaxRiskNow = 2
    MaxLooks = 2
    MaxChanges = 2
    MaxVersions = 1
    Wallets <- MCWallets
    CexWallets = {"cex"}
    FollowBar = 65
    CandidateMargin = 15
    VettingBatch = 2
    StaleAfter = 1
    RepeatMinTokens = 2
    RepeatRatio = 60
    InsiderShare = 50
    MaxVettingNow = 3
    MaxFaults = 2
    TradedPairs = {1}
    Horizon = 1
    GradeBatch = 2
    MaxMlNow = 2
    MaxLearnt = 4
    MaxCloses = 2
    ModelNames <- MCModelNames
    LabelSeries <- MCLabelSeries
    MinTrainingRows = 20
    Aucs = {60, 70}
    MaxTrainings = 3
    MaxDeaths = 1
    MaxFilesLost = 1
    Traders = {1, 2}
    Records <- MCRecords
    StyleMin = 3
    MinWallets = 2
    MaxClusters = 1
    CentreStyles = {"scalper", "swing"}
    AutoFollowBar = 6500
    Week = 7
    Month = 30
    StatsDay = 1
    MaxStatsNow = 1
    Markets <- MCMarkets
    LookbackWindows = 2
    Bull = 30
    Hysteresis = 10
    HighVol = 25
    LowLiquidity = 26
    WhaleMinWallets = 3
    WhaleNetFlow = 5
    PanicMinTrades = 3
    LaunchWaveMin = 5
    ExhaustionMin = 10
    ClosedTrades <- MCClosedTrades
    RegimeStatsWindow = 2
    ReportDay = 2
    ReportWeek = 4
    MaxReportNow = 5
    Followable = {1, 2, 3}
    Confidences = {60, 70}
    FollowBarAt = 65
    LaneMax = 2
    MaxChurn = 2
    MaxMishaps = 2
    MinSolFlow = 1
    Intents <- MCIntents
    HopKinds <- MCHops
    MaxHops = 3
INVARIANTS
    CopyBackedByProbe
    NoComponentDominates
    MirrorTracksVerdict
    GradedAsTrained
    ChampionServes
    StyleSurvivesMetrics
    LuckyStreakGated
    NoFlapping
    OneReportPerPeriod
    TradeRecovered
PROPERTIES
    KnownOutcomesGraded
    LaneSettles
CHECK_DEADLOCK FALSE
