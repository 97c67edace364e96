SPECIFICATION Spec
CONSTANTS
    Reviewers = {u1, u2}
    NoReviewer = noone
    ReviewLines = {"a", "b"}
    Servers = {p1, p2}
    Batches <- MCBatches
    Advices <- MCAdvices
    MaxReviews = 2
    MaxUndos = 2
    Companies = {"acme", "bolt"}
    Connections = {"erp", "sql"}
    OwnerOf <- MCOwnerOf
    Contents = {"x", "none"}
    Rowless = {"none"}
    Returned <- MCReturned
    MaxActs = 4
    MaxSweeps = 1
    MaxBuilds = 1
    Series = {"fx"}
    DrivenLines = {"rev", "cost"}
    MaxLinks = 3
    MaxRuns = 2
    CachedDrivers = {"fx", "vol"}
    Readings <- MCReadings
    Slices = {"s1"}
    Units = {"acme"}
    UnitOf <- MCUnitOf
    NoUnit = "none"
    Passes = {q1}
    MaxRules = 3
    MaxDecisions = 3
    Sessions = {chat, job}
    ChatSessions = {chat}
    GenLines = {a, b}
    MaxGenerations = 2
    Turns = {t1, t2}
    ActiveVersions = {v1, v2}
    NoVersion = none
    Budget = 3
    MaxTurns = 3
    Models <- MCModels
    RankOf <- MCRankOf
    Benchmarks = {"naive"}
    Expensive = {"arima"}
    Rosters <- MCRosters
    Failed = 99
    FoldScores <- MCFoldScores
    Budgets = {2, 4}
    Engines = {"linear", "arima", "gbm"}
    Linear = "linear"
    Panel = "gbm"
    Driven = {"arima"}
    Broken = 99
    NoModel = "none"
    Points <- MCPoints
    Offsets <- MCOffsets
    DriverFolds <- MCDriverFolds
    Rows = {"p1", "p2"}
    LinesJudged = {"a", "b"}
    Kinds <- MCKinds
    Measures <- MCMeasures
    MaxEdits = 1
    Parts = {"a", "b"}
    Whole = "w"
    Absent = absent
    Tolerance = 20
    Books <- MCBooks
    Quantities <- MCQuantities
    Prices <- MCPrices
    MaxRestatements = 3
    Configs <- MCConfigs
    Years = {2023, 2024, 2028, 2029}
    DaysAsked = {0, 1, 2, 3, 4, 5, 6, 7, 30, 31, 32, 33, 34, 35, 36, 37, 38, 58, 59, 60, 88, 120, 180, 240, 300, 335, 336, 337, 338, 339, 340, 341, 342, 362, 363, 364, 365}
    StepsAsked = {0, 14}
    GraphLines = {"rev", "gm", "oi"}
    Wirers = {w1, w2}
    Rollups <- MCRollups
    MaxWirings = 3
    Browsers = {b1, b2}
    Hosts = {p1, p2}
    MaxTokens = 3
    Access = {a1, a2}
    Processes = {"p1", "p2"}
    MaxOutages = 2
    People = {"ana"}
    Tenants = {"acme", "bolt"}
    Roles = {"analyst", "admin"}
    Workers = {p1, p2}
    Nobody = nobody
    Firms = {"acme", "bolt"}
    Platform = platform
    Forecasts = {"v1", "v2"}
    FirmOf <- MCFirmOf
    Providers <- MCProviders
    Desks = {d1}
    Soft = 0
    MonthDays = 2
    MaxMonths = 1
    MaxForms = 2
    MaxInputs = 1
    MaxRounds = 2
    Pasts <- MCPasts
    Later <- MCLater
    Base <- MCBase
    Points2 = {3, 14}
    Spread = 8
    Watchers = {ana}
    Admin = ana
    MaxMoves = 2
    Vintages = {"v1", "v2"}
    BaseOf <- MCBaseOf
    Horizon = 3
    ScoredLines = {"a", "b"}
    Outlook <- MCOutlook
    Margin = 5
    Reports <- MCReports
    Unreported = unreported
    MinCycles = 2
    MinObserved = 3
    MaxLandings = 2
    MaxShifts = 1
    Literals = {"2", "0"}
    LiteralOf <- MCLiteralOf
    Names = {"Revenue", "item:Revenue", "category:Revenue", "4000", "Fees"}
    RefOf <- MCRefOf
    MaxDepth = 2
    MaxTyped = 6
    Typable = {"2", "Fees", "-", "/", "(", ")"}
    SavedFormulas <- MCSaved
    WellFormed <- MCWellFormed
    ChartLines <- MCChartLines
    FigureBooks <- MCFigures
    LeafLines = {"fee"}
    SumLines = {"net"}
    CategoryOf <- MCCategoryOf
    LastMonth = 2
    ModelPoints <- MCModelPoints
    Entered = {5}
    Budgeted <- MCBudgeted
    Materiality = 5
    Unrelated = unrelated
    MaxMade = 2
    MaxWrites = 1
    MaxStatusMoves = 4
    Currencies = {"USD", "EUR"}
    DefaultCurrency = "USD"
    RateTypes = {"average", "spot"}
    QuotedRates = {2, 3}
    Unset = unset
    LocalOf <- MCLocalOf
    AmountOf <- MCAmountOf
    RateFiles <- MCRateFiles
    Conversions = {g1, g2}
    MaxQuotes = 2
    MaxChanges = 2
INVARIANTS
    TypeOK
    UndoIsExact
    PullsAnswered
    DriversFollow
    PromotionsStand
    RunsAnswered
    RememberedAcrossTurns
    ContestStands
    BandsOwnErrors
    WorseNeverMilder
    Attributed
    DayHasPeriod
    NoLoneCycle
    AccessKept
    CompaniesApart
    SweepsRight
    FiguresAgree
    ReadersAgree
    CurrencyKept
PROPERTY
    LatestUploadUsed
CHECK_DEADLOCK FALSE
