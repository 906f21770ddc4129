SPECIFICATION Spec
CONSTANTS
    A = A
    B = B
    g = g
    Symbols = {A, B}
    Groups = {g}
    NoGroup = NoGroup
    NoRebalance = NoRebalance
    NoTarget = NoTarget
    Modes = {"backtest", "shadow", "live"}
    StartCash = 4
    MaxPosition = 2
    MaxGross = 3
    MaxNet = 2
    SessionStarts = {2}
    LastBar = 2
    IntentLists <- Lists
    Targets <- Books
    Shapes <- Bars
    Lags = {0, 1}
    Policies = {"discard", "fail", "defer_all", "defer_symbols"}
    MaxDelay = 1
    Volumes = {0, 3}
    FeedBars = 5
    Warmup = 3
    Attempts = 2
    MaxInterval = 2
    Tolerance = 2
    Forming = 1
    FirstBars = {1}
    ShapeOf <- FeedShape
    ShadowLists <- FeedLists
    ShadowTargets <- FeedBooks
    LiveLists <- PlanLists
    LiveTargets <- PlanBooks
    LiveShapes <- LiveBarShapes
    LiveBars = 2
    MaxWait = 1
    VenueLot <- Lots
    MaxUpsets = 1
    MaxEmissions = 2
INVARIANT TypeOK
INVARIANT GroupWhole
INVARIANT LiquidityRespected
INVARIANT ExitOwnsSymbol
INVARIANT TargetReached
INVARIANT DaySession
INVARIANT WindowHasNoHole
INVARIANT PlannedWhole
PROPERTY ExecutesInTurn
PROPERTY HaltOnlyReduces
CHECK_DEADLOCK FALSE
