SPECIFICATION Spec
CONSTANTS
    A = A
    B = B
    g = g
    Symbols = {A, B}
    Groups = {g}
    NoGroup = NoGroup
    NoRebalance = NoRebalance
    NoTarget = NoTarget
    Modes = {"shadow"}
    StartCash = 4
    MaxPosition = 2
    MaxGross = 3
    MaxNet = 2
    SessionStarts = {2}
    LastBar = 2
    IntentLists <- Lists
    Targets <- Books
    Shapes <- Bars
    Lags = {0, 1}
    Policies = {"discard", "fail", "defer_all", "defer_symbols"}
    MaxDelay = 1
    Volumes = {0, 3}
    FeedBars = 4
    Warmup = 2
    Attempts = 2
    MaxInterval = 2
    Tolerance = 2
    Forming = 1
    FirstBars = {1}
    ShapeOf <- FeedShape
    ShadowLists <- FeedLists
    ShadowTargets <- FeedBooks
    LiveLists <- PlanLists
    LiveTargets <- PlanBooks
    LiveShapes <- LiveBarShapes
    LiveBars = 2
    MaxWait = 1
    VenueLot <- Lots
    MaxUpsets = 0
    MaxEmissions = 2
CHECK_DEADLOCK FALSE
INVARIANT EligibleNextBar
