SPECIFICATION Spec
CONSTANTS
    LastMinute = 4
    Session = {0, 1, 3}
    FirstDays = {0, 1}
    MaxTrades = 3
    MaxFaults = 1
    InboxSize = 2
    DailyBudget = 2
    QuerySpacing = 2
    BaseTotal = 7
    Events = {"lostTick", "duplicate", "disconnect", "queryFails", "behind", "capped"}
INVARIANT TypeOK
INVARIANT ServedComplete
PROPERTY NeverShrinks
CHECK_DEADLOCK FALSE
