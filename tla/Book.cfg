SPECIFICATION Spec
CONSTANTS
    e1 = e1
    e2 = e2
    s1 = s1
    s2 = s2
    l1 = l1
    l2 = l2
    x1 = x1
    g1 = g1
    g2 = g2
    NoOrder = NoOrder
    NoGroup = NoGroup
    Order <- BookOrder
    Group = {g2}
    GroupOf <- BookGroupOf
    Entry = {s1, s2, l2}
    RecoveryExit = {x1}
    Leg = {l1, l2}
    Rank <- BookRank
    Plans <- BookPlans
    Qty = 1
    Events = {"crash", "outage", "mismatch", "preflight", "waiting",
              "twoBars", "drawdown", "pause", "staleExit"}
INVARIANTS
    RecoveryExitsAlone
    DecidesOnEmptyQueue
PROPERTIES
    HaltedSendsNothing
