SPECIFICATION Spec
CONSTANTS
    e1 = e1
    e2 = e2
    s1 = s1
    s2 = s2
    l1 = l1
    l2 = l2
    x1 = x1
    g1 = g1
    g2 = g2
    NoOrder = NoOrder
    NoGroup = NoGroup
    Order <- PairOrder
    Group = {g1}
    GroupOf <- PairGroupOf
    Entry = {e1, e2}
    RecoveryExit = {x1}
    Leg = {}
    Rank <- PairRank
    Plans <- PairPlans
    Qty = 2
    Events = {"crash", "outage", "silence", "garbled", "lag", "late",
              "refusal", "accountFault", "venueCancel", "turnedDown",
              "breach"}
INVARIANTS
    TypeOK
    WriteAhead
    PlacedOnce
    NoOrphan
    BookMatchesVenue
    SerialAtVenue
PROPERTIES
    LedgerSpec
