SPECIFICATION Spec
CONSTANTS
    MaxFills = 3
    MaxBars = 3
    MaxFaults = 2
    MaxCrashes = 2
    MaxPending = 2
    MaxAttempts = 3
    Recovery = 1
    MaxAudit = 2
    RefusedRows = {2}
    RefusedEvents = {1}
    RefusedBars = {2}
INVARIANT TypeOK
INVARIANT EventsAccounted
INVARIANT RowsAccounted
INVARIANT AuditAccounted
INVARIANT DroppedAfterTries
PROPERTY SinkSpec
PROPERTY Recorded
PROPERTY Settles
CHECK_DEADLOCK FALSE
