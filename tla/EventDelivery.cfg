SPECIFICATION TelemetrySpec
CONSTANTS
    e1 = e1
    e2 = e2
    Edges = {e1, e2}
    Recorded <- MCRecorded
    WrongToken = {e2}
    Capacity = 1
    MaxBatch = 2
    MaxRequestEvents = 2
    IngestCapacity = 1
    IngestMaxBatch = 2
    MaxFaults = 2
    MaxStops = 1
INVARIANTS AcknowledgedInOrder LostOnlyUnderPressure
PROPERTY ImplementsDelivery
CHECK_DEADLOCK FALSE
