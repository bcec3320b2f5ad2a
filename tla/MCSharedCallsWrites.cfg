\* Writes among shared reads of one resource: freshness, retried writes.
CONSTANTS
    a1 = a1
    a2 = a2
    b1 = b1
    A = A
    B = B
    k1 = k1
    k2 = k2
    NoCall = NoCall
    Clients = {A, B}
    ClientOf <- MCClientOf
    FlightKey <- OwnFlights
    SafeMethod <- AllSafe
    Modes <- FlightOrWrite
    Calls <- ThreeCalls
    Keys = {k1}
    Retries <- RetryOnce
SPECIFICATION Spec
SYMMETRY CallSymmetry
INVARIANTS NotOlderThanFlight ExecutionsBounded
CHECK_DEADLOCK FALSE
