\* Shared reads of two resources: sharing, cancellation, memoization as WriteOnce, liveness.
CONSTANTS
    a1 = a1
    a2 = a2
    b1 = b1
    A = A
    B = B
    k1 = k1
    k2 = k2
    NoCall = NoCall
    Clients = {A, B}
    ClientOf <- MCClientOf
    FlightKey <- OwnFlights
    SafeMethod <- AllSafe
    Modes <- SharedReads
    Calls <- ThreeCalls
    Keys = {k1, k2}
    Retries <- BRetries
SPECIFICATION Spec
INVARIANTS TypeOK FlightEntries CancelStaysHome
PROPERTIES MemoIsWriteOnce EveryCallSettles
CHECK_DEADLOCK FALSE
