\* Two crashes and two signals; no symmetry, for the liveness.
CONSTANTS
    w1 = w1
    w2 = w2
    w3 = w3
    w4 = w4
    NoSignal = NoSignal
    Workers = {w1, w2, w3, w4}
    Initial <- TwoAtFirst
    Linked = FALSE
    Signals = {"SIGINT", "SIGTERM"}
    MaxCrashes = 2
SPECIFICATION Spec
INVARIANTS TypeOK NoOrphans ReplicaKept AnnouncedOnce
PROPERTIES AnnouncedIfNobodyDies ShutdownEnds
CHECK_DEADLOCK FALSE
