\* Safety: three requests, limits small enough that every limiter turns some away.
CONSTANTS
    r1 = r1
    r2 = r2
    r3 = r3
    plain = plain
    preluded = preluded
    event = event
    Probe = Probe
    Global = Global
    Requests = {r1, r2, r3}
    Routes <- MCRoutes
    Preluded <- MCPreluded
    Events = {event}
    MaxRequests <- MCMaxRequests
    Middlewares = 2
SPECIFICATION Spec
SYMMETRY RequestSymmetry
INVARIANTS TypeOK LimiterAccounting GaugeAccounting StatsAccounting WriteShieldsRequest
PROPERTY CancelledGoesNoFurther
CHECK_DEADLOCK FALSE
