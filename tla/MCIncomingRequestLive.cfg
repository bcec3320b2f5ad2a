\* Liveness: two requests, no symmetry.
CONSTANTS
    r1 = r1
    r2 = r2
    plain = plain
    preluded = preluded
    event = event
    Probe = Probe
    Global = Global
    Requests = {r1, r2}
    Routes <- MCRoutes
    Preluded <- MCPreluded
    Events = {event}
    MaxRequests <- MCMaxOne
    Middlewares = 2
SPECIFICATION Spec
PROPERTY EveryRequestCloses
CHECK_DEADLOCK FALSE
