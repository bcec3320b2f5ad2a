--------------------------- MODULE IncomingRequest ---------------------------
(***************************************************************************)
(* One worker's pipeline for incoming HTTP requests: the application's     *)
(* middlewares (error, tracing with its gauge of concurrent requests, the  *)
(* replica-wide concurrency limiter) around the pipeline of a route        *)
(* (cancellation, statistics, an awaited prelude, the route's limiters,    *)
(* the user's middlewares), with clients that may abort at any time.  An   *)
(* event comes as a request too, but its pipeline has neither the          *)
(* cancellation nor the statistics.                                        *)
(*                                                                         *)
(* JavaScript runs a middleware without interruption up to its next await  *)
(* on something pending, so one action is one such segment: entering the   *)
(* pipeline, resuming after the prelude, ending a user middleware.  The    *)
(* promise jobs by which a rejection or a return travels up the chain run  *)
(* before any other event, so an unwinding is one step as well.            *)
(***************************************************************************)
EXTENDS Integers, FiniteSets

CONSTANTS
    Requests,     \* identities of the incoming requests
    Routes,       \* routes of the app (service.json routes and events)
    Preluded,     \* routes that await settings or a body before their limiters
    Events,       \* those that are event handlers, which all await their body
    Probe,        \* the paths /_status and /healthcheck
    Global,       \* name of the replica-wide limiter
    MaxRequests,  \* rateLimitPerReplica.concurrent by limiter; 0 when absent
    Middlewares   \* number of user middlewares of a route

Limiters == Routes \cup {Global}

ASSUME ConstantsAssumption ==
    /\ IsFiniteSet(Requests)
    /\ Preluded \subseteq Routes
    /\ Events \subseteq Preluded
    /\ Probe \notin Routes
    /\ Global \notin Routes
    /\ MaxRequests \in [Limiters -> Nat]
    /\ Middlewares \in Nat \ {0}

VARIABLES
    phase,               \* where the request's innermost pending await is
    route,               \* the path asked for, meaningful once not "new"
    stage,               \* index of the user middleware that is running
    status,              \* ctx.status once the error middleware is done
    cancelable,          \* ctx.vtex.cancellation && its field cancelable
    cancelled,           \* ctx.vtex.cancellation && its field cancelled
    aborted,             \* the client is gone: 'aborted' and 'close' were emitted
    tracked,             \* trackIncomingRequestStats added its listeners
    wroteFirst,          \* the handler issued a write while its client was there
    reqsInExecution,     \* the counter in each limiter's closure
    concurrentRequests,  \* the gauge io_http_requests_current
    stats                \* incomingRequestStats

vars == <<phase, route, stage, status, cancelable, cancelled, aborted, tracked,
          wroteFirst, reqsInExecution, concurrentRequests, stats>>

Phases == {"new", "prelude", "handler", "responding", "closed"}
Statuses == {0, 200, 404, 429, 499, 500}

TypeOK ==
    /\ phase \in [Requests -> Phases]
    /\ route \in [Requests -> Routes \cup {Probe}]
    /\ stage \in [Requests -> 1..Middlewares]
    /\ status \in [Requests -> Statuses]
    /\ cancelable \in [Requests -> BOOLEAN]
    /\ cancelled \in [Requests -> BOOLEAN]
    /\ aborted \in [Requests -> BOOLEAN]
    /\ tracked \in [Requests -> BOOLEAN]
    /\ wroteFirst \in [Requests -> BOOLEAN]
    /\ reqsInExecution \in [Limiters -> Int]
    /\ concurrentRequests \in Int
    /\ stats \in [total : Int, closed : Int, aborted : Int]

Init ==
    /\ phase = [r \in Requests |-> "new"]
    /\ route = [r \in Requests |-> Probe]
    /\ stage = [r \in Requests |-> 1]
    /\ status = [r \in Requests |-> 0]
    /\ cancelable = [r \in Requests |-> FALSE]
    /\ cancelled = [r \in Requests |-> FALSE]
    /\ aborted = [r \in Requests |-> FALSE]
    /\ tracked = [r \in Requests |-> FALSE]
    /\ wroteFirst = [r \in Requests |-> FALSE]
    /\ reqsInExecution = [l \in Limiters |-> 0]
    /\ concurrentRequests = 0
    /\ stats = [total |-> 0, closed |-> 0, aborted |-> 0]

-----------------------------------------------------------------------------
(* Limiters. *)

\* A limiter configured with 0 or nothing is the no-op middleware.
Limited(l) == MaxRequests[l] > 0

Full(l) == Limited(l) /\ reqsInExecution[l] >= MaxRequests[l]

\* Entering the limiters of S, and leaving them through their finally blocks.
Enter(S) ==
    reqsInExecution' = [l \in Limiters |->
        IF l \in S /\ Limited(l) THEN reqsInExecution[l] + 1 ELSE reqsInExecution[l]]

Leave(S) ==
    reqsInExecution' = [l \in Limiters |->
        IF l \in S /\ Limited(l) THEN reqsInExecution[l] - 1 ELSE reqsInExecution[l]]

\* The limiters a request is inside of, by the await it is suspended at.
Inside(r) ==
    CASE phase[r] = "prelude" -> {Global}
      [] phase[r] = "handler" -> {Global, route[r]}
      [] OTHER -> {}

-----------------------------------------------------------------------------
(* Entering the pipeline. *)

\* A probe is answered without ever waiting: the gauge is back before any
\* other event, and only the answer is left to send.
ProbeServed(r) ==
    /\ phase[r] = "new"
    /\ ~Full(Global)
    /\ phase' = [phase EXCEPT ![r] = "responding"]
    /\ status' = [status EXCEPT ![r] = 200]
    /\ UNCHANGED <<route, stage, cancelable, cancelled, aborted, tracked,
                   wroteFirst, reqsInExecution, concurrentRequests, stats>>

\* The limiter below the tracing middleware throws; the probe's branch of that
\* middleware has no finally block, so its decrement is skipped.
ProbeRejected(r) ==
    /\ phase[r] = "new"
    /\ Full(Global)
    /\ phase' = [phase EXCEPT ![r] = "responding"]
    /\ status' = [status EXCEPT ![r] = 429]
    /\ concurrentRequests' = concurrentRequests + 1
    /\ UNCHANGED <<route, stage, cancelable, cancelled, aborted, tracked,
                   wroteFirst, reqsInExecution, stats>>

RejectedByApp(r, rt) ==
    /\ phase[r] = "new"
    /\ Full(Global)
    /\ phase' = [phase EXCEPT ![r] = "responding"]
    /\ route' = [route EXCEPT ![r] = rt]
    /\ status' = [status EXCEPT ![r] = 429]
    /\ concurrentRequests' = concurrentRequests + 1
    /\ UNCHANGED <<stage, cancelable, cancelled, aborted, tracked, wroteFirst,
                   reqsInExecution, stats>>

\* What every request does once the application's limiter lets it in: context; and,
\* unless it is an event, cancellation (safe says whether the method is a cancellable
\* one) and statistics.
EnterRoute(r, rt, safe) ==
    /\ phase[r] = "new"
    /\ ~Full(Global)
    /\ route' = [route EXCEPT ![r] = rt]
    /\ cancelable' = [cancelable EXCEPT ![r] = safe /\ rt \notin Events]
    /\ tracked' = [tracked EXCEPT ![r] = rt \notin Events]
    /\ stats' = IF rt \in Events THEN stats ELSE [stats EXCEPT !.total = @ + 1]
    /\ concurrentRequests' = concurrentRequests + 1
    /\ UNCHANGED <<stage, cancelled, aborted, wroteFirst>>

AwaitPrelude(r, rt, safe) ==
    /\ rt \in Preluded
    /\ EnterRoute(r, rt, safe)
    /\ phase' = [phase EXCEPT ![r] = "prelude"]
    /\ Enter({Global})
    /\ UNCHANGED status

RunHandler(r, rt, safe) ==
    /\ rt \notin Preluded
    /\ ~Full(rt)
    /\ EnterRoute(r, rt, safe)
    /\ phase' = [phase EXCEPT ![r] = "handler"]
    /\ Enter({Global, rt})
    /\ UNCHANGED status

\* Turned away by the route's concurrency limiter, or (tokens) by the bucket of
\* perMinuteRateLimiter, which module RateLimit models and may always be empty.
RejectedByRoute(r, rt, safe, tokens) ==
    /\ rt \notin Preluded
    /\ Full(rt) \/ ~tokens
    /\ EnterRoute(r, rt, safe)
    /\ phase' = [phase EXCEPT ![r] = "responding"]
    /\ status' = [status EXCEPT ![r] = 429]
    /\ UNCHANGED reqsInExecution

-----------------------------------------------------------------------------
(* Leaving it: finally blocks, tracing, error middleware, koa's respond. *)

\* Mutants of Unwind: a route limiter without its finally block, a gauge given
\* back by the finally block and by the end of the response, and a finally block
\* that always waits for the end of a response that may have ended already.
UnwindKeepsRouteSlot(r, code) ==
    /\ status' = [status EXCEPT ![r] = code]
    /\ Leave({Global})
    /\ phase' = [phase EXCEPT ![r] = IF aborted[r] THEN "closed" ELSE "responding"]
    /\ concurrentRequests' = IF aborted[r] THEN concurrentRequests - 1
                                           ELSE concurrentRequests
    /\ UNCHANGED <<route, stage, cancelable, cancelled, aborted, tracked,
                   wroteFirst, stats>>

UnwindAlwaysDecrements(r, code) ==
    /\ status' = [status EXCEPT ![r] = code]
    /\ Leave(Inside(r))
    /\ phase' = [phase EXCEPT ![r] = IF aborted[r] THEN "closed" ELSE "responding"]
    /\ concurrentRequests' = concurrentRequests - 1
    /\ UNCHANGED <<route, stage, cancelable, cancelled, aborted, tracked,
                   wroteFirst, stats>>

UnwindAwaitsFinish(r, code) ==
    /\ status' = [status EXCEPT ![r] = code]
    /\ Leave(Inside(r))
    /\ phase' = [phase EXCEPT ![r] = "responding"]
    /\ UNCHANGED <<route, stage, cancelable, cancelled, aborted, tracked,
                   wroteFirst, concurrentRequests, stats>>

\* The gauge is given back when the response ends; at once if it is closed.
Unwind(r, code) ==
    /\ status' = [status EXCEPT ![r] = code]
    /\ Leave(Inside(r))
    /\ phase' = [phase EXCEPT ![r] = IF aborted[r] THEN "closed" ELSE "responding"]
    /\ concurrentRequests' = IF aborted[r] THEN concurrentRequests - 1
                                           ELSE concurrentRequests
    /\ UNCHANGED <<route, stage, cancelable, cancelled, aborted, tracked,
                   wroteFirst, stats>>

\* The status line and body are out; 'finish' on the response.
ResponseFinishes(r) ==
    /\ phase[r] = "responding"
    /\ ~aborted[r]
    /\ phase' = [phase EXCEPT ![r] = "closed"]
    /\ concurrentRequests' = IF route[r] = Probe THEN concurrentRequests
                                                 ELSE concurrentRequests - 1
    /\ stats' = IF tracked[r] THEN [stats EXCEPT !.closed = @ + 1] ELSE stats
    /\ UNCHANGED <<route, stage, status, cancelable, cancelled, aborted, tracked,
                   wroteFirst, reqsInExecution>>

-----------------------------------------------------------------------------
(* The prelude: getServiceSettings, or parseBodyMiddleware of an event. *)

PreludeDone(r) ==
    /\ phase[r] = "prelude"
    /\ ~cancelled[r]
    /\ ~Full(route[r])
    /\ phase' = [phase EXCEPT ![r] = "handler"]
    /\ Enter({route[r]})
    /\ UNCHANGED <<route, stage, status, cancelable, cancelled, aborted, tracked,
                   wroteFirst, concurrentRequests, stats>>

PreludeThenRejected(r, tokens) ==
    /\ phase[r] = "prelude"
    /\ ~cancelled[r]
    /\ Full(route[r]) \/ ~tokens
    /\ Unwind(r, 429)

\* The wrapper of every middleware returns early for a cancelled request: the
\* chain ends without an error and koa's default status stays.
PreludeThenSkipped(r) ==
    /\ phase[r] = "prelude"
    /\ cancelled[r]
    /\ Unwind(r, 404)

\* The settings request fails, or the body does not parse; a cancelled request
\* may also see its own cancellation come back from the settings request.
PreludeFails(r) ==
    /\ phase[r] = "prelude"
    /\ Unwind(r, 500) \/ (cancelled[r] /\ Unwind(r, 499))

-----------------------------------------------------------------------------
(* The user's middlewares. *)

\* Mutants: the wrapper does not look at the cancellation; next() past the end.
NextMiddlewareUnwrapped(r) ==
    /\ phase[r] = "handler"
    /\ stage[r] < Middlewares
    /\ stage' = [stage EXCEPT ![r] = @ + 1]
    /\ UNCHANGED <<phase, route, status, cancelable, cancelled, aborted, tracked,
                   wroteFirst, reqsInExecution, concurrentRequests, stats>>

NextMiddlewarePastEnd(r) ==
    /\ phase[r] = "handler"
    /\ stage[r] <= Middlewares
    /\ ~cancelled[r]
    /\ stage' = [stage EXCEPT ![r] = @ + 1]
    /\ UNCHANGED <<phase, route, status, cancelable, cancelled, aborted, tracked,
                   wroteFirst, reqsInExecution, concurrentRequests, stats>>

NextMiddleware(r) ==
    /\ phase[r] = "handler"
    /\ stage[r] < Middlewares
    /\ ~cancelled[r]
    /\ stage' = [stage EXCEPT ![r] = @ + 1]
    /\ UNCHANGED <<phase, route, status, cancelable, cancelled, aborted, tracked,
                   wroteFirst, reqsInExecution, concurrentRequests, stats>>

\* Mutant: the write gets no token of its own but leaves the request cancelable.
WriteWithoutShield(r) ==
    /\ phase[r] = "handler"
    /\ wroteFirst' = [wroteFirst EXCEPT ![r] = @ \/ ~aborted[r]]
    /\ UNCHANGED <<phase, route, stage, status, cancelable, cancelled, aborted,
                   tracked, reqsInExecution, concurrentRequests, stats>>

\* A client call whose method is not a cancellable one goes out.
Write(r) ==
    /\ phase[r] = "handler"
    /\ cancelable' = [cancelable EXCEPT ![r] = FALSE]
    /\ wroteFirst' = [wroteFirst EXCEPT ![r] = @ \/ ~aborted[r]]
    /\ UNCHANGED <<phase, route, stage, status, cancelled, aborted, tracked,
                   reqsInExecution, concurrentRequests, stats>>

\* The chain also ends where a middleware does not call next, and where the wrapper
\* skips the next one for a cancelled request; koa's 404 stays if nobody set a status,
\* which the pipeline of an event always does once its own chain is over.
HandlerReturns(r) ==
    /\ phase[r] = "handler"
    /\ Unwind(r, 200) \/ (route[r] \notin Events /\ Unwind(r, 404))

HandlerThrows(r) ==
    /\ phase[r] = "handler"
    /\ Unwind(r, 500)

\* A client call that carried the request's token was cancelled, and the user's
\* code let the RequestCancelledError through.
HandlerCancelled(r) ==
    /\ phase[r] = "handler"
    /\ cancelled[r]
    /\ Unwind(r, 499)

-----------------------------------------------------------------------------
(* The client. *)

\* Mutant: the statistics also see events and requests that the limiter turned away.
ClientAbortsUntracked(r) ==
    /\ phase[r] \in {"prelude", "handler", "responding"}
    /\ ~aborted[r]
    /\ aborted' = [aborted EXCEPT ![r] = TRUE]
    /\ cancelled' = [cancelled EXCEPT ![r] = cancelable[r]]
    /\ stats' = [stats EXCEPT !.aborted = @ + 1, !.closed = @ + 1]
    /\ phase' = [phase EXCEPT ![r] = IF @ = "responding" THEN "closed" ELSE @]
    /\ concurrentRequests' = IF phase[r] = "responding" /\ route[r] # Probe
                             THEN concurrentRequests - 1
                             ELSE concurrentRequests
    /\ UNCHANGED <<route, stage, status, cancelable, tracked, wroteFirst,
                   reqsInExecution>>

\* 'aborted' and 'close' on the request, 'close' on the response.  The handlers
\* of the first exist only on a tracked request: not on an event, nor on one the
\* replica's limiter turned away.
ClientAborts(r) ==
    /\ phase[r] \in {"prelude", "handler", "responding"}
    /\ ~aborted[r]
    /\ aborted' = [aborted EXCEPT ![r] = TRUE]
    /\ cancelled' = [cancelled EXCEPT ![r] = tracked[r] /\ cancelable[r]]
    /\ stats' = IF tracked[r]
                THEN [stats EXCEPT !.aborted = @ + 1, !.closed = @ + 1]
                ELSE stats
    /\ phase' = [phase EXCEPT ![r] = IF @ = "responding" THEN "closed" ELSE @]
    /\ concurrentRequests' = IF phase[r] = "responding" /\ route[r] # Probe
                             THEN concurrentRequests - 1
                             ELSE concurrentRequests
    /\ UNCHANGED <<route, stage, status, cancelable, tracked, wroteFirst,
                   reqsInExecution>>

-----------------------------------------------------------------------------

Arrive(r) ==
    \/ ProbeServed(r)
    \/ ProbeRejected(r)
    \/ \E rt \in Routes : RejectedByApp(r, rt)
    \/ \E rt \in Routes, safe \in BOOLEAN :
        \/ AwaitPrelude(r, rt, safe)
        \/ RunHandler(r, rt, safe)
        \/ \E tokens \in BOOLEAN : RejectedByRoute(r, rt, safe, tokens)

Prelude(r) ==
    \/ PreludeDone(r)
    \/ \E tokens \in BOOLEAN : PreludeThenRejected(r, tokens)
    \/ PreludeThenSkipped(r)
    \/ PreludeFails(r)

Handler(r) ==
    \/ NextMiddleware(r)
    \/ HandlerReturns(r)
    \/ HandlerThrows(r)
    \/ HandlerCancelled(r)

Next ==
    \E r \in Requests :
        \/ Arrive(r)
        \/ Prelude(r)
        \/ Handler(r)
        \/ Write(r)
        \/ ResponseFinishes(r)
        \/ ClientAborts(r)

\* The prelude and the handler end (client calls have timeouts, and the user's
\* code is taken to terminate), and the server's socket flushes or closes.
Fairness ==
    \A r \in Requests :
        WF_vars(Prelude(r)) /\ WF_vars(Handler(r)) /\ WF_vars(ResponseFinishes(r))

Spec == Init /\ [][Next]_vars /\ Fairness

-----------------------------------------------------------------------------
(* Properties. *)

\* The requests inside a limiter; in course; tracked, and of these the closed and
\* the aborted ones; the probes turned away.
Holders(l) == {r \in Requests : l \in Inside(r)}

InCourse == {r \in Requests :
    phase[r] \in {"prelude", "handler", "responding"} /\ route[r] # Probe}

Tracked == {r \in Requests : tracked[r]}
TrackedClosed == {r \in Requests : tracked[r] /\ (aborted[r] \/ phase[r] = "closed")}
TrackedAborted == {r \in Requests : tracked[r] /\ aborted[r]}

LeakedProbes == {r \in Requests : phase[r] # "new" /\ route[r] = Probe /\ status[r] = 429}

\* Each limiter's counter is the number of requests inside it on every path out
\* of the pipeline (return, throw, cancellation, early return), and never more
\* than the configured maximum; the unwinding of requests turned away by an inner
\* limiter gives back exactly the outer slot it took.
LimiterAccounting ==
    \A l \in Limiters : Limited(l) =>
        /\ reqsInExecution[l] = Cardinality(Holders(l))
        /\ reqsInExecution[l] <= MaxRequests[l]

\* The gauge is the number of requests in course plus one for each probe ever
\* turned away: neither an abort before or after the unwinding nor a response
\* that ends first makes it lose or double a decrement.
GaugeAccounting ==
    concurrentRequests = Cardinality(InCourse) + Cardinality(LeakedProbes)

\* A tracked request, which is one that the pipeline of an HTTP route let in, is
\* counted once as closed, and once as aborted when its client left, whichever of the
\* response's end and the abort comes first; events and what the replica's limiter
\* turned away are not counted at all.
StatsAccounting ==
    /\ \A r \in Tracked : route[r] \in Routes \ Events
    /\ stats.total = Cardinality(Tracked)
    /\ stats.closed = Cardinality(TrackedClosed)
    /\ stats.aborted = Cardinality(TrackedAborted)

\* Once a handler has issued a write, its client's leaving cancels nothing: the
\* request runs to its end and is never answered 499.
WriteShieldsRequest ==
    \A r \in Requests : wroteFirst[r] => ~cancelled[r] /\ status[r] # 499

\* A request cancelled while it waited does not go on: it starts no further
\* middleware and takes no slot of its route's limiter.
CancelledGoesNoFurther ==
    [][\A r \in Requests : cancelled[r] =>
        /\ stage'[r] = stage[r]
        /\ Inside(r)' \subseteq Inside(r)]_vars

\* Every request let in ends, and with it its slots and its part of the gauge.
EveryRequestCloses ==
    \A r \in Requests : (phase[r] # "new") ~> (phase[r] = "closed")

=============================================================================
