------------------------------- MODULE Metrics -------------------------------
(***************************************************************************)
(* What is told of the calls of one client: the spans of their attempts,   *)
(* and the counters that metricsMiddleware batches in the accumulator,     *)
(* until a status track flushes them.  The calls are of one metric and one *)
(* key, and may share a memoized promise or a flight.  The labels of       *)
(* retries are left out: they read the configuration of the call, and      *)
(* retries are counted in the copy of it that axios makes.                 *)
(***************************************************************************)
EXTENDS Naturals, FiniteSets

CONSTANTS
    Callers,    \* the calls
    MaxRetries  \* config.retries

ASSUME CallersAssumption == IsFiniteSet(Callers) /\ 0 \notin Callers /\ MaxRetries \in Nat

VARIABLES
    course,    \* "new", "joined", "lookup", "attempt", "backoff", "ended"
    memo, flight,  \* the call whose promise each map holds; 0: none
    joins,     \* the call a joined call awaits, and by which map
    shared,    \* calls with an inflightKey, which lose their cancel token
    cancelled, \* the incoming request was aborted
    retries,   \* retryCount
    open,      \* attempts whose span is not finished
    label,     \* status
    marks,     \* which of cacheHit, inflightHit and memoizedHit are set
    thrown,    \* calls that ended with an error
    sent,      \* observer: calls that were sent to the origin
    batched, flushed  \* what the accumulator holds, and what it has logged

metricsVars == <<course, memo, flight, joins, shared, cancelled, retries, open,
                 label, marks, thrown, sent, batched, flushed>>

\* What a call is, and what the accumulator knows.
callCourse == <<memo, flight, joins, shared, cancelled>>
accumulator == <<batched, flushed>>

NoJoin == [call |-> 0, by |-> "none"]
\* Statuses; "error" is also for time-outs and for errors that have another label.
Labels == {"success", "4xx", "error", "cancelled"}
\* The extensions of a metric, one counter for each status and kind.
Kinds == {"total", "hit", "inflight", "memoized", "miss"}
Counters == Labels \X Kinds
NothingYet == [samples |-> 0, extensions |-> [k \in Counters |-> 0]]

MetricsInit ==
    /\ course = [c \in Callers |-> "new"]
    /\ memo = 0 /\ flight = 0
    /\ joins = [c \in Callers |-> NoJoin]
    /\ shared = {} /\ cancelled = FALSE
    /\ retries = [c \in Callers |-> 0]
    /\ open = [c \in Callers |-> {}]
    /\ label = [c \in Callers |-> "unknown"]
    /\ marks = [c \in Callers |-> {}]
    /\ thrown = {} /\ sent = {}
    /\ batched = NothingYet /\ flushed = NothingYet

-----------------------------------------------------------------------------

\* batch: a time if the call succeeded at the origin, and the extensions.
Extensions(l, ms) ==
    {<<l, "total">>} \cup {<<l, k>> : k \in IF ms = {} THEN {"miss"} ELSE ms}
Bit(b) == IF b THEN 1 ELSE 0
BatchMetric(l, ms) ==
    batched' = [samples |-> batched.samples + Bit(l = "success" /\ ms = {}),
                extensions |-> [k \in Counters |->
                    batched.extensions[k] + Bit(k \in Extensions(l, ms))]]

\* The way up: the leader's entry of the inflight map, and metricsMiddleware.
Ends(c, l, ms, throws) ==
    /\ course' = [course EXCEPT ![c] = "ended"]
    /\ label' = [label EXCEPT ![c] = l]
    /\ marks' = [marks EXCEPT ![c] = ms]
    /\ thrown' = IF throws THEN thrown \cup {c} ELSE thrown
    /\ flight' = IF flight = c THEN 0 ELSE flight
    /\ BatchMetric(l, ms)

\* A call may be memoizable and may have an inflightKey.  One that finds its key in
\* a map awaits that promise, one that does not leaves its own.
JoinMemo(c) ==
    /\ course[c] = "new" /\ memo # 0
    /\ joins' = [joins EXCEPT ![c] = [call |-> memo, by |-> "memoized"]]
    /\ course' = [course EXCEPT ![c] = "joined"]
    /\ UNCHANGED <<memo, flight, shared, cancelled, retries, open, label, marks,
                   thrown, sent, accumulator>>

JoinInflight(c, memoizable) ==
    /\ course[c] = "new" /\ flight # 0
    /\ memoizable => memo = 0
    /\ memo' = IF memoizable THEN c ELSE memo
    /\ joins' = [joins EXCEPT ![c] = [call |-> flight, by |-> "inflight"]]
    /\ course' = [course EXCEPT ![c] = "joined"]
    /\ shared' = shared \cup {c}
    /\ UNCHANGED <<flight, cancelled, retries, open, label, marks, thrown, sent,
                   accumulator>>

Lead(c, memoizable, keyed) ==
    /\ course[c] = "new"
    /\ memoizable => memo = 0
    /\ keyed => flight = 0
    /\ memo' = IF memoizable THEN c ELSE memo
    /\ flight' = IF keyed THEN c ELSE flight
    /\ shared' = IF keyed THEN shared \cup {c} ELSE shared
    /\ course' = [course EXCEPT ![c] = "lookup"]
    /\ UNCHANGED <<joins, cancelled, retries, open, label, marks, thrown, sent,
                   accumulator>>

\* A promise that is rejected is thrown where it is awaited, before the mark.
JoinedEnds(c) ==
    /\ course[c] = "joined" /\ course[joins[c].call] = "ended"
    /\ LET d == joins[c].call IN
       Ends(c, label[d], IF d \in thrown THEN {} ELSE {joins[c].by}, d \in thrown)
    /\ UNCHANGED <<memo, joins, shared, cancelled, retries, open, sent, flushed>>

\* What is in memory may be a 404 that was accepted as null (nullIfNotFound).
FreshHit(c) ==
    /\ course[c] = "lookup"
    /\ \E l \in {"success", "4xx"} : Ends(c, l, {"hit"}, FALSE)
    /\ UNCHANGED <<memo, joins, shared, cancelled, retries, open, sent, flushed>>

\* preRequestInterceptor starts a span; axios sends, if the token is not cancelled.
Attempt(c) ==
    /\ course' = [course EXCEPT ![c] = "attempt"]
    /\ open' = [open EXCEPT ![c] = @ \cup {retries[c]}]
    /\ sent' = IF cancelled /\ c \notin shared THEN sent ELSE sent \cup {c}

MissOrStale(c) ==
    /\ course[c] = "lookup"
    /\ Attempt(c)
    /\ UNCHANGED <<memo, flight, joins, shared, cancelled, retries, label, marks, thrown,
                   accumulator>>

\* The interceptor of responses finishes the span of the attempt, which is the one
\* the configuration names.
Finishes(c) == open' = [open EXCEPT ![c] = @ \ {retries[c]}]

Underway(c) == course[c] = "attempt" /\ c \in sent /\ ~(cancelled /\ c \notin shared)

\* A 304 and a hit of the router's cache are hits; a 404 may be accepted as null,
\* the router's and one that a 304 says still holds included.
Answered(c) ==
    /\ Underway(c)
    /\ Finishes(c)
    /\ \E l \in {"success", "4xx"}, ms \in {{}, {"hit"}} : Ends(c, l, ms, FALSE)
    /\ UNCHANGED <<memo, joins, shared, cancelled, retries, sent, flushed>>

\* The attempt fails, and exponentialBackoff retries or rejects.  Mutant: that
\* interceptor comes first, and the span is left to the last of the attempts.
RetryBeforeTracing(c) ==
    /\ Underway(c) /\ retries[c] < MaxRetries
    /\ course' = [course EXCEPT ![c] = "backoff"]
    /\ retries' = [retries EXCEPT ![c] = @ + 1]
    /\ UNCHANGED <<callCourse, open, label, marks, thrown, sent, accumulator>>
Retry(c) ==
    /\ Underway(c) /\ retries[c] < MaxRetries
    /\ Finishes(c)
    /\ course' = [course EXCEPT ![c] = "backoff"]
    /\ retries' = [retries EXCEPT ![c] = @ + 1]
    /\ UNCHANGED <<callCourse, label, marks, thrown, sent, accumulator>>

Resend(c) ==
    /\ course[c] = "backoff"
    /\ Attempt(c)
    /\ UNCHANGED <<callCourse, retries, label, marks, thrown, accumulator>>

Rejected(c) ==
    /\ Underway(c)
    /\ Finishes(c)
    /\ Ends(c, "error", {}, TRUE)
    /\ UNCHANGED <<memo, joins, shared, cancelled, retries, sent, flushed>>

\* axios rejects with a Cancel, which has no configuration to find a span by.
Cancelled(c) ==
    /\ course[c] = "attempt" /\ cancelled /\ c \notin shared
    /\ Ends(c, "cancelled", {}, TRUE)
    /\ UNCHANGED <<memo, joins, shared, cancelled, retries, open, sent, flushed>>

RequestAborted ==
    /\ ~cancelled /\ cancelled' = TRUE
    /\ UNCHANGED <<course, memo, flight, joins, shared, retries, open, label, marks,
                   thrown, sent, accumulator>>

\* statusTrack: what is batched is logged and deleted, times and extensions both.
StatusTrack ==
    /\ batched # NothingYet
    /\ flushed' = [samples |-> flushed.samples + batched.samples,
                   extensions |-> [k \in Counters |->
                       flushed.extensions[k] + batched.extensions[k]]]
    /\ batched' = NothingYet
    /\ UNCHANGED <<course, callCourse, retries, open, label, marks, thrown, sent>>

MetricsNext ==
    \/ RequestAborted \/ StatusTrack
    \/ \E c \in Callers :
          \/ JoinMemo(c)
          \/ \E memoizable \in BOOLEAN : JoinInflight(c, memoizable)
          \/ \E memoizable, keyed \in BOOLEAN : Lead(c, memoizable, keyed)
          \/ JoinedEnds(c) \/ FreshHit(c) \/ MissOrStale(c) \/ Answered(c)
          \/ Retry(c) \/ Resend(c) \/ Rejected(c) \/ Cancelled(c)

MetricsSpec == MetricsInit /\ [][MetricsNext]_metricsVars

-----------------------------------------------------------------------------

MetricsTypeOK ==
    /\ course \in [Callers -> {"new", "joined", "lookup", "attempt", "backoff", "ended"}]
    /\ label \in [Callers -> Labels \cup {"unknown"}]
    /\ \A c \in Callers : open[c] \subseteq 0..MaxRetries /\ retries[c] <= MaxRetries
    /\ batched.samples + flushed.samples <= Cardinality(Callers)

EndedCalls == {c \in Callers : course[c] = "ended"}
Logged(l, k) == batched.extensions[<<l, k>>] + flushed.extensions[<<l, k>>]

\* "Lets us know how many calls passed through to origin": of the calls that were
\* answered, the misses are those that were sent and answered by the origin itself,
\* neither by a 304 nor by the router's cache; but a call that fails is a miss
\* whether it was sent, or refused because its request had been aborted, or only
\* waited for another that failed.  Every call is in one flush, under one status.
MissesReachOrigin ==
    /\ \A l \in Labels : Logged(l, "total") = Cardinality({c \in EndedCalls : label[c] = l})
    /\ \A l \in Labels : Logged(l, "miss") = Cardinality({c \in EndedCalls :
           label[c] = l /\ (c \in thrown \/ (c \in sent /\ "hit" \notin marks[c]))})
    /\ batched.samples + flushed.samples = Logged("success", "miss")

\* A span is open only while its attempt is under way, so that no attempt's span
\* waits for the retries; that of an attempt which was cancelled stays open.
SpansFollowAttempts ==
    \A c \in Callers :
        open[c] = IF course[c] = "attempt" \/ (label[c] = "cancelled" /\ joins[c] = NoJoin)
                  THEN {retries[c]} ELSE {}

\* What is told of a call is what happened to it: its counters and its spans.
CallsAccountedFor == MissesReachOrigin /\ SpansFollowAttempts

=============================================================================
