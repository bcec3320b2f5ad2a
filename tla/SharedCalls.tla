----------------------------- MODULE SharedCalls -----------------------------
(***************************************************************************)
(* Outgoing calls of the HttpClients of one worker: memoization (one map   *)
(* for each client, that is for each incoming request), cancellation by    *)
(* the incoming request's client, single flight (one map for the worker),  *)
(* and axios' request with the retries of exponentialBackoff.  The origin  *)
(* keeps a version for each resource, which writes increment.              *)
(*                                                                         *)
(* A call runs without interruption until it awaits a shared promise or a  *)
(* request, so entering the middleware chain is one action.  The promise   *)
(* a follower awaits is settled exactly when its leader is, and stands     *)
(* here for the leader itself.                                             *)
(***************************************************************************)
EXTENDS Integers, FiniteSets

CONSTANTS
    Calls,      \* identities of the outgoing calls
    Clients,    \* HttpClients, each made for one incoming request
    Keys,       \* resources, told apart by cacheKey
    ClientOf,   \* the client that makes each call
    FlightKey,  \* the inflightKey of each resource
    SafeMethod, \* whether the incoming request of each client is a GET, HEAD or OPTIONS
    Modes,      \* the kinds of calls that are made
    Retries,    \* the retries option of each client
    NoCall      \* the absence of an entry in a map

FlightKeys == {FlightKey[k] : k \in Keys}

\* write: a method that is not cancellable, as put, post, patch and delete make;
\* memo: memoizable and cacheable, as get and getRaw are by default;
\* flight: an inflightKey is configured, which only reads do.
AllModes == {m \in [write : BOOLEAN, memo : BOOLEAN, flight : BOOLEAN] :
                m.write => ~m.memo /\ ~m.flight}

ASSUME ConstantsAssumption ==
    /\ IsFiniteSet(Calls)
    /\ ClientOf \in [Calls -> Clients]
    /\ FlightKey \in [Keys -> FlightKeys]
    /\ SafeMethod \in [Clients -> BOOLEAN]
    /\ Modes \subseteq AllModes
    /\ Retries \in [Clients -> Nat]
    /\ NoCall \notin Calls
    /\ NoCall \notin Keys /\ NoCall \notin Clients \X Keys
    /\ Keys # {}

VARIABLES
    stage,       \* where each call is in the chain
    key,         \* the resource it asks for
    mode,        \* its kind
    leader,      \* the call whose promise it awaits
    token,       \* whether config.cancelToken reaches axios
    retryCount,  \* config.retryCount
    reply,       \* the version in the origin's answer to the last attempt
    outcome,     \* what the call settled with
    memo,        \* memoizedCache of each client
    inflight,    \* the module-wide map of singleFlightMiddleware
    cancelable,  \* ctx.vtex.cancellation.cancelable of each incoming request
    cancelled,   \* its cancellation source was used
    abandoned,   \* network: attempts of a write given up on before being handled
    version,     \* origin: the version of each resource
    executed,    \* observer: how often the origin handled each write
    floor        \* observer: the oldest version that may answer each call

callVars == <<stage, key, mode, leader, token, retryCount, reply, outcome>>
mapVars == <<memo, inflight>>
originVars == <<abandoned, version, executed>>
vars == <<callVars, mapVars, cancelable, cancelled, originVars, floor>>

Pending == [kind |-> "pending", key |-> NoCall, version |-> 0]
Failed(kind) == [kind |-> kind, key |-> NoCall, version |-> 0]
Answered(k, v) == [kind |-> "ok", key |-> k, version |-> v]
Outcomes == [kind : {"pending", "ok", "error", "cancelled"},
             key : Keys \cup {NoCall}, version : Nat]

Waiting == {"memoWait", "flightWait"}
Requesting == {"queued", "sent", "answered", "backoff"}
Settled(c) == stage[c] = "settled"

\* The call that owns the entry of a flight; TRUE also once it has settled.
LedFlight(c) == mode[c].flight /\ leader[c] = c

RetriesOf(c) == Retries[ClientOf[c]]

TypeOK ==
    /\ stage \in [Calls -> Waiting \cup Requesting \cup {"idle", "settled"}]
    /\ key \in [Calls -> Keys]
    /\ mode \in [Calls -> AllModes]
    /\ leader \in [Calls -> Calls]
    /\ token \in [Calls -> BOOLEAN]
    /\ retryCount \in [Calls -> Nat]
    /\ \A c \in Calls : retryCount[c] <= RetriesOf(c)
    /\ reply \in [Calls -> Nat]
    /\ outcome \in [Calls -> Outcomes]
    /\ memo \in [Clients -> [Keys -> Calls \cup {NoCall}]]
    /\ inflight \in [FlightKeys -> Calls \cup {NoCall}]
    /\ cancelable \in [Clients -> BOOLEAN]
    /\ cancelled \in [Clients -> BOOLEAN]
    /\ abandoned \in [Calls -> Nat]
    /\ version \in [Keys -> Nat]
    /\ executed \in [Calls -> Nat]
    /\ floor \in [Calls -> Nat]

Init ==
    /\ stage = [c \in Calls |-> "idle"]
    /\ key = [c \in Calls |-> CHOOSE k \in Keys : TRUE]
    /\ mode = [c \in Calls |-> [write |-> FALSE, memo |-> FALSE, flight |-> FALSE]]
    /\ leader = [c \in Calls |-> c]
    /\ token = [c \in Calls |-> FALSE]
    /\ retryCount = [c \in Calls |-> 0]
    /\ reply = [c \in Calls |-> 0]
    /\ outcome = [c \in Calls |-> Pending]
    /\ memo = [cl \in Clients |-> [k \in Keys |-> NoCall]]
    /\ inflight = [f \in FlightKeys |-> NoCall]
    /\ cancelable = SafeMethod
    /\ cancelled = [cl \in Clients |-> FALSE]
    /\ abandoned = [c \in Calls |-> 0]
    /\ version = [k \in Keys |-> 0]
    /\ executed = [c \in Calls |-> 0]
    /\ floor = [c \in Calls |-> 0]

-----------------------------------------------------------------------------
(* Entering the chain. *)

\* inflightURL or inflightUrlWithQuery.
FlightOf(k) == FlightKey[k]

Begin(c, k, m, d) ==
    /\ stage[c] = "idle"
    /\ key' = [key EXCEPT ![c] = k]
    /\ mode' = [mode EXCEPT ![c] = m]
    /\ leader' = [leader EXCEPT ![c] = d]
    /\ UNCHANGED <<retryCount, reply, outcome, cancelled, originVars>>

\* memoizationMiddleware finds the key: the rest of the chain is not entered.
AwaitMemo(c, k, m) ==
    LET d == memo[ClientOf[c]][k] IN
    /\ m.memo
    /\ d # NoCall
    /\ Begin(c, k, m, d)
    /\ stage' = [stage EXCEPT ![c] = "memoWait"]
    /\ floor' = [floor EXCEPT ![c] = floor[d]]
    /\ UNCHANGED <<token, memo, inflight, cancelable>>

\* Mutant: single flight leaves the token where it is.
MemoizeAndKeepToken(c, k, m) ==
    LET cl == ClientOf[c] IN
    /\ m.memo => memo[cl][k] = NoCall
    /\ memo' = IF m.memo THEN [memo EXCEPT ![cl][k] = c] ELSE memo
    /\ cancelable' = IF m.write THEN [cancelable EXCEPT ![cl] = FALSE] ELSE cancelable
    /\ token' = [token EXCEPT ![c] = cancelable[cl] /\ ~m.write]

\* Past memoization: the entry is made, a write makes the incoming request not
\* cancelable, and the call takes a token unless singleFlight takes it away.
MemoizeAndGuard(c, k, m) ==
    LET cl == ClientOf[c] IN
    /\ m.memo => memo[cl][k] = NoCall
    /\ memo' = IF m.memo THEN [memo EXCEPT ![cl][k] = c] ELSE memo
    /\ cancelable' = IF m.write THEN [cancelable EXCEPT ![cl] = FALSE] ELSE cancelable
    /\ token' = [token EXCEPT ![c] = cancelable[cl] /\ ~m.write /\ ~m.flight]

\* singleFlightMiddleware finds the key.
AwaitFlight(c, k, m) ==
    LET d == inflight[FlightOf(k)] IN
    /\ m.flight
    /\ d # NoCall
    /\ Begin(c, k, m, d)
    /\ MemoizeAndGuard(c, k, m)
    /\ stage' = [stage EXCEPT ![c] = "flightWait"]
    /\ floor' = [floor EXCEPT ![c] = IF Settled(d) THEN version[k] ELSE floor[d]]
    /\ UNCHANGED inflight

\* The call makes a request of its own.
Lead(c, k, m) ==
    /\ m.flight => inflight[FlightOf(k)] = NoCall
    /\ Begin(c, k, m, c)
    /\ MemoizeAndGuard(c, k, m)
    /\ stage' = [stage EXCEPT ![c] = "queued"]
    /\ inflight' = IF m.flight THEN [inflight EXCEPT ![FlightOf(k)] = c] ELSE inflight
    /\ floor' = [floor EXCEPT ![c] = version[k]]

-----------------------------------------------------------------------------
(* Settling. *)

\* Mutants: the entry of a flight stays; the memo entry of a failure goes.
SettleKeepingFlight(c, o) ==
    /\ stage' = [stage EXCEPT ![c] = "settled"]
    /\ outcome' = [outcome EXCEPT ![c] = o]
    /\ UNCHANGED <<key, mode, leader, token, reply, mapVars, cancelable, cancelled, floor>>

SettleForgettingFailures(c, o) ==
    /\ stage' = [stage EXCEPT ![c] = "settled"]
    /\ outcome' = [outcome EXCEPT ![c] = o]
    /\ inflight' = IF LedFlight(c) THEN [inflight EXCEPT ![FlightOf(key[c])] = NoCall]
                                   ELSE inflight
    /\ memo' = IF mode[c].memo /\ o.kind # "ok"
               THEN [memo EXCEPT ![ClientOf[c]][key[c]] = NoCall] ELSE memo
    /\ UNCHANGED <<key, mode, leader, token, reply, cancelable, cancelled, floor>>

\* The promise of a leader settles, and its entry in the inflight map goes; the
\* entry in the memo map stays, that of a failed call included.
Settle(c, o) ==
    /\ stage' = [stage EXCEPT ![c] = "settled"]
    /\ outcome' = [outcome EXCEPT ![c] = o]
    /\ inflight' = IF LedFlight(c) THEN [inflight EXCEPT ![FlightOf(key[c])] = NoCall]
                                   ELSE inflight
    /\ UNCHANGED <<key, mode, leader, token, reply, memo, cancelable, cancelled, floor>>

\* Mutant: the executor of the shared promise does not reject it.
FollowSuccess(c) ==
    /\ stage[c] \in Waiting
    /\ Settled(leader[c])
    /\ outcome[leader[c]].kind = "ok"
    /\ Settle(c, outcome[leader[c]])
    /\ UNCHANGED <<retryCount, originVars>>

\* A follower's await returns, or throws what the leader's request threw.
Follow(c) ==
    /\ stage[c] \in Waiting
    /\ Settled(leader[c])
    /\ Settle(c, outcome[leader[c]])
    /\ UNCHANGED <<retryCount, originVars>>

-----------------------------------------------------------------------------
(* The request of a leader: axios and the retry interceptor. *)

TokenUsed(c) == token[c] /\ cancelled[ClientOf[c]]

\* An attempt given up on may still reach the origin: only a write leaves a trace.
Abandon(c) ==
    abandoned' = IF stage[c] = "sent" /\ mode[c].write
                 THEN [abandoned EXCEPT ![c] = @ + 1] ELSE abandoned

LateHandling(c) ==
    /\ abandoned[c] > 0
    /\ abandoned' = [abandoned EXCEPT ![c] = @ - 1]
    /\ version' = [version EXCEPT ![key[c]] = @ + 1]
    /\ executed' = [executed EXCEPT ![c] = @ + 1]
    /\ UNCHANGED <<callVars, mapVars, cancelable, cancelled, floor>>

\* Out of p-limit's queue, or out of the delay before a retry.
Dispatch(c) ==
    /\ stage[c] \in {"queued", "backoff"}
    /\ ~TokenUsed(c)
    /\ stage' = [stage EXCEPT ![c] = "sent"]
    /\ UNCHANGED <<key, mode, leader, token, retryCount, reply, outcome, mapVars,
                   cancelable, cancelled, originVars, floor>>

\* axios refuses a config whose token was used, or gives up the request; what it
\* throws has no config, so the interceptor does not retry it.  During the delay
\* before a retry nobody listens, and the delay runs out first.
Cancelled(c) ==
    /\ stage[c] \in Requesting
    /\ TokenUsed(c)
    /\ Settle(c, Failed("cancelled"))
    /\ UNCHANGED <<retryCount, originVars>>

\* The origin handles the request; its answer is under way.
OriginHandles(c) ==
    /\ stage[c] = "sent"
    /\ stage' = [stage EXCEPT ![c] = "answered"]
    /\ version' = IF mode[c].write THEN [version EXCEPT ![key[c]] = @ + 1] ELSE version
    /\ reply' = [reply EXCEPT ![c] = version'[key[c]]]
    /\ executed' = IF mode[c].write THEN [executed EXCEPT ![c] = @ + 1] ELSE executed
    /\ UNCHANGED <<key, mode, leader, token, retryCount, outcome, mapVars,
                   cancelable, cancelled, abandoned, floor>>

Answer(c) ==
    /\ stage[c] = "answered"
    /\ Settle(c, Answered(key[c], reply[c]))
    /\ UNCHANGED <<retryCount, originVars>>

\* Mutant: the comparison admits one retry too many.
RetryOneMore(c) ==
    /\ stage[c] \in {"sent", "answered"}
    /\ retryCount[c] <= RetriesOf(c)
    /\ retryCount' = [retryCount EXCEPT ![c] = @ + 1]
    /\ stage' = [stage EXCEPT ![c] = "backoff"]
    /\ Abandon(c)
    /\ UNCHANGED <<key, mode, leader, token, reply, outcome, mapVars, cancelable,
                   cancelled, version, executed, floor>>

\* A time-out, a connection lost before or after the origin handled the request,
\* or a server error: tried again after a delay, while retries remain.
Retry(c) ==
    /\ stage[c] \in {"sent", "answered"}
    /\ retryCount[c] < RetriesOf(c)
    /\ retryCount' = [retryCount EXCEPT ![c] = @ + 1]
    /\ stage' = [stage EXCEPT ![c] = "backoff"]
    /\ Abandon(c)
    /\ UNCHANGED <<key, mode, leader, token, reply, outcome, mapVars, cancelable,
                   cancelled, version, executed, floor>>

\* The retries are used up, or the failure is not one to retry.
Fail(c) ==
    /\ stage[c] \in {"sent", "answered"}
    /\ Settle(c, Failed("error"))
    /\ Abandon(c)
    /\ UNCHANGED <<retryCount, version, executed>>

-----------------------------------------------------------------------------

\* requestAborted of the incoming request a client serves.
ClientAborts(cl) ==
    /\ cancelable[cl]
    /\ ~cancelled[cl]
    /\ cancelled' = [cancelled EXCEPT ![cl] = TRUE]
    /\ UNCHANGED <<callVars, mapVars, cancelable, originVars, floor>>

Enter(c) ==
    \E k \in Keys, m \in Modes :
        AwaitMemo(c, k, m) \/ AwaitFlight(c, k, m) \/ Lead(c, k, m)

Progress(c) ==
    \/ Follow(c)
    \/ Dispatch(c)
    \/ Cancelled(c)
    \/ OriginHandles(c)
    \/ Answer(c)
    \/ Retry(c)
    \/ Fail(c)

Next ==
    \/ \E c \in Calls : Enter(c) \/ Progress(c) \/ LateHandling(c)
    \/ \E cl \in Clients : ClientAborts(cl)

\* Shared promises are resumed, delays run out, and a request ends because axios
\* applies config.timeout to every attempt.
Fairness == \A c \in Calls : WF_vars(Progress(c))

Spec == Init /\ [][Next]_vars /\ Fairness

-----------------------------------------------------------------------------
(* Properties. *)

\* The inflight map holds exactly the requests under way that asked for sharing,
\* one for each key: no second request for a resource while one is under way, and
\* nobody joins a request that has ended, whether it succeeded, failed or retried.
FlightEntries ==
    \A c \in Calls :
        LedFlight(c) /\ stage[c] \in Requesting <=> \E f \in FlightKeys :
            inflight[f] = c /\ f = FlightKey[key[c]]

\* A call fails as cancelled only if its own incoming request was: a request that
\* others share, or that is led for others, is not cancelled under them.
CancelStaysHome ==
    \A c \in Calls : outcome[c].kind = "cancelled" => cancelled[ClientOf[c]]

\* A call sees everything the origin had handled when the call began or, if it
\* joined a request under way, when that request began.
NotOlderThanFlight ==
    \A c \in Calls : outcome[c].kind = "ok" => outcome[c].version >= floor[c]

\* The origin executes a write at most once more than it was retried, late arrivals
\* of attempts given up on included, and one that was answered at least once.
ExecutionsBounded ==
    \A c \in Calls :
        /\ executed[c] <= retryCount[c] + 1
        /\ executed[c] <= RetriesOf(c) + 1
        /\ outcome[c].kind = "ok" /\ mode[c].write => executed[c] >= 1

\* Every call settles, leaders and followers alike.
EveryCallSettles == \A c \in Calls : (stage[c] # "idle") ~> Settled(c)

\* Memoization implements WriteOnce: within one client, all memoized calls for a
\* resource settle with one and the same outcome, a failure included.
Slots == Clients \X Keys
Asks(c) == stage[c] # "idle" /\ mode[c].memo

Memo == INSTANCE WriteOnce WITH
    Unasked <- NoCall,
    Answers <- Outcomes \ {Pending},
    asked <- [c \in Calls |-> IF Asks(c) THEN <<ClientOf[c], key[c]>> ELSE NoCall],
    decided <- [s \in Slots |-> IF memo[s[1]][s[2]] = NoCall THEN Pending
                                ELSE outcome[memo[s[1]][s[2]]]],
    got <- [c \in Calls |-> IF mode[c].memo THEN outcome[c] ELSE Pending]

MemoIsWriteOnce == Memo!Init /\ [][Memo!Next]_(Memo!wvars)

=============================================================================
