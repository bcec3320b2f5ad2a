------------------------------ MODULE RateLimit ------------------------------
(***************************************************************************)
(* The requests-per-minute limiters of one worker: a token bucket for each *)
(* route (or event) that configures a limit, all children of the bucket of *)
(* the replica, which routes without a limit of their own use directly.    *)
(*                                                                         *)
(* A minute is Minute ticks.  Tokens are counted in units of 1/Minute of a *)
(* token, so that a tick adds a whole number of them.  The library fills a *)
(* bucket when it is asked for tokens, in proportion to the time since the *)
(* last fill and up to its size; filling at every tick gives the same      *)
(* contents at every such moment, because capping twice is capping once.   *)
(***************************************************************************)
EXTENDS Integers, FiniteSets

CONSTANTS
    Routes,     \* routes and events of the app
    Replica,    \* name of the bucket shared by all of them
    Limit,      \* rateLimitPerReplica.perMinute of each; 0 when absent
    Minute,     \* ticks in a minute
    MaxWindow   \* bound: ticks for which an observed window stays open

Buckets == Routes \cup {Replica}

ASSUME ConstantsAssumption ==
    /\ IsFiniteSet(Routes)
    /\ Replica \notin Routes
    /\ Limit \in [Buckets -> Nat]
    /\ Minute \in Nat \ {0}
    /\ MaxWindow \in Nat

VARIABLES
    tokensLeft,  \* contents of each bucket, in units
    admitted,    \* observer: requests each bucket let through since Observe
    elapsed      \* observer: ticks since Observe

vars == <<tokensLeft, admitted, elapsed>>

-----------------------------------------------------------------------------

\* new TokenBucket({ size: Math.ceil(rateLimit / 2.0), ... })
Size(b) == ((Limit[b] + 1) \div 2) * Minute

\* The bucket of a route and the parent it draws from.  A route without a limit
\* uses the replica's bucket itself; with neither, the middleware is a no-op.
\* Mutant: the parent is not passed on.
DrawnFromOwn(rt) == {b \in {rt} : Limit[b] > 0}
DrawnFrom(rt) == {b \in {rt, Replica} : Limit[b] > 0}

TypeOK ==
    /\ tokensLeft \in [Buckets -> Nat]
    /\ \A b \in Buckets : tokensLeft[b] <= Size(b)
    /\ admitted \in [Buckets -> Nat]
    /\ elapsed \in 0..MaxWindow

Init ==
    /\ tokensLeft = [b \in Buckets |-> Size(b)]
    /\ admitted = [b \in Buckets |-> 0]
    /\ elapsed = 0

\* Time passes: spread filling, capped by the size (mutant: without the cap).
FillUncapped(b) == tokensLeft[b] + Limit[b]
Fill(b) == IF tokensLeft[b] + Limit[b] <= Size(b) THEN tokensLeft[b] + Limit[b] ELSE Size(b)

Tick ==
    /\ elapsed < MaxWindow
    /\ tokensLeft' = [b \in Buckets |-> Fill(b)]
    /\ elapsed' = elapsed + 1
    /\ UNCHANGED admitted

\* removeTokensSync(1): every bucket on the way up has a token, and gives it.
Admit(rt) ==
    /\ \A b \in DrawnFrom(rt) : tokensLeft[b] >= Minute
    /\ tokensLeft' = [b \in Buckets |->
           IF b \in DrawnFrom(rt) THEN tokensLeft[b] - Minute ELSE tokensLeft[b]]
    /\ admitted' = [b \in Buckets |->
           IF b \in {rt, Replica} THEN admitted[b] + 1 ELSE admitted[b]]
    /\ UNCHANGED elapsed

\* Otherwise TooManyRequestsError, and no bucket gives anything.
Reject(rt) ==
    /\ \E b \in DrawnFrom(rt) : tokensLeft[b] < Minute
    /\ UNCHANGED vars

\* A new window of observation opens; not a step of the code.
Observe ==
    /\ admitted' = [b \in Buckets |-> 0]
    /\ elapsed' = 0
    /\ UNCHANGED tokensLeft

Next == Tick \/ Observe \/ \E rt \in Routes : Admit(rt) \/ Reject(rt)

Spec == Init /\ [][Next]_vars

-----------------------------------------------------------------------------

\* However a window is placed, a bucket with a limit lets through no more than
\* its size and what was added meanwhile; for the replica's bucket this counts
\* the requests of every route, those with a bucket of their own included.
WindowBound ==
    \A b \in Buckets : Limit[b] > 0 =>
        admitted[b] * Minute + tokensLeft[b] <= Size(b) + elapsed * Limit[b]

=============================================================================
