------------------------------ MODULE HttpCache ------------------------------
(***************************************************************************)
(* The two cacheMiddlewares of an HttpClient, memory around disk, for one  *)
(* resource: calls that look up, revalidate and store concurrently, an     *)
(* origin whose content changes, time, and entries that storage drops.     *)
(*                                                                         *)
(* Bodies are versions of the content, for one segment or for all; an etag *)
(* is the body itself.  Each response also carries, for the properties     *)
(* only, the version the origin vouched for last and when it did.          *)
(***************************************************************************)
EXTENDS Integers, Sequences, SequencesExt

CONSTANTS
    Calls,        \* identities of the calls
    Segments,     \* segment tokens
    SegmentOf,    \* the token each call sends
    Configurations, \* the sets of caches that are configured
    Cacheable,    \* config.cacheable of each call: "memory", "disk" or "any"
    HeaderSets,   \* the response headers the origin may choose, by configuration
    ForceMaxAge,  \* config.forceMaxAge, 0 when absent
    None,         \* no segment, no body, no etag, no entry
    MaxVersion,   \* bound: changes of the content
    MaxTime       \* bound: seconds

Headers == [etag : BOOLEAN, maxAge : Nat, age : Nat, noStore : BOOLEAN,
            noCache : BOOLEAN, vary : {"nothing", "segment", "session"}]

VARIABLES
    storages, \* the configured caches, which never change
    stage,    \* the next step of each call
    depth,    \* how many cache middlewares of its path a call is inside of
    found,    \* what storage.has answered
    cached,   \* by layer, the entry a call found there
    etagSent, \* if-none-match, which also makes 304 a valid status
    response, \* ctx.response
    store,    \* by layer and key (plain or with a segment), the stored entries
    version,  \* origin: the current content
    now

vars == <<storages, stage, depth, cached, found, etagSent, response, store, version, now>>

Slots == Segments \cup {None}
Bodies == [version : 0..MaxVersion, segment : Slots]
Responses == [status : {200, 304}, body : Bodies \cup {None}, headers : Headers,
              tag : Bodies \cup {None}, vouched : 0..MaxVersion, at : Int, hits : Nat]
Entries == [response : Responses, expiration : Int]

ASSUME ConstantsAssumption ==
    /\ SegmentOf \in [Calls -> Segments]
    /\ Configurations \subseteq SUBSET {"memory", "disk"}
    /\ Cacheable \in [Calls -> {"memory", "disk", "any"}]
    /\ \A conf \in Configurations : HeaderSets[conf] \subseteq Headers
    /\ ForceMaxAge \in Nat /\ MaxVersion \in Nat /\ MaxTime \in Nat
    /\ None \notin Segments \cup Bodies \cup Responses \cup Entries

Uses(c, l) == l \in storages /\ Cacheable[c] \in {l, "any"}
Path(c) == (IF Uses(c, "memory") THEN <<"memory">> ELSE <<>>)
           \o (IF Uses(c, "disk") THEN <<"disk">> ELSE <<>>)
Layer(c) == Path(c)[depth[c]]

TypeOK ==
    /\ storages \in Configurations
    /\ stage \in [Calls -> {"idle", "down", "get", "up", "origin", "done", "failed"}]
    /\ found \in [Calls -> BOOLEAN]
    /\ \A c \in Calls : depth[c] \in
           IF stage[c] \in {"down", "get", "up"} THEN 1..Len(Path(c)) ELSE 0..Len(Path(c)) + 1
    /\ \A c \in Calls, l \in storages :
           /\ cached[c][l] \in Entries \cup {None}
           /\ etagSent[c] \in Bodies \cup {None}
           /\ response[c] \in Responses \cup {None}
    /\ \A l \in storages, s \in Slots : store[l][s] \in Entries \cup {None}
    /\ version \in 0..MaxVersion
    /\ now \in 0..MaxTime

Init ==
    /\ storages \in Configurations
    /\ stage = [c \in Calls |-> "idle"]
    /\ depth = [c \in Calls |-> 0]
    /\ found = [c \in Calls |-> FALSE]
    /\ cached = [c \in Calls |-> [l \in storages |-> None]]
    /\ etagSent = [c \in Calls |-> None]
    /\ response = [c \in Calls |-> None]
    /\ store = [l \in storages |-> [s \in Slots |-> None]]
    /\ version = 0
    /\ now = 0

-----------------------------------------------------------------------------
(* Before next(): the way down. *)

Begin(c) ==
    /\ stage[c] = "idle"
    /\ stage' = [stage EXCEPT ![c] = IF Path(c) = <<>> THEN "origin" ELSE "down"]
    /\ depth' = [depth EXCEPT ![c] = 1]
    /\ UNCHANGED <<storages, found, cached, etagSent, response, store, version, now>>

\* storage.has of the key with the segment is awaited before storage.get: others
\* may store or drop entries in between.
Has(c) ==
    /\ stage[c] = "down"
    /\ found' = [found EXCEPT ![c] = store[Layer(c)][SegmentOf[c]] # None]
    /\ stage' = [stage EXCEPT ![c] = "get"]
    /\ UNCHANGED <<storages, depth, cached, etagSent, response, store, version, now>>

LookedUp(c) == store[Layer(c)][IF found[c] THEN SegmentOf[c] ELSE None]

\* Mutant: an entry is still used at the second it expires.
FreshAtExpiration(e) == e # None /\ e.expiration >= now
Fresh(e) == e # None /\ e.expiration > now

\* A fresh entry is the response of this layer, and nothing is stored in it.
Hit(c) ==
    LET e == LookedUp(c) IN
    /\ stage[c] = "get"
    /\ Fresh(e)
    /\ response' = [response EXCEPT ![c] = [e.response EXCEPT !.hits = @ + 1]]
    /\ stage' = [stage EXCEPT ![c] = IF depth[c] = 1 THEN "done" ELSE "up"]
    /\ depth' = [depth EXCEPT ![c] = @ - 1]
    /\ UNCHANGED <<storages, found, cached, etagSent, store, version, now>>

\* Mutant: the chain goes on behind its last middleware.
MissOrStalePastEnd(c) ==
    LET e == LookedUp(c) IN
    /\ stage[c] = "get"
    /\ ~Fresh(e)
    /\ cached' = [cached EXCEPT ![c][Layer(c)] = e]
    /\ etagSent' = IF e # None /\ e.response.tag # None
                   THEN [etagSent EXCEPT ![c] = e.response.tag] ELSE etagSent
    /\ stage' = [stage EXCEPT ![c] = IF depth[c] > Len(Path(c)) THEN "origin" ELSE "down"]
    /\ depth' = [depth EXCEPT ![c] = @ + 1]
    /\ UNCHANGED <<storages, found, response, store, version, now>>

\* A stale entry with an etag makes the request conditional; the inner layer may
\* replace the etag of the outer one.
MissOrStale(c) ==
    LET e == LookedUp(c) IN
    /\ stage[c] = "get"
    /\ ~Fresh(e)
    /\ cached' = [cached EXCEPT ![c][Layer(c)] = e]
    /\ etagSent' = IF e # None /\ e.response.tag # None
                   THEN [etagSent EXCEPT ![c] = e.response.tag] ELSE etagSent
    /\ stage' = [stage EXCEPT ![c] = IF depth[c] = Len(Path(c)) THEN "origin" ELSE "down"]
    /\ depth' = [depth EXCEPT ![c] = @ + 1]
    /\ UNCHANGED <<storages, found, response, store, version, now>>

-----------------------------------------------------------------------------
(* The origin. *)

CurrentBody(c, h) ==
    [version |-> version, segment |-> IF h.vary = "segment" THEN SegmentOf[c] ELSE None]

OriginAnswers(c, h) ==
    LET body == CurrentBody(c, h)
        same == etagSent[c] = body
    IN
    /\ stage[c] = "origin"
    /\ same => h.etag
    /\ response' = [response EXCEPT ![c] =
           [status |-> IF same THEN 304 ELSE 200,
            body |-> IF same THEN None ELSE body,
            headers |-> h, tag |-> IF h.etag THEN body ELSE None,
            vouched |-> version, at |-> IF same THEN now ELSE now - h.age, hits |-> 0]]
    /\ stage' = [stage EXCEPT ![c] = IF Path(c) = <<>> THEN "done" ELSE "up"]
    /\ depth' = [depth EXCEPT ![c] = Len(Path(c))]
    /\ UNCHANGED <<storages, found, cached, etagSent, store, version, now>>

\* The error travels up through both middlewares, which store nothing.
RequestFails(c) ==
    /\ stage[c] = "origin"
    /\ stage' = [stage EXCEPT ![c] = "failed"]
    /\ UNCHANGED <<storages, found, depth, cached, etagSent, response, store, version, now>>

-----------------------------------------------------------------------------
(* After next(): the way up. *)

cacheableStatusCodes == {200, 203, 204, 206, 300, 301, 404, 405, 410, 414, 501}

\* The response a layer goes on with: its own entry's when the inner one is a 304
\* (mutant: when the call sent an etag).
RevalidatedByEtag(c) ==
    LET e == cached[c][Layer(c)]  r == response[c] IN
    IF etagSent[c] # None /\ e # None
    THEN [e.response EXCEPT !.vouched = r.vouched, !.at = r.at] ELSE r
Revalidated(c) ==
    LET e == cached[c][Layer(c)]  r == response[c] IN
    IF r.status = 304 /\ e # None
    THEN [e.response EXCEPT !.vouched = r.vouched, !.at = r.at] ELSE r

MaxAge(r) ==
    IF ForceMaxAge > r.headers.maxAge /\ r.status \in cacheableStatusCodes
    THEN ForceMaxAge ELSE r.headers.maxAge

Storable(r) ==
    /\ ForceMaxAge > 0 \/ ~(r.headers.noStore \/ (r.headers.noCache /\ r.tag = None))
    /\ MaxAge(r) > 0 \/ r.tag # None
    /\ r.headers.vary # "session"

\* The key it is stored under (mutant: always the one without the segment).
SetPlainKey(c, r) == None
SetKey(c, r) == IF r.headers.vary = "segment" THEN SegmentOf[c] ELSE None

GoUp(c) ==
    LET r == Revalidated(c)
        currentAge == IF response[c].status = 304 THEN 0 ELSE r.headers.age
    IN
    /\ stage[c] = "up"
    /\ response' = [response EXCEPT ![c] = r]
    /\ store' = IF Storable(r)
                THEN [store EXCEPT ![Layer(c)][SetKey(c, r)] =
                         [response |-> r, expiration |-> now + MaxAge(r) - currentAge]]
                ELSE store
    /\ stage' = [stage EXCEPT ![c] = IF depth[c] = 1 THEN "done" ELSE "up"]
    /\ depth' = [depth EXCEPT ![c] = @ - 1]
    /\ UNCHANGED <<storages, found, cached, etagSent, version, now>>

-----------------------------------------------------------------------------
(* Surroundings. *)

\* An LRU drops its oldest entry; a file cannot be read.
Drop(l, s) ==
    /\ store[l][s] # None
    /\ store' = [store EXCEPT ![l][s] = None]
    /\ UNCHANGED <<storages, found, stage, depth, cached, etagSent, response, version, now>>

Change ==
    /\ version < MaxVersion
    /\ version' = version + 1
    /\ UNCHANGED <<storages, found, stage, depth, cached, etagSent, response, store, now>>

\* Ages are in seconds; the middlewares take no time on that scale, a request does.
Tick ==
    /\ now < MaxTime
    /\ \A c \in Calls : stage[c] \notin {"down", "get", "up"}
    /\ now' = now + 1
    /\ UNCHANGED <<storages, found, stage, depth, cached, etagSent, response, store, version>>

Next ==
    \/ \E c \in Calls :
        \/ Begin(c)
        \/ Has(c)
        \/ Hit(c)
        \/ MissOrStale(c)
        \/ \E h \in HeaderSets[storages] : OriginAnswers(c, h)
        \/ RequestFails(c)
        \/ GoUp(c)
    \/ \E l \in storages, s \in Slots : Drop(l, s)
    \/ Change
    \/ Tick

Spec == Init /\ [][Next]_vars

-----------------------------------------------------------------------------
(* Properties. *)

Finished(c) == stage[c] = "done"

\* No call is answered with content made for another segment, however the entries
\* of the resource come to be stored with and without the segment in their key.
OwnSegment ==
    \A c \in Calls : Finished(c) /\ response[c].body # None =>
        response[c].body.segment \in {None, SegmentOf[c]}

\* With one cache, what a call gets is the content the origin vouched for, with the
\* answer it came from or by the 304 that revalidated it: a 304 to another entry's
\* etag does not renew an entry.  With two caches and no etags it is content too.
BodyIsVouchedFor ==
    \A c \in Calls : Finished(c) =>
        /\ response[c].body # None
        /\ response[c].body.version = response[c].vouched

\* What a layer answers with is content younger than the lifetime its headers give,
\* twice that in memory when there is a disk layer to fill it from.  A 304 starts the
\* lifetime anew, as if it had no age of its own.
Lifetime(l, r) == (IF l = "memory" /\ "disk" \in storages THEN 2 ELSE 1) * MaxAge(r)
WithinLifetimes ==
    [][\A c \in Calls : stage[c] = "get" /\ stage'[c] \in {"up", "done"} =>
        now - response'[c].at < Lifetime(Layer(c), response'[c])]_vars

\* What cacheableStatusCodes lists: only such responses are stored.
OnlyCacheableStored ==
    \A l \in storages, s \in Slots : store[l][s] # None =>
        store[l][s].response.status \in cacheableStatusCodes

=============================================================================
