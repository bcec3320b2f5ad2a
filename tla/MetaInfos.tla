------------------------------ MODULE MetaInfos ------------------------------
(***************************************************************************)
(* Apps.getAppsMetaInfos: the list of the workspace's apps, kept on disk   *)
(* and served stale while a request refreshes it.  A production workspace, *)
(* whose single key all calls use (elsewhere the disk is left alone).      *)
(*                                                                         *)
(* Calls with stale await the disk; then, like the others, they ask for    *)
(* the list.  The request is memoized by the client of the incoming        *)
(* request, shared by URL among all calls of the process, and answered by  *)
(* the process's memory cache if its entry for the call's locale is fresh. *)
(* Everyone who gets an answer, the memoized and the cached included,      *)
(* writes it to the disk.  The processes of the replica share the file and *)
(* nothing else: in each, writes take the key's lock in turn, and nobody   *)
(* awaits them.                                                            *)
(***************************************************************************)
EXTENDS Naturals, Sequences, FiniteSets

CONSTANTS
    MetaCalls,      \* calls of getAppsMetaInfos
    RequestOf,      \* the incoming request each belongs to
    Workers,        \* processes of the replica
    Locales,        \* x-vtex-locale, by which the memory cache keeps the list
    WorkerOf,       \* the process that serves each incoming request
    LocaleOf,       \* its locale
    Warm,           \* what earlier requests left fresh in the memory of each process
    MaxPublished    \* bound: versions of the list

NoCall == "no call"
Incoming == {RequestOf[c] : c \in MetaCalls}
Worker(c) == WorkerOf[RequestOf[c]]
Locale(c) == LocaleOf[RequestOf[c]]

ASSUME MetaAssumption ==
    /\ IsFiniteSet(MetaCalls) /\ NoCall \notin MetaCalls
    /\ WorkerOf \in [Incoming -> Workers] /\ LocaleOf \in [Incoming -> Locales]
    /\ Warm \in [Workers -> [Locales -> {0, 1}]]
    /\ MaxPublished \in Nat \ {0}

VARIABLES
    published,  \* the version of the list at the origin
    disk,       \* the list in the file, and where the process that wrote it got it
    writes,     \* of each process, the sets that await the lock, first to last
    inMemory,   \* the version its memory has fresh for each locale, 0 when none
    await,      \* "begin", "disk", "request", "end": what each call awaits
    answer,     \* the version a call has returned; 0: none or a failure
    leader,     \* the call whose request each call is served by
    memoized,   \* for each incoming request, the leader its client has memoized
    underway,   \* the calls whose request is under way: one in a process, thanks to the flight
    read        \* the version a leader was given, 0 before

metaVars == <<published, disk, writes, inMemory, await, answer, leader, memoized, underway, read>>

\* What a set writes: a list, by whom it was read and for which locale, and whether
\* it is the origin's answer or a copy that was in memory or memoized.
Sources == {"origin", "memory", "memo"}
Lists == [version : 1..MaxPublished, source : Sources, worker : Workers, locale : Locales]
NoList == [version |-> 0, source |-> "origin", worker |-> NoCall, locale |-> NoCall]

MetaTypeOK ==
    /\ published \in 1..MaxPublished /\ disk \in Lists \cup {NoList}
    /\ writes \in [Workers -> Seq(Lists)]
    /\ inMemory \in [Workers -> [Locales -> 0..MaxPublished]]
    /\ await \in [MetaCalls -> {"begin", "disk", "request", "end"}]
    /\ answer \in [MetaCalls -> 0..MaxPublished]
    /\ leader \in [MetaCalls -> MetaCalls \cup {NoCall}]
    /\ memoized \in [Incoming -> MetaCalls \cup {NoCall}]
    /\ underway \in SUBSET MetaCalls
    /\ read \in [MetaCalls -> 0..MaxPublished]

MetaInit ==
    /\ published = 1 /\ disk = NoList
    /\ writes = [w \in Workers |-> <<>>]
    /\ inMemory = Warm
    /\ await = [c \in MetaCalls |-> "begin"]
    /\ answer = [c \in MetaCalls |-> 0]
    /\ leader = [c \in MetaCalls |-> NoCall]
    /\ memoized = [r \in Incoming |-> NoCall]
    /\ underway = {}
    /\ read = [c \in MetaCalls |-> 0]

-----------------------------------------------------------------------------

\* An app is installed, linked or removed.
Publish ==
    /\ published < MaxPublished
    /\ published' = published + 1
    /\ UNCHANGED <<disk, writes, inMemory, await, answer, leader, memoized, underway, read>>

\* The max-age of an entry in memory passes.  From then on it is as good as none: it
\* answers only a 304, which says that it is what the origin has.
Expire(w, x) ==
    /\ inMemory[w][x] # 0
    /\ inMemory' = [inMemory EXCEPT ![w][x] = 0]
    /\ UNCHANGED <<published, disk, writes, await, answer, leader, memoized, underway, read>>

\* Mutant: without inflightKey.
LeaderUnshared(c) ==
    LET m == memoized[RequestOf[c]] IN IF m # NoCall THEN m ELSE c
\* The request that serves call c: the memoized one, the one under way in its
\* process, or its own.
UnderwayIn(w) == {l \in underway : Worker(l) = w}
Leader(c) ==
    LET m == memoized[RequestOf[c]] IN
    IF m # NoCall THEN m
    ELSE IF UnderwayIn(Worker(c)) # {} THEN CHOOSE l \in UnderwayIn(Worker(c)) : TRUE ELSE c

\* The write of what leader l was given.
WriteOf(l, source) ==
    [version |-> read[l], source |-> source, worker |-> Worker(l), locale |-> Locale(l)]

\* this.http.getRaw(...).then(...) of call c, which found stale on disk.  Its request
\* goes out, or joins the flight.
Asks(c, l, stale) ==
    /\ l \in underway \/ (l = c /\ inMemory[Worker(c)][Locale(c)] = 0)
    /\ underway' = underway \cup {l}
    /\ await' = [await EXCEPT ![c] = IF stale # 0 THEN "end" ELSE "request"]
    /\ answer' = [answer EXCEPT ![c] = stale]
    /\ UNCHANGED <<writes, read>>

\* A fresh entry in memory is there at once, and is written to the disk.
FromMemory(c, l, stale) ==
    LET version == inMemory[Worker(c)][Locale(c)] IN
    /\ l = c /\ version # 0
    /\ read' = [read EXCEPT ![c] = version]
    /\ await' = [await EXCEPT ![c] = "end"]
    /\ answer' = [answer EXCEPT ![c] = IF stale # 0 THEN stale ELSE version]
    /\ writes' = [writes EXCEPT ![Worker(c)] = Append(@, WriteOf(c, "memory")')]
    /\ UNCHANGED underway

\* Mutant: a memoized failure is written too.
AgainAlways(l) == <<WriteOf(l, "memo")>>
Again(l) == IF read[l] = 0 THEN <<>> ELSE <<WriteOf(l, "memo")>>

\* An answer memoized before is there at once, and is written to the disk again; a
\* memoized failure fails at once.
FromMemo(c, l, stale) ==
    /\ l # c /\ l \notin underway
    /\ await' = [await EXCEPT ![c] = "end"]
    /\ answer' = [answer EXCEPT ![c] = IF stale # 0 THEN stale ELSE read[l]]
    /\ writes' = [writes EXCEPT ![Worker(c)] = @ \o Again(l)]
    /\ UNCHANGED <<underway, read>>

Fetch(c, stale) ==
    LET l == Leader(c) IN
    /\ leader' = [leader EXCEPT ![c] = l]
    /\ memoized' = [memoized EXCEPT ![RequestOf[c]] = l]
    /\ Asks(c, l, stale) \/ FromMemory(c, l, stale) \/ FromMemo(c, l, stale)
    /\ UNCHANGED <<published, disk, inMemory>>

BeginStale(c) ==
    /\ await[c] = "begin"
    /\ await' = [await EXCEPT ![c] = "disk"]
    /\ UNCHANGED <<published, disk, writes, inMemory, answer, leader, memoized, underway, read>>

BeginFresh(c) == await[c] = "begin" /\ Fetch(c, 0)

\* diskCache.get returns; a failed read is a miss.
DiskRead(c) == await[c] = "disk" /\ \E stale \in {disk.version, 0} : Fetch(c, stale)

\* The origin answers the request of leader l, or says that the expired entry holds.
OriginReads(l) ==
    /\ l \in underway /\ read[l] = 0
    /\ read' = [read EXCEPT ![l] = published]
    /\ UNCHANGED <<published, disk, writes, inMemory, await, answer, leader, memoized, underway>>

\* Its response arrives: memory keeps it for the leader's locale, if its headers let it
\* be fresh at all; the flight ends, and every call it serves queues a write and, unless
\* it had returned the stale list, returns.
Served(l) == {c \in MetaCalls : leader[c] = l}

ResponseArrives(l) ==
    /\ l \in underway /\ read[l] # 0
    /\ \E version \in {read[l], 0} : inMemory' = [inMemory EXCEPT ![Worker(l)][Locale(l)] = version]
    /\ underway' = underway \ {l}
    /\ await' = [c \in MetaCalls |-> IF c \in Served(l) THEN "end" ELSE await[c]]
    /\ answer' = [c \in MetaCalls |->
           IF c \in Served(l) /\ await[c] = "request" THEN read[l] ELSE answer[c]]
    /\ writes' = [writes EXCEPT ![Worker(l)] =
           @ \o [i \in 1..Cardinality(Served(l)) |-> WriteOf(l, "origin")]]
    /\ UNCHANGED <<published, disk, leader, memoized, read>>

\* It fails: a warning for those who have returned, an error for the others.
RequestFails(l) ==
    /\ l \in underway
    /\ underway' = underway \ {l}
    /\ read' = [read EXCEPT ![l] = 0]
    /\ await' = [c \in MetaCalls |-> IF c \in Served(l) THEN "end" ELSE await[c]]
    /\ UNCHANGED <<published, disk, writes, inMemory, answer, leader, memoized>>

\* The next set of a process has the lock, and succeeds, or fails before the file is
\* touched, or after, which leaves no list that can be read (as does a write torn by
\* that of another process).
DiskWrite(w) ==
    /\ writes[w] # <<>>
    /\ disk' \in {Head(writes[w]), disk, NoList}
    /\ writes' = [writes EXCEPT ![w] = Tail(@)]
    /\ UNCHANGED <<published, inMemory, await, answer, leader, memoized, underway, read>>

MetaNext ==
    \/ Publish
    \/ \E w \in Workers : DiskWrite(w) \/ \E x \in Locales : Expire(w, x)
    \/ \E c \in MetaCalls : BeginStale(c) \/ BeginFresh(c) \/ DiskRead(c)
    \/ \E l \in MetaCalls : OriginReads(l) \/ ResponseArrives(l) \/ RequestFails(l)

MetaSpec == MetaInit /\ [][MetaNext]_metaVars

-----------------------------------------------------------------------------

\* b does not undo a: a list of the same process is not older than what was read
\* before it, if it comes from the origin, or from memory and both are of one locale.
Follows(a, b) ==
    (a.worker = b.worker /\ (b.source = "origin" \/ (b.source = "memory" /\ a.locale = b.locale)))
        => a.version <= b.version

\* The refreshes of a process never undo one another, however the calls of its requests
\* overlap, because all of them are one flight: the list on disk gets older only when
\* an incoming request that keeps calling writes back what its client has memoized,
\* when what memory has for one locale is written over what was read for another, or
\* when another process, which has its own flight and its own lock, wrote it.
RefreshesInOrder == [][disk' # NoList => Follows(disk, disk')]_metaVars

=============================================================================
