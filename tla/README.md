# A verification project for @vtex/api

The repository is the Node.js runtime of VTEX IO apps: a cluster of worker processes that serve
HTTP, GraphQL and event requests with the app's handlers, and the HTTP clients those handlers call
other services with.  This directory models its concurrent core in TLA+, checks the models with TLC
and proves the central invariants with TLAPS.  Paths below are relative to the repository's `src/`.

## The system

| part | state it keeps | operations | interacts with |
|---|---|---|---|
| master (`service/master.ts`) | table of workers, `handledSignal`, `workersOnline`, shutdown timers | fork, online, exit, message, signal, forced kill | workers by IPC and signals |
| worker (`service/worker/index.ts`) | koa application, limiters, `global.metrics` | assembling the pipelines, master's messages | all below |
| incoming pipeline (`service/worker/runtime/http`, `events`, `service/tracing`) | a context for each request with `vtex.cancellation`; gauge of concurrent requests; `incomingRequestStats`; a counter for each concurrency limiter | the middlewares, abort and close listeners | handlers, clients |
| rate limiter (`middlewares/rateLimit.ts`) | token buckets, one for each route below one for the replica | take a token | incoming pipeline |
| HttpClient (`HttpClient/`) | `memoizedCache` for each client; `inflight` map for the worker; `config` of each call; p-limit queue | one middleware chain for each call | cache layers, origin services, `vtex.cancellation` |
| cache layers (`caches/`) | LRU index, files, read-write locks, counters | has, get, set, getStats | HttpClient, `Apps` |
| GraphQL (`runtime/graphql`) | executable schema and its provider, documents; cache control, status, recorder and loaders of each request | update of the schema, parse, run with directives, errors, respond | Apps client, messages app, HttpClient |
| clients (`clients/`) | a table for each incoming request; `Apps` meta infos on disk; VBase conflicts | one method for each endpoint | HttpClient |
| metrics and spans (`metrics/`, `HttpClient/middlewares/metrics.ts`, interceptors) | batches, extensions, a span for each attempt | batch, flush, status track | every call |

What is hard about it, and what a test would hardly reach:

* *A request ends in many ways.*  It may be turned away by the replica's limiter, by its route's,
  or by a bucket; fail before or in the handler; return early; be aborted while it waits, while it
  runs, or while its response is on the wire.  Each way must give back exactly what was taken.
  The wanted properties: counters equal what they count, in every state, and every request ends.
* *Cancellation crosses requests.*  The client's leaving cancels the outgoing calls of one incoming
  request, but memoization and single flight make calls share requests, and writes must not be
  cancelled at all.  Wanted: nobody else's call is cancelled, and no request that wrote.
* *Retries.*  A time-out says nothing of whether the origin executed a write.  Wanted: a bound on
  executions, and an end.
* *Sharing changes what "now" means.*  A joined request may have begun before the call that joins
  it.  Wanted: a bound on how old an answer may be.
* *Two cache layers, two keys, conditional requests, expiration.*  Wanted: content of the right
  segment, of the version the origin vouched for, no older than its lifetime allows.
* *State read before an await and used after it*: disk cache index and files, promotion from one layer
  to another, the GraphQL schema, the meta infos on disk.  Wanted: nothing goes back in time, or a
  statement of when it may.
* *What may share an answer is decided in a hundred places.*  Every method of every client chooses whether its
  call is memoized, cached, or in a flight, and by which key; the keys compare less than a call
  consists of.  Wanted: for every two methods of one URL, no answer to another question.
* *Resolvers of one GraphQL request run at the same time* and change one cache control, status, recorder
  and pair of loaders, some of them after execution has been given up.  Wanted: the response is no more cacheable
  than its fields allow, and each text gets its own translation.
* *Accounts of all this*: counters and spans are written by layers that retries, shared promises
  and cancellation cross in different orders.
* *Shutdown*: deaths, reforks, two signals, a forced kill.

`PROJECT.json` lists every component and, under `hazards`, each of these at the line where it bites.

## Modules

Every model takes as one action what JavaScript runs without interruption: the code between two
awaits on something pending.  Promise jobs that run before any other event (a rejection travelling up a
middleware chain, a `finally` block) belong to the action that starts them.

### IncomingRequest

One worker's application middlewares (error, tracing, replica limiter) around the pipeline of a
route (context, cancellation, statistics, an awaited prelude, the route's limiters, the user's
middlewares) for HTTP routes, events and probes.  The pipeline of an event has no cancellation and no
statistics (`Events`; `createEventHandler` has neither middleware), so a client that leaves changes nothing for it.

* `phase` is the await a request is suspended at; `Inside(r)`, which limiters it is in, follows
  from it.  `reqsInExecution` holds the closures' counters, `concurrentRequests` the gauge,
  `stats` the `incomingRequestStats`; `cancelable`, `cancelled` are `ctx.vtex.cancellation`.
* `AwaitPrelude`, `RunHandler`, `RejectedByApp`, `RejectedByRoute`, `ProbeServed`, `ProbeRejected`
  are what a new request may run into; `PreludeDone`, `PreludeThenRejected`, `PreludeThenSkipped`,
  `PreludeFails` what may follow the prelude (settings, or an event's body);
  `NextMiddleware`, `Write`, `HandlerReturns`, `HandlerThrows`, `HandlerCancelled` the user's code;
  `Unwind` the way out through every `finally`; `ResponseFinishes` and `ClientAborts` the socket.
* The prometheus histograms, the timing headers, logging and the clearing of the statistics at a flush (read and
  cleared in one turn) are left out.

### RateLimit

The token buckets of `createTokenBucket` in a tree of depth two, on a clock with `Minute` ticks a
minute.  The library `tokenbucket` is external: filling in proportion to time, capped, and taking
from a bucket and its parent both or not at all.  `Observe` opens a window in which requests are counted.

### SharedCalls, WriteOnce

Calls of the HttpClients of a worker.  `Enter` is what a call does up to its first await: find its
key memoized (`AwaitMemo`), find a flight (`AwaitFlight`) or make a request (`Lead`), with
`MemoizeAndGuard` for what the middlewares in between do to `memo`, `cancelable` and `token`.  A
follower awaits the call that leads.  `Dispatch`, `OriginHandles`, `Answer`, `Retry`, `Fail`,
`Cancelled` are a leader's attempts; `LateHandling` is an attempt given up on that reaches the
origin later.  `WriteOnce` is what memoization promises, and `MemoIsWriteOnce` states that
`SharedCalls` implements it under a refinement mapping.

Which errors are retried (`utils/retry.ts`) is one choice between `Retry` and `Fail`: the
condition depends on the method and on the response, and `ECONNABORTED` makes it true for all methods.

### HttpCache

The two cache middlewares of a client, memory around disk, for one resource, with origin content that
changes, time, and entries that storage drops.  `Has` and `Hit`/`MissOrStale` are the awaited
look-up and what follows; `GoUp` is the way up through one layer: revalidation by a 304, the
decision to store, the key with or without the segment.  An observer in each response holds the version
the origin vouched for last and when (`vouched`, `at`).

### LRUDiskCache

The disk cache, three calls of `get` and `set` on two keys.  `index` is the `lru-cache` of expirations,
`keyToBeDeleted` the key its `dispose` remembered last, `lock` the queue of each key's read-write lock, `file`
whose content each file holds.  `GetMiss`, `GetHit`, `Set` are a call up to its first await,
`ReadFile`, `WriteFile`, `RemoveFile` the file operations as their locks let them run (and fail),
`GetEnds`, `SetResumes` what follows an await.  Which entry the index evicts is left open, which covers
every order of use.

### Cluster

The master and its worker processes.  `OnOnline`, `OnExit`, `HandleSignal`, `ForceKill` are the master's
handlers, `Announce`, `Crash`, `Disconnect`, `HandleSignalInWorker` the workers'.  Node's cluster module
is external and follows its documentation: a worker leaves `cluster.workers` after it has disconnected
and exited, so the exit event may still find it there (`LeaveTable` is the later event); `kill` disconnects
first, which waits for connections, and then sends the signal.

### ClientCalls

Every method of every client as a record: verb, URL, what of its arguments goes into path, parameters, headers (`extras`)
and the way the answer is read (`type`), which caches it allows, whether it is memoized, and its flight
key.  `Table` is their union.  The keys (`CacheKey`, `FlightKey`) are computed as the code does, from the parts of the call
they read.  `Choose` picks two calls of one URL, in one incoming request (one table of clients, hence one memoized map,
`SameClient`) or two; `AwaitMemoized`, `JoinFlight`, `AskCacheOrOrigin` are where the answer of one may become the answer of
the other.  Timing is left to `SharedCalls` and `HttpCache`: here any order of two calls is possible, and what
matters is which calls the keys confuse.  `MixedURLs` lists the URLs where they do.

### MetaInfos

`getAppsMetaInfos`: the list of installed apps served stale from a file that every call refreshes in
the background.  `BeginStale`/`DiskRead`, `BeginFresh`, `Fetch` are a call up to its awaits.  Its request is served in one of three
ways, the order of the middlewares: by what the incoming request's client has memoized, or by the flight of the process
(`FromMemo`, `Asks`); by the process's memory cache, if it has a fresh entry for the call's locale (`FromMemory`,
`inMemory`; the cache's key has the locale, those of the flight and of the file do not); or by the origin (`OriginReads`, which is also the 304 by which an
expired entry holds).  `ResponseArrives` fills the memory and queues a write for each call served, `DiskWrite` performs the
next of its process: each process (`Workers`, service.json's `workers`) has its own memory, flight and locks, and all have one file,
which a failed or torn write leaves unreadable.  A list is the number of its version, with a note of where it was read.

### MineWins

A conflict of three arrays or objects (base, master, mine) reported by VBase and resolved by `MineWinsConflictsResolver`: `MergeArrays`
is `mergeMineWinsArray` with its comparison by keys, its removal and its appending, each loop a recursive function of the round;
`ResolveSome` is a conflict that VBase reports, `Resolve` its resolution, `ConflictGone` one that somebody else has resolved,
`PatchAnswered` the patch nobody waits for.  `ThreeWay` is the reference the merge is compared with, and says exactly what it is: of
mine, what stays in its order (`KeptPlaces`: an item that base has n times and master no more loses its first n places), then of
master, in its order, what neither base nor what is left of mine nor an item taken before knows.

### Metrics

The counters and spans of calls of one metric.  `JoinMemo`, `JoinInflight`, `Lead`, `FreshHit`, `MissOrStale` are the ways a call
may go before it is sent (what is cached, fresh or behind a 304, may be a 404 that is accepted as null); `Attempt` opens a span, the interceptor `Finishes` it, before
`Retry` or `Rejected`; `Ends` is metricsMiddleware's `finally`, `StatusTrack` a flush of the accumulator.

### GraphQLSchema, GraphQLCache, Translations

`GraphQLSchema` has several requests to the route: `FetchSchema` and `SchemaArrives` are updateSchema around its await, `ExtractQuery`
validates or finds the document validated before, `Run` executes it on the schema of that moment.  `GraphQLCache` is one request:
fields on two levels start (`StartField`: @cacheControl, @smartcache) and end (`EndField`: @metric, recorded headers) in any
order, `RunEnds` follows graphql-js, and `GraphqlError`, `Respond`, `Flush` are the way up.  `Translations` is the strings of one
request under @translatableV2 and @translateTo: the loaders they make and share, dataloader's batches (external), and
the filtering (`ToTranslate`), sorting, grouping (`IndexByFrom`) and putting back (`Translation`) of the messages around the messages app's `Translate`.

### Layers

`MultilayeredCache` with an `LRUCache` in memory over a `DiskCache`: `GetFromMemory`, `AskDisk`, `Read` and `Fetched` are a get with
its awaits, `Set` and `Written` a set, `lock` the queue of the file's read-write lock.

### How they fit

`IncomingRequest` lets the bucket refuse at any time, which `RateLimit`
refines; `SharedCalls` lets a client abort whenever its request is cancelable, which
`IncomingRequest` bounds; `HttpCache` assumes nothing of how calls are shared; `Metrics` abstracts all three to the
ways a call can end; `ClientCalls` and `MetaInfos` use the middlewares as `SharedCalls` and `HttpCache` have them.
Parts that do not interact are checked, and proved about, side by side, one of them moving in a behaviour: `MCClients` holds
`ClientCalls`, `MetaInfos`, `MineWins`, `Metrics`; `MCWorkerParts` holds `RateLimit`, `GraphQLSchema`, `GraphQLCache`, `Translations`, `Layers`.

## Runs

| run | instance | what it shows |
|---|---|---|
| `MCIncomingRequest` | 3 requests, 2 routes (one with a prelude) and an event, limits 2 and 1, 2 middlewares | limiters, gauge and statistics count what they should; writes shield; cancelled requests stop |
| `MCIncomingRequestLive` | 2 requests, all limits 1 | every request closes |
| `MCWorkerParts` | buckets: 3 routes, limit below, above the replica's, none, windows up to 6 ticks of 4 a minute; schema: 4 requests, 5 versions, one of another major and one that does not compile; cache control: 3 fields of 5 kinds on 2 levels; translations: 3 strings of 8 kinds; layers: 2 gets, 2 sets | how much any bucket lets through in any window; queries run on a schema they are valid for; headers allow no more than the fields; errors have no tags; translations are of the right message; answers do not go back |
| `MCSharedCalls` | 3 calls of 2 clients (one with a retry), 2 resources, reads memoized, shared or both | flights, cancellation; refinement of `WriteOnce`; every call settles |
| `MCSharedCallsWrites` | 3 calls, 1 retry each, writes among shared reads of 1 resource | age of answers, number of executions |
| `MCHttpCache` | 3 calls, 2 segments, 3 s; one layer with 6 kinds of headers, two layers with 2 kinds without etags | segment, version, age (the lifetime, or twice in memory in front of a disk) |
| `MCHttpCacheNotModified` | 2 layers with etags | *violation*: a bare 304 is stored |
| `MCLRUDiskCache` | 3 calls, 2 keys, 1 entry, with and without `stale`, failing files, 2 s | answers are never replaced content; live entries keep their files; every call returns |
| `MCLRUDiskCacheRenewed` | 3 calls with `stale` | *violation*: a get drops an entry that was renewed while it read |
| `MCCluster` | 2 workers, 2 crashes, both signals | no orphans, replacement, one announcement, which is made; a shutdown ends |
| `MCClients` | calls: every two methods of one URL in one or two incoming requests; meta infos: 4 calls in 3 requests, 2 processes, 2 locales, one of them in memory, 2 versions; conflicts: all arrays of at most 2 of 4 items, objects; metrics: 3 calls, 1 retry | whose answer a call gets; no refresh of a process undoes another on disk; arrays are merged three-way; counters and spans tell what happened |
| `MCClientsMasterKeys` | the same | *violation*: a key only master has is lost |

*Bounds.*  Three requests, calls or writers are the least number at which one holds what the second waits
for while the third is turned away (limiters), or at which a leader, a follower and a stranger coexist
(sharing).  One retry distinguishes first, repeated and last attempts.  Two segments and two
versions are what the cache properties tell apart; the clock reaches the last second of twice the longest lifetime
used with two layers.  In the disk cache one entry and two keys make every set of another key evict, and
three calls let two sets and a get overlap.  Two calls are what a key can confuse, and their values are two of each argument.  Four calls of
three requests give two that share a memoized list, one of another locale that joins their flight or is answered by
memory, and one of another process that writes the same file.  Two versions of the list tell older from newer.  Arrays of two
items let an item be kept, removed, added and changed on each side.  Three fields are two that race and a child;
three strings are two that share a batch or a key and a third loader's maker.  Two gets and two sets let one get promote between
two sets.  Two workers and two crashes give a death before,
during and after a shutdown, and a replacement that dies too; each signal comes once, so two timers may run.
`MaxTime`, `MaxVersion`, `MaxWindow` and `MaxCrashes` are the only counters capped.

*Symmetry* is used in safety runs only, over requests or over calls that the constants do not tell apart.

*Deadlock.*  The models stop when every request, call, field or string is done, so the runs say
`CHECK_DEADLOCK FALSE`.

*Fairness.*  `IncomingRequest`: weak fairness of the prelude (an HTTP call with a time-out, or a body that is
read from a socket), of the handler (the app's code ends), and of the response's end (koa writes,
the socket flushes or closes).  None on arrivals or aborts.  `SharedCalls`: weak fairness of a call's
own progress, because promises resume, delays run out and axios gives each attempt a time-out.  `LRUDiskCache`: file operations end,
well or badly, and calls resume.  `Cluster`: events and messages arrive and timers run out; nothing is
assumed of connections' ending, of deaths or of signals.

## Findings

* `MCHttpCacheNotModified`: a disk layer without an entry stores the 304 which answers the
  memory layer's etag, and later serves it as a fresh hit.
* `MCLRUDiskCacheRenewed`: with `stale`, `get` drops what it takes for "an outdated file" by the expiration
  it read before the await, although a `set` has renewed the entry meanwhile.
* `MCClientsMasterKeys`: "Take mine and merge with master keys that have no conflict", says the resolver, but the
  merged object is dropped and `mine` sent and returned; only arrays, which are merged in place, show the merge.

Met while modelling and stated as it is rather than as a wish: a `/_status` or `/healthcheck` probe the
limiter turns away stays in the gauge, because the tracing middleware subtracts it without a `finally`
(`GaugeAccounting` counts those probes in); a bucket of half the limit lets up to 1.5 times the limit through in one
minute, which a test's comment means to rule out (`WindowBound` is the exact bound); a `set` of the disk cache
may write its file after the removal its own eviction queued, and that file stays without an entry; a memoized failure lasts as long as
the client (`MemoIsWriteOnce` counts failures among the decisions); writes are retried after a
time-out (`ExecutionsBounded` bounds their executions by the retries, not by one); a joined read may miss
what the caller wrote while the flight was under way (`NotOlderThanFlight` bounds by the flight's
start); each layer starts the lifetime anew (`WithinLifetimes` allows twice the lifetime in memory in front of a disk); with `stale` a get that is
still reading leaves its key to be deleted, and the next set of another key removes the renewed file
(`LiveEntryHasFile` speaks of caches without `stale`); a worker that is told to announce the replica and dies
first is not succeeded (`AnnouncedIfNobodyDies`).

Of the clients: flights and caches compare no headers, so at `MixedURLs` a call may get an answer for another page
(`MasterData` sends pages as `REST-Range`), another credential, or a raw file for a parsed one; a file of meta infos gets older when a
request writes back what it has memoized, when what memory has for one locale is written over what was read for
another, and when a slower process writes over a faster one (`RefreshesInOrder` is what remains); `getAppsMetaInfos` filters by a property literally named `filter`; the `try` of
`getAppFile` does not await, so that its fallback is never reached; `Tenant` says `memoizeable` and `Builder.clean` passes its
configuration as the body; `getConflicts` is memoized, so a second resolution in one request sees the first's conflicts; an
array whose base was deleted throws.  Of GraphQL: a first provider is taken whatever its version, and an update that was overtaken puts
an older schema back (`overtaken`); a field with `@metric` that resolves late turns the status of a failed response to success; a
cancelled request is a 499 with a public max-age; a `@translateTo` field is translated into the language of whichever
field made the loader.  Of layers and metrics: a file that is there and cannot be read is a hit of `undefined`, which is
promoted; a promoted value has no lifetime; a failed call that only joined another, or was never sent, is counted a miss,
although a comment has the misses as the calls that passed through to the origin; the span of a cancelled attempt is not finished; retries are counted
in a copy of the configuration that the metrics do not see.

## Proofs

`IncomingRequestProofs` proves, for every finite set of requests and every choice of routes, limits
and middlewares (`ConstantsAssumption`), the type invariant and every safety property of the runs.
None of the counting properties is inductive alone.  The inductive invariant `IInv` conjoins
them with the type invariant and `Shape`, which relates a request's phase to its flags (who is
tracked, which way the abort went, that a probe holds nothing), because an action changes a counter by
one on the evidence of flags of one request.  The sums are cardinalities of sets such as `Holders(l)`;
lemma `Recount` says how the cardinality of such a set changes when membership of one request does,
and every action's case cites it.  `WriteShieldsRequest` and the action property
`CancelledGoesNoFurther` follow from `IInv`.

`ClusterProofs` proves all safety properties of `Cluster` for any number of workers, crashes and signals.
`NoOrphans` needs `AliveInTable` (whoever lives is in the table the master decides by) and
`ReportedDead`; `ReplicaKept` needs `Calm`, that nobody was asked to leave before the first signal, so
that every death up to then is answered; `AnnouncedOnce` needs `FirstTold`.  `Custody` conjoins them.

`WorkerPartsProofs` holds the five parts of `MCWorkerParts`.  `WindowBound` of `RateLimit` holds for all limits and
windows; it is inductive with `TypeOK`, because it counts in the tokens left, which makes it exact at each
step.  `RunsWhatIsValid` of `GraphQLSchema` holds for any
providers, requests and queries: the inductive invariant adds what updates in course may do (the executable
schema is the deployed one or a provider's, and whoever fetches a text asks a newer provider than it saw) and
that a validated query was valid for a schema that only newer ones replace.  `CacheableAsDeclared` and
`ErrorsUntagged` of `GraphQLCache` hold for any query of any fields and directives: `FieldsNarrow` says that what a
field asks for stays asked for from its start on, except that errors set the age anew, which `ErrorsNarrow`
bounds; `ErrorsKnown` follows the status of a failed response through the resolvers that end after it.
`AnswersDoNotGoBack` of `Layers` holds for any number of gets and sets: as long as nothing failed and nothing
was put back (`Orderly`), memory has the newest value, the writes that wait for the file are in order and end
in the newest (`WritesInOrder`, `FileCatchesUp`), and a read waits behind a write of whatever had been seen when
it was asked for (`ReadsCatchUp`).  `TranslationIsOwn` of `Translations` holds for any strings, texts and
languages.  It has two halves.  Of one batch, of any length: the ranks by `Precedes` are a bijection
(`RanksAreTheirOwn`), so sorting moves the messages about and loses none (`SortingMoves`), and after every round of the
grouping the messages app would answer the messages so far in their order (`AnswersAreInOrder`, with a lemma for a
message that joins the last group and one for a message that opens its own).  Of the steps: `TranslateInv` says
that a loader is made by a field of its directive (`LoadersAreTheirs`), that a field loads into one loader and gets the promise
of a field with the same key there (`LoadedInOne`), and that what waits in a queue or a batch was loaded into
that loader (`WaitsAtItsOwn`).  `PartsTypeCorrect` puts the five
invariants together.

`ClientsProofs` holds the four parts of `MCClients`.  `SharedAnswersMatch` of `ClientCalls` holds for every two methods of
the table and any number of calls.  What the keys need of a method is `WellKeyed`: if a cache, the memoized map or a flight
may hand its answer on, it is a get, it has no parameters unless its key has them, and outside of `MixedURLs` it
reads JSON without extras.  The table is finite, and each set of methods has a lemma that says so; a method that is
added without a suitable key fails its set's.  The invariant `CallsInv` then says that
a call and its source read the same (`ReadsTheSame`).  It needs `CallsAreAlike` for sources of sources: a call may
be served from the cache by one that joined a flight of another locale, and has a flight key itself only because all calls
but the first are of one method.  `RefreshesInOrder` of `MetaInfos` holds for any calls, processes, locales and history of the
list: the refreshes of a process are one flight at a time (`OneFlight`), so that what a flight has read is not older than
anything its process read before (`FlightsAreNewest`), nor what memory keeps for a locale than anything read for that
locale (`KeptIsNewest`; the entry is replaced by the next flight of the locale, and none starts while it is fresh).
Hence a process queues nothing that is undone by what waits or is on disk (`WritesInOrder`), memoized answers apart.  `ArraysMergeThreeWay` of `MineWins` holds for arrays of any length and any comparable keys.  After n
rounds of the removal, what is left of mine is what it has at the places `KeptAfter` names (`RemovalIsExact`); after n rounds of the
appending, mine is what was kept and then what master has at the right places up to n (`GrownFrom`,
`RightPlaces`, `AppendIsExact`).  `CallsAccountedFor` of `Metrics` holds for any finite set of calls and any number of retries: a call
adds to the counters once, at its end, and `Courses` says what is known of it there (one that joined
another was not sent, one that leads joined none), so that each counter grows with the set of calls it tells of.
`ClientsTypeCorrect` puts the four invariants together.

`Loops` has what both need for loops over lists of any length.  The library's induction theorems take an operator as
a parameter, which the provers here cannot instantiate, but induction follows from the well-ordering of the natural numbers,
which it states of sets: `LeastNatural` and `InductionTo` (a set that has 0, and each number up to n whose predecessor
it has, has all of them), and `LoopRuns` (a loop of n rounds has a function that gives its state after each of them).  The recursive
functions of `MineWins` and `Translations` are such functions.

`SharedCallsProofs` proves every safety property of `SharedCalls` and that it implements `WriteOnce`,
for any calls of any clients.  The inductive invariant `Inv` says whom each call awaits (`Leaders`,
`FlightWaits`, `MemoWaits`), what the entries of both maps are and whose call has one (`MemoFiled`,
`MemoHeld`, `FlightsFiled`, `FlightsHeld`), that whatever may be shared carries no token (`Tokens`, so
`FlightsUncancelled`), and that executions, attempts given up on and the attempt under way never outnumber
the retries by more than one (`Budget`).  Actions fall into three kinds with one lemma each: entering
(`Enters`), settling (`Settles`) and the attempts of a request (`Attempts`); for the refinement the first
asks, the second gives, and the third stutters.

`HttpCacheProofs` proves all four properties of `HttpCache`, for any segments, headers, layers and lifetimes.
`OwnSegment` needs `Fits`: every entry, and every answer on its way to or from a cache, is of the
segment its key names, or of a response that does not vary.  `BodyIsVouchedFor` needs `Vouched` and `TagsFound`: an
etag that is sent is that of the entry it was found in, which its 304 renews.  That is so with one
layer, or without etags, which the theorem assumes (`RenewsItsOwn`); with two layers it is false, because the bare 304
that `MCHttpCacheNotModified` finds stored is a fresh hit without a body later.  `WithinLifetimes` needs `StoredInTime` and `UpInTime`, which bound the age of what
each layer holds and of what goes from the disk up to memory, under the same assumption.

`LRUDiskCacheProofs` proves the safety of `LRUDiskCache`, for any number of keys, calls, entries and seconds.  The lock of
a key is a queue of jobs, and `Owned` says that each read or write in it is that of one call, which waits for it and has no
other (`OperationsAreAwaited`).  `NeverReplaced` needs that what had been written
when a call began has been written (`EarlierWritten`), that a file holds what a set of its key wrote
(`FileWritten`) and nothing which a later set of that key, begun when that was written, has replaced since
(`FileIsLatest`), and that what a get reads was written by another call (`ReadsOthers`).  `LiveEntryHasFile` needs `Kept`: behind an entry there is a
file with no removal queued after it (`InPlace`), or a write that waits (`Queued`), or a set that is about to ask for
one (`Resuming`).

*Model-checked only.*  Liveness (`EveryRequestCloses`, `EveryCallSettles`, `EveryCallReturns`, and those of
`Cluster`): what follows from fairness is out of the prover's reach.  The three runs that show a violation are
counterexamples and have no theorem.  Every other property of the runs is a theorem.

## Plan

1. Done: the request pipeline, limiters, shared calls, cache middlewares; proofs of the first two.
2. Done: the disk cache, the cluster and the proofs of its safety.
3. Done: the clients, meta infos, conflicts, metrics, GraphQL, translations, layers.
4. Done: proofs of every safety property of the runs, the loops over lists and the table of methods included.
5. To model: which entry a 304 renews with two layers and etags, the bare 304 apart; the metrics logger; `@auth`.

## Not modelled

Listed in `PROJECT.json` with reasons: routing tables, header middlewares, loggers and tracers (output only), pure formatting; of
modelled parts, what a method does with an answer it got (unzipping, parsing), uploads, `@auth` and `@settings`, which keep nothing between calls, and
statistics that are read at a flush.  Of the meta infos: staging workspaces, which leave the disk alone, and lists that
vary by segment, of which memory would keep one for each.
