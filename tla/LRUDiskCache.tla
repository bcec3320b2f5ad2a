----------------------------- MODULE LRUDiskCache -----------------------------
(***************************************************************************)
(* The disk cache: an index (an lru-cache of expirations) kept in memory,  *)
(* files on disk, a read-write lock for each key, and the one key that     *)
(* the index disposed of last.  A call's code up to its next await is one  *)
(* action; the file operations run when the lock of their key lets them.   *)
(*                                                                         *)
(* Each call is one get or one set.  The content a set stores is the       *)
(* identity of that call.  Which entry the index evicts is left open.      *)
(***************************************************************************)
EXTENDS Integers, FiniteSets, Sequences, SequencesExt

CONSTANTS
    Ops,        \* identities of the calls
    Keys,
    MaxItems,   \* options.max: entries of the index
    MaxAges,    \* values of options.maxAge, 0 when absent
    Stales,     \* values of options.stale
    Lifetimes,  \* the maxAge arguments of set, 0 when absent
    MayFail,    \* whether file operations may fail
    None,       \* no key, no entry, no file, no result
    MaxTime     \* bound: instants

Forever == MaxTime + 1

ASSUME ConstantsAssumption ==
    /\ IsFiniteSet(Keys)
    /\ MaxItems \in Nat \ {0}
    /\ MaxAges \subseteq Nat /\ Lifetimes \subseteq Nat /\ MaxTime \in Nat
    /\ Stales \subseteq BOOLEAN /\ MayFail \in BOOLEAN
    /\ None \notin Ops \cup Keys

VARIABLES
    options,        \* maxAge and stale, which never change
    stage,          \* the await each call is suspended at
    key,            \* the key it was called with
    death,          \* get: the timeOfDeath found in the index
    result,         \* get: the content; set: whether it was written
    index,          \* lruStorage: when an entry goes stale, and its timeOfDeath
    keyToBeDeleted,
    lock,           \* the operations that hold or wait for the lock of each key
    file,           \* the set whose content the file of each key holds
    now,
    earlier,        \* observer: the sets written before each call began
    spoilt          \* observer: keys of which a write failed

vars == <<options, stage, key, death, result, index, keyToBeDeleted, lock, file, now,
          earlier, spoilt>>

Entries == [stale : Nat, death : Nat]
Jobs == [kind : {"read", "write", "remove"}, op : Ops \cup {None}]

TypeOK ==
    /\ options \in [maxAge : MaxAges, stale : Stales]
    /\ stage \in [Ops -> {"idle", "reading", "read", "deleting", "writing", "done"}]
    /\ key \in [Ops -> Keys \cup {None}]
    /\ death \in [Ops -> Nat]
    /\ result \in [Ops -> Ops \cup {None}]
    /\ index \in [Keys -> Entries \cup {None}]
    /\ Cardinality({k \in Keys : index[k] # None}) <= MaxItems
    /\ keyToBeDeleted \in Keys \cup {None}
    /\ \A k \in Keys : \A i \in DOMAIN lock[k] : lock[k][i] \in Jobs
    /\ file \in [Keys -> Ops \cup {None}]
    /\ now \in 0..MaxTime

Init ==
    /\ options \in [maxAge : MaxAges, stale : Stales]
    /\ stage = [o \in Ops |-> "idle"]
    /\ key = [o \in Ops |-> None]
    /\ death = [o \in Ops |-> Forever]
    /\ result = [o \in Ops |-> None]
    /\ index = [k \in Keys |-> None]
    /\ keyToBeDeleted = None
    /\ lock = [k \in Keys |-> <<>>]
    /\ file = [k \in Keys |-> None]
    /\ now = 0
    /\ earlier = [o \in Ops |-> {}]
    /\ spoilt = {}

-----------------------------------------------------------------------------
(* Locks: first come, first served; readers share. *)

Job(kind, o) == [kind |-> kind, op |-> o]

Running(k) ==
    {i \in DOMAIN lock[k] :
        i = 1 \/ \A j \in 1..i : lock[k][j].kind = "read"}

Ask(k, job) == lock' = [lock EXCEPT ![k] = Append(@, job)]
Release(k, i) == lock' = [lock EXCEPT ![k] = RemoveAt(@, i)]

-----------------------------------------------------------------------------
(* get *)

Outdated(e) == e # None /\ e.stale < now

Begin(o, k) ==
    /\ stage[o] = "idle"
    /\ key' = [key EXCEPT ![o] = k]
    /\ earlier' = [earlier EXCEPT ![o] =
           {s \in Ops : stage[s] = "done" /\ result[s] = s}]
    /\ UNCHANGED options

\* Nothing usable in the index.  An outdated entry is disposed of and its file
\* removed; if something else waits to be deleted, this key's file is removed.
GetMiss(o, k) ==
    /\ Begin(o, k)
    /\ index[k] = None \/ (Outdated(index[k]) /\ ~options.stale)
    /\ index' = [index EXCEPT ![k] = None]
    /\ IF index[k] # None \/ keyToBeDeleted # None
       THEN Ask(k, Job("remove", None)) ELSE UNCHANGED lock
    /\ keyToBeDeleted' = None
    /\ stage' = [stage EXCEPT ![o] = "done"]
    /\ UNCHANGED <<death, result, file, now, spoilt>>

\* With options.stale the index drops an outdated entry as it returns it.
GetHit(o, k) ==
    /\ Begin(o, k)
    /\ index[k] # None
    /\ Outdated(index[k]) => options.stale
    /\ IF Outdated(index[k])
       THEN index' = [index EXCEPT ![k] = None] /\ keyToBeDeleted' = k
       ELSE UNCHANGED <<index, keyToBeDeleted>>
    /\ death' = [death EXCEPT ![o] = index[k].death]
    /\ Ask(k, Job("read", o))
    /\ stage' = [stage EXCEPT ![o] = "reading"]
    /\ UNCHANGED <<result, file, now, spoilt>>

\* Mutant: the lock is not released after an error.
ReadFileThenRelease(k, i) ==
    LET o == lock[k][i].op IN
    /\ i \in Running(k)
    /\ lock[k][i].kind = "read"
    /\ stage[o] = "reading"
    /\ \/ Release(k, i) /\ result' = [result EXCEPT ![o] = file[k]]
       \/ MayFail /\ UNCHANGED <<lock, result>>
    /\ stage' = [stage EXCEPT ![o] = "read"]
    /\ UNCHANGED <<options, key, death, index, keyToBeDeleted, file, now, earlier, spoilt>>

\* A file that is not there, or cannot be read, reads as undefined.
ReadFile(k, i) ==
    LET o == lock[k][i].op IN
    /\ i \in Running(k)
    /\ lock[k][i].kind = "read"
    /\ Release(k, i)
    /\ \/ result' = [result EXCEPT ![o] = file[k]]
       \/ MayFail /\ UNCHANGED result
    /\ stage' = [stage EXCEPT ![o] = "read"]
    /\ UNCHANGED <<options, key, death, index, keyToBeDeleted, file, now, earlier, spoilt>>

\* Mutant: only the file is deleted.
GetEndsKeepingEntry(o) ==
    LET k == key[o]  dead == death[o] < now IN
    /\ stage[o] = "read"
    /\ keyToBeDeleted' = IF dead THEN None ELSE keyToBeDeleted
    /\ IF dead THEN Ask(k, Job("remove", None)) ELSE UNCHANGED lock
    /\ stage' = [stage EXCEPT ![o] = "done"]
    /\ UNCHANGED <<options, key, death, result, index, file, now, earlier, spoilt>>

\* Past the await: the entry is dropped on the evidence read before it.
GetEnds(o) ==
    LET k == key[o]  dead == death[o] < now IN
    /\ stage[o] = "read"
    /\ index' = [index EXCEPT ![k] = IF dead THEN None ELSE @]
    /\ keyToBeDeleted' = IF dead THEN None ELSE keyToBeDeleted
    /\ IF dead THEN Ask(k, Job("remove", None)) ELSE UNCHANGED lock
    /\ stage' = [stage EXCEPT ![o] = "done"]
    /\ UNCHANGED <<options, key, death, result, file, now, earlier, spoilt>>

-----------------------------------------------------------------------------
(* set *)

EntryFor(life) ==
    CASE life > 0 -> [stale |-> now + life, death |-> now + life]
      [] life = 0 /\ options.maxAge > 0 ->
             [stale |-> now + options.maxAge, death |-> Forever]
      [] OTHER -> [stale |-> Forever, death |-> Forever]

\* Mutant: the index is not told its size.
EvictedNone(k) == {None}
\* The keys the index may evict to take k: one, if it is full.
Evicted(k) ==
    LET others == {x \in Keys : x # k /\ index[x] # None} IN
    IF Cardinality(others) >= MaxItems THEN others ELSE {None}

\* Whether what is to be deleted, now that gone was evicted, is another key.
AskForDeletion(k, gone) == gone \notin {None, k}

Set(o, k, life) ==
    \E evicted \in Evicted(k) :
        LET gone == IF evicted # None THEN evicted ELSE keyToBeDeleted IN
        /\ Begin(o, k)
        /\ index' = [x \in Keys |-> CASE x = k       -> EntryFor(life)
                                      [] x = evicted -> None
                                      [] OTHER       -> index[x]]
        /\ IF AskForDeletion(k, gone)
           THEN /\ Ask(gone, Job("remove", None))
                /\ keyToBeDeleted' = None
                /\ stage' = [stage EXCEPT ![o] = "deleting"]
           ELSE /\ Ask(k, Job("write", o))
                /\ keyToBeDeleted' = gone
                /\ stage' = [stage EXCEPT ![o] = "writing"]
        /\ UNCHANGED <<death, result, file, now, spoilt>>

\* deleteFile returns without waiting for the removal; calls made meanwhile go first.
SetResumes(o) ==
    /\ stage[o] = "deleting"
    /\ Ask(key[o], Job("write", o))
    /\ stage' = [stage EXCEPT ![o] = "writing"]
    /\ UNCHANGED <<options, key, death, result, index, keyToBeDeleted, file, now,
                   earlier, spoilt>>

\* Mutant: a failed write counts as written.
WriteFileAlwaysTrue(k, i) ==
    LET o == lock[k][i].op IN
    /\ i \in Running(k)
    /\ lock[k][i].kind = "write"
    /\ Release(k, i)
    /\ stage' = [stage EXCEPT ![o] = "done"]
    /\ result' = [result EXCEPT ![o] = o]
    /\ \/ file' = [file EXCEPT ![k] = o]
       \/ MayFail /\ UNCHANGED file
    /\ UNCHANGED <<options, key, death, index, keyToBeDeleted, now, earlier, spoilt>>

\* A failed write leaves the old file or an unreadable one; set returns false.
WriteFile(k, i) ==
    LET o == lock[k][i].op IN
    /\ i \in Running(k)
    /\ lock[k][i].kind = "write"
    /\ Release(k, i)
    /\ stage' = [stage EXCEPT ![o] = "done"]
    /\ \/ /\ file' = [file EXCEPT ![k] = o]
          /\ result' = [result EXCEPT ![o] = o]
          /\ spoilt' = spoilt \ {k}
       \/ /\ MayFail
          /\ \E content \in {file[k], None} : file' = [file EXCEPT ![k] = content]
          /\ spoilt' = spoilt \cup {k}
          /\ UNCHANGED result
    /\ UNCHANGED <<options, key, death, index, keyToBeDeleted, now, earlier>>

RemoveFile(k, i) ==
    /\ i \in Running(k)
    /\ lock[k][i].kind = "remove"
    /\ Release(k, i)
    /\ \/ file' = [file EXCEPT ![k] = None]
       \/ MayFail /\ UNCHANGED file
    /\ UNCHANGED <<options, stage, key, death, result, index, keyToBeDeleted, now,
                   earlier, spoilt>>

Tick ==
    /\ now < MaxTime
    /\ now' = now + 1
    /\ UNCHANGED <<options, stage, key, death, result, index, keyToBeDeleted, lock, file,
                   earlier, spoilt>>

FileOperation ==
    \E k \in Keys : \E i \in DOMAIN lock[k] :
        ReadFile(k, i) \/ WriteFile(k, i) \/ RemoveFile(k, i)

Resume(o) == GetEnds(o) \/ SetResumes(o)

Next ==
    \/ \E o \in Ops, k \in Keys :
        \/ GetMiss(o, k)
        \/ GetHit(o, k)
        \/ \E life \in Lifetimes : Set(o, k, life)
    \/ \E o \in Ops : Resume(o)
    \/ FileOperation
    \/ Tick

\* File operations end, and so does a turn of the event loop.
Fairness == WF_vars(FileOperation) /\ \A o \in Ops : WF_vars(Resume(o))

Spec == Init /\ [][Next]_vars /\ Fairness

-----------------------------------------------------------------------------
(* Properties. *)

Idle == \A k \in Keys : lock[k] = <<>> /\ \A o \in Ops : stage[o] \in {"idle", "done"}
Live(k) == index[k] # None /\ ~Outdated(index[k])

\* A get answers with nothing, or with content that no set had replaced by the time
\* the get began: calls in any order, failed writes and removals under way included.
NeverReplaced ==
    \A g \in Ops : stage[g] \in {"read", "done"} /\ result[g] \notin {None, g} =>
        \A s \in earlier[g] : key[s] = key[g] => result[g] \notin earlier[s]

\* When nothing is under way, and without options.stale, the file of every entry
\* that is not outdated is there, unless it could not be written: no deletion meant
\* for an older entry, or for another key, has taken it away.
LiveEntryHasFile ==
    ~options.stale /\ Idle => \A k \in Keys : Live(k) /\ k \notin spoilt => file[k] # None

\* What the comment in get says of the entry it drops after reading: outdated.
DropsOutdatedOnly ==
    [][\A o \in Ops : stage[o] = "read" /\ stage'[o] = "done" =>
        ~(Live(key[o]) /\ index'[key[o]] = None)]_vars

\* Every call returns, whatever waits for the locks.
EveryCallReturns == \A o \in Ops : (stage[o] # "idle") ~> (stage[o] = "done")

===============================================================================
