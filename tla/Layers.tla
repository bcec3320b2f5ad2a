------------------------------- MODULE Layers -------------------------------
(***************************************************************************)
(* A multilayered cache of two layers, an LRUCache in memory and a         *)
(* DiskCache, under gets with a fetcher and sets of one key.  Memory       *)
(* answers at once; the file is read and written under its lock, in the    *)
(* order of asking.  A value is the number of the set that wrote it, and   *)
(* what a fetcher fetches is the newest.  Statistics are left out.         *)
(***************************************************************************)
EXTENDS Integers, Sequences

CONSTANTS
    Getters,  \* calls of get
    Setters   \* calls of set

Absent == -1
Undefined == 0

VARIABLES
    memory,   \* the value in LRUCache's storage
    file,     \* the value in DiskCache's file
    lock,     \* what waits for the file: a call, and the value if it writes
    getting,  \* "new", "disk", "fetch", "done", "failed"
    setting,  \* "new", "storing", "done"
    hasFile,  \* what has of DiskCache told a get
    answer,   \* what a get returns
    newest,   \* the number of the newest set
    since,    \* that number when a get began to fetch
    seen,     \* the newest value a call that has ended returned or stored
    floor,    \* seen when a get began
    failure,  \* a file operation failed
    putBack   \* gets that put a value into memory after a set of a newer had begun

layerVars == <<memory, file, lock, getting, setting, hasFile, answer, newest, since,
               seen, floor, failure, putBack>>

LayersInit ==
    /\ memory = Absent /\ file = Absent
    /\ lock = <<>>
    /\ getting = [g \in Getters |-> "new"]
    /\ setting = [s \in Setters |-> "new"]
    /\ hasFile = [g \in Getters |-> FALSE]
    /\ answer = [g \in Getters |-> Undefined]
    /\ newest = 1
    /\ since = [g \in Getters |-> 0]
    /\ seen = 0 /\ floor = [g \in Getters |-> 0]
    /\ failure = FALSE /\ putBack = {}

Later(a, b) == IF a > b THEN a ELSE b
Waiting(c, v) == [call |-> c, writes |-> v]
PutBack(g, v) == IF v < newest THEN putBack \cup {g} ELSE putBack

-----------------------------------------------------------------------------

Returns(g, v) ==
    /\ getting' = [getting EXCEPT ![g] = "done"]
    /\ answer' = [answer EXCEPT ![g] = v]
    /\ seen' = Later(seen, v)

\* findIndex: the first layer that has the key wins.
GetFromMemory(g) ==
    /\ getting[g] = "new" /\ memory # Absent
    /\ Returns(g, memory)
    /\ floor' = [floor EXCEPT ![g] = seen]
    /\ UNCHANGED <<memory, file, lock, setting, hasFile, newest, since, failure, putBack>>

\* The next is asked for the value and whether it has the key, both at once.
AskDisk(g) ==
    /\ getting[g] = "new" /\ memory = Absent
    /\ getting' = [getting EXCEPT ![g] = "disk"]
    /\ floor' = [floor EXCEPT ![g] = seen]
    /\ hasFile' = [hasFile EXCEPT ![g] = file # Absent]
    /\ lock' = Append(lock, Waiting(g, Absent))
    /\ UNCHANGED <<memory, file, setting, answer, newest, since, seen, failure, putBack>>

\* A value found is put into the layers before, without its lifetime; undefined if
\* the file could not be read, for that it is there is enough.  Otherwise whatever
\* was read is dropped and the fetcher called.
EndOfRead(g, v) ==
    IF hasFile[g]
    THEN /\ memory' = v
         /\ Returns(g, v)
         /\ failure' = (failure \/ v = Undefined)
         /\ putBack' = PutBack(g, v)
         /\ UNCHANGED since
    ELSE /\ getting' = [getting EXCEPT ![g] = "fetch"]
         /\ since' = [since EXCEPT ![g] = newest]
         /\ UNCHANGED <<memory, answer, seen, failure, putBack>>

\* Mutant: DiskCache.get without its readLock.
ReadUnlocked(g) ==
    /\ getting[g] = "disk"
    /\ \E v \in {Undefined, Later(file, Undefined)} : EndOfRead(g, v)
    /\ lock' = SelectSeq(lock, LAMBDA w : w # Waiting(g, Absent))
    /\ UNCHANGED <<file, setting, hasFile, newest, floor>>
Read(g) ==
    /\ lock # <<>> /\ Head(lock) = Waiting(g, Absent)
    /\ \E v \in {Undefined, Later(file, Undefined)} : EndOfRead(g, v)
    /\ lock' = Tail(lock)
    /\ UNCHANGED <<file, setting, hasFile, newest, floor>>

\* Only the first layer's set is awaited, which is memory's and immediate.
Fetched(g) ==
    /\ getting[g] = "fetch"
    /\ \E v \in since[g]..newest :
          /\ memory' = v
          /\ lock' = Append(lock, Waiting(g, v))
          /\ Returns(g, v)
          /\ putBack' = PutBack(g, v)
    /\ UNCHANGED <<file, setting, hasFile, newest, since, floor, failure>>

FetcherFails(g) ==
    /\ getting[g] = "fetch"
    /\ getting' = [getting EXCEPT ![g] = "failed"]
    /\ UNCHANGED <<memory, file, lock, setting, hasFile, answer, newest, since, seen, floor,
                   failure, putBack>>

Set(s) ==
    /\ setting[s] = "new"
    /\ setting' = [setting EXCEPT ![s] = "storing"]
    /\ newest' = newest + 1
    /\ memory' = newest'
    /\ lock' = Append(lock, Waiting(s, newest'))
    /\ UNCHANGED <<file, getting, hasFile, answer, since, seen, floor, failure, putBack>>

\* The file is written, or not; nothing but a set awaits it.
Written ==
    /\ lock # <<>> /\ Head(lock).writes # Absent
    /\ lock' = Tail(lock)
    /\ LET c == Head(lock).call  v == Head(lock).writes IN
       /\ \/ file' = v /\ UNCHANGED failure
          \/ failure' = TRUE /\ UNCHANGED file
       /\ IF c \in Setters
          THEN /\ setting' = [setting EXCEPT ![c] = "done"]
               /\ seen' = Later(seen, v)
          ELSE UNCHANGED <<setting, seen>>
    /\ UNCHANGED <<memory, getting, hasFile, answer, newest, since, floor, putBack>>

\* Memory evicts the entry, or its lifetime is over.
MemoryDrops ==
    /\ memory # Absent
    /\ memory' = Absent
    /\ UNCHANGED <<file, lock, getting, setting, hasFile, answer, newest, since, seen, floor,
                   failure, putBack>>

LayersNext ==
    \/ \E g \in Getters : GetFromMemory(g) \/ AskDisk(g) \/ Read(g) \/ Fetched(g)
                          \/ FetcherFails(g)
    \/ \E s \in Setters : Set(s)
    \/ Written \/ MemoryDrops

LayersSpec == LayersInit /\ [][LayersNext]_layerVars

-----------------------------------------------------------------------------

LayersTypeOK ==
    /\ {memory, file} \subseteq Absent..newest
    /\ getting \in [Getters -> {"new", "disk", "fetch", "done", "failed"}]
    /\ setting \in [Setters -> {"new", "storing", "done"}]
    /\ \A i \in DOMAIN lock : lock[i].call \in Getters \cup Setters
    /\ failure \in BOOLEAN /\ putBack \subseteq Getters

\* A get never returns less than any call that had ended when it began returned or
\* stored, although most writes of the file are not awaited and memory may drop the
\* value meanwhile: the lock makes a read wait for them.  It may after a failed file
\* operation (a file that is there and cannot be read is a hit of undefined), or
\* after another get put what it had read or fetched over the value of a later set.
AnswersDoNotGoBack ==
    \A g \in Getters : getting[g] = "done" =>
        failure \/ putBack \ {g} # {} \/ answer[g] >= Later(floor[g], 1)

=============================================================================
