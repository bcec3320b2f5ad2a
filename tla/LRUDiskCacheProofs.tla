-------------------------- MODULE LRUDiskCacheProofs --------------------------
(***************************************************************************)
(* Proofs about LRUDiskCache, for any calls, keys, lifetimes and sizes of  *)
(* the index.                                                              *)
(***************************************************************************)
EXTENDS LRUDiskCache, SequenceTheorems, FiniteSetTheorems, TLAPS

-----------------------------------------------------------------------------
(* Queues of locks. *)

LEMMA RemoveAtIs ==
  ASSUME NEW S, NEW s \in Seq(S), NEW i \in 1..Len(s)
  PROVE  /\ RemoveAt(s, i) \in Seq(S)
         /\ Len(RemoveAt(s, i)) = Len(s) - 1
         /\ \A j \in 1..(Len(s) - 1) :
               RemoveAt(s, i)[j] = IF j < i THEN s[j] ELSE s[j + 1]
  <1> DEFINE a == SubSeq(s, 1, i - 1)
             b == SubSeq(s, i + 1, Len(s))
  <1>1. a \in Seq(S) /\ Len(a) = i - 1 /\ \A j \in 1..(i - 1) : a[j] = s[j]
    BY SubSeqProperties
  <1>2. /\ b \in Seq(S) /\ Len(b) = Len(s) - i
        /\ \A j \in 1..(Len(s) - i) : b[j] = s[i + j]
    BY SubSeqProperties
  <1>3. RemoveAt(s, i) = a \o b
    BY DEF RemoveAt
  <1> HIDE DEF a, b
  <1>4. /\ a \o b \in Seq(S) /\ Len(a \o b) = Len(a) + Len(b)
        /\ \A j \in 1..(Len(a) + Len(b)) :
              (a \o b)[j] = IF j <= Len(a) THEN a[j] ELSE b[j - Len(a)]
    BY <1>1, <1>2, ConcatProperties
  <1>5. ASSUME NEW j \in 1..(Len(s) - 1)
        PROVE  RemoveAt(s, i)[j] = IF j < i THEN s[j] ELSE s[j + 1]
    <2>1. CASE j < i
      BY <1>1, <1>2, <1>3, <1>4, <2>1
    <2>2. CASE ~(j < i)
      <3>1. j - (i - 1) \in 1..(Len(s) - i)
        BY <2>2
      <3>2. b[j - (i - 1)] = s[i + (j - (i - 1))]
        BY <1>2, <3>1
      <3>3. i + (j - (i - 1)) = j + 1
        OBVIOUS
      <3> QED
        BY <1>1, <1>2, <1>3, <1>4, <2>2, <3>2, <3>3
    <2> QED
      BY <2>1, <2>2
  <1> QED
    BY <1>1, <1>2, <1>3, <1>4, <1>5

Stages == {"idle", "reading", "read", "deleting", "writing", "done"}

FunctionTypes ==
    /\ options \in [maxAge : MaxAges, stale : Stales]
    /\ stage \in [Ops -> Stages]
    /\ key \in [Ops -> Keys \cup {None}]
    /\ death \in [Ops -> Nat]
    /\ result \in [Ops -> Ops \cup {None}]
    /\ index \in [Keys -> Entries \cup {None}]
    /\ keyToBeDeleted \in Keys \cup {None}
    /\ lock \in [Keys -> Seq(Jobs)]
    /\ file \in [Keys -> Ops \cup {None}]
    /\ now \in 0..MaxTime
    /\ earlier \in [Ops -> SUBSET Ops]
    /\ spoilt \subseteq Keys

\* The awaits at which a call holds or waits for the lock of its key.
Waiting(kind) == IF kind = "read" THEN "reading" ELSE "writing"

\* Each queued read or write is that of the call which waits for it, once.
Owned ==
    \A k \in Keys : \A i \in 1..Len(lock[k]) :
        IF lock[k][i].kind = "remove" THEN lock[k][i].op = None
        ELSE /\ lock[k][i].op \in Ops
             /\ key[lock[k][i].op] = k
             /\ stage[lock[k][i].op] = Waiting(lock[k][i].kind)
             /\ \A j \in 1..Len(lock[k]) : j # i => lock[k][j].op # lock[k][i].op

\* A call has its key, and no result before its file operation.
Called ==
    \A o \in Ops :
        /\ stage[o] # "idle" => key[o] \in Keys
        /\ stage[o] \notin {"read", "done"} => result[o] = None

CallInv == FunctionTypes /\ Owned /\ Called

LEMMA LockType ==
  ASSUME FunctionTypes, NEW k \in Keys
  PROVE  /\ lock[k] \in Seq(Jobs) /\ DOMAIN lock[k] = 1..Len(lock[k]) /\ Len(lock[k]) \in Nat
         /\ \A i \in 1..Len(lock[k]) : lock[k][i] \in Jobs
  BY DEF FunctionTypes

\* A call o, which waits for no lock, queues a job for the lock of q, or none.
Asks(o, q, job) ==
    /\ stage[o] \notin {"reading", "writing"}
    /\ \A p \in Ops : p # o => stage'[p] = stage[p] /\ key'[p] = key[p]
    /\ \/ lock' = lock /\ stage'[o] \notin {"reading", "writing"}
       \/ /\ lock' = [lock EXCEPT ![q] = Append(@, job)]
          /\ job.kind = "remove" => job.op = None
          /\ job.kind # "remove" => /\ job.op = o /\ key'[o] = q
                                    /\ stage'[o] = Waiting(job.kind)

\* The i-th job of k is performed.
Releases(k, i) ==
    /\ lock' = [lock EXCEPT ![k] = RemoveAt(@, i)]
    /\ \A p \in Ops :
        /\ key'[p] = key[p]
        /\ lock[k][i].kind = "remove" \/ p # lock[k][i].op => stage'[p] = stage[p]

LEMMA AskedLocks ==
  ASSUME FunctionTypes, NEW q \in Keys, NEW job \in Jobs,
         lock' = [lock EXCEPT ![q] = Append(@, job)], NEW k \in Keys
  PROVE  /\ Len(lock'[k]) = IF k = q THEN Len(lock[k]) + 1 ELSE Len(lock[k])
         /\ \A i \in 1..Len(lock[k]) : lock'[k][i] = lock[k][i]
         /\ lock'[q][Len(lock[q]) + 1] = job
         /\ lock'[k] \in Seq(Jobs)
  <1>1. lock'[k] = IF k = q THEN Append(lock[k], job) ELSE lock[k]
    BY DEF FunctionTypes
  <1> DEFINE s == lock[k]
  <1>2. s \in Seq(Jobs)
    BY LockType
  <1> HIDE DEF s
  <1>3. /\ Len(Append(s, job)) = Len(s) + 1
        /\ \A i \in 1..Len(s) : Append(s, job)[i] = s[i]
        /\ Append(s, job)[Len(s) + 1] = job
        /\ Append(s, job) \in Seq(Jobs)
    BY <1>2, AppendProperties
  <1>4. CASE k = q
    BY <1>1, <1>3, <1>4 DEF s
  <1>5. CASE k # q
    <2>1. lock'[q] = Append(lock[q], job) /\ lock[q] \in Seq(Jobs)
      BY LockType DEF FunctionTypes
    <2>2. lock'[q][Len(lock[q]) + 1] = job
      BY <2>1, AppendProperties
    <2> QED
      BY <1>1, <1>2, <1>5, <2>2 DEF s
  <1> QED
    BY <1>4, <1>5

LEMMA ReleasedLocks ==
  ASSUME FunctionTypes, NEW q \in Keys, NEW i \in 1..Len(lock[q]),
         lock' = [lock EXCEPT ![q] = RemoveAt(@, i)], NEW k \in Keys
  PROVE  /\ Len(lock'[k]) = IF k = q THEN Len(lock[k]) - 1 ELSE Len(lock[k])
         /\ \A j \in 1..Len(lock'[k]) :
               lock'[k][j] = IF k = q /\ j >= i THEN lock[k][j + 1] ELSE lock[k][j]
         /\ lock'[k] \in Seq(Jobs)
  <1>1. lock'[k] = IF k = q THEN RemoveAt(lock[k], i) ELSE lock[k]
    BY DEF FunctionTypes
  <1>2. CASE k = q
    <2>1. i \in 1..Len(lock[k]) /\ lock[k] \in Seq(Jobs)
      BY <1>2, LockType
    <2> DEFINE s == lock[k]
    <2>2. s \in Seq(Jobs) /\ i \in 1..Len(s) /\ Len(s) \in Nat
      BY <2>1, LockType
    <2> HIDE DEF s
    <2>3. /\ RemoveAt(s, i) \in Seq(Jobs)
          /\ Len(RemoveAt(s, i)) = Len(s) - 1
          /\ \A j \in 1..(Len(s) - 1) :
                RemoveAt(s, i)[j] = IF j < i THEN s[j] ELSE s[j + 1]
      BY <2>2, RemoveAtIs
    <2>4. /\ Len(RemoveAt(s, i)) = Len(s) - 1
          /\ \A j \in 1..Len(RemoveAt(s, i)) :
                RemoveAt(s, i)[j] = IF j >= i THEN s[j + 1] ELSE s[j]
      BY <2>2, <2>3
    <2> QED
      BY <1>1, <1>2, <2>3, <2>4 DEF s
  <1>3. CASE k # q
    BY <1>1, <1>3, LockType
  <1> QED
    BY <1>2, <1>3

\* Of one job, and of two jobs of a lock.
OwnedJob(k, i) ==
    IF lock[k][i].kind = "remove" THEN lock[k][i].op = None
    ELSE /\ lock[k][i].op \in Ops
         /\ key[lock[k][i].op] = k
         /\ stage[lock[k][i].op] = Waiting(lock[k][i].kind)
DistinctJobs(k, i, j) ==
    lock[k][i].kind # "remove" /\ j # i => lock[k][j].op # lock[k][i].op

LEMMA OwnedIs ==
  Owned <=> \A k \in Keys : \A i \in 1..Len(lock[k]) :
               OwnedJob(k, i) /\ \A j \in 1..Len(lock[k]) : DistinctJobs(k, i, j)
  BY DEF Owned, OwnedJob, DistinctJobs

LEMMA OwnedNextIs ==
  Owned' <=> \A k \in Keys : \A i \in 1..Len(lock'[k]) :
               OwnedJob(k, i)' /\ \A j \in 1..Len(lock'[k]) : DistinctJobs(k, i, j)'
  BY DEF Owned, OwnedJob, DistinctJobs

LEMMA AskKeepsOwned ==
  ASSUME CallInv, NEW o \in Ops, NEW q \in Keys, NEW job \in Jobs, Asks(o, q, job)
  PROVE  Owned'
  <1> SUFFICES ASSUME NEW k \in Keys, NEW i \in 1..Len(lock'[k])
               PROVE  /\ OwnedJob(k, i)'
                      /\ \A j \in 1..Len(lock'[k]) : DistinctJobs(k, i, j)'
    BY OwnedNextIs
  \* The jobs queued before are of other calls, which stay where they are.
  <1>1. ASSUME NEW j \in 1..Len(lock[k])
        PROVE  /\ OwnedJob(k, j) /\ \A n \in 1..Len(lock[k]) : DistinctJobs(k, j, n)
               /\ lock[k][j].op # o
               /\ lock'[k][j] = lock[k][j] => OwnedJob(k, j)'
    <2>1. OwnedJob(k, j) /\ \A n \in 1..Len(lock[k]) : DistinctJobs(k, j, n)
      BY OwnedIs DEF CallInv
    <2>2. lock[k][j].op # o
      BY <2>1, ConstantsAssumption DEF OwnedJob, Asks, Waiting
    <2> QED
      BY <2>1, <2>2 DEF OwnedJob, Asks
  <1>2. CASE lock' = lock
    BY <1>1, <1>2 DEF DistinctJobs
  <1>3. CASE lock' # lock
    <2>1. /\ lock' = [lock EXCEPT ![q] = Append(@, job)]
          /\ job.kind = "remove" => job.op = None
          /\ job.kind # "remove" => job.op = o /\ key'[o] = q /\ stage'[o] = Waiting(job.kind)
      BY <1>3 DEF Asks
    <2>2. /\ Len(lock'[k]) = IF k = q THEN Len(lock[k]) + 1 ELSE Len(lock[k])
          /\ \A j \in 1..Len(lock[k]) : lock'[k][j] = lock[k][j]
          /\ lock'[q][Len(lock[q]) + 1] = job
      BY <2>1, AskedLocks DEF CallInv
    <2>6. Len(lock[k]) \in Nat
      BY LockType DEF CallInv
    <2>3. ASSUME NEW j \in 1..Len(lock'[k])
          PROVE  \/ j \in 1..Len(lock[k]) /\ lock'[k][j] = lock[k][j]
                 \/ k = q /\ j = Len(lock[k]) + 1 /\ lock'[k][j] = job
      BY <2>2, <2>6
    <2>4. OwnedJob(k, i)'
      BY <1>1, <2>1, <2>3 DEF OwnedJob
    <2>5. ASSUME NEW j \in 1..Len(lock'[k]) PROVE DistinctJobs(k, i, j)'
      <3> SUFFICES ASSUME lock'[k][i].kind # "remove", j # i
                   PROVE  lock'[k][j].op # lock'[k][i].op
        BY DEF DistinctJobs
      <3>1. CASE i \in 1..Len(lock[k]) /\ j \in 1..Len(lock[k])
        BY <1>1, <2>2, <3>1 DEF DistinctJobs
      <3>2. CASE i \in 1..Len(lock[k]) /\ lock'[k][j] = job
        <4>1. lock[k][i].op \in Ops /\ lock[k][i].op # o /\ lock'[k][i] = lock[k][i]
          BY <1>1, <2>2, <3>2 DEF OwnedJob
        <4> QED
          BY <2>1, <3>2, <4>1, ConstantsAssumption
      <3>3. CASE lock'[k][i] = job /\ j \in 1..Len(lock[k])
        BY <1>1, <2>1, <2>2, <3>3
      <3> QED
        BY <2>3, <3>1, <3>2, <3>3
    <2> QED
      BY <2>4, <2>5
  <1> QED
    BY <1>2, <1>3

LEMMA ReleaseKeepsOwned ==
  ASSUME CallInv, NEW q \in Keys, NEW i \in 1..Len(lock[q]), Releases(q, i)
  PROVE  Owned'
  <1> SUFFICES ASSUME NEW k \in Keys, NEW n \in 1..Len(lock'[k])
               PROVE  /\ OwnedJob(k, n)'
                      /\ \A m \in 1..Len(lock'[k]) : DistinctJobs(k, n, m)'
    BY OwnedNextIs
  <1>1. /\ Len(lock'[k]) = IF k = q THEN Len(lock[k]) - 1 ELSE Len(lock[k])
        /\ \A j \in 1..Len(lock'[k]) :
              lock'[k][j] = IF k = q /\ j >= i THEN lock[k][j + 1] ELSE lock[k][j]
        /\ Len(lock[k]) \in Nat
    BY ReleasedLocks, LockType DEF CallInv, Releases
  <1> DEFINE Before(j) == IF k = q /\ j >= i THEN j + 1 ELSE j
  <1>2. ASSUME NEW j \in 1..Len(lock'[k])
        PROVE  /\ Before(j) \in 1..Len(lock[k]) /\ lock'[k][j] = lock[k][Before(j)]
               /\ k = q => Before(j) # i
    BY <1>1
  <1>3. \A m \in 1..Len(lock'[k]) : m # n => Before(m) # Before(n)
    OBVIOUS
  <1> HIDE DEF Before
  <1>4. /\ OwnedJob(k, Before(n))
        /\ \A m \in 1..Len(lock[k]) : DistinctJobs(k, Before(n), m)
    BY <1>2, OwnedIs DEF CallInv
  <1>5. OwnedJob(k, n)'
    <2>1. CASE lock[k][Before(n)].kind = "remove"
      BY <1>2, <1>4, <2>1 DEF OwnedJob
    <2>2. CASE lock[k][Before(n)].kind # "remove"
      <3> DEFINE p == lock[k][Before(n)].op
      <3>1. p \in Ops /\ key[p] = k /\ stage[p] = Waiting(lock[k][Before(n)].kind)
        BY <1>4, <2>2 DEF OwnedJob
      <3>2. lock[q][i].kind = "remove" \/ p # lock[q][i].op
        <4>1. CASE k = q
          BY <1>2, <1>4, <2>2, <4>1 DEF DistinctJobs
        <4>2. CASE k # q
          BY <3>1, <4>2, OwnedIs DEF CallInv, OwnedJob
        <4> QED
          BY <4>1, <4>2
      <3>3. stage'[p] = stage[p] /\ key'[p] = key[p]
        BY <3>1, <3>2 DEF Releases
      <3> QED
        BY <1>2, <3>1, <3>3, <2>2 DEF OwnedJob
    <2> QED
      BY <2>1, <2>2
  <1>6. ASSUME NEW m \in 1..Len(lock'[k]) PROVE DistinctJobs(k, n, m)'
    BY <1>2, <1>3, <1>4 DEF DistinctJobs
  <1> QED
    BY <1>5, <1>6

-----------------------------------------------------------------------------
(* What each step does to the calls and the locks. *)

\* Up to its first await or from one await to the next, a call asks at most once.
CallStep(o) ==
    \/ \E k \in Keys : GetMiss(o, k) \/ GetHit(o, k)
                       \/ \E life \in Lifetimes : Set(o, k, life)
    \/ Resume(o)

LEMMA NextSteps ==
  ASSUME [Next]_vars
  PROVE  \/ \E o \in Ops : CallStep(o)
         \/ \E k \in Keys : \E i \in DOMAIN lock[k] :
               ReadFile(k, i) \/ WriteFile(k, i) \/ RemoveFile(k, i)
         \/ Tick \/ UNCHANGED vars
  BY DEF Next, CallStep, FileOperation, vars

LEMMA JobType ==
  /\ Job("remove", None) \in Jobs
  /\ \A o \in Ops : Job("read", o) \in Jobs /\ Job("write", o) \in Jobs
  /\ \A kind, o : Job(kind, o).kind = kind /\ Job(kind, o).op = o
  BY DEF Job, Jobs

\* A set, with the key its index evicts and the key it finds to be deleted.
SetEvicts(o, k, life, evicted, gone) ==
    /\ gone = IF evicted # None THEN evicted ELSE keyToBeDeleted
    /\ Begin(o, k)
    /\ index' = [x \in Keys |-> CASE x = k       -> EntryFor(life)
                                  [] x = evicted -> None
                                  [] OTHER       -> index[x]]
    /\ \/ /\ gone \notin {None, k}
          /\ Ask(gone, Job("remove", None))
          /\ keyToBeDeleted' = None
          /\ stage' = [stage EXCEPT ![o] = "deleting"]
       \/ /\ gone \in {None, k}
          /\ Ask(k, Job("write", o))
          /\ keyToBeDeleted' = gone
          /\ stage' = [stage EXCEPT ![o] = "writing"]
    /\ UNCHANGED <<death, result, file, now, spoilt>>

LEMMA SetIs ==
  ASSUME FunctionTypes, NEW o \in Ops, NEW k \in Keys, NEW life \in Lifetimes, Set(o, k, life)
  PROVE  \E evicted \in Evicted(k), gone \in Keys \cup {None} :
            SetEvicts(o, k, life, evicted, gone)
  <1>1. PICK evicted \in Evicted(k) :
           LET gone == IF evicted # None THEN evicted ELSE keyToBeDeleted IN
           /\ Begin(o, k)
           /\ index' = [x \in Keys |-> CASE x = k       -> EntryFor(life)
                                         [] x = evicted -> None
                                         [] OTHER       -> index[x]]
           /\ IF AskForDeletion(k, gone)
              THEN /\ Ask(gone, Job("remove", None))
                   /\ keyToBeDeleted' = None
                   /\ stage' = [stage EXCEPT ![o] = "deleting"]
              ELSE /\ Ask(k, Job("write", o))
                   /\ keyToBeDeleted' = gone
                   /\ stage' = [stage EXCEPT ![o] = "writing"]
           /\ UNCHANGED <<death, result, file, now, spoilt>>
    BY DEF Set
  <1> DEFINE g == IF evicted # None THEN evicted ELSE keyToBeDeleted
  <1>2. g \in Keys \cup {None}
    BY DEF Evicted, FunctionTypes
  <1>3. SetEvicts(o, k, life, evicted, g)
    BY <1>1 DEF SetEvicts, AskForDeletion
  <1> QED
    BY <1>2, <1>3

LEMMA CallStepAsks ==
  ASSUME CallInv, NEW o \in Ops, CallStep(o)
  PROVE  \E q \in Keys, job \in Jobs : Asks(o, q, job)
  <1>0. /\ \A kind, p : Job(kind, p).kind = kind /\ Job(kind, p).op = p
        /\ Job("remove", None) \in Jobs /\ Job("read", o) \in Jobs /\ Job("write", o) \in Jobs
    BY JobType
  <1> USE DEF CallInv, FunctionTypes
  <1>1. ASSUME NEW k \in Keys, GetMiss(o, k) PROVE Asks(o, k, Job("remove", None))
    BY <1>0, <1>1 DEF GetMiss, Begin, Ask, Asks
  <1>2. ASSUME NEW k \in Keys, GetHit(o, k) PROVE Asks(o, k, Job("read", o))
    BY <1>0, <1>2 DEF GetHit, Begin, Ask, Asks, Waiting
  <1>3. ASSUME NEW k \in Keys, NEW life \in Lifetimes, Set(o, k, life)
        PROVE  \E q \in Keys, job \in Jobs : Asks(o, q, job)
    <2>1. PICK evicted \in Evicted(k), gone \in Keys \cup {None} :
             SetEvicts(o, k, life, evicted, gone)
      BY <1>3, SetIs
    <2>2. CASE gone \in {None, k}
      <3>1. Asks(o, k, Job("write", o))
        BY <1>0, <2>1, <2>2 DEF SetEvicts, Begin, Ask, Asks, Waiting
      <3> QED
        BY <1>0, <3>1
    <2>3. CASE gone \notin {None, k}
      <3>1. Asks(o, gone, Job("remove", None)) /\ gone \in Keys
        BY <1>0, <2>1, <2>3 DEF SetEvicts, Begin, Ask, Asks
      <3> QED
        BY <1>0, <3>1
    <2> QED
      BY <2>2, <2>3
  <1>4. ASSUME GetEnds(o) PROVE Asks(o, key[o], Job("remove", None)) /\ key[o] \in Keys
    BY <1>0, <1>4 DEF GetEnds, Ask, Asks, Called
  <1>5. ASSUME SetResumes(o) PROVE Asks(o, key[o], Job("write", o)) /\ key[o] \in Keys
    BY <1>0, <1>5 DEF SetResumes, Ask, Asks, Waiting, Called
  <1> QED
    BY <1>0, <1>1, <1>2, <1>3, <1>4, <1>5 DEF CallStep, Resume

\* A file operation performs the first job of a lock or one of the reads it begins with.
FileStep(k, i) == ReadFile(k, i) \/ WriteFile(k, i) \/ RemoveFile(k, i)

LEMMA FileStepReleases ==
  ASSUME CallInv, NEW k \in Keys, NEW i \in 1..Len(lock[k]), FileStep(k, i)
  PROVE  Releases(k, i)
  <1>1. lock' = [lock EXCEPT ![k] = RemoveAt(@, i)] /\ key' = key
    BY DEF FileStep, ReadFile, WriteFile, RemoveFile, Release
  <1>2. \A p \in Ops : lock[k][i].kind = "remove" \/ p # lock[k][i].op => stage'[p] = stage[p]
    BY DEF FileStep, ReadFile, WriteFile, RemoveFile, CallInv, FunctionTypes
  <1> QED
    BY <1>1, <1>2 DEF Releases

\* The call whose job is performed.
LEMMA JobIs ==
  ASSUME CallInv, NEW k \in Keys, NEW i \in 1..Len(lock[k])
  PROVE  lock[k][i].kind # "remove" =>
            /\ lock[k][i].op \in Ops /\ key[lock[k][i].op] = k
            /\ stage[lock[k][i].op] = Waiting(lock[k][i].kind)
            /\ result[lock[k][i].op] = None
  <1>1. OwnedJob(k, i)
    BY OwnedIs DEF CallInv
  <1> QED
    BY <1>1 DEF OwnedJob, Waiting, CallInv, Called

LEMMA OwnedStep == CallInv /\ [Next]_vars => Owned'
  <1> SUFFICES ASSUME CallInv, [Next]_vars PROVE Owned'
    OBVIOUS
  <1>1. ASSUME NEW o \in Ops, CallStep(o) PROVE Owned'
    BY <1>1, CallStepAsks, AskKeepsOwned
  <1>2. ASSUME NEW k \in Keys, NEW i \in DOMAIN lock[k],
               ReadFile(k, i) \/ WriteFile(k, i) \/ RemoveFile(k, i)
        PROVE  Owned'
    BY <1>2, LockType, FileStepReleases, ReleaseKeepsOwned DEF CallInv, FileStep
  <1>3. CASE Tick \/ UNCHANGED vars
    BY <1>3 DEF Tick, vars, CallInv, Owned
  <1> QED
    BY <1>1, <1>2, <1>3, NextSteps

Past(o) == stage[o] \in {"read", "done"}

\* What a step does to the calls: a call that has begun keeps its key and what was
\* written before it, and one past its file operation keeps its result.
LEMMA BegunStays ==
  ASSUME CallInv, [Next]_vars, NEW o \in Ops, stage[o] # "idle"
  PROVE  /\ stage'[o] # "idle" /\ key'[o] = key[o] /\ earlier'[o] = earlier[o]
         /\ Past(o) => Past(o)' /\ result'[o] = result[o]
         /\ stage[o] = "done" => stage'[o] = "done"
  <1> USE DEF CallInv, FunctionTypes, Past
  <1>1. ASSUME NEW p \in Ops, CallStep(p)
        PROVE  /\ stage'[o] # "idle" /\ key'[o] = key[o] /\ earlier'[o] = earlier[o]
               /\ Past(o) => Past(o)' /\ result'[o] = result[o]
               /\ stage[o] = "done" => stage'[o] = "done"
    <2>1. ASSUME NEW k \in Keys, GetMiss(p, k)
          PROVE  /\ stage'[o] # "idle" /\ key'[o] = key[o] /\ earlier'[o] = earlier[o]
                 /\ Past(o) => Past(o)' /\ result'[o] = result[o]
                 /\ stage[o] = "done" => stage'[o] = "done"
      BY <2>1 DEF GetMiss, Begin
    <2>2. ASSUME NEW k \in Keys, GetHit(p, k)
          PROVE  /\ stage'[o] # "idle" /\ key'[o] = key[o] /\ earlier'[o] = earlier[o]
                 /\ Past(o) => Past(o)' /\ result'[o] = result[o]
                 /\ stage[o] = "done" => stage'[o] = "done"
      BY <2>2 DEF GetHit, Begin
    <2>3. ASSUME NEW k \in Keys, NEW life \in Lifetimes, Set(p, k, life)
          PROVE  /\ stage'[o] # "idle" /\ key'[o] = key[o] /\ earlier'[o] = earlier[o]
                 /\ Past(o) => Past(o)' /\ result'[o] = result[o]
                 /\ stage[o] = "done" => stage'[o] = "done"
      BY <2>3, SetIs DEF SetEvicts, Begin
    <2>4. CASE Resume(p)
      BY <2>4 DEF Resume, GetEnds, SetResumes
    <2> QED
      BY <1>1, <2>1, <2>2, <2>3, <2>4 DEF CallStep
  <1>2. ASSUME NEW k \in Keys, NEW i \in DOMAIN lock[k],
               ReadFile(k, i) \/ WriteFile(k, i) \/ RemoveFile(k, i)
        PROVE  /\ stage'[o] # "idle" /\ key'[o] = key[o] /\ earlier'[o] = earlier[o]
               /\ Past(o) => Past(o)' /\ result'[o] = result[o]
               /\ stage[o] = "done" => stage'[o] = "done"
    <2>1. i \in 1..Len(lock[k])
      BY LockType
    <2>2. lock[k][i].kind # "remove" => stage[lock[k][i].op] \in {"reading", "writing"}
      BY <2>1, JobIs DEF Waiting
    <2> QED
      BY <1>2, <2>2 DEF ReadFile, WriteFile, RemoveFile
  <1>3. CASE Tick \/ UNCHANGED vars
    BY <1>3 DEF Tick, vars
  <1> QED
    BY <1>1, <1>2, <1>3, NextSteps

LEMMA CalledStep == CallInv /\ [Next]_vars => Called'
  <1> SUFFICES ASSUME CallInv, [Next]_vars PROVE Called'
    OBVIOUS
  <1> USE DEF CallInv, FunctionTypes, Called
  <1>1. ASSUME NEW p \in Ops, CallStep(p) PROVE Called'
    <2>1. ASSUME NEW k \in Keys, GetMiss(p, k) PROVE Called'
      BY <2>1 DEF GetMiss, Begin
    <2>2. ASSUME NEW k \in Keys, GetHit(p, k) PROVE Called'
      BY <2>2 DEF GetHit, Begin
    <2>3. ASSUME NEW k \in Keys, NEW life \in Lifetimes, Set(p, k, life) PROVE Called'
      <3>1. PICK evicted \in Evicted(k), gone \in Keys \cup {None} :
               SetEvicts(p, k, life, evicted, gone)
        BY <2>3, SetIs
      <3>2. /\ \A o \in Ops : o # p => stage'[o] = stage[o] /\ key'[o] = key[o]
            /\ result' = result /\ stage[p] = "idle"
            /\ key'[p] = k /\ stage'[p] \in {"deleting", "writing"}
        BY <3>1 DEF SetEvicts, Begin
      <3> QED
        BY <3>2
    <2>4. CASE Resume(p)
      BY <2>4 DEF Resume, GetEnds, SetResumes
    <2> QED
      BY <1>1, <2>1, <2>2, <2>3, <2>4 DEF CallStep
  <1>2. ASSUME NEW k \in Keys, NEW i \in DOMAIN lock[k],
               ReadFile(k, i) \/ WriteFile(k, i) \/ RemoveFile(k, i)
        PROVE  Called'
    <2>1. i \in 1..Len(lock[k])
      BY LockType
    <2>2. lock[k][i].kind # "remove" =>
             lock[k][i].op \in Ops /\ stage[lock[k][i].op] \in {"reading", "writing"}
      BY <2>1, JobIs DEF Waiting
    <2>3. CASE ReadFile(k, i)
      BY <2>2, <2>3 DEF ReadFile
    <2>4. CASE WriteFile(k, i)
      <3>1. \A o \in Ops : /\ key'[o] = key[o]
                           /\ o # lock[k][i].op => stage'[o] = stage[o] /\ result'[o] = result[o]
                           /\ o = lock[k][i].op => stage'[o] = "done" /\ stage[o] # "idle"
        BY <2>2, <2>4 DEF WriteFile
      <3> QED
        BY <3>1
    <2>5. CASE RemoveFile(k, i)
      BY <2>5 DEF RemoveFile
    <2> QED
      BY <1>2, <2>3, <2>4, <2>5
  <1>3. CASE Tick \/ UNCHANGED vars
    BY <1>3 DEF Tick, vars
  <1> QED
    BY <1>1, <1>2, <1>3, NextSteps

-----------------------------------------------------------------------------
(* Types, and the size of the index. *)

Indexed == {x \in Keys : index[x] # None}

\* What a call does to the index: an entry made by a set, which evicts another entry
\* if there are as many as fit, or an entry dropped.
LEMMA IndexChanges ==
  ASSUME CallInv, [Next]_vars
  PROVE  \/ /\ \A x \in Keys : index'[x] \in {index[x], None}
            /\ index' \in [Keys -> Entries \cup {None}]
         \/ \E o \in Ops, k \in Keys, life \in Lifetimes :
               \E evicted \in Evicted(k), gone \in Keys \cup {None} :
                  SetEvicts(o, k, life, evicted, gone)
  <1> USE DEF CallInv, FunctionTypes
  <1>1. ASSUME NEW o \in Ops, CallStep(o)
        PROVE  \/ \E k \in Keys, life \in Lifetimes : Set(o, k, life)
               \/ \E k \in Keys : index' \in {index, [index EXCEPT ![k] = None]}
    <2>1. ASSUME NEW k \in Keys, GetMiss(o, k) \/ GetHit(o, k)
          PROVE  index' \in {index, [index EXCEPT ![k] = None]}
      BY <2>1 DEF GetMiss, GetHit
    <2>2. ASSUME Resume(o)
          PROVE  \E k \in Keys : index' \in {index, [index EXCEPT ![k] = None]}
      BY <2>2 DEF Resume, GetEnds, SetResumes, Called
    <2> QED
      BY <1>1, <2>1, <2>2 DEF CallStep
  <1>2. ASSUME NEW k \in Keys, NEW i \in DOMAIN lock[k],
               ReadFile(k, i) \/ WriteFile(k, i) \/ RemoveFile(k, i)
        PROVE  index' = index
    BY <1>2 DEF ReadFile, WriteFile, RemoveFile
  <1>3. ASSUME Tick \/ UNCHANGED vars PROVE index' = index
    BY <1>3 DEF Tick, vars
  <1>4. CASE \E k \in Keys : index' \in {index, [index EXCEPT ![k] = None]}
    BY <1>4
  <1>5. CASE index' = index
    BY <1>5
  <1>6. CASE \E o \in Ops, k \in Keys, life \in Lifetimes : Set(o, k, life)
    BY <1>6, SetIs
  <1> QED
    BY <1>1, <1>2, <1>3, <1>4, <1>5, <1>6, NextSteps

LEMMA EntryType == FunctionTypes => \A life \in Lifetimes : EntryFor(life) \in Entries
  <1> SUFFICES ASSUME FunctionTypes, NEW life \in Lifetimes PROVE EntryFor(life) \in Entries
    OBVIOUS
  <1>1. life \in Nat /\ MaxTime \in Nat
    BY ConstantsAssumption
  <1>2. now \in Nat
    BY <1>1 DEF FunctionTypes
  <1>3. options.maxAge \in Nat
    <2>1. options.maxAge \in MaxAges
      BY DEF FunctionTypes
    <2> QED
      BY <2>1, ConstantsAssumption
  <1> DEFINE max == options.maxAge
  <1>4. EntryFor(life) \in {[stale |-> now + life, death |-> now + life],
                            [stale |-> now + max, death |-> Forever],
                            [stale |-> Forever, death |-> Forever]}
    BY <1>1, <1>3 DEF EntryFor
  <1>5. now + life \in Nat /\ now + max \in Nat /\ Forever \in Nat
    BY <1>1, <1>2, <1>3 DEF Forever
  <1> QED
    BY <1>4, <1>5 DEF Entries

LEMMA IndexStep ==
  ASSUME CallInv, [Next]_vars, Cardinality(Indexed) <= MaxItems
  PROVE  index' \in [Keys -> Entries \cup {None}] /\ Cardinality(Indexed') <= MaxItems
  <1>1. IsFiniteSet(Keys) /\ MaxItems \in Nat
    BY ConstantsAssumption
  <1>2. IsFiniteSet(Indexed) /\ Cardinality(Indexed) \in Nat
    BY <1>1, FS_Subset, FS_CardinalityType DEF Indexed
  <1>3. CASE /\ \A x \in Keys : index'[x] \in {index[x], None}
             /\ index' \in [Keys -> Entries \cup {None}]
    <2>1. Indexed' \subseteq Indexed
      BY <1>3 DEF Indexed
    <2>2. Cardinality(Indexed') <= Cardinality(Indexed) /\ Cardinality(Indexed') \in Nat
      BY <1>2, <2>1, FS_Subset, FS_CardinalityType
    <2> QED
      BY <1>1, <1>2, <1>3, <2>2
  <1>4. ASSUME NEW o \in Ops, NEW k \in Keys, NEW life \in Lifetimes,
               NEW evicted \in Evicted(k), NEW gone \in Keys \cup {None},
               SetEvicts(o, k, life, evicted, gone)
        PROVE  index' \in [Keys -> Entries \cup {None}] /\ Cardinality(Indexed') <= MaxItems
    <2> DEFINE others == {x \in Keys : x # k /\ index[x] # None}
    <2>1. IsFiniteSet(others) /\ Cardinality(others) \in Nat /\ k \notin others
          /\ Cardinality(others) <= Cardinality(Indexed)
      <3>1. others \subseteq Indexed
        BY DEF Indexed
      <3> QED
        BY <1>2, <3>1, FS_Subset, FS_CardinalityType
    <2>2. index' = [x \in Keys |-> CASE x = k       -> EntryFor(life)
                                     [] x = evicted -> None
                                     [] OTHER       -> index[x]]
      BY <1>4 DEF SetEvicts
    <2>3. evicted # k
      BY ConstantsAssumption DEF Evicted
    <2>4. \A x \in Keys : index'[x] = IF x = k THEN EntryFor(life)
                                      ELSE IF x = evicted THEN None ELSE index[x]
      BY <2>2, <2>3
    <2>5. index' \in [Keys -> Entries \cup {None}]
      BY <2>2, <2>3, EntryType DEF CallInv, FunctionTypes
    <2>6. Indexed' \subseteq (others \ {evicted}) \cup {k}
      BY <2>4 DEF Indexed
    <2>7. /\ IsFiniteSet(others \ {evicted})
          /\ Cardinality(others \ {evicted}) = IF evicted \in others THEN Cardinality(others) - 1
                                               ELSE Cardinality(others)
      BY <2>1, FS_RemoveElement
    <2>8. k \notin others \ {evicted}
      OBVIOUS
    <2>9. /\ IsFiniteSet((others \ {evicted}) \cup {k})
          /\ Cardinality((others \ {evicted}) \cup {k}) = Cardinality(others \ {evicted}) + 1
      BY <2>7, <2>8, FS_AddElement
    <2>10. Cardinality(Indexed') <= Cardinality((others \ {evicted}) \cup {k})
           /\ Cardinality(Indexed') \in Nat
      BY <2>6, <2>9, FS_Subset, FS_CardinalityType
    <2>11. IF Cardinality(others) >= MaxItems THEN evicted \in others ELSE evicted = None
      BY DEF Evicted
    <2> HIDE DEF others
    <2>12. Cardinality(Indexed') <= MaxItems
      BY <1>1, <1>2, <2>1, <2>7, <2>9, <2>10, <2>11
    <2> QED
      BY <2>5, <2>12
  <1> QED
    BY <1>3, <1>4, IndexChanges

LEMMA LockStep ==
  ASSUME CallInv, [Next]_vars
  PROVE  lock' \in [Keys -> Seq(Jobs)]
  <1>0. FunctionTypes /\ lock \in [Keys -> Seq(Jobs)]
    BY DEF CallInv, FunctionTypes
  <1>1. ASSUME NEW o \in Ops, CallStep(o) PROVE lock' \in [Keys -> Seq(Jobs)]
    <2>1. PICK q \in Keys, job \in Jobs : Asks(o, q, job)
      BY <1>1, CallStepAsks
    <2>2. CASE lock' = [lock EXCEPT ![q] = Append(@, job)]
      <3>1. \A k \in Keys : lock'[k] \in Seq(Jobs)
        BY <1>0, <2>2, AskedLocks
      <3> QED
        BY <1>0, <2>2, <3>1
    <2> QED
      BY <1>0, <2>1, <2>2 DEF Asks
  <1>2. ASSUME NEW q \in Keys, NEW i \in DOMAIN lock[q],
               ReadFile(q, i) \/ WriteFile(q, i) \/ RemoveFile(q, i)
        PROVE  lock' \in [Keys -> Seq(Jobs)]
    <2>1. lock' = [lock EXCEPT ![q] = RemoveAt(@, i)] /\ i \in 1..Len(lock[q])
      BY <1>0, <1>2, LockType DEF ReadFile, WriteFile, RemoveFile, Release
    <2>2. \A k \in Keys : lock'[k] \in Seq(Jobs)
      BY <1>0, <2>1, ReleasedLocks
    <2> QED
      BY <1>0, <2>1, <2>2
  <1>3. CASE Tick \/ UNCHANGED vars
    BY <1>0, <1>3 DEF Tick, vars
  <1> QED
    BY <1>1, <1>2, <1>3, NextSteps

\* The types of the variables which every step changes in place.
OtherTypes ==
    /\ options \in [maxAge : MaxAges, stale : Stales]
    /\ stage \in [Ops -> Stages]
    /\ key \in [Ops -> Keys \cup {None}]
    /\ death \in [Ops -> Nat]
    /\ result \in [Ops -> Ops \cup {None}]
    /\ keyToBeDeleted \in Keys \cup {None}
    /\ file \in [Keys -> Ops \cup {None}]
    /\ now \in 0..MaxTime
    /\ earlier \in [Ops -> SUBSET Ops]
    /\ spoilt \subseteq Keys

LEMMA OtherTypesStep ==
  ASSUME CallInv, [Next]_vars
  PROVE  OtherTypes'
  <1>0. OtherTypes
    BY DEF CallInv, FunctionTypes, OtherTypes
  <1> USE <1>0 DEF OtherTypes, Stages
  <1>1. ASSUME NEW o \in Ops, NEW k \in Keys, GetMiss(o, k) PROVE OtherTypes'
    BY <1>1 DEF GetMiss, Begin
  <1>2. ASSUME NEW o \in Ops, NEW k \in Keys, GetHit(o, k) PROVE OtherTypes'
    <2>1. index[k].death \in Nat
      BY <1>2 DEF GetHit, CallInv, FunctionTypes, Entries
    <2>2. death' \in [Ops -> Nat] /\ keyToBeDeleted' \in Keys \cup {None}
      BY <1>2, <2>1 DEF GetHit
    <2> QED
      BY <1>2, <2>2 DEF GetHit, Begin
  <1>3. ASSUME NEW o \in Ops, NEW k \in Keys, NEW life \in Lifetimes, Set(o, k, life)
        PROVE  OtherTypes'
    <2>1. PICK evicted \in Evicted(k), gone \in Keys \cup {None} :
             SetEvicts(o, k, life, evicted, gone)
      BY <1>3, SetIs DEF CallInv
    <2> QED
      BY <2>1 DEF SetEvicts, Begin
  <1>4. ASSUME NEW o \in Ops, Resume(o) PROVE OtherTypes'
    BY <1>4 DEF Resume, GetEnds, SetResumes
  <1>5. ASSUME NEW k \in Keys, NEW i \in DOMAIN lock[k], ReadFile(k, i) PROVE OtherTypes'
    BY <1>5 DEF ReadFile
  <1>6. ASSUME NEW k \in Keys, NEW i \in DOMAIN lock[k], WriteFile(k, i) PROVE OtherTypes'
    <2>1. lock[k][i].op \in Ops
      BY <1>6, LockType, JobIs DEF WriteFile, CallInv
    <2> QED
      BY <1>6, <2>1 DEF WriteFile
  <1>7. ASSUME NEW k \in Keys, NEW i \in DOMAIN lock[k], RemoveFile(k, i) PROVE OtherTypes'
    BY <1>7 DEF RemoveFile
  <1>8. CASE Tick
    BY <1>8, ConstantsAssumption DEF Tick
  <1>9. CASE UNCHANGED vars
    BY <1>9 DEF vars
  <1> QED
    BY <1>1, <1>2, <1>3, <1>4, <1>5, <1>6, <1>7, <1>8, <1>9, NextSteps DEF CallStep

TypeInv == CallInv /\ Cardinality(Indexed) <= MaxItems

LEMMA NextType == TypeInv /\ [Next]_vars => TypeInv'
  <1> SUFFICES ASSUME TypeInv, [Next]_vars PROVE TypeInv'
    OBVIOUS
  <1>1. CallInv
    BY DEF TypeInv
  <1>2. Owned' /\ Called'
    BY <1>1, OwnedStep, CalledStep
  <1>3. index' \in [Keys -> Entries \cup {None}] /\ Cardinality(Indexed') <= MaxItems
    BY <1>1, IndexStep DEF TypeInv
  <1>4. FunctionTypes'
    BY <1>1, <1>3, LockStep, OtherTypesStep DEF FunctionTypes, OtherTypes
  <1> QED
    BY <1>2, <1>3, <1>4 DEF TypeInv, CallInv, Indexed

LEMMA InitType == Init => TypeInv
  <1> SUFFICES ASSUME Init PROVE TypeInv
    OBVIOUS
  <1>1. Indexed = {}
    BY DEF Init, Indexed
  <1>2. Cardinality(Indexed) <= MaxItems
    BY <1>1, FS_EmptySet, ConstantsAssumption
  <1>3. \A k \in Keys : lock[k] = <<>> /\ Len(lock[k]) = 0
    BY DEF Init
  <1>4. lock \in [Keys -> Seq(Jobs)]
    BY DEF Init
  <1>5. FunctionTypes
    BY <1>4, ConstantsAssumption DEF Init, FunctionTypes, Stages, Forever
  <1>6. Owned /\ Called
    BY <1>3 DEF Init, Owned, Called
  <1> QED
    BY <1>2, <1>5, <1>6 DEF TypeInv, CallInv

\* The index never holds more entries than it may, every queue is one of well-formed
\* file operations, and all else keeps its type.
THEOREM TypeCorrect == Spec => []TypeOK
  <1>1. Init => TypeInv
    BY InitType
  <1>2. TypeInv /\ [Next]_vars => TypeInv'
    BY NextType
  <1>3. TypeInv => TypeOK
    BY LockType DEF TypeInv, CallInv, FunctionTypes, Stages, Indexed, TypeOK
  <1> QED
    BY <1>1, <1>2, <1>3, PTL DEF Spec

\* Every read or write in a queue is that of one call, which waits for it and for
\* nothing else: whatever fails, is evicted or is removed meanwhile, no file operation
\* is left behind by its call, and no call waits in two places.
THEOREM OperationsAreAwaited == Spec => []Owned
  <1>1. Init => TypeInv
    BY InitType
  <1>2. TypeInv /\ [Next]_vars => TypeInv'
    BY NextType
  <1>3. TypeInv => Owned
    BY DEF TypeInv, CallInv
  <1> QED
    BY <1>1, <1>2, <1>3, PTL DEF Spec

-----------------------------------------------------------------------------
(* Contents. *)

Written(s) == stage[s] = "done" /\ result[s] = s

\* What had been written when a call began has been written.
EarlierWritten == \A s \in Ops : \A x \in earlier[s] : Written(x)

\* A file holds what a set wrote to its key, and nothing which a later set of the same
\* key, begun when that was written, has replaced since.
FileWritten ==
    \A k \in Keys : file[k] # None => Written(file[k]) /\ key[file[k]] = k
FileIsLatest ==
    \A k \in Keys, s \in Ops :
        file[k] # None /\ Written(s) /\ key[s] = k => file[k] \notin earlier[s]

\* What a get reads was written by another call.
ReadsOthers == \A g \in Ops : stage[g] = "read" => result[g] # g

ContentInv ==
    EarlierWritten /\ FileWritten /\ FileIsLatest /\ ReadsOthers /\ NeverReplaced

\* A write that is performed, with success or not.
LEMMA WriteIs ==
  ASSUME CallInv, NEW k \in Keys, NEW i \in 1..Len(lock[k]), WriteFile(k, i),
         NEW o, o = lock[k][i].op
  PROVE  /\ o \in Ops /\ key[o] = k /\ stage[o] = "writing" /\ result[o] = None
         /\ stage' = [stage EXCEPT ![o] = "done"] /\ key' = key /\ earlier' = earlier
         /\ \/ file' = [file EXCEPT ![k] = o] /\ result' = [result EXCEPT ![o] = o]
            \/ /\ \E content \in {file[k], None} : file' = [file EXCEPT ![k] = content]
               /\ result' = result
  BY JobIs DEF WriteFile, Waiting

LEMMA ReadIs ==
  ASSUME CallInv, NEW k \in Keys, NEW i \in 1..Len(lock[k]), ReadFile(k, i),
         NEW o, o = lock[k][i].op
  PROVE  /\ o \in Ops /\ key[o] = k /\ stage[o] = "reading" /\ result[o] = None
         /\ stage' = [stage EXCEPT ![o] = "read"] /\ UNCHANGED <<key, earlier, file>>
         /\ result' \in {result, [result EXCEPT ![o] = file[k]]}
  BY JobIs DEF ReadFile, Waiting

\* What a get reads, and what a set has written, are all the results there are.
LEMMA ResultChanges ==
  ASSUME CallInv, [Next]_vars, NEW g \in Ops
  PROVE  \/ result'[g] = result[g]
         \/ /\ stage[g] = "reading" /\ stage'[g] = "read"
            /\ key[g] \in Keys /\ result'[g] = file[key[g]]
         \/ /\ stage[g] = "writing" /\ stage'[g] = "done"
            /\ key[g] \in Keys /\ result'[g] = g
            /\ file' = [file EXCEPT ![key[g]] = g] /\ earlier' = earlier
  <1>1. ASSUME NEW o \in Ops, CallStep(o) PROVE result' = result
    <2>1. ASSUME NEW k \in Keys, NEW life \in Lifetimes, Set(o, k, life)
          PROVE  result' = result
      BY <2>1, SetIs DEF SetEvicts, CallInv
    <2> QED
      BY <1>1, <2>1 DEF CallStep, GetMiss, GetHit, Resume, GetEnds, SetResumes
  <1>2. ASSUME NEW k \in Keys, NEW i \in DOMAIN lock[k], ReadFile(k, i)
        PROVE  \/ result'[g] = result[g]
               \/ /\ stage[g] = "reading" /\ stage'[g] = "read"
                  /\ key[g] \in Keys /\ result'[g] = file[key[g]]
    <2>1. i \in 1..Len(lock[k])
      BY LockType DEF CallInv
    <2>2. PICK o : o = lock[k][i].op
      OBVIOUS
    <2>3. /\ o \in Ops /\ key[o] = k /\ stage[o] = "reading"
          /\ stage' = [stage EXCEPT ![o] = "read"]
          /\ result' \in {result, [result EXCEPT ![o] = file[k]]}
      BY <1>2, <2>1, <2>2, ReadIs
    <2> QED
      BY <2>3 DEF CallInv, FunctionTypes
  <1>3. ASSUME NEW k \in Keys, NEW i \in DOMAIN lock[k], WriteFile(k, i)
        PROVE  \/ result'[g] = result[g]
               \/ /\ stage[g] = "writing" /\ stage'[g] = "done"
                  /\ key[g] \in Keys /\ result'[g] = g
                  /\ file' = [file EXCEPT ![key[g]] = g] /\ earlier' = earlier
    <2>1. i \in 1..Len(lock[k])
      BY LockType DEF CallInv
    <2>2. PICK o : o = lock[k][i].op
      OBVIOUS
    <2>3. /\ o \in Ops /\ key[o] = k /\ stage[o] = "writing"
          /\ stage' = [stage EXCEPT ![o] = "done"] /\ earlier' = earlier
          /\ \/ file' = [file EXCEPT ![k] = o] /\ result' = [result EXCEPT ![o] = o]
             \/ result' = result
      BY <1>3, <2>1, <2>2, WriteIs
    <2> QED
      BY <2>3 DEF CallInv, FunctionTypes
  <1>4. ASSUME NEW k \in Keys, NEW i \in DOMAIN lock[k], RemoveFile(k, i)
        PROVE  result' = result
    BY <1>4 DEF RemoveFile
  <1>5. Tick \/ UNCHANGED vars => result' = result
    BY DEF Tick, vars
  <1> QED
    BY <1>1, <1>2, <1>3, <1>4, <1>5, NextSteps

LEMMA FileChanges ==
  ASSUME CallInv, [Next]_vars, NEW k \in Keys
  PROVE  \/ file'[k] \in {file[k], None}
         \/ \E o \in Ops : /\ stage[o] = "writing" /\ key[o] = k
                           /\ file'[k] = o /\ earlier' = earlier /\ key' = key /\ Written(o)'
  <1>1. ASSUME NEW o \in Ops, CallStep(o) PROVE file' = file
    <2>1. ASSUME NEW q \in Keys, NEW life \in Lifetimes, Set(o, q, life)
          PROVE  file' = file
      BY <2>1, SetIs DEF SetEvicts, CallInv
    <2> QED
      BY <1>1, <2>1 DEF CallStep, GetMiss, GetHit, Resume, GetEnds, SetResumes
  <1>2. ASSUME NEW q \in Keys, NEW i \in DOMAIN lock[q], WriteFile(q, i)
        PROVE  \/ file'[k] \in {file[k], None}
               \/ \E o \in Ops : /\ stage[o] = "writing" /\ key[o] = k
                                 /\ file'[k] = o /\ earlier' = earlier /\ key' = key
                                 /\ Written(o)'
    <2>1. i \in 1..Len(lock[q])
      BY LockType DEF CallInv
    <2>5. PICK o : o = lock[q][i].op
      OBVIOUS
    <2>2. /\ o \in Ops /\ key[o] = q /\ stage[o] = "writing"
          /\ stage' = [stage EXCEPT ![o] = "done"] /\ key' = key /\ earlier' = earlier
          /\ \/ file' = [file EXCEPT ![q] = o] /\ result' = [result EXCEPT ![o] = o]
             \/ \E content \in {file[q], None} : file' = [file EXCEPT ![q] = content]
      BY <1>2, <2>1, <2>5, WriteIs
    <2>3. CASE file' = [file EXCEPT ![q] = o] /\ result' = [result EXCEPT ![o] = o]
      <3>1. Written(o)'
        BY <2>2, <2>3 DEF Written, CallInv, FunctionTypes
      <3> QED
        BY <2>2, <2>3, <3>1 DEF CallInv, FunctionTypes
    <2>4. CASE \E content \in {file[q], None} : file' = [file EXCEPT ![q] = content]
      BY <2>4 DEF CallInv, FunctionTypes
    <2> QED
      BY <2>2, <2>3, <2>4
  <1>3. ASSUME NEW q \in Keys, NEW i \in DOMAIN lock[q], ReadFile(q, i) \/ RemoveFile(q, i)
        PROVE  file'[k] \in {file[k], None}
    BY <1>3 DEF ReadFile, RemoveFile, CallInv, FunctionTypes
  <1>4. Tick \/ UNCHANGED vars => file' = file
    BY DEF Tick, vars
  <1> QED
    BY <1>1, <1>2, <1>3, <1>4, NextSteps

LEMMA EarlierChanges ==
  ASSUME CallInv, [Next]_vars, NEW s \in Ops
  PROVE  earlier'[s] = earlier[s] \/ \A x \in earlier'[s] : x \in Ops /\ Written(x)
  <1>1. ASSUME NEW o \in Ops, NEW k \in Keys, Begin(o, k)
        PROVE  earlier'[s] = earlier[s] \/ \A x \in earlier'[s] : x \in Ops /\ Written(x)
    BY <1>1 DEF Begin, Written, CallInv, FunctionTypes
  <1>2. ASSUME NEW o \in Ops, CallStep(o)
        PROVE  earlier' = earlier \/ \E k \in Keys : Begin(o, k)
    <2>1. ASSUME NEW k \in Keys, NEW life \in Lifetimes, Set(o, k, life) PROVE Begin(o, k)
      BY <2>1, SetIs DEF SetEvicts, CallInv
    <2> QED
      BY <1>2, <2>1 DEF CallStep, GetMiss, GetHit, Resume, GetEnds, SetResumes
  <1>3. ASSUME NEW q \in Keys, NEW i \in DOMAIN lock[q],
               ReadFile(q, i) \/ WriteFile(q, i) \/ RemoveFile(q, i)
        PROVE  earlier' = earlier
    BY <1>3 DEF ReadFile, WriteFile, RemoveFile
  <1>4. Tick \/ UNCHANGED vars => earlier' = earlier
    BY DEF Tick, vars
  <1> QED
    BY <1>1, <1>2, <1>3, <1>4, NextSteps

LEMMA WrittenStays ==
  ASSUME CallInv, [Next]_vars, NEW s \in Ops, Written(s)
  PROVE  Written(s)' /\ key'[s] = key[s] /\ earlier'[s] = earlier[s]
  BY BegunStays DEF Written, Past

\* A set that is written in this step has its content in the file of its key.
LEMMA NewlyWritten ==
  ASSUME CallInv, ContentInv, [Next]_vars, NEW s \in Ops, Written(s)', ~Written(s)
  PROVE  /\ stage[s] = "writing" /\ key[s] \in Keys /\ key'[s] = key[s]
         /\ file'[key[s]] = s /\ earlier' = earlier
  <1>1. stage'[s] = "done" /\ result'[s] = s /\ s # None
    BY ConstantsAssumption DEF Written
  <1>2. result'[s] # result[s]
    <2>1. CASE Past(s)
      BY <1>1, <2>1 DEF ContentInv, ReadsOthers, Past, Written
    <2>2. CASE ~Past(s)
      BY <1>1, <2>2 DEF CallInv, Called, Past
    <2> QED
      BY <2>1, <2>2
  <1>3. /\ stage[s] = "writing" /\ key[s] \in Keys
        /\ file' = [file EXCEPT ![key[s]] = s] /\ earlier' = earlier
    BY <1>1, <1>2, ResultChanges
  <1> QED
    BY <1>3, BegunStays DEF CallInv, FunctionTypes

LEMMA EarlierWrittenStep ==
  ASSUME CallInv, ContentInv, [Next]_vars
  PROVE  EarlierWritten'
  <1> SUFFICES ASSUME NEW s \in Ops, NEW x \in earlier'[s] PROVE Written(x)'
    BY DEF EarlierWritten, Written
  <1>1. x \in Ops /\ Written(x)
    BY EarlierChanges DEF ContentInv, EarlierWritten, CallInv, FunctionTypes
  <1> QED
    BY <1>1, WrittenStays

LEMMA FileWrittenStep ==
  ASSUME CallInv, ContentInv, [Next]_vars
  PROVE  FileWritten'
  <1> SUFFICES ASSUME NEW k \in Keys, file'[k] # None
               PROVE  Written(file[k])' /\ key'[file'[k]] = k
    BY DEF FileWritten
  <1>1. CASE file'[k] = file[k]
    <2>1. PICK s : s = file[k]
      OBVIOUS
    <2>2. s \in Ops /\ Written(s) /\ key[s] = k
      BY <1>1, <2>1 DEF ContentInv, FileWritten, CallInv, FunctionTypes
    <2>3. Written(s)' /\ key'[s] = k
      BY <2>2, WrittenStays
    <2> QED
      BY <1>1, <2>1, <2>3 DEF Written
  <1>2. ASSUME NEW o \in Ops, key[o] = k, file'[k] = o, key' = key, Written(o)'
        PROVE  Written(file[k])' /\ key'[file'[k]] = k
    BY <1>2 DEF Written
  <1> QED
    BY <1>1, <1>2, FileChanges

LEMMA FileIsLatestStep ==
  ASSUME CallInv, ContentInv, [Next]_vars
  PROVE  FileIsLatest'
  <1> SUFFICES ASSUME NEW k \in Keys, NEW s \in Ops,
                      file'[k] # None, Written(s)', key'[s] = k
               PROVE  file'[k] \notin earlier'[s]
    BY DEF FileIsLatest
  <1>1. CASE ~Written(s)
    <2>1. /\ stage[s] = "writing" /\ key'[s] = key[s]
          /\ file'[key[s]] = s /\ earlier' = earlier
      BY <1>1, NewlyWritten
    <2> QED
      BY <2>1, <1>1 DEF ContentInv, EarlierWritten
  <1>2. CASE Written(s) /\ file'[k] = file[k]
    <2>1. key[s] = k /\ earlier'[s] = earlier[s]
      BY <1>2, WrittenStays
    <2> QED
      BY <1>2, <2>1 DEF ContentInv, FileIsLatest
  <1>3. ASSUME NEW o \in Ops, Written(s), stage[o] = "writing", file'[k] = o, earlier' = earlier
        PROVE  file'[k] \notin earlier'[s]
    BY <1>3 DEF ContentInv, EarlierWritten, Written
  <1> QED
    BY <1>1, <1>2, <1>3, FileChanges

LEMMA ReadsOthersStep ==
  ASSUME CallInv, ContentInv, [Next]_vars
  PROVE  ReadsOthers'
  <1> SUFFICES ASSUME NEW g \in Ops, stage'[g] = "read" PROVE result'[g] # g
    BY DEF ReadsOthers
  <1>1. CASE result'[g] = result[g]
    <2>1. CASE Past(g)
      BY <1>1, <2>1, BegunStays DEF Past, ContentInv, ReadsOthers
    <2>2. CASE ~Past(g)
      BY <1>1, <2>2, ConstantsAssumption DEF Past, CallInv, Called
    <2> QED
      BY <2>1, <2>2
  <1>2. CASE stage[g] = "reading" /\ key[g] \in Keys /\ result'[g] = file[key[g]]
    BY <1>2, ConstantsAssumption DEF ContentInv, FileWritten, Written
  <1> QED
    BY <1>1, <1>2, ResultChanges

LEMMA NeverReplacedStep ==
  ASSUME CallInv, ContentInv, [Next]_vars
  PROVE  NeverReplaced'
  <1> SUFFICES ASSUME NEW g \in Ops, stage'[g] \in {"read", "done"},
                      result'[g] \notin {None, g},
                      NEW s \in earlier'[g], key'[s] = key'[g]
               PROVE  result'[g] \notin earlier'[s]
    BY DEF NeverReplaced
  <1>1. CASE Past(g)
    <2>1. result'[g] = result[g] /\ earlier'[g] = earlier[g] /\ key'[g] = key[g]
      BY <1>1, BegunStays DEF Past
    <2>2. s \in Ops /\ Written(s)
      BY <2>1 DEF ContentInv, EarlierWritten, CallInv, FunctionTypes
    <2>3. key'[s] = key[s] /\ earlier'[s] = earlier[s]
      BY <2>2, WrittenStays
    <2> QED
      BY <1>1, <2>1, <2>3 DEF ContentInv, NeverReplaced, Past
  <1>2. CASE ~Past(g)
    <2>1. result[g] = None
      BY <1>2 DEF Past, CallInv, Called
    <2>2. stage[g] = "reading" /\ key[g] \in Keys /\ result'[g] = file[key[g]]
      BY <2>1, ResultChanges
    <2>3. earlier'[g] = earlier[g] /\ key'[g] = key[g]
      BY <2>2, BegunStays
    <2>4. s \in Ops /\ Written(s)
      BY <2>3 DEF ContentInv, EarlierWritten, CallInv, FunctionTypes
    <2>5. key'[s] = key[s] /\ earlier'[s] = earlier[s]
      BY <2>4, WrittenStays
    <2> QED
      BY <2>2, <2>3, <2>4, <2>5 DEF ContentInv, FileIsLatest
  <1> QED
    BY <1>1, <1>2

\* A get is never answered with content that a set had replaced when the get began, in
\* whatever order calls, evictions, removals and failing file operations come.
THEOREM ReplacedStaysReplaced == Spec => []NeverReplaced
  <1>1. Init => TypeInv /\ ContentInv
    BY InitType, ConstantsAssumption
       DEF Init, ContentInv, EarlierWritten, FileWritten, FileIsLatest, ReadsOthers,
           NeverReplaced, Written
  <1>2. TypeInv /\ ContentInv /\ [Next]_vars => (TypeInv /\ ContentInv)'
    BY NextType, EarlierWrittenStep, FileWrittenStep, FileIsLatestStep, ReadsOthersStep,
       NeverReplacedStep DEF ContentInv, TypeInv
  <1>3. ContentInv => NeverReplaced
    BY DEF ContentInv
  <1> QED
    BY <1>1, <1>2, <1>3, PTL DEF Spec

-----------------------------------------------------------------------------
(* Files of entries, without options.stale. *)

NoRemoval(k, i) == \A j \in 1..Len(lock[k]) : j > i => lock[k][j].kind # "remove"

\* The last word on the file of k is a write: of a set which has still to ask for it, one
\* that is queued with no removal behind it, or one that has been performed.
Resuming(k) == \E o \in Ops : key[o] = k /\ stage[o] = "deleting"
Queued(k) == \E i \in 1..Len(lock[k]) : lock[k][i].kind = "write" /\ NoRemoval(k, i)
InPlace(k) == NoRemoval(k, 0) /\ (file[k] # None \/ k \in spoilt)
Kept(k) == Resuming(k) \/ Queued(k) \/ InPlace(k)

\* No key waits to be deleted, and the files of the entries are kept.
FilesKept ==
    ~options.stale => /\ keyToBeDeleted = None
                      /\ \A k \in Keys : index[k] # None => Kept(k)

LEMMA KeptWhenAsked ==
  ASSUME CallInv, NEW q \in Keys, NEW job \in Jobs, NEW k \in Keys,
         lock' = [lock EXCEPT ![q] = Append(@, job)],
         k # q \/ job.kind # "remove"
  PROVE  /\ Queued(k) => Queued(k)'
         /\ NoRemoval(k, 0) => NoRemoval(k, 0)'
         /\ k = q /\ job.kind = "write" => Queued(k)'
  <1>0. FunctionTypes
    BY DEF CallInv
  <1>1. /\ Len(lock'[k]) = IF k = q THEN Len(lock[k]) + 1 ELSE Len(lock[k])
        /\ \A i \in 1..Len(lock[k]) : lock'[k][i] = lock[k][i]
        /\ lock'[q][Len(lock[q]) + 1] = job
    BY <1>0, AskedLocks
  <1>2. Len(lock[k]) \in Nat
    BY <1>0, LockType
  <1>3. ASSUME NEW j \in 1..Len(lock'[k]), j \notin 1..Len(lock[k])
        PROVE  k = q /\ j = Len(lock[k]) + 1 /\ lock'[k][j] = job
    BY <1>1, <1>2, <1>3
  <1>4. ASSUME NEW i \in 0..Len(lock[k]), NoRemoval(k, i) PROVE NoRemoval(k, i)'
    <2> SUFFICES ASSUME NEW j \in 1..Len(lock'[k]), j > i
                 PROVE  lock'[k][j].kind # "remove"
      BY DEF NoRemoval
    <2>1. CASE j \in 1..Len(lock[k])
      BY <1>1, <1>4, <2>1 DEF NoRemoval
    <2>2. CASE j \notin 1..Len(lock[k])
      BY <1>3, <2>2
    <2> QED
      BY <2>1, <2>2
  <1>5. Queued(k) => Queued(k)'
    <2> SUFFICES ASSUME NEW i \in 1..Len(lock[k]), lock[k][i].kind = "write", NoRemoval(k, i)
                 PROVE  Queued(k)'
      BY DEF Queued
    <2>1. i \in 1..Len(lock'[k]) /\ lock'[k][i].kind = "write" /\ NoRemoval(k, i)'
      BY <1>1, <1>2, <1>4
    <2> QED
      BY <2>1 DEF Queued
  <1>6. ASSUME k = q, job.kind = "write" PROVE Queued(k)'
    <2> DEFINE n == Len(lock[k]) + 1
    <2>1. n \in 1..Len(lock'[k]) /\ lock'[k][n].kind = "write" /\ Len(lock'[k]) = n
      BY <1>1, <1>2, <1>6
    <2>2. PICK m \in 1..Len(lock'[k]) : lock'[k][m].kind = "write" /\ m = Len(lock'[k])
      BY <2>1
    <2>3. NoRemoval(k, m)'
      BY <2>2, <1>2, <2>1 DEF NoRemoval
    <2> QED
      BY <2>2, <2>3 DEF Queued
  <1> QED
    BY <1>2, <1>4, <1>5, <1>6

LEMMA KeptWhenReleased ==
  ASSUME CallInv, NEW q \in Keys, NEW i \in 1..Len(lock[q]), NEW k \in Keys,
         lock' = [lock EXCEPT ![q] = RemoveAt(@, i)]
  PROVE  /\ NoRemoval(k, 0) => NoRemoval(k, 0)'
         /\ Queued(k) => \/ Queued(k)'
                         \/ k = q /\ lock[q][i].kind = "write" /\ NoRemoval(q, i)
  <1>0. FunctionTypes
    BY DEF CallInv
  <1>1. /\ Len(lock'[k]) = IF k = q THEN Len(lock[k]) - 1 ELSE Len(lock[k])
        /\ \A j \in 1..Len(lock'[k]) :
              lock'[k][j] = IF k = q /\ j >= i THEN lock[k][j + 1] ELSE lock[k][j]
    <2>1. Len(lock'[k]) = IF k = q THEN Len(lock[k]) - 1 ELSE Len(lock[k])
      BY <1>0, ReleasedLocks
    <2>2. \A j \in 1..Len(lock'[k]) :
             lock'[k][j] = IF k = q /\ j >= i THEN lock[k][j + 1] ELSE lock[k][j]
      BY <1>0, ReleasedLocks
    <2> QED
      BY <2>1, <2>2
  <1>2. Len(lock[k]) \in Nat
    BY <1>0, LockType
  <1>3. NoRemoval(k, 0) => NoRemoval(k, 0)'
    BY <1>1, <1>2 DEF NoRemoval
  <1>4. ASSUME NEW n \in 1..Len(lock[k]), lock[k][n].kind = "write", NoRemoval(k, n),
               ~(k = q /\ n = i)
        PROVE  Queued(k)'
    <2> DEFINE m == IF k = q /\ n > i THEN n - 1 ELSE n
    <2>1. m \in 1..Len(lock'[k]) /\ lock'[k][m] = lock[k][n]
      BY <1>1, <1>2, <1>4
    <2>2. ASSUME NEW j \in 1..Len(lock'[k]), j > m PROVE lock'[k][j].kind # "remove"
      <3>1. PICK b \in 1..Len(lock[k]) : lock'[k][j] = lock[k][b] /\ b > n
        <4>1. CASE k = q /\ j >= i
          <5>1. j + 1 \in 1..Len(lock[k]) /\ lock'[k][j] = lock[k][j + 1] /\ j + 1 > n
            BY <1>1, <1>2, <2>2, <4>1
          <5> QED
            BY <5>1
        <4>2. CASE ~(k = q /\ j >= i)
          <5>1. j \in 1..Len(lock[k]) /\ lock'[k][j] = lock[k][j]
            BY <1>1, <1>2, <4>2
          <5>2. j > n
            BY <1>1, <1>2, <1>4, <2>2, <4>2
          <5> QED
            BY <5>1, <5>2
        <4> QED
          BY <4>1, <4>2
      <3> QED
        BY <1>4, <3>1 DEF NoRemoval
    <2> HIDE DEF m
    <2>3. PICK p \in 1..Len(lock'[k]) : p = m
      BY <2>1
    <2>4. lock'[k][p].kind = "write" /\ NoRemoval(k, p)'
      BY <1>4, <2>1, <2>2, <2>3 DEF NoRemoval
    <2> QED
      BY <2>4 DEF Queued
  <1> QED
    BY <1>3, <1>4 DEF Queued

LEMMA KeptUnderCalls ==
  ASSUME CallInv, NEW x \in Keys, Kept(x), UNCHANGED <<file, spoilt>>,
         lock' = lock \/ \E q \in Keys, job \in Jobs :
                            /\ lock' = [lock EXCEPT ![q] = Append(@, job)]
                            /\ x # q \/ job.kind # "remove",
         Resuming(x) => Resuming(x)' \/ Queued(x)'
  PROVE  Kept(x)'
  <1>1. CASE lock' = lock
    BY <1>1 DEF Kept, Queued, InPlace, NoRemoval
  <1>2. ASSUME NEW q \in Keys, NEW job \in Jobs, lock' = [lock EXCEPT ![q] = Append(@, job)],
               x # q \/ job.kind # "remove"
        PROVE  Kept(x)'
    <2>1. (Queued(x) => Queued(x)') /\ (NoRemoval(x, 0) => NoRemoval(x, 0)')
      BY <1>2, KeptWhenAsked
    <2> QED
      BY <2>1 DEF Kept, InPlace
  <1> QED
    BY <1>1, <1>2

\* The calls that were resuming a set stay where they are, but for one that resumes.
LEMMA ResumingStays ==
  ASSUME CallInv, NEW x \in Keys, NEW o \in Ops, stage[o] # "deleting",
         \A p \in Ops : p # o => stage'[p] = stage[p] /\ key'[p] = key[p]
  PROVE  Resuming(x) => Resuming(x)'
  BY DEF Resuming

LEMMA KeptByCalls ==
  ASSUME CallInv, FilesKept, ~options.stale, NEW o \in Ops, CallStep(o)
  PROVE  /\ keyToBeDeleted' = None
         /\ \A x \in Keys : index'[x] # None => Kept(x)'
  <1>0. /\ \A kind, p : Job(kind, p).kind = kind /\ Job(kind, p).op = p
        /\ Job("remove", None) \in Jobs /\ Job("read", o) \in Jobs /\ Job("write", o) \in Jobs
    BY JobType
  <1>1. keyToBeDeleted = None /\ \A x \in Keys : index[x] # None => Kept(x)
    BY DEF FilesKept
  <1>2. ASSUME NEW k \in Keys, GetMiss(o, k)
        PROVE  /\ keyToBeDeleted' = None
               /\ \A x \in Keys : index'[x] # None => Kept(x)'
    <2>1. /\ keyToBeDeleted' = None /\ UNCHANGED <<file, spoilt>>
          /\ lock' = lock \/ lock' = [lock EXCEPT ![k] = Append(@, Job("remove", None))]
      BY <1>2 DEF GetMiss, Ask
    <2>2. /\ stage[o] = "idle"
          /\ \A p \in Ops : p # o => stage'[p] = stage[p] /\ key'[p] = key[p]
      BY <1>2 DEF GetMiss, Begin, CallInv, FunctionTypes
    <2>3. ASSUME NEW x \in Keys, index'[x] # None PROVE Kept(x)'
      <3>1. x # k /\ index[x] # None
        BY <1>2, <2>3 DEF GetMiss, CallInv, FunctionTypes
      <3> QED
        BY <1>0, <1>1, <2>1, <2>2, <3>1, ResumingStays, KeptUnderCalls
    <2> QED
      BY <2>1, <2>3
  <1>3. ASSUME NEW k \in Keys, GetHit(o, k)
        PROVE  /\ keyToBeDeleted' = None
               /\ \A x \in Keys : index'[x] # None => Kept(x)'
    <2>1. /\ keyToBeDeleted' = None /\ index' = index /\ UNCHANGED <<file, spoilt>>
          /\ lock' = [lock EXCEPT ![k] = Append(@, Job("read", o))]
      BY <1>1, <1>3 DEF GetHit, Ask
    <2>2. /\ stage[o] = "idle"
          /\ \A p \in Ops : p # o => stage'[p] = stage[p] /\ key'[p] = key[p]
      BY <1>3 DEF GetHit, Begin, CallInv, FunctionTypes
    <2>3. ASSUME NEW x \in Keys, index'[x] # None PROVE Kept(x)'
      <3>1. Resuming(x) => Resuming(x)'
        BY <2>2, ResumingStays
      <3>2. Kept(x) /\ Job("read", o).kind # "remove" /\ Job("read", o) \in Jobs
        BY <1>0, <1>1, <2>1, <2>3
      <3> QED
        BY <2>1, <3>1, <3>2, KeptUnderCalls
    <2> QED
      BY <2>1, <2>3
  <1>4. ASSUME NEW k \in Keys, NEW life \in Lifetimes, Set(o, k, life)
        PROVE  /\ keyToBeDeleted' = None
               /\ \A x \in Keys : index'[x] # None => Kept(x)'
    <2>1. PICK evicted \in Evicted(k), gone \in Keys \cup {None} :
             SetEvicts(o, k, life, evicted, gone)
      BY <1>4, SetIs DEF CallInv
    <2>2. /\ stage[o] = "idle" /\ key'[o] = k /\ UNCHANGED <<file, spoilt>>
          /\ \A p \in Ops : p # o => stage'[p] = stage[p] /\ key'[p] = key[p]
      BY <2>1 DEF SetEvicts, Begin, CallInv, FunctionTypes
    <2>3. evicted # k /\ gone = evicted
      BY <1>1, <2>1, ConstantsAssumption DEF SetEvicts, Evicted
    <2>4. keyToBeDeleted' = None
      BY <2>1, <2>3 DEF SetEvicts
    <2>5. \/ /\ gone # None /\ gone \in Keys /\ stage'[o] = "deleting"
             /\ lock' = [lock EXCEPT ![gone] = Append(@, Job("remove", None))]
          \/ lock' = [lock EXCEPT ![k] = Append(@, Job("write", o))]
      BY <2>1 DEF SetEvicts, Ask, CallInv, FunctionTypes
    <2>6. ASSUME NEW x \in Keys, x # k, index'[x] # None PROVE Kept(x)'
      <3>1. x # gone /\ index[x] # None
        BY <2>1, <2>3, <2>6 DEF SetEvicts
      <3> QED
        BY <1>0, <1>1, <2>2, <2>5, <3>1, ResumingStays, KeptUnderCalls
    <2>7. Kept(k)'
      <3>1. stage'[o] = "deleting" => Resuming(k)'
        BY <2>2 DEF Resuming
      <3>2. lock' = [lock EXCEPT ![k] = Append(@, Job("write", o))] => Queued(k)'
        BY <1>0, KeptWhenAsked
      <3> QED
        BY <2>5, <3>1, <3>2 DEF Kept
    <2> QED
      BY <2>4, <2>6, <2>7
  <1>5. ASSUME GetEnds(o)
        PROVE  /\ keyToBeDeleted' = None
               /\ \A x \in Keys : index'[x] # None => Kept(x)'
    <2> DEFINE k == key[o]
    <2>1. /\ keyToBeDeleted' = None /\ UNCHANGED <<file, spoilt>>
          /\ k \in Keys
          /\ \/ lock' = lock /\ index' = index
             \/ /\ lock' = [lock EXCEPT ![k] = Append(@, Job("remove", None))]
                /\ index' = [index EXCEPT ![k] = None]
      BY <1>1, <1>5 DEF GetEnds, Ask, CallInv, Called, FunctionTypes
    <2>2. /\ stage[o] = "read"
          /\ \A p \in Ops : p # o => stage'[p] = stage[p] /\ key'[p] = key[p]
      BY <1>5 DEF GetEnds, CallInv, FunctionTypes
    <2> HIDE DEF k
    <2>3. ASSUME NEW x \in Keys, index'[x] # None PROVE Kept(x)'
      <3>1. index[x] # None /\ (lock' = lock \/ x # k)
        BY <2>1, <2>3 DEF CallInv, FunctionTypes
      <3> QED
        BY <1>0, <1>1, <2>1, <2>2, <3>1, ResumingStays, KeptUnderCalls
    <2> QED
      BY <2>1, <2>3
  <1>6. ASSUME SetResumes(o)
        PROVE  /\ keyToBeDeleted' = None
               /\ \A x \in Keys : index'[x] # None => Kept(x)'
    <2>1. PICK k : k = key[o]
      OBVIOUS
    <2>2. /\ keyToBeDeleted' = None /\ index' = index /\ UNCHANGED <<file, spoilt>>
          /\ k \in Keys /\ key' = key
          /\ lock' = [lock EXCEPT ![k] = Append(@, Job("write", o))]
          /\ \A p \in Ops : p # o => stage'[p] = stage[p]
      BY <1>1, <1>6, <2>1 DEF SetResumes, Ask, CallInv, Called, FunctionTypes
    <2>3. Queued(k)'
      BY <1>0, <2>2, KeptWhenAsked
    <2>4. ASSUME NEW x \in Keys, index'[x] # None PROVE Kept(x)'
      <3>1. Resuming(x) => Resuming(x)' \/ Queued(x)'
        BY <2>1, <2>2, <2>3 DEF Resuming
      <3> QED
        <4>1. Kept(x) /\ Job("write", o).kind # "remove" /\ Job("write", o) \in Jobs
          BY <1>0, <1>1, <2>2, <2>4
        <4> QED
          BY <2>2, <3>1, <4>1, KeptUnderCalls
    <2> QED
      BY <2>2, <2>4
  <1> QED
    BY <1>2, <1>3, <1>4, <1>5, <1>6 DEF CallStep, Resume

\* What runs under an exclusive lock is the first job of the queue.
LEMMA RunsFirst ==
  ASSUME CallInv, NEW k \in Keys, NEW i \in 1..Len(lock[k]), i \in Running(k),
         lock[k][i].kind # "read"
  PROVE  i = 1
  BY DEF Running

LEMMA KeptByFiles ==
  ASSUME CallInv, NEW q \in Keys, NEW i \in 1..Len(lock[q]), FileStep(q, i),
         NEW x \in Keys, Kept(x)
  PROVE  Kept(x)'
  <1>1. /\ lock' = [lock EXCEPT ![q] = RemoveAt(@, i)] /\ key' = key
        /\ file \in [Keys -> Ops \cup {None}]
    BY DEF FileStep, ReadFile, WriteFile, RemoveFile, Release, CallInv, FunctionTypes
  <1>2. /\ NoRemoval(x, 0) => NoRemoval(x, 0)'
        /\ Queued(x) => \/ Queued(x)'
                        \/ x = q /\ lock[q][i].kind = "write" /\ NoRemoval(q, i)
    BY <1>1, KeptWhenReleased
  <1>3. Resuming(x) => Resuming(x)'
    <2>1. \A p \in Ops : stage[p] = "deleting" => stage'[p] = "deleting"
      <3>1. lock[q][i].kind # "remove" => stage[lock[q][i].op] \in {"reading", "writing"}
        BY JobIs DEF Waiting
      <3> QED
        BY <3>1 DEF FileStep, ReadFile, WriteFile, RemoveFile, CallInv, FunctionTypes
    <2> QED
      BY <1>1, <2>1 DEF Resuming
  <1>4. CASE ReadFile(q, i)
    BY <1>2, <1>3, <1>4 DEF Kept, InPlace, ReadFile
  <1>5. CASE WriteFile(q, i)
    <2>1. i = 1
      BY <1>5, RunsFirst DEF WriteFile
    <2>2. lock[q][i].op # None
      BY <1>5, JobIs, ConstantsAssumption DEF WriteFile
    <2>4. file[x] # None \/ x \in spoilt => file'[x] # None \/ x \in spoilt'
      BY <1>1, <1>5, <2>2 DEF WriteFile
    <2>5. x = q => file'[x] # None \/ x \in spoilt'
      BY <1>1, <1>5, <2>2 DEF WriteFile
    <2>6. x = q /\ NoRemoval(q, i) => NoRemoval(x, 0)'
      <3> SUFFICES ASSUME x = q, NoRemoval(q, i), lock[q][i].kind = "write"
                   PROVE  NoRemoval(x, 0)'
        BY <1>5 DEF WriteFile
      <3>1. NoRemoval(x, 0)
        BY <2>1 DEF NoRemoval
      <3> QED
        BY <1>2, <3>1
    <2> QED
      BY <1>2, <1>3, <2>4, <2>5, <2>6 DEF Kept, InPlace
  <1>6. CASE RemoveFile(q, i)
    <2>1. lock[q][i].kind = "remove" /\ spoilt' = spoilt
      BY <1>6 DEF RemoveFile
    <2>2. x # q => file'[x] = file[x]
      BY <1>1, <1>6 DEF RemoveFile
    <2>3. x = q => ~NoRemoval(x, 0)
      BY <2>1 DEF NoRemoval
    <2> QED
      BY <1>2, <1>3, <2>1, <2>2, <2>3 DEF Kept, InPlace
  <1> QED
    BY <1>4, <1>5, <1>6 DEF FileStep

LEMMA FilesKeptStep ==
  ASSUME CallInv, FilesKept, [Next]_vars
  PROVE  FilesKept'
  <1>1. ASSUME NEW o \in Ops, CallStep(o) PROVE FilesKept'
    <2>1. options' = options
      <3>1. ASSUME NEW k \in Keys, NEW life \in Lifetimes, Set(o, k, life)
            PROVE  options' = options
        BY <3>1, SetIs DEF SetEvicts, Begin, CallInv
      <3> QED
        BY <1>1, <3>1
           DEF CallStep, GetMiss, GetHit, Begin, Resume, GetEnds, SetResumes
    <2> QED
      BY <1>1, <2>1, KeptByCalls DEF FilesKept
  <1>2. ASSUME NEW k \in Keys, NEW i \in DOMAIN lock[k],
               ReadFile(k, i) \/ WriteFile(k, i) \/ RemoveFile(k, i)
        PROVE  FilesKept'
    <2>1. i \in 1..Len(lock[k]) /\ FileStep(k, i)
      BY <1>2, LockType DEF CallInv, FileStep
    <2>2. UNCHANGED <<options, index, keyToBeDeleted>>
      BY <1>2 DEF ReadFile, WriteFile, RemoveFile
    <2> QED
      BY <2>1, <2>2, KeptByFiles DEF FilesKept
  <1>3. CASE Tick \/ UNCHANGED vars
    BY <1>3 DEF Tick, vars, FilesKept, Kept, Resuming, Queued, InPlace, NoRemoval
  <1> QED
    BY <1>1, <1>2, <1>3, NextSteps

\* Without options.stale, when nothing is under way, the file of every entry is there
\* unless its last write failed, whatever removals evictions and late gets asked for.
THEOREM EntriesKeepTheirFiles == Spec => []LiveEntryHasFile
  <1>1. Init => TypeInv /\ FilesKept
    BY InitType DEF Init, FilesKept
  <1>2. TypeInv /\ FilesKept /\ [Next]_vars => (TypeInv /\ FilesKept)'
    BY NextType, FilesKeptStep DEF TypeInv
  <1>3. TypeInv /\ FilesKept => LiveEntryHasFile
    <2> SUFFICES ASSUME TypeInv, FilesKept, ~options.stale, Idle,
                        NEW k \in Keys, Live(k), k \notin spoilt
                 PROVE  file[k] # None
      BY DEF LiveEntryHasFile
    <2>1. Kept(k)
      BY DEF FilesKept, Live
    <2>2. lock[k] = <<>> /\ \A o \in Ops : stage[o] # "deleting"
      BY DEF Idle
    <2> QED
      BY <2>1, <2>2 DEF Kept, Resuming, Queued, InPlace
  <1> QED
    BY <1>1, <1>2, <1>3, PTL DEF Spec
=============================================================================
