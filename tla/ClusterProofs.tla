---------------------------- MODULE ClusterProofs ----------------------------
(***************************************************************************)
(* Proofs about Cluster, for any number of workers, crashes and signals.   *)
(***************************************************************************)
EXTENDS Cluster, FiniteSetTheorems, TLAPS

\* What one worker's events do, Next without its quantifiers.
WorkerStep(w) ==
    \/ OnOnline(w) \/ Announce(w) \/ Crash(w) \/ Disconnect(w)
    \/ HandleSignalInWorker(w) \/ OnExit(w) \/ LeaveTable(w)

MasterStep(sig) == HandleSignal(sig) \/ ForceKill(sig)

LEMMA NextIsStep ==
  Next <=> (\E w \in Workers : WorkerStep(w)) \/ (\E sig \in Signals : MasterStep(sig))
  BY DEF Next, WorkerStep, MasterStep

-----------------------------------------------------------------------------
(* Types. *)

LEMMA Constants ==
  /\ IsFiniteSet(Workers)
  /\ Initial \subseteq Workers
  /\ NoSignal \notin Signals
  /\ MaxCrashes \in Nat
  BY ConstantsAssumption, Zenon DEF ConstantsAssumption

LEMMA TypeInit == Init => TypeOK
  <1> SUFFICES ASSUME Init PROVE TypeOK
    OBVIOUS
  <1>1. table \subseteq Workers /\ crashes \in 0..MaxCrashes
    BY Constants DEF Init
  <1>2. /\ state \in [Workers -> {"unborn", "running", "leaving", "unplugged", "dead"}]
        /\ exitedAfterDisconnect \in [Workers -> BOOLEAN]
        /\ reported \in [Workers -> BOOLEAN]
        /\ online \in [Workers -> BOOLEAN]
    BY DEF Init
  <1>3. told \subseteq Workers /\ timers \subseteq Signals /\ workersOnline \in Nat
    BY DEF Init
  <1>4. announced \in BOOLEAN /\ master \in {"up", "exited"}
    BY DEF Init
  <1>5. handledSignal \in Signals \cup {NoSignal}
    BY DEF Init
  <1> QED
    BY <1>1, <1>2, <1>3, <1>4, <1>5, Zenon DEF TypeOK

LEMMA ExitType ==
  ASSUME TypeOK, NEW w \in Workers, OnExit(w)
  PROVE  TypeOK'
  <1>1. PICK known \in BOOLEAN, new \in Unborn \cup {w} :
          LET rest == IF known THEN table \ {w} ELSE table IN
          /\ table' = IF Replaced(w) THEN rest \cup {new} ELSE rest
          /\ state' = IF Replaced(w) THEN [state EXCEPT ![new] = "running"] ELSE state
          /\ master' = IF handledSignal # NoSignal /\ NobodyLeft(table')
                       THEN "exited" ELSE "up"
    BY DEF OnExit
  <1>2. new \in Workers
    BY DEF Unborn
  <1>3. state' \in [Workers -> {"unborn", "running", "leaving", "unplugged", "dead"}]
    BY <1>1, <1>2 DEF TypeOK
  <1>4. table' \subseteq Workers
    BY <1>1, <1>2 DEF TypeOK
  <1>5. master' \in {"up", "exited"}
    BY <1>1
  <1> QED
    BY <1>3, <1>4, <1>5 DEF TypeOK, OnExit

LEMMA WorkerType ==
  ASSUME TypeOK, NEW w \in Workers, WorkerStep(w)
  PROVE  TypeOK'
  <1>1. CASE OnOnline(w)
    BY <1>1 DEF OnOnline, TypeOK
  <1>2. CASE Announce(w)
    BY <1>2 DEF Announce, TypeOK
  <1>3. CASE Crash(w)
    BY <1>3, Constants DEF Crash, TypeOK
  <1>4. CASE Disconnect(w)
    BY <1>4 DEF Disconnect, TypeOK
  <1>5. CASE HandleSignalInWorker(w)
    BY <1>5 DEF HandleSignalInWorker, TypeOK
  <1>6. CASE OnExit(w)
    BY <1>6, ExitType
  <1>7. CASE LeaveTable(w)
    BY <1>7 DEF LeaveTable, TypeOK
  <1> QED
    BY <1>1, <1>2, <1>3, <1>4, <1>5, <1>6, <1>7 DEF WorkerStep

LEMMA MasterType ==
  ASSUME TypeOK, NEW sig \in Signals, MasterStep(sig)
  PROVE  TypeOK'
  <1>1. CASE HandleSignal(sig)
    <2>1. exitedAfterDisconnect' \in [Workers -> BOOLEAN]
      BY <1>1 DEF HandleSignal, TypeOK, Alive
    <2>2. state' \in [Workers -> {"unborn", "running", "leaving", "unplugged", "dead"}]
      BY <1>1 DEF HandleSignal, TypeOK
    <2> QED
      BY <1>1, <2>1, <2>2 DEF HandleSignal, TypeOK
  <1>2. CASE ForceKill(sig)
    BY <1>2 DEF ForceKill, TypeOK
  <1> QED
    BY <1>1, <1>2 DEF MasterStep

LEMMA TypeStep == ASSUME TypeOK, [Next]_vars PROVE TypeOK'
  <1>1. CASE UNCHANGED vars
    BY <1>1 DEF vars, TypeOK
  <1> QED
    BY <1>1, NextIsStep, WorkerType, MasterType

\* Every variable of the cluster keeps its type: the master forks only processes that
\* never ran, and the counter of workers online never falls.
THEOREM TypeCorrect == Spec => []TypeOK
  <1>1. Init => TypeOK
    BY TypeInit
  <1>2. TypeOK /\ [Next]_vars => TypeOK'
    BY TypeStep
  <1> QED
    BY <1>1, <1>2, PTL DEF Spec

-----------------------------------------------------------------------------
(* Nobody is left behind, and the replica is kept. *)

\* Only the dead are reported; whoever lives is in the table while the master is up;
\* before the first signal nobody was asked to leave and no timer runs.
ReportedDead == \A w \in Workers : reported[w] => state[w] = "dead"
AliveInTable == master = "up" => \A w \in Workers : Alive(w) => w \in table
Calm == handledSignal = NoSignal =>
    /\ timers = {}
    /\ \A w \in Workers : ~exitedAfterDisconnect[w] /\ state[w] \notin {"leaving", "unplugged"}
FirstTold == workersOnline = 0 => told = {}

\* The inductive invariant.
Custody ==
    /\ TypeOK
    /\ ReportedDead
    /\ AliveInTable
    /\ NoOrphans
    /\ Calm
    /\ FirstTold
    /\ AnnouncedOnce
    /\ ReplicaKept

LEMMA CustodyInit == Init => Custody
  <1> SUFFICES ASSUME Init PROVE Custody
    OBVIOUS
  <1>1. TypeOK
    BY TypeInit
  <1>2. ReportedDead /\ NoOrphans /\ FirstTold
    BY DEF Init, ReportedDead, NoOrphans, FirstTold
  <1>3. AliveInTable
    BY Constants DEF Init, AliveInTable, Alive
  <1>4. Calm
    BY DEF Init, Calm
  <1>5. AnnouncedOnce
    BY FS_EmptySet DEF Init, AnnouncedOnce
  <1>6. Staff = Initial
    BY Constants DEF Init, Staff, Alive
  <1>7. ReplicaKept
    BY <1>6 DEF ReplicaKept
  <1> QED
    BY <1>1, <1>2, <1>3, <1>4, <1>5, <1>7 DEF Custody

\* A step that neither forks, kills nor reports leaves all but the telling alone.
LEMMA QuietStep ==
  ASSUME Custody, TypeOK',
         UNCHANGED <<state, exitedAfterDisconnect, reported, table, handledSignal,
                     timers, master>>,
         FirstTold', AnnouncedOnce'
  PROVE  Custody'
  <1>1. ReportedDead' /\ AliveInTable' /\ NoOrphans' /\ Calm'
    BY DEF Custody, ReportedDead, AliveInTable, NoOrphans, Calm, Alive
  <1>2. Staff' = Staff
    BY DEF Staff, Alive
  <1>3. ReplicaKept'
    BY <1>2 DEF Custody, ReplicaKept
  <1> QED
    BY <1>1, <1>3 DEF Custody

LEMMA OnlineCustody ==
  ASSUME Custody, NEW w \in Workers, OnOnline(w)
  PROVE  Custody'
  <1>1. TypeOK'
    BY WorkerType DEF WorkerStep, Custody
  <1>2. FirstTold'
    BY DEF OnOnline, FirstTold, Custody, TypeOK
  <1>3. AnnouncedOnce'
    <2>1. CASE workersOnline = 0
      <3>1. told' = {w}
        BY <2>1 DEF OnOnline, Custody, FirstTold
      <3> QED
        BY <3>1, FS_Singleton DEF AnnouncedOnce
    <2>2. CASE workersOnline # 0
      <3>1. told' = told
        BY <2>2 DEF OnOnline, Custody, TypeOK
      <3> QED
        BY <3>1 DEF AnnouncedOnce, Custody
    <2> QED
      BY <2>1, <2>2
  <1> QED
    BY <1>1, <1>2, <1>3, QuietStep DEF OnOnline

LEMMA AnnounceCustody ==
  ASSUME Custody, NEW w \in Workers, Announce(w)
  PROVE  Custody'
  <1>1. TypeOK'
    BY WorkerType DEF WorkerStep, Custody
  <1>2. FirstTold' /\ AnnouncedOnce'
    BY DEF Announce, FirstTold, AnnouncedOnce, Custody
  <1> QED
    BY <1>1, <1>2, QuietStep DEF Announce

\* A worker dies or loses its channel: it was alive and unreported, and either stays
\* alive or is now waiting for its report.
LEMMA ChangeCustody ==
  ASSUME Custody, NEW w \in Workers, NEW s \in {"unplugged", "dead"}, Alive(w),
         state' = [state EXCEPT ![w] = s],
         state[w] # "running" \/ s = "dead",
         UNCHANGED <<exitedAfterDisconnect, reported, table, workersOnline, told,
                     handledSignal, timers, master>>,
         TypeOK'
  PROVE  Custody'
  <1>1. ReportedDead'
    BY DEF Custody, ReportedDead, TypeOK, Alive
  <1>2. AliveInTable' /\ NoOrphans'
    BY DEF Custody, AliveInTable, NoOrphans, TypeOK, Alive
  <1>3. Calm'
    BY DEF Custody, Calm, TypeOK, Alive
  <1>4. FirstTold' /\ AnnouncedOnce'
    BY DEF Custody, FirstTold, AnnouncedOnce
  <1>5. Staff' = Staff
    BY DEF Staff, Custody, ReportedDead, TypeOK, Alive
  <1>6. ReplicaKept'
    BY <1>5 DEF Custody, ReplicaKept
  <1> QED
    BY <1>1, <1>2, <1>3, <1>4, <1>6 DEF Custody

\* One leaves the staff and one who was not in it joins.
LEMMA Replacement ==
  ASSUME NEW S, IsFiniteSet(S), NEW a \in S, NEW b, b \notin S
  PROVE  Cardinality((S \ {a}) \cup {b}) = Cardinality(S)
  <1>1. IsFiniteSet(S \ {a}) /\ Cardinality(S \ {a}) = Cardinality(S) - 1
    BY FS_RemoveElement
  <1>2. Cardinality((S \ {a}) \cup {b}) = Cardinality(S \ {a}) + 1
    BY <1>1, FS_AddElement
  <1>3. Cardinality(S) \in Nat
    BY FS_CardinalityType
  <1> QED
    BY <1>1, <1>2, <1>3

LEMMA ExitCustody ==
  ASSUME Custody, NEW w \in Workers, OnExit(w)
  PROVE  Custody'
  <1>1. PICK known \in BOOLEAN, new \in Unborn \cup {w} :
          LET rest == IF known THEN table \ {w} ELSE table IN
          /\ Replaced(w) <=> new # w
          /\ table' = IF Replaced(w) THEN rest \cup {new} ELSE rest
          /\ state' = IF Replaced(w) THEN [state EXCEPT ![new] = "running"] ELSE state
          /\ master' = IF handledSignal # NoSignal /\ NobodyLeft(table')
                       THEN "exited" ELSE "up"
    BY DEF OnExit
  <1>2. /\ master = "up" /\ state[w] = "dead" /\ ~reported[w]
        /\ reported' = [reported EXCEPT ![w] = TRUE]
        /\ UNCHANGED <<exitedAfterDisconnect, workersOnline, told, handledSignal, timers>>
    BY DEF OnExit
  <1>3. TypeOK' /\ TypeOK
    BY WorkerType DEF WorkerStep, Custody
  <1>4. new \in Workers /\ (Replaced(w) => state[new] = "unborn")
    BY <1>1 DEF Unborn
  <1>5. ReportedDead'
    BY <1>1, <1>2, <1>3, <1>4 DEF Custody, ReportedDead, TypeOK
  <1>6. \A x \in Workers : Alive(x)' => x \in table'
    BY <1>1, <1>2, <1>3, <1>4 DEF Custody, AliveInTable, TypeOK, Alive
  <1>7. AliveInTable' /\ NoOrphans'
    BY <1>1, <1>6 DEF AliveInTable, NoOrphans, NobodyLeft
  <1>8. Calm'
    BY <1>1, <1>2, <1>3, <1>4 DEF Custody, Calm, TypeOK
  <1>9. FirstTold' /\ AnnouncedOnce'
    BY <1>2 DEF Custody, FirstTold, AnnouncedOnce
  <1>10. ReplicaKept'
    <2> SUFFICES ASSUME handledSignal' = NoSignal, ~Linked
                 PROVE  Cardinality(Staff') = Cardinality(Initial)
      BY DEF ReplicaKept
    <2>1. Replaced(w)
      BY <1>2 DEF Replaced, Custody, Calm
    <2>2. Staff' = (Staff \ {w}) \cup {new}
      BY <1>1, <1>2, <1>3, <1>4, <2>1 DEF Staff, Alive, TypeOK
    <2>3. w \in Staff /\ new \notin Staff
      BY <1>2, <1>4, <2>1 DEF Staff, Alive
    <2>4. IsFiniteSet(Staff)
      BY Constants, FS_Subset DEF Staff
    <2>5. Cardinality(Staff) = Cardinality(Initial)
      BY <1>2 DEF Custody, ReplicaKept
    <2> QED
      BY <2>2, <2>3, <2>4, <2>5, Replacement
  <1> QED
    BY <1>3, <1>5, <1>7, <1>8, <1>9, <1>10 DEF Custody

LEMMA LeaveTableCustody ==
  ASSUME Custody, NEW w \in Workers, LeaveTable(w)
  PROVE  Custody'
  <1>1. TypeOK'
    BY WorkerType DEF WorkerStep, Custody
  <1>2. ReportedDead' /\ NoOrphans' /\ Calm' /\ FirstTold' /\ AnnouncedOnce'
    BY DEF LeaveTable, Custody, ReportedDead, NoOrphans, Calm, FirstTold, AnnouncedOnce, Alive
  <1>3. AliveInTable'
    BY DEF LeaveTable, Custody, AliveInTable, ReportedDead, Alive
  <1>4. Staff' = Staff
    BY DEF LeaveTable, Staff, Alive
  <1>5. ReplicaKept'
    BY <1>4 DEF LeaveTable, Custody, ReplicaKept
  <1> QED
    BY <1>1, <1>2, <1>3, <1>5 DEF Custody

LEMMA SignalCustody ==
  ASSUME Custody, NEW sig \in Signals, MasterStep(sig)
  PROVE  Custody'
  <1>1. TypeOK' /\ TypeOK
    BY MasterType DEF Custody
  <1>2. CASE HandleSignal(sig)
    <2>1. handledSignal' # NoSignal
      BY <1>2, Constants DEF HandleSignal
    <2>2. Calm' /\ ReplicaKept'
      BY <2>1 DEF Calm, ReplicaKept
    <2>3. \A w \in Workers : (Alive(w)' <=> Alive(w)) /\ (state[w] = "dead" => state'[w] = "dead")
      BY <1>1, <1>2 DEF HandleSignal, Alive, TypeOK
    <2>4. ReportedDead' /\ AliveInTable' /\ NoOrphans'
      BY <1>2, <2>3 DEF HandleSignal, Custody, ReportedDead, AliveInTable, NoOrphans
    <2>5. FirstTold' /\ AnnouncedOnce'
      BY <1>2 DEF HandleSignal, Custody, FirstTold, AnnouncedOnce
    <2> QED
      BY <1>1, <2>2, <2>4, <2>5 DEF Custody
  <1>3. CASE ForceKill(sig)
    <2>1. handledSignal' # NoSignal
      BY <1>3 DEF ForceKill, Custody, Calm
    <2>2. Calm' /\ ReplicaKept'
      BY <2>1 DEF Calm, ReplicaKept
    <2>3. \A w \in Workers : ~Alive(w)'
      BY <1>1, <1>3 DEF ForceKill, Custody, AliveInTable, Alive, TypeOK
    <2>4. ReportedDead'
      BY <1>1, <1>3 DEF ForceKill, Custody, ReportedDead, TypeOK
    <2>5. AliveInTable' /\ NoOrphans'
      BY <2>3 DEF AliveInTable, NoOrphans
    <2>6. FirstTold' /\ AnnouncedOnce'
      BY <1>3 DEF ForceKill, Custody, FirstTold, AnnouncedOnce
    <2> QED
      BY <1>1, <2>2, <2>4, <2>5, <2>6 DEF Custody
  <1> QED
    BY <1>2, <1>3 DEF MasterStep

LEMMA WorkerCustody ==
  ASSUME Custody, NEW w \in Workers, WorkerStep(w)
  PROVE  Custody'
  <1>1. TypeOK'
    BY WorkerType DEF Custody
  <1>2. CASE OnOnline(w)
    BY <1>2, OnlineCustody
  <1>3. CASE Announce(w)
    BY <1>3, AnnounceCustody
  <1>4. CASE Crash(w)
    BY <1>1, <1>4, ChangeCustody DEF Crash
  <1>5. CASE Disconnect(w)
    BY <1>1, <1>5, ChangeCustody DEF Disconnect, Alive
  <1>6. CASE HandleSignalInWorker(w)
    BY <1>1, <1>6, ChangeCustody DEF HandleSignalInWorker, Alive
  <1>7. CASE OnExit(w)
    BY <1>7, ExitCustody
  <1>8. CASE LeaveTable(w)
    BY <1>8, LeaveTableCustody
  <1> QED
    BY <1>2, <1>3, <1>4, <1>5, <1>6, <1>7, <1>8 DEF WorkerStep

LEMMA CustodyStep == Custody /\ [Next]_vars => Custody'
  <1> SUFFICES ASSUME Custody, [Next]_vars PROVE Custody'
    OBVIOUS
  <1>1. CASE UNCHANGED vars
    <2>1. TypeOK' /\ FirstTold' /\ AnnouncedOnce'
      BY <1>1 DEF vars, Custody, TypeOK, FirstTold, AnnouncedOnce
    <2> QED
      BY <1>1, <2>1, QuietStep DEF vars
  <1> QED
    BY <1>1, NextIsStep, WorkerCustody, SignalCustody

LEMMA CustodyHolds == Spec => []Custody
  BY CustodyInit, CustodyStep, PTL DEF Spec

\* The master exits only when no worker is left, draining or freshly forked, however
\* deaths, reports and signals interleave.
THEOREM MasterOutlivesWorkers == Spec => []NoOrphans
  <1>1. Custody => NoOrphans
    BY DEF Custody
  <1> QED
    BY <1>1, CustodyHolds, PTL

\* Until a signal arrives each death is answered with exactly one fork.
THEOREM DeathsAreReplaced == Spec => []ReplicaKept
  <1>1. Custody => ReplicaKept
    BY DEF Custody
  <1> QED
    BY <1>1, CustodyHolds, PTL

\* At most one worker is told to announce the replica.
THEOREM OneAnnouncer == Spec => []AnnouncedOnce
  <1>1. Custody => AnnouncedOnce
    BY DEF Custody
  <1> QED
    BY <1>1, CustodyHolds, PTL

=============================================================================
