------------------------------- MODULE Cluster -------------------------------
(***************************************************************************)
(* The master process and its workers: forks, workers coming online, one   *)
(* of which announces the replica, deaths and their replacement, and the   *)
(* shutdown by a signal, graceful until a timer forces it.                 *)
(*                                                                         *)
(* node's cluster module is external, as its documentation describes it: a *)
(* worker leaves cluster.workers once it has both disconnected and exited, *)
(* and before the later of the two events; kill(signal) disconnects the    *)
(* worker, which closes its servers and waits for their connections, and   *)
(* then sends the signal.                                                  *)
(***************************************************************************)
EXTENDS Integers, FiniteSets

CONSTANTS
    Workers,     \* identities of worker processes
    Initial,     \* those forked at the start, service.workers of them
    Linked,      \* LINKED: the app is being developed
    Signals,     \* the signals the master is sent, each at most once (bound)
    NoSignal,    \* handledSignal when undefined
    MaxCrashes   \* bound: workers that die on their own

ASSUME ConstantsAssumption ==
    /\ IsFiniteSet(Workers)
    /\ Initial \subseteq Workers
    /\ Initial # {}
    /\ Signals \subseteq {"SIGINT", "SIGTERM"}
    /\ NoSignal \notin Signals
    /\ Linked \in BOOLEAN
    /\ MaxCrashes \in Nat
    /\ Cardinality(Workers) >= Cardinality(Initial) + MaxCrashes

VARIABLES
    state,                  \* of each worker process
    exitedAfterDisconnect,  \* the master has asked the worker to disconnect
    reported,               \* the worker's exit event was handled
    online,                 \* the worker's online event was handled
    table,                  \* cluster.workers
    workersOnline,
    told,                   \* workers that were sent UP_SIGNAL
    announced,              \* a worker has posted to /_up
    handledSignal,
    timers,                 \* the signals whose timeout is running
    master,                 \* "up" or "exited"
    crashes                 \* workers that died on their own

vars == <<state, exitedAfterDisconnect, reported, online, table, workersOnline,
          told, announced, handledSignal, timers, master, crashes>>

Alive(w) == state[w] \in {"running", "leaving", "unplugged"}
Unborn == {w \in Workers : state[w] = "unborn"}

TypeOK ==
    /\ state \in [Workers -> {"unborn", "running", "leaving", "unplugged", "dead"}]
    /\ exitedAfterDisconnect \in [Workers -> BOOLEAN]
    /\ reported \in [Workers -> BOOLEAN]
    /\ online \in [Workers -> BOOLEAN]
    /\ table \subseteq Workers
    /\ workersOnline \in Nat
    /\ told \subseteq Workers
    /\ announced \in BOOLEAN
    /\ handledSignal \in Signals \cup {NoSignal}
    /\ timers \subseteq Signals
    /\ master \in {"up", "exited"}
    /\ crashes \in 0..MaxCrashes

\* startMaster
Init ==
    /\ state = [w \in Workers |-> IF w \in Initial THEN "running" ELSE "unborn"]
    /\ exitedAfterDisconnect = [w \in Workers |-> FALSE]
    /\ reported = [w \in Workers |-> FALSE]
    /\ online = [w \in Workers |-> FALSE]
    /\ table = Initial
    /\ workersOnline = 0
    /\ told = {}
    /\ announced = FALSE
    /\ handledSignal = NoSignal
    /\ timers = {}
    /\ master = "up"
    /\ crashes = 0

-----------------------------------------------------------------------------
(* Workers. *)

\* Mutants: the first worker is not counted; every worker is told.
OnOnlineUncounted(w) ==
    /\ master = "up"
    /\ state[w] # "unborn"
    /\ ~online[w]
    /\ online' = [online EXCEPT ![w] = TRUE]
    /\ told' = IF workersOnline = 1 THEN told \cup {w} ELSE told
    /\ UNCHANGED workersOnline
    /\ UNCHANGED <<state, exitedAfterDisconnect, reported, table, announced,
                   handledSignal, timers, master, crashes>>

OnOnlineTellAll(w) ==
    /\ master = "up"
    /\ state[w] # "unborn"
    /\ ~online[w]
    /\ online' = [online EXCEPT ![w] = TRUE]
    /\ workersOnline' = workersOnline + 1
    /\ told' = told \cup {w}
    /\ UNCHANGED <<state, exitedAfterDisconnect, reported, table, announced,
                   handledSignal, timers, master, crashes>>

\* Only the first worker that ever comes online is sent UP_SIGNAL; it may have died.
OnOnline(w) ==
    /\ master = "up"
    /\ state[w] # "unborn"
    /\ ~online[w]
    /\ online' = [online EXCEPT ![w] = TRUE]
    /\ workersOnline' = workersOnline + 1
    /\ told' = IF workersOnline' = 1 THEN told \cup {w} ELSE told
    /\ UNCHANGED <<state, exitedAfterDisconnect, reported, table, announced,
                   handledSignal, timers, master, crashes>>

\* The worker handles UP_SIGNAL: upSignal posts to /_up.
Announce(w) ==
    /\ w \in told
    /\ Alive(w)
    /\ ~announced
    /\ announced' = TRUE
    /\ UNCHANGED <<state, exitedAfterDisconnect, reported, online, table,
                   workersOnline, told, handledSignal, timers, master, crashes>>

\* An uncaught exception, or the system kills it.
Crash(w) ==
    /\ Alive(w)
    /\ crashes < MaxCrashes
    /\ state' = [state EXCEPT ![w] = "dead"]
    /\ crashes' = crashes + 1
    /\ UNCHANGED <<exitedAfterDisconnect, reported, online, table, workersOnline,
                   told, announced, handledSignal, timers, master>>

\* Its servers are closed and their connections ended.
Disconnect(w) ==
    /\ state[w] = "leaving"
    /\ state' = [state EXCEPT ![w] = "unplugged"]
    /\ UNCHANGED <<exitedAfterDisconnect, reported, online, table, workersOnline,
                   told, announced, handledSignal, timers, master, crashes>>

\* The signal that follows the disconnection reaches the worker, which exits.
HandleSignalInWorker(w) ==
    /\ state[w] = "unplugged"
    /\ state' = [state EXCEPT ![w] = "dead"]
    /\ UNCHANGED <<exitedAfterDisconnect, reported, online, table, workersOnline,
                   told, announced, handledSignal, timers, master, crashes>>

-----------------------------------------------------------------------------
(* The master. *)

\* Whether the death of w is answered with a fork (mutant: the flag is read the
\* other way round).
ReplacedIfAsked(w) == ~Linked /\ exitedAfterDisconnect[w]
Replaced(w) == ~Linked /\ ~exitedAfterDisconnect[w]

\* The table is empty (mutant: the check is dropped).
NobodyLeftUnchecked(t) == TRUE
NobodyLeft(t) == t = {}

\* Mutant: exits are subtracted from the workers online.
OnExitCounted(w) ==
    /\ master = "up"
    /\ state[w] = "dead"
    /\ ~reported[w]
    /\ reported' = [reported EXCEPT ![w] = TRUE]
    /\ workersOnline' = workersOnline - 1
    /\ table' = table \ {w}
    /\ master' = IF handledSignal # NoSignal /\ NobodyLeft(table') THEN "exited" ELSE "up"
    /\ UNCHANGED <<state, exitedAfterDisconnect, online, told, announced,
                   handledSignal, timers, crashes>>

\* The exit event of w, which leaves the table now or, if its channel is not known to
\* be closed yet, later.
OnExit(w) ==
    /\ master = "up"
    /\ state[w] = "dead"
    /\ ~reported[w]
    /\ reported' = [reported EXCEPT ![w] = TRUE]
    /\ \E known \in BOOLEAN, new \in Unborn \cup {w} :
           LET rest == IF known THEN table \ {w} ELSE table IN
           /\ Replaced(w) <=> new # w
           /\ table' = IF Replaced(w) THEN rest \cup {new} ELSE rest
           /\ state' = IF Replaced(w) THEN [state EXCEPT ![new] = "running"] ELSE state
           /\ master' = IF handledSignal # NoSignal /\ NobodyLeft(table')
                        THEN "exited" ELSE "up"
    /\ UNCHANGED <<exitedAfterDisconnect, online, workersOnline, told, announced,
                   handledSignal, timers, crashes>>

\* The disconnect event of a worker whose exit was reported first.
LeaveTable(w) ==
    /\ w \in table
    /\ reported[w]
    /\ table' = table \ {w}
    /\ UNCHANGED <<state, exitedAfterDisconnect, reported, online, workersOnline, told,
                   announced, handledSignal, timers, master, crashes>>

\* Mutant: the timer is not set.
HandleSignalUntimed(sig) ==
    /\ master = "up"
    /\ sig \notin timers
    /\ state' = [w \in Workers |->
           IF w \in table /\ state[w] = "running" THEN "leaving" ELSE state[w]]
    /\ exitedAfterDisconnect' = [w \in Workers |->
           exitedAfterDisconnect[w] \/ (w \in table /\ Alive(w))]
    /\ handledSignal' = sig
    /\ UNCHANGED <<reported, online, table, workersOnline, told, announced, timers,
                   master, crashes>>

\* Every worker in the table is told to disconnect, and a timer is set.  A worker
\* that has died unnoticed is told too if its channel is not known to be closed.
HandleSignal(sig) ==
    /\ master = "up"
    /\ sig \notin timers
    /\ state' = [w \in Workers |->
           IF w \in table /\ state[w] = "running" THEN "leaving" ELSE state[w]]
    /\ \E unnoticed \in SUBSET {w \in table : state[w] = "dead" /\ ~reported[w]} :
           exitedAfterDisconnect' = [w \in Workers |->
               \/ exitedAfterDisconnect[w]
               \/ w \in table /\ Alive(w)
               \/ w \in unnoticed]
    /\ handledSignal' = sig
    /\ timers' = timers \cup {sig}
    /\ UNCHANGED <<reported, online, table, workersOnline, told, announced, master, crashes>>

\* The timeout of a signal: SIGKILL to all in the table, and the master exits.
ForceKill(sig) ==
    /\ master = "up"
    /\ sig \in timers
    /\ state' = [w \in Workers |-> IF w \in table THEN "dead" ELSE state[w]]
    /\ master' = "exited"
    /\ UNCHANGED <<exitedAfterDisconnect, reported, online, table, workersOnline,
                   told, announced, handledSignal, timers, crashes>>

Next ==
    \/ \E w \in Workers :
        \/ OnOnline(w)
        \/ Announce(w)
        \/ Crash(w)
        \/ Disconnect(w)
        \/ HandleSignalInWorker(w)
        \/ OnExit(w)
        \/ LeaveTable(w)
    \/ \E sig \in Signals : HandleSignal(sig) \/ ForceKill(sig)

\* Events and messages arrive, and timers run out.  Nothing says that a worker's
\* connections ever end, or that anybody sends a signal.
Fairness ==
    /\ \A w \in Workers : WF_vars(OnOnline(w)) /\ WF_vars(Announce(w)) /\ WF_vars(OnExit(w))
    /\ \A sig \in Signals : WF_vars(ForceKill(sig))

Spec == Init /\ [][Next]_vars /\ Fairness

-----------------------------------------------------------------------------
(* Properties. *)

\* The master, which "raises the flag to kill the master process after all workers
\* have died", leaves no worker behind: neither one that still drains, nor one that
\* was forked while the others were told to leave.
NoOrphans == master = "exited" => \A w \in Workers : ~Alive(w)

\* Until a signal arrives, every death is answered with one fork, so the replica
\* has service.workers workers, counting those whose death is yet to be reported.
Staff == {w \in Workers : Alive(w) \/ (state[w] = "dead" /\ ~reported[w])}
ReplicaKept ==
    handledSignal = NoSignal /\ ~Linked => Cardinality(Staff) = Cardinality(Initial)

\* At most one worker announces the replica, and somebody does if nobody dies early
\* and nobody ends the replica first.
AnnouncedOnce == Cardinality(told) <= 1
AnnouncedIfNobodyDies == <>(announced \/ crashes > 0 \/ handledSignal # NoSignal)

\* Once a signal was received the master exits, however long the workers drain and
\* whoever dies or is forked meanwhile.
ShutdownEnds == (handledSignal # NoSignal) ~> (master = "exited")

=============================================================================
