------------------------ MODULE IncomingRequestProofs ------------------------
(***************************************************************************)
(* Proofs about IncomingRequest, for any number of requests, routes,       *)
(* limits and middlewares.                                                 *)
(***************************************************************************)
EXTENDS IncomingRequest, FiniteSetTheorems, TLAPS

\* What one request may do, with its parameters; Next without its quantifier.
Step(r) ==
    Arrive(r) \/ Prelude(r) \/ Handler(r) \/ Write(r) \/ ResponseFinishes(r) \/ ClientAborts(r)

LEMMA NextIsStep == Next <=> \E r \in Requests : Step(r)
  BY DEF Next, Step

-----------------------------------------------------------------------------
(* Types. *)

Counters == [total : Int, closed : Int, aborted : Int]

LEMMA CountedTwice ==
  ASSUME NEW s \in Counters
  PROVE  [s EXCEPT !.aborted = @ + 1, !.closed = @ + 1] \in Counters
  <1> DEFINE t == [s EXCEPT !.aborted = s.aborted + 1]
  <1>1. t \in Counters /\ t.closed = s.closed
    BY DEF Counters
  <1>2. [t EXCEPT !.closed = s.closed + 1] \in Counters
    <2> HIDE DEF t
    <2> QED
      BY <1>1 DEF Counters
  <1> QED
    BY <1>2

LEMMA LeaveType ==
  ASSUME TypeOK, NEW S, Leave(S)
  PROVE  reqsInExecution' \in [Limiters -> Int]
  BY DEF TypeOK, Leave

LEMMA EnterType ==
  ASSUME TypeOK, NEW S, Enter(S)
  PROVE  reqsInExecution' \in [Limiters -> Int]
  BY DEF TypeOK, Enter

LEMMA UnwindType ==
  ASSUME TypeOK, NEW r \in Requests, NEW code \in Statuses, Unwind(r, code)
  PROVE  TypeOK'
  <1>1. reqsInExecution' \in [Limiters -> Int]
    BY LeaveType DEF Unwind
  <1> QED
    BY <1>1 DEF TypeOK, Unwind, Phases

LEMMA ArriveType ==
  ASSUME TypeOK, NEW r \in Requests, Arrive(r)
  PROVE  TypeOK'
  <1>1. CASE ProbeServed(r)
    BY <1>1 DEF ProbeServed, TypeOK, Phases, Statuses
  <1>2. CASE ProbeRejected(r)
    BY <1>2 DEF ProbeRejected, TypeOK, Phases, Statuses
  <1>3. ASSUME NEW rt \in Routes, RejectedByApp(r, rt)
        PROVE  TypeOK'
    BY <1>3 DEF RejectedByApp, TypeOK, Phases, Statuses
  <1>4. ASSUME NEW rt \in Routes, NEW safe \in BOOLEAN, AwaitPrelude(r, rt, safe)
        PROVE  TypeOK'
    <2>1. reqsInExecution' \in [Limiters -> Int]
      BY <1>4, EnterType DEF AwaitPrelude
    <2> QED
      BY <1>4, <2>1 DEF AwaitPrelude, EnterRoute, TypeOK, Phases
  <1>5. ASSUME NEW rt \in Routes, NEW safe \in BOOLEAN, RunHandler(r, rt, safe)
        PROVE  TypeOK'
    <2>1. reqsInExecution' \in [Limiters -> Int]
      BY <1>5, EnterType DEF RunHandler
    <2> QED
      BY <1>5, <2>1 DEF RunHandler, EnterRoute, TypeOK, Phases
  <1>6. ASSUME NEW rt \in Routes, NEW safe \in BOOLEAN, NEW tokens \in BOOLEAN,
               RejectedByRoute(r, rt, safe, tokens)
        PROVE  TypeOK'
    BY <1>6 DEF RejectedByRoute, EnterRoute, TypeOK, Phases, Statuses
  <1> QED
    BY <1>1, <1>2, <1>3, <1>4, <1>5, <1>6 DEF Arrive

LEMMA StepType ==
  ASSUME TypeOK, NEW r \in Requests, Step(r)
  PROVE  TypeOK'
  <1>1. CASE Arrive(r)
    BY <1>1, ArriveType
  <1>2. CASE PreludeDone(r)
    <2>1. reqsInExecution' \in [Limiters -> Int]
      BY <1>2, EnterType DEF PreludeDone
    <2> QED
      BY <1>2, <2>1 DEF PreludeDone, TypeOK, Phases
  <1>3. CASE NextMiddleware(r)
    BY <1>3, ConstantsAssumption DEF NextMiddleware, TypeOK
  <1>4. ASSUME NEW code \in Statuses, Unwind(r, code)
        PROVE  TypeOK'
    BY <1>4, UnwindType
  <1>5. CASE Write(r)
    BY <1>5 DEF Write, TypeOK
  <1>6. CASE ResponseFinishes(r)
    BY <1>6 DEF ResponseFinishes, TypeOK, Phases
  <1>7. CASE ClientAborts(r)
    <2>1. cancelled' \in [Requests -> BOOLEAN]
      <3>1. (tracked[r] /\ cancelable[r]) \in BOOLEAN
        OBVIOUS
      <3> QED
        BY <1>7, <3>1, Zenon DEF ClientAborts, TypeOK
    <2>2. phase' \in [Requests -> Phases]
      BY <1>7 DEF ClientAborts, TypeOK, Phases
    <2>3. concurrentRequests' \in Int
      BY <1>7 DEF ClientAborts, TypeOK
    <2>4. stats' \in Counters
      <3>1. stats' = stats \/ stats' = [stats EXCEPT !.aborted = @ + 1, !.closed = @ + 1]
        BY <1>7, Zenon DEF ClientAborts
      <3>2. stats \in Counters
        BY DEF TypeOK, Counters
      <3>3. [stats EXCEPT !.aborted = @ + 1, !.closed = @ + 1] \in Counters
        BY <3>2, CountedTwice
      <3> QED
        BY <3>1, <3>2, <3>3
    <2>5. aborted' \in [Requests -> BOOLEAN]
      BY <1>7 DEF ClientAborts, TypeOK
    <2> QED
      BY <1>7, <2>1, <2>2, <2>3, <2>4, <2>5 DEF ClientAborts, TypeOK, Counters
  <1> QED
    BY <1>1, <1>2, <1>3, <1>4, <1>5, <1>6, <1>7
       DEF Step, Prelude, Handler, PreludeThenRejected, PreludeThenSkipped, PreludeFails,
           HandlerReturns, HandlerThrows, HandlerCancelled, Statuses

LEMMA InitType == Init => TypeOK
  BY ConstantsAssumption DEF Init, TypeOK, Phases, Statuses

\* Every variable keeps its type, whatever the limits and however many requests.
THEOREM TypeCorrect == Spec => []TypeOK
  <1>1. TypeOK /\ [Next]_vars => TypeOK'
    <2>1. ASSUME TypeOK, UNCHANGED vars
          PROVE  TypeOK'
      BY <2>1 DEF TypeOK, vars
    <2> QED
      BY <2>1, StepType, NextIsStep
  <1> QED
    BY <1>1, InitType, PTL DEF Spec

-----------------------------------------------------------------------------
(* The inductive invariant: what the place of a request in the pipeline says  *)
(* about its flags, and the counters as cardinalities.                        *)

Progressed(r) ==
    /\ phase[r] \in {"prelude", "handler"} => route[r] \in Routes
    /\ tracked[r] => route[r] \in Routes \ Events
    /\ phase[r] = "new" =>
           route[r] = Probe /\ ~tracked[r] /\ ~aborted[r] /\ ~wroteFirst[r]
    /\ phase[r] \in {"new", "prelude", "handler"} => status[r] = 0
    /\ phase[r] = "responding" => ~aborted[r]
    /\ cancelled[r] => aborted[r]
    /\ wroteFirst[r] => ~cancelable[r] /\ ~cancelled[r] /\ status[r] # 499

Shape == \A r \in Requests : Progressed(r)

IInv == TypeOK /\ Shape /\ LimiterAccounting /\ GaugeAccounting /\ StatsAccounting

LEMMA InitInv == Init => IInv
  <1> SUFFICES ASSUME Init PROVE IInv
    OBVIOUS
  <1>1. Shape
    BY DEF Init, Shape, Progressed
  <1>2. LimiterAccounting
    <2>1. \A l \in Limiters : Holders(l) = {}
      BY DEF Init, Inside, Holders
    <2>2. ASSUME NEW l \in Limiters, Limited(l)
          PROVE  reqsInExecution[l] = Cardinality(Holders(l)) /\ reqsInExecution[l] <= MaxRequests[l]
      <3>1. Cardinality(Holders(l)) = 0
        BY <2>1, FS_EmptySet
      <3>2. reqsInExecution[l] = 0
        BY DEF Init
      <3>3. MaxRequests[l] \in Nat
        BY ConstantsAssumption
      <3> QED
        BY <3>1, <3>2, <3>3
    <2> QED
      BY <2>2 DEF LimiterAccounting
  <1>3. GaugeAccounting
    <2>1. InCourse = {} /\ LeakedProbes = {}
      BY DEF Init, InCourse, LeakedProbes
    <2> QED
      BY <2>1, FS_EmptySet DEF Init, GaugeAccounting
  <1>4. StatsAccounting
    <2>1. Tracked = {} /\ TrackedClosed = {} /\ TrackedAborted = {}
      BY DEF Init, Tracked, TrackedClosed, TrackedAborted
    <2> QED
      BY <2>1, FS_EmptySet DEF Init, StatsAccounting
  <1> QED
    BY <1>1, <1>2, <1>3, <1>4, InitType DEF IInv

-----------------------------------------------------------------------------
(* One request moves at a time. *)

Bit(b) == IF b THEN 1 ELSE 0

LEMMA Recount ==
  ASSUME NEW A \in SUBSET Requests, NEW B \in SUBSET Requests, NEW r \in Requests,
         \A q \in Requests \ {r} : q \in A <=> q \in B
  PROVE  /\ Cardinality(A) \in Nat
         /\ Cardinality(B) = Cardinality(A) - Bit(r \in A) + Bit(r \in B)
  <1>1. IsFiniteSet(A) /\ IsFiniteSet(B)
    BY ConstantsAssumption, FS_Subset
  <1>2. Cardinality(A) \in Nat /\ Cardinality(B) \in Nat
    BY <1>1, FS_CardinalityType
  <1>3. CASE r \in A <=> r \in B
    <2>1. A = B
      BY <1>3
    <2> QED
      BY <1>2, <1>3, <2>1 DEF Bit
  <1>4. CASE r \notin A /\ r \in B
    <2>1. B = A \cup {r}
      BY <1>4
    <2> QED
      BY <1>1, <1>2, <1>4, <2>1, FS_AddElement DEF Bit
  <1>5. CASE r \in A /\ r \notin B
    <2>1. A = B \cup {r}
      BY <1>5
    <2> QED
      BY <1>1, <1>2, <1>5, <2>1, FS_AddElement DEF Bit
  <1> QED
    BY <1>3, <1>4, <1>5

\* The fields of request q are as they were.
Unmoved(q) ==
    /\ phase'[q] = phase[q] /\ route'[q] = route[q] /\ status'[q] = status[q]
    /\ cancelable'[q] = cancelable[q] /\ cancelled'[q] = cancelled[q]
    /\ aborted'[q] = aborted[q] /\ tracked'[q] = tracked[q]
    /\ wroteFirst'[q] = wroteFirst[q]

LEMMA OthersUnmoved ==
  ASSUME TypeOK, NEW r \in Requests, Step(r), NEW q \in Requests \ {r}
  PROVE  Unmoved(q)
  <1>1. CASE ProbeServed(r) \/ ProbeRejected(r) \/ \E rt \in Routes : RejectedByApp(r, rt)
    BY <1>1 DEF ProbeServed, ProbeRejected, RejectedByApp, TypeOK, Unmoved
  <1>5. ASSUME NEW rt, NEW safe, EnterRoute(r, rt, safe),
               \/ status' = status
               \/ status' = [status EXCEPT ![r] = 429],
               NEW p, phase' = [phase EXCEPT ![r] = p]
        PROVE  Unmoved(q)
    BY <1>5 DEF EnterRoute, TypeOK, Unmoved
  <1>2. ASSUME NEW code, Unwind(r, code)
        PROVE  Unmoved(q)
    BY <1>2 DEF Unwind, TypeOK, Unmoved
  <1>3. CASE PreludeDone(r) \/ NextMiddleware(r) \/ Write(r)
    BY <1>3 DEF PreludeDone, NextMiddleware, Write, TypeOK, Unmoved
  <1>4. CASE ResponseFinishes(r) \/ ClientAborts(r)
    BY <1>4 DEF ResponseFinishes, ClientAborts, TypeOK, Unmoved
  <1>6. CASE Arrive(r)
    <2>1. ASSUME NEW rt, NEW safe, AwaitPrelude(r, rt, safe) \/ RunHandler(r, rt, safe)
          PROVE  Unmoved(q)
      BY <1>5, <2>1 DEF AwaitPrelude, RunHandler
    <2>2. ASSUME NEW rt, NEW safe, NEW tokens, RejectedByRoute(r, rt, safe, tokens)
          PROVE  Unmoved(q)
      BY <1>5, <2>2 DEF RejectedByRoute
    <2> QED
      BY <1>1, <1>6, <2>1, <2>2 DEF Arrive
  <1> QED
    BY <1>2, <1>3, <1>4, <1>6
       DEF Step, Prelude, Handler, PreludeThenRejected, PreludeThenSkipped, PreludeFails,
           HandlerReturns, HandlerThrows, HandlerCancelled

-----------------------------------------------------------------------------
(* What a step does to its request. *)

\* Every way out of the pipeline: the request was inside, and only a cancelled
\* one ends with 499.
LEMMA ExitCases ==
  ASSUME NEW r, Prelude(r) \/ Handler(r)
  PROVE  \/ PreludeDone(r)
         \/ NextMiddleware(r)
         \/ \E code \in Statuses : /\ phase[r] \in {"prelude", "handler"}
                                   /\ Unwind(r, code)
                                   /\ code = 499 => cancelled[r]
  BY DEF Prelude, Handler, PreludeThenRejected, PreludeThenSkipped, PreludeFails,
         HandlerReturns, HandlerThrows, HandlerCancelled, Statuses

LEMMA ShapeStep ==
  ASSUME TypeOK, Shape, NEW r \in Requests, Step(r)
  PROVE  Shape'
  <1> USE DEF Progressed
  <1>0. Progressed(r)
    BY DEF Shape
  <1>1. CASE ProbeServed(r) \/ ProbeRejected(r) \/ \E rt \in Routes : RejectedByApp(r, rt)
    <2>1. Progressed(r)'
      BY <1>0, <1>1 DEF ProbeServed, ProbeRejected, RejectedByApp, TypeOK
    <2> QED
      BY <2>1, OthersUnmoved DEF Shape, Unmoved
  <1>2. ASSUME NEW rt \in Routes, NEW safe \in BOOLEAN, EnterRoute(r, rt, safe),
               \/ status' = status /\ phase' = [phase EXCEPT ![r] = "prelude"]
               \/ status' = status /\ phase' = [phase EXCEPT ![r] = "handler"]
               \/ /\ status' = [status EXCEPT ![r] = 429]
                  /\ phase' = [phase EXCEPT ![r] = "responding"]
        PROVE  Progressed(r)'
    BY <1>0, <1>2 DEF EnterRoute, TypeOK
  <1>3. CASE Arrive(r)
    <2>1. ASSUME NEW rt \in Routes, NEW safe \in BOOLEAN,
                 AwaitPrelude(r, rt, safe) \/ RunHandler(r, rt, safe)
          PROVE  Progressed(r)'
      BY <1>2, <2>1 DEF AwaitPrelude, RunHandler
    <2>2. ASSUME NEW rt \in Routes, NEW safe \in BOOLEAN, NEW tokens \in BOOLEAN,
                 RejectedByRoute(r, rt, safe, tokens)
          PROVE  Progressed(r)'
      BY <1>2, <2>2 DEF RejectedByRoute
    <2>3. Shape' \/ Progressed(r)'
      BY <1>1, <1>3, <2>1, <2>2 DEF Arrive
    <2> QED
      BY <2>3, OthersUnmoved DEF Shape, Unmoved
  <1>4. ASSUME NEW code \in Statuses, phase[r] \in {"prelude", "handler"}, Unwind(r, code),
               code = 499 => cancelled[r]
        PROVE  Progressed(r)'
    BY <1>0, <1>4 DEF Unwind, TypeOK
  <1>5. CASE PreludeDone(r) \/ NextMiddleware(r)
    <2>1. Progressed(r)'
      BY <1>0, <1>5 DEF PreludeDone, NextMiddleware, TypeOK
    <2> QED
      BY <2>1, OthersUnmoved DEF Shape, Unmoved
  <1>6. CASE Write(r)
    <2>1. Progressed(r)'
      BY <1>0, <1>6 DEF Write, TypeOK
    <2> QED
      BY <2>1, OthersUnmoved DEF Shape, Unmoved
  <1>7. CASE ResponseFinishes(r)
    <2>1. Progressed(r)'
      BY <1>0, <1>7 DEF ResponseFinishes, TypeOK
    <2> QED
      BY <2>1, OthersUnmoved DEF Shape, Unmoved
  <1>8. CASE ClientAborts(r)
    <2>1. Progressed(r)'
      BY <1>0, <1>8 DEF ClientAborts, TypeOK
    <2> QED
      BY <2>1, OthersUnmoved DEF Shape, Unmoved
  <1>9. CASE Prelude(r) \/ Handler(r)
    <2>1. Shape' \/ Progressed(r)'
      BY <1>4, <1>5, <1>9, ExitCases
    <2> QED
      BY <2>1, OthersUnmoved DEF Shape, Unmoved
  <1> QED
    BY <1>3, <1>6, <1>7, <1>8, <1>9 DEF Step

\* A limiter's counter moves with the request: up when it goes in, which takes a
\* free slot, and down when it goes out.
LimiterMoves(r, l) ==
    /\ reqsInExecution'[l] = reqsInExecution[l] - Bit(l \in Inside(r)) + Bit(l \in Inside(r)')
    /\ reqsInExecution'[l] > reqsInExecution[l] => ~Full(l)

LEMMA LimiterStep ==
  ASSUME TypeOK, Shape, NEW r \in Requests, Step(r), NEW l \in Limiters, Limited(l)
  PROVE  LimiterMoves(r, l)
  <1> USE DEF Bit, LimiterMoves
  <1>0. /\ phase[r] \in {"prelude", "handler"} => route[r] \in Routes
        /\ Global \notin Routes
        /\ reqsInExecution[l] \in Int
    BY ConstantsAssumption DEF Shape, Progressed, TypeOK
  <1>1. CASE \/ ProbeServed(r) \/ ProbeRejected(r) \/ \E rt \in Routes : RejectedByApp(r, rt)
             \/ \E rt \in Routes, safe \in BOOLEAN, tokens \in BOOLEAN :
                    RejectedByRoute(r, rt, safe, tokens)
    <2>1. phase[r] = "new" /\ phase'[r] = "responding" /\ UNCHANGED reqsInExecution
      BY <1>1 DEF ProbeServed, ProbeRejected, RejectedByApp, RejectedByRoute, EnterRoute, TypeOK
    <2>2. Inside(r) = {} /\ Inside(r)' = {}
      BY <2>1 DEF Inside
    <2> QED
      BY <1>0, <2>1, <2>2
  <1>2. ASSUME NEW rt \in Routes, NEW safe \in BOOLEAN, AwaitPrelude(r, rt, safe)
        PROVE  LimiterMoves(r, l)
    <2>1. phase[r] = "new" /\ phase'[r] = "prelude" /\ ~Full(Global)
      BY <1>2 DEF AwaitPrelude, EnterRoute, TypeOK
    <2>2. Inside(r) = {} /\ Inside(r)' = {Global}
      BY <2>1 DEF Inside
    <2> QED
      BY <1>0, <1>2, <2>1, <2>2 DEF AwaitPrelude, Enter
  <1>3. ASSUME NEW rt \in Routes, NEW safe \in BOOLEAN, RunHandler(r, rt, safe)
        PROVE  LimiterMoves(r, l)
    <2>1. phase[r] = "new" /\ phase'[r] = "handler" /\ route'[r] = rt
      BY <1>3 DEF RunHandler, EnterRoute, TypeOK
    <2>2. Inside(r) = {} /\ Inside(r)' = {Global, rt}
      BY <2>1 DEF Inside
    <2>3. ~Full(Global) /\ ~Full(rt)
      BY <1>3 DEF RunHandler, EnterRoute
    <2> QED
      BY <1>0, <1>3, <2>2, <2>3 DEF RunHandler, Enter
  <1>4. CASE PreludeDone(r)
    <2>1. phase[r] = "prelude" /\ phase'[r] = "handler" /\ route' = route
      BY <1>4 DEF PreludeDone, TypeOK
    <2>2. Inside(r) = {Global} /\ Inside(r)' = {Global, route[r]}
      BY <2>1 DEF Inside
    <2>3. ~Full(route[r]) /\ Enter({route[r]})
      BY <1>4 DEF PreludeDone
    <2> QED
      BY <1>0, <2>1, <2>2, <2>3 DEF Enter
  <1>5. ASSUME NEW code \in Statuses, phase[r] \in {"prelude", "handler"}, Unwind(r, code)
        PROVE  LimiterMoves(r, l)
    <2>1. phase'[r] \in {"closed", "responding"}
      BY <1>5 DEF Unwind, TypeOK
    <2>2. Inside(r)' = {}
      BY <2>1 DEF Inside
    <2> QED
      BY <1>0, <1>5, <2>2 DEF Unwind, Leave
  <1>6. CASE NextMiddleware(r) \/ Write(r) \/ ResponseFinishes(r) \/ ClientAborts(r)
    <2>1. /\ UNCHANGED <<reqsInExecution, route>>
          /\ \/ phase'[r] = phase[r]
             \/ phase[r] = "responding" /\ phase'[r] = "closed"
      BY <1>6 DEF NextMiddleware, Write, ResponseFinishes, ClientAborts, TypeOK
    <2>2. Inside(r)' = Inside(r)
      BY <2>1 DEF Inside
    <2> QED
      BY <1>0, <2>1, <2>2
  <1>7. CASE Arrive(r)
    BY <1>1, <1>2, <1>3, <1>7 DEF Arrive
  <1>8. CASE Prelude(r) \/ Handler(r)
    BY <1>4, <1>5, <1>6, <1>8, ExitCases
  <1> QED
    BY <1>6, <1>7, <1>8 DEF Step

\* The gauge moves with the request's being in course, or a turned away probe.
GaugeMoves(r) ==
    concurrentRequests' = concurrentRequests
        - Bit(r \in InCourse) + Bit((r \in InCourse)')
        - Bit(r \in LeakedProbes) + Bit((r \in LeakedProbes)')

LEMMA GaugeStep ==
  ASSUME TypeOK, Shape, NEW r \in Requests, Step(r)
  PROVE  GaugeMoves(r)
  <1> USE DEF Bit, InCourse, LeakedProbes, GaugeMoves
  <1>0. /\ phase[r] \in {"prelude", "handler"} => route[r] \in Routes
        /\ phase[r] = "new" => route[r] = Probe
        /\ phase[r] = "responding" => ~aborted[r]
        /\ concurrentRequests \in Int
        /\ Probe \notin Routes
    BY ConstantsAssumption DEF Shape, Progressed, TypeOK
  <1>1. CASE ProbeServed(r)
    <2>1. /\ phase[r] = "new" /\ phase'[r] = "responding" /\ status'[r] = 200
          /\ UNCHANGED <<route, concurrentRequests>>
      BY <1>1 DEF ProbeServed, TypeOK
    <2> QED
      BY <1>0, <2>1
  <1>2. CASE ProbeRejected(r)
    <2>1. /\ phase[r] = "new" /\ phase'[r] = "responding" /\ status'[r] = 429
          /\ route' = route /\ concurrentRequests' = concurrentRequests + 1
      BY <1>2 DEF ProbeRejected, TypeOK
    <2> QED
      BY <1>0, <2>1
  <1>3. ASSUME NEW rt \in Routes, phase[r] = "new",
               NEW p \in Phases \ {"new", "closed"}, phase' = [phase EXCEPT ![r] = p],
               route' = [route EXCEPT ![r] = rt],
               concurrentRequests' = concurrentRequests + 1
        PROVE  GaugeMoves(r)
    <2>1. phase'[r] = p /\ route'[r] = rt
      BY <1>3 DEF TypeOK
    <2> QED
      BY <1>0, <1>3, <2>1 DEF Phases
  <1>4. CASE Arrive(r)
    <2>1. ASSUME NEW rt \in Routes, RejectedByApp(r, rt)
          PROVE  GaugeMoves(r)
      BY <1>3, <2>1 DEF RejectedByApp, Phases
    <2>2. ASSUME NEW rt \in Routes, NEW safe \in BOOLEAN, AwaitPrelude(r, rt, safe)
          PROVE  GaugeMoves(r)
      BY <1>3, <2>2 DEF AwaitPrelude, EnterRoute, Phases
    <2>3. ASSUME NEW rt \in Routes, NEW safe \in BOOLEAN, RunHandler(r, rt, safe)
          PROVE  GaugeMoves(r)
      BY <1>3, <2>3 DEF RunHandler, EnterRoute, Phases
    <2>4. ASSUME NEW rt \in Routes, NEW safe \in BOOLEAN, NEW tokens \in BOOLEAN,
                 RejectedByRoute(r, rt, safe, tokens)
          PROVE  GaugeMoves(r)
      BY <1>3, <2>4 DEF RejectedByRoute, EnterRoute, Phases
    <2> HIDE DEF Bit, InCourse, LeakedProbes, GaugeMoves
    <2> QED
      BY <1>1, <1>2, <1>4, <2>1, <2>2, <2>3, <2>4 DEF Arrive
  <1>5. CASE PreludeDone(r) \/ NextMiddleware(r) \/ Write(r)
    <2>1. /\ UNCHANGED <<route, status, concurrentRequests>>
          /\ phase[r] \in {"prelude", "handler"} /\ phase'[r] \in {"prelude", "handler"}
      BY <1>5 DEF PreludeDone, NextMiddleware, Write, TypeOK
    <2> QED
      BY <1>0, <2>1
  <1>6. ASSUME NEW code \in Statuses, phase[r] \in {"prelude", "handler"}, Unwind(r, code)
        PROVE  GaugeMoves(r)
    <2>1. /\ route' = route
          /\ \/ aborted[r] /\ phase'[r] = "closed" /\ concurrentRequests' = concurrentRequests - 1
             \/ phase'[r] = "responding" /\ UNCHANGED concurrentRequests
      BY <1>6 DEF Unwind, TypeOK
    <2> QED
      BY <1>0, <1>6, <2>1
  <1>7. CASE ResponseFinishes(r)
    <2>1. /\ phase[r] = "responding" /\ phase'[r] = "closed" /\ UNCHANGED <<route, status>>
          /\ concurrentRequests' = IF route[r] = Probe THEN concurrentRequests
                                                       ELSE concurrentRequests - 1
      BY <1>7 DEF ResponseFinishes, TypeOK
    <2> QED
      BY <1>0, <2>1
  <1>8. CASE ClientAborts(r)
    <2>1. /\ phase[r] \in {"prelude", "handler", "responding"} /\ UNCHANGED <<route, status>>
          /\ phase'[r] = IF phase[r] = "responding" THEN "closed" ELSE phase[r]
          /\ concurrentRequests' = IF phase[r] = "responding" /\ route[r] # Probe
                                   THEN concurrentRequests - 1 ELSE concurrentRequests
      BY <1>8 DEF ClientAborts, TypeOK
    <2> QED
      BY <1>0, <2>1
  <1>9. CASE Prelude(r) \/ Handler(r)
    <2> HIDE DEF Bit, InCourse, LeakedProbes, GaugeMoves
    <2> QED
      BY <1>5, <1>6, <1>9, ExitCases
  <1> QED
    BY <1>4, <1>5, <1>7, <1>8, <1>9 DEF Step

\* The statistics move with the request's being tracked, closed and aborted.
StatsMove(r) ==
    /\ stats'.total = stats.total - Bit(r \in Tracked) + Bit((r \in Tracked)')
    /\ stats'.closed = stats.closed
         - Bit(r \in TrackedClosed) + Bit((r \in TrackedClosed)')
    /\ stats'.aborted = stats.aborted
         - Bit(r \in TrackedAborted) + Bit((r \in TrackedAborted)')

LEMMA StatsStep ==
  ASSUME TypeOK, Shape, NEW r \in Requests, Step(r)
  PROVE  StatsMove(r)
  <1> USE DEF Bit, Tracked, TrackedClosed, TrackedAborted, StatsMove
  <1>0. /\ phase[r] = "new" => ~tracked[r] /\ ~aborted[r]
        /\ phase[r] = "responding" => ~aborted[r]
        /\ stats.total \in Int /\ stats.closed \in Int /\ stats.aborted \in Int
    BY DEF Shape, Progressed, TypeOK
  <1>1. CASE ProbeServed(r) \/ ProbeRejected(r) \/ \E rt \in Routes : RejectedByApp(r, rt)
    <2>1. /\ phase[r] = "new" /\ phase'[r] = "responding"
          /\ UNCHANGED <<tracked, aborted, stats>>
      BY <1>1 DEF ProbeServed, ProbeRejected, RejectedByApp, TypeOK
    <2> QED
      BY <1>0, <2>1
  <1>2. ASSUME phase[r] = "new", NEW rt, tracked' = [tracked EXCEPT ![r] = rt \notin Events],
               NEW p \in Phases \ {"new", "closed"}, phase' = [phase EXCEPT ![r] = p],
               aborted' = aborted,
               stats' = IF rt \in Events THEN stats ELSE [stats EXCEPT !.total = @ + 1]
        PROVE  StatsMove(r)
    <2>1. /\ phase'[r] = p /\ (tracked'[r] <=> rt \notin Events)
          /\ stats'.closed = stats.closed /\ stats'.aborted = stats.aborted
      BY <1>2 DEF TypeOK
    <2>2. CASE rt \in Events
      <3>1. stats'.total = stats.total /\ ~tracked'[r]
        BY <1>2, <2>1, <2>2 DEF TypeOK
      <3> QED
        BY <1>0, <1>2, <2>1, <3>1
    <2>3. CASE rt \notin Events
      <3>1. stats'.total = stats.total + 1 /\ tracked'[r]
        BY <1>2, <2>1, <2>3 DEF TypeOK
      <3> QED
        BY <1>0, <1>2, <2>1, <3>1
    <2> QED
      BY <2>2, <2>3
  <1>3. CASE Arrive(r)
    <2>1. ASSUME NEW rt \in Routes, NEW safe \in BOOLEAN, AwaitPrelude(r, rt, safe)
          PROVE  StatsMove(r)
      BY <1>2, <2>1 DEF AwaitPrelude, EnterRoute, Phases
    <2>2. ASSUME NEW rt \in Routes, NEW safe \in BOOLEAN, RunHandler(r, rt, safe)
          PROVE  StatsMove(r)
      BY <1>2, <2>2 DEF RunHandler, EnterRoute, Phases
    <2>3. ASSUME NEW rt \in Routes, NEW safe \in BOOLEAN, NEW tokens \in BOOLEAN,
                 RejectedByRoute(r, rt, safe, tokens)
          PROVE  StatsMove(r)
      BY <1>2, <2>3 DEF RejectedByRoute, EnterRoute, Phases
    <2> HIDE DEF Bit, Tracked, TrackedClosed, TrackedAborted, StatsMove
    <2> QED
      BY <1>1, <1>3, <2>1, <2>2, <2>3 DEF Arrive
  <1>4. CASE PreludeDone(r) \/ NextMiddleware(r) \/ Write(r)
    <2>1. /\ UNCHANGED <<tracked, aborted, stats>>
          /\ phase[r] # "closed" /\ phase'[r] # "closed"
      BY <1>4 DEF PreludeDone, NextMiddleware, Write, TypeOK
    <2> QED
      BY <1>0, <2>1
  <1>5. ASSUME NEW code \in Statuses, phase[r] \in {"prelude", "handler"}, Unwind(r, code)
        PROVE  StatsMove(r)
    <2>1. /\ UNCHANGED <<tracked, aborted, stats>>
          /\ phase'[r] = IF aborted[r] THEN "closed" ELSE "responding"
      BY <1>5 DEF Unwind, TypeOK
    <2> QED
      BY <1>0, <1>5, <2>1
  <1>6. CASE ResponseFinishes(r)
    <2>1. /\ phase[r] = "responding" /\ phase'[r] = "closed" /\ UNCHANGED <<tracked, aborted>>
          /\ stats' = IF tracked[r] THEN [stats EXCEPT !.closed = @ + 1] ELSE stats
      BY <1>6 DEF ResponseFinishes, TypeOK
    <2>2. stats'.total = stats.total /\ stats'.aborted = stats.aborted
      BY <2>1 DEF TypeOK
    <2>3. stats'.closed = IF tracked[r] THEN stats.closed + 1 ELSE stats.closed
      BY <2>1 DEF TypeOK
    <2> QED
      BY <1>0, <2>1, <2>2, <2>3
  <1>7. CASE ClientAborts(r)
    <2>1. /\ phase[r] \in {"prelude", "handler", "responding"} /\ tracked' = tracked
          /\ ~aborted[r] /\ aborted'[r]
      BY <1>7 DEF ClientAborts, TypeOK
    <2>2. /\ stats'.total = stats.total
          /\ stats'.closed = IF tracked[r] THEN stats.closed + 1 ELSE stats.closed
          /\ stats'.aborted = IF tracked[r] THEN stats.aborted + 1 ELSE stats.aborted
      <3>1. stats \in [total : Int, closed : Int, aborted : Int]
        BY DEF TypeOK
      <3>2. stats' = IF tracked[r] THEN [stats EXCEPT !.aborted = @ + 1, !.closed = @ + 1]
                                   ELSE stats
        BY <1>7 DEF ClientAborts
      <3> QED
        BY <3>1, <3>2
    <2> QED
      BY <1>0, <2>1, <2>2
  <1>8. CASE Prelude(r) \/ Handler(r)
    <2> HIDE DEF Bit, Tracked, TrackedClosed, TrackedAborted, StatsMove
    <2> QED
      BY <1>4, <1>5, <1>8, ExitCases
  <1> QED
    BY <1>3, <1>4, <1>6, <1>7, <1>8 DEF Step

-----------------------------------------------------------------------------
(* Theorems. *)

LEMMA Invariance == IInv /\ [Next]_vars => IInv'
  <1> SUFFICES ASSUME IInv, [Next]_vars PROVE IInv'
    OBVIOUS
  <1>1. CASE UNCHANGED vars
    BY <1>1 DEF IInv, TypeOK, Shape, Progressed, LimiterAccounting, GaugeAccounting,
                StatsAccounting, Holders, Inside, InCourse, LeakedProbes, Tracked,
                TrackedClosed, TrackedAborted, Limited, vars
  <1>2. ASSUME NEW r \in Requests, Step(r)
        PROVE  IInv'
    <2> USE DEF IInv
    <2>1. TypeOK' /\ Shape'
      BY <1>2, StepType, ShapeStep
    <2>2. \A q \in Requests \ {r} : Unmoved(q)
      BY <1>2, OthersUnmoved
    <2>3. LimiterAccounting'
      <3>1. ASSUME NEW l \in Limiters, Limited(l)
            PROVE  /\ reqsInExecution'[l] = Cardinality(Holders(l)')
                   /\ reqsInExecution'[l] <= MaxRequests[l]
        <4>1. \A q \in Requests \ {r} : q \in Holders(l) <=> q \in Holders(l)'
          BY <2>2 DEF Holders, Inside, Unmoved
        <4>2. /\ Cardinality(Holders(l)) \in Nat
              /\ Cardinality(Holders(l)') = Cardinality(Holders(l))
                   - Bit(r \in Holders(l)) + Bit(r \in Holders(l)')
          <5>1. Holders(l) \in SUBSET Requests /\ Holders(l)' \in SUBSET Requests
            BY DEF Holders
          <5> QED
            BY <4>1, <5>1, Recount
        <4>3. /\ Bit(r \in Holders(l)) = Bit(l \in Inside(r))
              /\ Bit(r \in Holders(l)') = Bit(l \in Inside(r)')
          BY DEF Holders, Bit
        <4>4. LimiterMoves(r, l)
          BY <1>2, <3>1, LimiterStep
        <4>5. reqsInExecution[l] = Cardinality(Holders(l)) /\ reqsInExecution[l] <= MaxRequests[l]
          BY <3>1 DEF LimiterAccounting
        <4>6. MaxRequests[l] \in Nat
          BY ConstantsAssumption
        <4> QED
          BY <3>1, <4>2, <4>3, <4>4, <4>5, <4>6 DEF LimiterMoves, Full, Bit
      <3> QED
        BY <3>1 DEF LimiterAccounting, Limited
    <2>4. GaugeAccounting'
      <3>1. /\ Cardinality(InCourse) \in Nat
            /\ Cardinality(InCourse') = Cardinality(InCourse)
                 - Bit(r \in InCourse) + Bit((r \in InCourse)')
        <4>1. \A q \in Requests \ {r} : q \in InCourse <=> q \in InCourse'
          BY <2>2 DEF InCourse, Unmoved
        <4>2. InCourse \in SUBSET Requests /\ InCourse' \in SUBSET Requests
          BY DEF InCourse
        <4> QED
          BY <4>1, <4>2, Recount
      <3>2. /\ Cardinality(LeakedProbes) \in Nat
            /\ Cardinality(LeakedProbes') = Cardinality(LeakedProbes)
                 - Bit(r \in LeakedProbes) + Bit((r \in LeakedProbes)')
        <4>1. \A q \in Requests \ {r} : q \in LeakedProbes <=> q \in LeakedProbes'
          BY <2>2 DEF LeakedProbes, Unmoved
        <4>2. LeakedProbes \in SUBSET Requests /\ LeakedProbes' \in SUBSET Requests
          BY DEF LeakedProbes
        <4> QED
          BY <4>1, <4>2, Recount
      <3>3. GaugeMoves(r)
        BY <1>2, GaugeStep
      <3> QED
        BY <3>1, <3>2, <3>3 DEF GaugeMoves, GaugeAccounting, Bit
    <2>5. StatsAccounting'
      <3>1. /\ Cardinality(Tracked) \in Nat
            /\ Cardinality(Tracked') = Cardinality(Tracked)
                 - Bit(r \in Tracked) + Bit((r \in Tracked)')
        <4>1. \A q \in Requests \ {r} : q \in Tracked <=> q \in Tracked'
          BY <2>2 DEF Tracked, Unmoved
        <4>2. Tracked \in SUBSET Requests /\ Tracked' \in SUBSET Requests
          BY DEF Tracked
        <4> QED
          BY <4>1, <4>2, Recount
      <3>2. /\ Cardinality(TrackedClosed) \in Nat
            /\ Cardinality(TrackedClosed') = Cardinality(TrackedClosed)
                 - Bit(r \in TrackedClosed) + Bit((r \in TrackedClosed)')
        <4>1. \A q \in Requests \ {r} : q \in TrackedClosed <=> q \in TrackedClosed'
          BY <2>2 DEF TrackedClosed, Unmoved
        <4>2. TrackedClosed \in SUBSET Requests /\ TrackedClosed' \in SUBSET Requests
          BY DEF TrackedClosed
        <4> QED
          BY <4>1, <4>2, Recount
      <3>3. /\ Cardinality(TrackedAborted) \in Nat
            /\ Cardinality(TrackedAborted') = Cardinality(TrackedAborted)
                 - Bit(r \in TrackedAborted) + Bit((r \in TrackedAborted)')
        <4>1. \A q \in Requests \ {r} : q \in TrackedAborted <=> q \in TrackedAborted'
          BY <2>2 DEF TrackedAborted, Unmoved
        <4>2. TrackedAborted \in SUBSET Requests /\ TrackedAborted' \in SUBSET Requests
          BY DEF TrackedAborted
        <4> QED
          BY <4>1, <4>2, Recount
      <3>4. StatsMove(r)
        BY <1>2, StatsStep
      <3>5. (\A q \in Tracked : route[q] \in Routes \ Events)'
        BY <2>1 DEF Shape, Progressed, Tracked
      <3> QED
        BY <3>1, <3>2, <3>3, <3>4, <3>5 DEF StatsMove, StatsAccounting, Bit
    <2> QED
      BY <2>1, <2>3, <2>4, <2>5
  <1> QED
    BY <1>1, <1>2, NextIsStep

LEMMA AlwaysIInv == Spec => []IInv
  BY InitInv, Invariance, PTL DEF Spec

\* However requests are let in, turned away, aborted and unwound, each limiter's
\* counter is the number of requests inside it, within the configured maximum.
THEOREM LimitersCount == Spec => []LimiterAccounting
  <1>1. IInv => LimiterAccounting
    BY DEF IInv
  <1> QED
    BY <1>1, AlwaysIInv, PTL

\* The gauge of concurrent requests is always the number in course plus the probes
\* that were turned away, so these are the only leak.
THEOREM GaugeCounts == Spec => []GaugeAccounting
  <1>1. IInv => GaugeAccounting
    BY DEF IInv
  <1> QED
    BY <1>1, AlwaysIInv, PTL

\* incomingRequestStats counts each request that an HTTP route let in once as come,
\* once as closed and, if its client left, once as aborted; it counts no other.
THEOREM StatsCount == Spec => []StatsAccounting
  <1>1. IInv => StatsAccounting
    BY DEF IInv
  <1> QED
    BY <1>1, AlwaysIInv, PTL

\* A request that wrote while its client was there is never cancelled.
THEOREM WritesShield == Spec => []WriteShieldsRequest
  <1>1. IInv => WriteShieldsRequest
    BY DEF IInv, Shape, Progressed, WriteShieldsRequest
  <1> QED
    BY <1>1, AlwaysIInv, PTL

\* The step of a cancelled request starts no middleware and enters no limiter.
THEOREM CancelledStops == Spec => CancelledGoesNoFurther
  <1>1. IInv /\ [Next]_vars => [\A r \in Requests : cancelled[r] =>
            /\ stage'[r] = stage[r]
            /\ Inside(r)' \subseteq Inside(r)]_vars
    <2>1. ASSUME IInv, NEW r \in Requests, Step(r), NEW q \in Requests, cancelled[q]
          PROVE  stage'[q] = stage[q] /\ Inside(q)' \subseteq Inside(q)
      <3>1. TypeOK /\ Progressed(q)
        BY <2>1 DEF IInv, Shape
      <3>2. phase[q] # "new"
        BY <2>1, <3>1 DEF Progressed
      <3>3. CASE NextMiddleware(r) \/ PreludeDone(r)
        <4>1. q # r /\ UNCHANGED route /\ phase'[q] = phase[q] /\ stage'[q] = stage[q]
          BY <2>1, <3>1, <3>3 DEF NextMiddleware, PreludeDone, TypeOK
        <4> QED
          BY <4>1 DEF Inside
      <3>4. CASE Arrive(r)
        <4>1. q # r
          BY <2>1, <3>2, <3>4 DEF Arrive, ProbeServed, ProbeRejected, RejectedByApp,
                                  AwaitPrelude, RunHandler, RejectedByRoute, EnterRoute
        <4>2. stage' = stage
          BY <3>4 DEF Arrive, ProbeServed, ProbeRejected, RejectedByApp,
                      AwaitPrelude, RunHandler, RejectedByRoute, EnterRoute
        <4>3. Unmoved(q)
          BY <2>1, <3>1, <4>1, OthersUnmoved
        <4> QED
          BY <4>2, <4>3 DEF Inside, Unmoved
      <3>5. ASSUME NEW code, Unwind(r, code)
            PROVE  stage'[q] = stage[q] /\ Inside(q)' \subseteq Inside(q)
        <4>1. /\ UNCHANGED <<stage, route>>
              /\ phase'[q] \in {phase[q], "closed", "responding"}
          BY <3>1, <3>5 DEF Unwind, TypeOK
        <4> QED
          BY <4>1 DEF Inside
      <3>6. CASE Write(r) \/ ResponseFinishes(r) \/ ClientAborts(r)
        <4>1. UNCHANGED <<stage, route>> /\ phase'[q] \in {phase[q], "closed"}
          BY <3>1, <3>6 DEF Write, ResponseFinishes, ClientAborts, TypeOK
        <4> QED
          BY <4>1 DEF Inside
      <3> QED
        BY <2>1, <3>3, <3>4, <3>5, <3>6, ExitCases DEF Step
    <2> QED
      BY <2>1, NextIsStep
  <1> QED
    BY <1>1, AlwaysIInv, PTL DEF Spec, CancelledGoesNoFurther

=============================================================================
