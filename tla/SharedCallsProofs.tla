--------------------------- MODULE SharedCallsProofs ---------------------------
(***************************************************************************)
(* The invariants of shared calls and their refinement of WriteOnce.  None *)
(* is inductive alone: what a follower gets depends on what its leader may *)
(* do, so Inv relates each stage of a call to its leader, to the entries   *)
(* of both maps, and to the attempts that are still about.                 *)
(***************************************************************************)
EXTENDS SharedCalls, TLAPS

Stages == Waiting \cup Requesting \cup {"idle", "settled"}

\* A call asks itself, or awaits one that has begun; a write asks itself.
Leaders == \A c \in Calls :
    /\ stage[c] \in Requesting \cup {"idle"} => leader[c] = c
    /\ stage[c] \in Waiting => leader[c] # c /\ stage[leader[c]] # "idle" /\ ~mode[c].write

\* Whom a follower awaits.
FlightWaits == \A c \in Calls :
    stage[c] = "flightWait" => mode[leader[c]].flight /\ leader[leader[c]] = leader[c]

MemoWaits == \A c \in Calls :
    stage[c] = "memoWait" => memo[ClientOf[c]][key[c]] = leader[c]

\* A call that may be in a flight carries no token.
Tokens == \A c \in Calls :
    /\ stage[c] = "idle" => ~token[c]
    /\ mode[c].flight => ~token[c]

SettledWithOutcome == \A c \in Calls : stage[c] = "settled" <=> outcome[c] # Pending

\* The request of a flight is never cancelled.
FlightsUncancelled == \A c \in Calls : LedFlight(c) => outcome[c].kind # "cancelled"

\* An entry of a memoizedCache is a call of that client for that key.
MemoFiled == \A cl \in Clients, k \in Keys, d \in Calls : memo[cl][k] = d =>
    mode[d].memo /\ ClientOf[d] = cl /\ key[d] = k /\ stage[d] # "idle"

\* A memoized call that makes a request or is in a flight has the entry.
MemoHeld == \A c \in Calls : mode[c].memo /\ stage[c] \in Requesting \cup {"flightWait"} =>
    memo[ClientOf[c]][key[c]] = c

\* FlightEntries, by keys and by calls.
FlightsFiled == \A f \in FlightKeys, d \in Calls : inflight[f] = d =>
    LedFlight(d) /\ stage[d] \in Requesting /\ FlightKey[key[d]] = f

FlightsHeld == \A c \in Calls : LedFlight(c) /\ stage[c] \in Requesting =>
    inflight[FlightKey[key[c]]] = c

\* A follower is bound by its leader's floor, a leader by the origin's version.
Freshness == \A c \in Calls :
    /\ stage[c] \in Waiting => floor[c] = floor[leader[c]]
    /\ stage[c] \in Requesting => floor[c] <= version[key[c]]
    /\ stage[c] = "answered" => floor[c] <= reply[c]

\* The attempt not yet handled or given up on.
Outstanding(c) == IF stage[c] \in {"idle", "queued", "sent", "backoff"} THEN 1 ELSE 0

Budget == \A c \in Calls :
    /\ executed[c] + abandoned[c] + Outstanding(c) <= retryCount[c] + 1
    /\ stage[c] = "answered" /\ mode[c].write => executed[c] >= 1
    /\ outcome[c].kind = "ok" /\ mode[c].write => executed[c] >= 1

Inv ==
    /\ TypeOK /\ Leaders /\ FlightWaits /\ MemoWaits /\ Tokens /\ SettledWithOutcome
    /\ FlightsUncancelled /\ MemoFiled /\ MemoHeld /\ FlightsFiled /\ FlightsHeld
    /\ Freshness /\ Budget /\ CancelStaysHome /\ NotOlderThanFlight

-----------------------------------------------------------------------------

LEMMA Types ==
    ASSUME TypeOK, NEW c \in Calls
    PROVE  /\ stage[c] \in Stages /\ key[c] \in Keys /\ ClientOf[c] \in Clients
           /\ mode[c].write \in BOOLEAN /\ mode[c].memo \in BOOLEAN /\ mode[c].flight \in BOOLEAN
           /\ mode[c].write => ~mode[c].memo /\ ~mode[c].flight
           /\ FlightKey[key[c]] \in FlightKeys /\ version[key[c]] \in Nat
           /\ retryCount[c] \in Nat /\ reply[c] \in Nat /\ abandoned[c] \in Nat
           /\ executed[c] \in Nat /\ floor[c] \in Nat /\ RetriesOf(c) \in Nat
           /\ outcome[c] \in Outcomes /\ token[c] \in BOOLEAN
<1>1. mode[c] \in AllModes
  BY DEF TypeOK
<1>2. /\ mode[c].write \in BOOLEAN /\ mode[c].memo \in BOOLEAN /\ mode[c].flight \in BOOLEAN
      /\ mode[c].write => ~mode[c].memo /\ ~mode[c].flight
  BY <1>1 DEF AllModes
<1>3. FlightKey[key[c]] \in FlightKeys /\ version[key[c]] \in Nat
  BY ConstantsAssumption DEF TypeOK
<1>4. RetriesOf(c) \in Nat /\ ClientOf[c] \in Clients
  BY ConstantsAssumption DEF RetriesOf
<1>5. stage[c] \in Stages
  BY DEF TypeOK, Stages
<1>6. /\ key[c] \in Keys /\ token[c] \in BOOLEAN
      /\ retryCount[c] \in Nat /\ reply[c] \in Nat /\ abandoned[c] \in Nat
      /\ executed[c] \in Nat /\ floor[c] \in Nat /\ outcome[c] \in Outcomes
  BY DEF TypeOK
<1> QED BY <1>2, <1>3, <1>4, <1>5, <1>6

LEMMA LeaderIsCall == ASSUME TypeOK, NEW c \in Calls PROVE leader[c] \in Calls
BY DEF TypeOK

LEMMA InitInv == Init => Inv
<1> SUFFICES ASSUME Init PROVE Inv
  OBVIOUS
<1>1. \A c \in Calls : /\ stage[c] = "idle" /\ leader[c] = c /\ token[c] = FALSE
                       /\ outcome[c] = Pending /\ floor[c] = 0 /\ executed[c] = 0
                       /\ abandoned[c] = 0 /\ retryCount[c] = 0
  BY DEF Init
<1>2. (CHOOSE k \in Keys : TRUE) \in Keys
  BY ConstantsAssumption
<1>3. \A c \in Calls : /\ mode[c] \in AllModes
                       /\ mode[c].write = FALSE /\ mode[c].memo = FALSE /\ mode[c].flight = FALSE
  <2> DEFINE m == [write |-> FALSE, memo |-> FALSE, flight |-> FALSE]
  <2>1. m \in [write : BOOLEAN, memo : BOOLEAN, flight : BOOLEAN]
    OBVIOUS
  <2>2. m.write = FALSE /\ m.memo = FALSE /\ m.flight = FALSE
    OBVIOUS
  <2>3. \A c \in Calls : mode[c] = m
    BY DEF Init
  <2> HIDE DEF m
  <2> QED BY <2>1, <2>2, <2>3 DEF AllModes
<1>4. Pending \in Outcomes
  BY DEF Pending, Outcomes
<1>5. TypeOK
  <2>1. mode \in [Calls -> AllModes]
    BY <1>3 DEF Init
  <2>2. /\ stage \in [Calls -> Stages] /\ key \in [Calls -> Keys]
        /\ leader \in [Calls -> Calls] /\ token \in [Calls -> BOOLEAN] /\ outcome \in [Calls -> Outcomes]
    BY <1>2, <1>4 DEF Init, Stages
  <2>3. \A c \in Calls : retryCount[c] <= RetriesOf(c)
    BY <1>1, ConstantsAssumption DEF RetriesOf
  <2>4. /\ memo \in [Clients -> [Keys -> Calls \cup {NoCall}]]
        /\ inflight \in [FlightKeys -> Calls \cup {NoCall}]
        /\ cancelable \in [Clients -> BOOLEAN] /\ cancelled \in [Clients -> BOOLEAN]
    BY ConstantsAssumption DEF Init
  <2>5. /\ retryCount \in [Calls -> Nat] /\ reply \in [Calls -> Nat] /\ abandoned \in [Calls -> Nat]
        /\ version \in [Keys -> Nat] /\ executed \in [Calls -> Nat] /\ floor \in [Calls -> Nat]
    BY DEF Init
  <2> QED BY <2>1, <2>2, <2>3, <2>4, <2>5 DEF TypeOK, Stages
<1>6. /\ Leaders /\ FlightWaits /\ MemoWaits /\ Tokens /\ SettledWithOutcome
      /\ FlightsUncancelled
  BY <1>1, <1>3 DEF Leaders, FlightWaits, MemoWaits, Tokens, SettledWithOutcome,
     FlightsUncancelled, Waiting, Requesting, LedFlight, Pending
<1>7. MemoFiled /\ MemoHeld
  <2>1. \A cl \in Clients, k \in Keys : memo[cl][k] = NoCall
    BY DEF Init
  <2> QED BY <1>3, <2>1, ConstantsAssumption DEF MemoFiled, MemoHeld
<1>8. FlightsFiled /\ FlightsHeld
  <2>1. \A f \in FlightKeys : inflight[f] = NoCall
    BY DEF Init
  <2> QED BY <1>3, <2>1, ConstantsAssumption DEF FlightsFiled, FlightsHeld, LedFlight
<1>9. Freshness
  BY <1>1 DEF Freshness, Waiting, Requesting
<1>10. Budget
  BY <1>1, <1>3 DEF Budget, Outstanding, Pending
<1>11. CancelStaysHome /\ NotOlderThanFlight
  BY <1>1 DEF CancelStaysHome, NotOlderThanFlight, Pending
<1> QED BY <1>5, <1>6, <1>7, <1>8, <1>9, <1>10, <1>11 DEF Inv

-----------------------------------------------------------------------------
(* Settling: what Follow, Cancelled, Answer and Fail have in common.       *)

\* Call c, under way, settles with o, and an attempt of it may be given up on.
Settles(c, o) ==
    /\ Settle(c, o)
    /\ stage[c] \in Waiting \cup Requesting
    /\ UNCHANGED <<retryCount, version, executed>>
    /\ abandoned' \in [Calls -> Nat]
    /\ \A e \in Calls :
           abandoned'[e] <= abandoned[e] + (IF e = c /\ stage[c] = "sent" THEN 1 ELSE 0)

\* What it may settle with.
MaySettle(c, o) ==
    /\ o # Pending
    /\ stage[c] = "memoWait" => o = outcome[leader[c]]
    /\ o.kind = "cancelled" => cancelled[ClientOf[c]] /\ ~LedFlight(c)
    /\ o.kind = "ok" => o.version >= floor[c] /\ (mode[c].write => executed[c] >= 1)

LEMMA SettleStep ==
    ASSUME Inv, NEW c \in Calls, NEW o \in Outcomes, Settles(c, o), MaySettle(c, o)
    PROVE  Inv'
<1> USE DEF Inv
<1>1. /\ \A e \in Calls : stage'[e] = IF e = c THEN "settled" ELSE stage[e]
      /\ \A e \in Calls : outcome'[e] = IF e = c THEN o ELSE outcome[e]
      /\ key' = key /\ mode' = mode /\ leader' = leader /\ token' = token /\ reply' = reply
      /\ memo' = memo /\ cancelable' = cancelable /\ cancelled' = cancelled /\ floor' = floor
      /\ retryCount' = retryCount /\ version' = version /\ executed' = executed
      /\ stage[c] \in Waiting \cup Requesting /\ abandoned' \in [Calls -> Nat]
  BY DEF Settles, Settle, TypeOK
<1>2. \A e \in Calls : FlightKey[key[e]] \in FlightKeys
  BY Types
<1>3. \A f \in FlightKeys : inflight'[f] = IF LedFlight(c) /\ f = FlightKey[key[c]]
                                          THEN NoCall ELSE inflight[f]
  BY <1>2 DEF Settles, Settle, TypeOK, FlightOf
<1>4. TypeOK'
  <2>1. /\ stage' \in [Calls -> Stages] /\ outcome' \in [Calls -> Outcomes]
        /\ inflight' \in [FlightKeys -> Calls \cup {NoCall}]
    BY <1>2 DEF Settles, Settle, TypeOK, Stages
  <2> QED BY <1>1, <2>1 DEF TypeOK, Stages, RetriesOf
<1>5. \A e \in Calls : LedFlight(e)' <=> LedFlight(e)
  BY <1>1 DEF LedFlight
<1>6. Leaders' /\ FlightWaits' /\ MemoWaits' /\ Tokens'
  <2>1. ASSUME NEW e \in Calls
        PROVE  /\ stage'[e] \in Requesting \cup {"idle"} => leader[e] = e
               /\ stage'[e] \in Waiting => /\ leader[e] # e /\ stage'[leader[e]] # "idle"
                                           /\ ~mode[e].write
    <3>1. leader[e] \in Calls
      BY LeaderIsCall
    <3> QED BY <1>1, <3>1 DEF Leaders, Requesting, Waiting
  <2>2. Leaders'
    BY <1>1, <2>1 DEF Leaders
  <2>3. FlightWaits'
    BY <1>1 DEF FlightWaits
  <2>4. MemoWaits'
    BY <1>1 DEF MemoWaits
  <2>5. Tokens'
    BY <1>1 DEF Tokens
  <2> QED BY <2>2, <2>3, <2>4, <2>5
<1>7. SettledWithOutcome' /\ FlightsUncancelled'
  <2>1. SettledWithOutcome'
    BY <1>1 DEF SettledWithOutcome, MaySettle
  <2>2. FlightsUncancelled'
    BY <1>1, <1>5 DEF FlightsUncancelled, MaySettle
  <2> QED BY <2>1, <2>2
<1>8. MemoFiled' /\ MemoHeld' /\ FlightsFiled' /\ FlightsHeld'
  <2>1. MemoFiled'
    BY <1>1 DEF MemoFiled
  <2>2. MemoHeld'
    BY <1>1 DEF MemoHeld, Requesting
  <2>3. ASSUME NEW f \in FlightKeys, NEW b \in Calls, inflight'[f] = b
        PROVE  b # c /\ LedFlight(b) /\ stage[b] \in Requesting /\ FlightKey[key[b]] = f
    <3>1. inflight[f] = b
      BY <1>3, <2>3, ConstantsAssumption
    <3> QED BY <1>3, <2>3, <3>1, ConstantsAssumption DEF FlightsFiled
  <2>4. FlightsFiled'
    BY <1>1, <1>5, <2>3 DEF FlightsFiled
  <2>5. ASSUME NEW e \in Calls, LedFlight(e)', stage'[e] \in Requesting
        PROVE  inflight'[FlightKey[key[e]]] = e
    <3>1. e # c /\ LedFlight(e) /\ stage[e] \in Requesting
      BY <1>1, <1>5, <2>5 DEF Requesting
    <3>2. inflight[FlightKey[key[e]]] = e
      BY <3>1 DEF FlightsHeld
    <3>3. LedFlight(c) => FlightKey[key[e]] # FlightKey[key[c]]
      <4>1. LedFlight(c) => stage[c] \in Requesting
        BY <1>1 DEF Leaders, LedFlight
      <4> QED BY <3>1, <3>2, <4>1 DEF FlightsHeld
    <3> QED BY <1>2, <1>3, <3>1, <3>2, <3>3
  <2>6. FlightsHeld'
    BY <1>1, <2>5 DEF FlightsHeld
  <2> QED BY <2>1, <2>2, <2>4, <2>6
<1>9. Freshness'
  BY <1>1, Types DEF Freshness, Waiting, Requesting
<1>10. Budget'
  <2> SUFFICES ASSUME NEW e \in Calls
      PROVE /\ executed[e] + abandoned'[e] + Outstanding(e)' <= retryCount[e] + 1
            /\ stage'[e] = "answered" /\ mode[e].write => executed[e] >= 1
            /\ outcome'[e].kind = "ok" /\ mode[e].write => executed[e] >= 1
    BY <1>1 DEF Budget
  <2>1. /\ executed[e] \in Nat /\ abandoned[e] \in Nat /\ abandoned'[e] \in Nat
        /\ retryCount[e] \in Nat
    BY <1>1, Types
  <2>2. executed[e] + abandoned'[e] + Outstanding(e)' <= retryCount[e] + 1
    BY <1>1, <2>1 DEF Settles, Budget, Outstanding
  <2> QED BY <1>1, <2>2 DEF Budget, MaySettle
<1>11. CancelStaysHome'
  BY <1>1 DEF CancelStaysHome, MaySettle
<1>12. NotOlderThanFlight'
  BY <1>1 DEF NotOlderThanFlight, MaySettle
<1> QED BY <1>4, <1>6, <1>7, <1>8, <1>9, <1>10, <1>11, <1>12

LEMMA FollowSettles ==
    ASSUME Inv, NEW c \in Calls, Follow(c)
    PROVE  \E o \in Outcomes : Settles(c, o) /\ MaySettle(c, o)
<1> USE DEF Inv
<1> DEFINE d == leader[c]
<1>1. /\ stage[c] \in Waiting /\ Settled(d) /\ Settle(c, outcome[d])
      /\ UNCHANGED <<retryCount, version, executed, abandoned>>
  BY DEF Follow, originVars
<1>2. d \in Calls
  BY LeaderIsCall
<1>3. outcome[d] \in Outcomes /\ outcome[d] # Pending
  BY <1>1, <1>2, Types DEF SettledWithOutcome, Settled
<1>4. abandoned \in [Calls -> Nat]
  BY DEF TypeOK
<1>5. ASSUME outcome[d].kind = "cancelled" PROVE cancelled[ClientOf[c]] /\ ~LedFlight(c)
  <2>1. ~LedFlight(c) /\ ~LedFlight(d)
    BY <1>1, <1>2, <1>5 DEF Leaders, FlightsUncancelled, LedFlight
  <2>2. stage[c] = "memoWait" /\ memo[ClientOf[c]][key[c]] = d
    BY <1>1, <2>1 DEF FlightWaits, MemoWaits, LedFlight, Waiting
  <2>3. ClientOf[c] \in Clients /\ key[c] \in Keys /\ d # NoCall
    BY <1>2, Types, ConstantsAssumption
  <2>4. ClientOf[d] = ClientOf[c]
    BY <1>2, <2>2, <2>3 DEF MemoFiled
  <2> QED BY <1>2, <1>5, <2>1, <2>4 DEF CancelStaysHome
<1>6. outcome[d].kind = "ok" => outcome[d].version >= floor[c] /\ ~mode[c].write
  BY <1>1, <1>2 DEF Leaders, Freshness, NotOlderThanFlight
<1>7. Settles(c, outcome[d])
  BY <1>1, <1>4 DEF Settles
<1>8. MaySettle(c, outcome[d])
  BY <1>3, <1>5, <1>6 DEF MaySettle
<1> QED BY <1>3, <1>7, <1>8

LEMMA CancelledSettles ==
    ASSUME Inv, NEW c \in Calls, Cancelled(c)
    PROVE  \E o \in Outcomes : Settles(c, o) /\ MaySettle(c, o)
<1> USE DEF Inv
<1> DEFINE o == Failed("cancelled")
<1>1. /\ stage[c] \in Requesting /\ TokenUsed(c) /\ Settle(c, o)
      /\ UNCHANGED <<retryCount, version, executed, abandoned>>
  BY DEF Cancelled, originVars
<1>2. o \in Outcomes /\ o # Pending /\ o.kind = "cancelled"
  BY DEF Failed, Outcomes, Pending
<1>3. abandoned \in [Calls -> Nat]
  BY DEF TypeOK
<1>4. cancelled[ClientOf[c]] /\ ~LedFlight(c)
  BY <1>1 DEF TokenUsed, Tokens, LedFlight
<1>5. Settles(c, o)
  BY <1>1, <1>3 DEF Settles, Requesting
<1>6. MaySettle(c, o)
  BY <1>1, <1>2, <1>4 DEF MaySettle, Requesting
<1> HIDE DEF o
<1> QED BY <1>2, <1>5, <1>6

LEMMA AnswerSettles ==
    ASSUME Inv, NEW c \in Calls, Answer(c)
    PROVE  \E o \in Outcomes : Settles(c, o) /\ MaySettle(c, o)
<1> USE DEF Inv
<1> DEFINE o == Answered(key[c], reply[c])
<1>1. /\ stage[c] = "answered" /\ Settle(c, o)
      /\ UNCHANGED <<retryCount, version, executed, abandoned>>
  BY DEF Answer, originVars
<1>2. o \in Outcomes /\ o # Pending /\ o.kind = "ok" /\ o.version = reply[c]
  BY Types DEF Answered, Outcomes, Pending
<1>3. abandoned \in [Calls -> Nat]
  BY DEF TypeOK
<1>4. reply[c] >= floor[c] /\ (mode[c].write => executed[c] >= 1)
  BY <1>1, Types DEF Freshness, Budget
<1>5. Settles(c, o)
  BY <1>1, <1>3 DEF Settles, Requesting
<1>6. MaySettle(c, o)
  BY <1>1, <1>2, <1>4 DEF MaySettle, Requesting
<1> HIDE DEF o
<1> QED BY <1>2, <1>5, <1>6

LEMMA AbandonStep ==
    ASSUME TypeOK, NEW c \in Calls, Abandon(c)
    PROVE  /\ abandoned' \in [Calls -> Nat]
           /\ \A e \in Calls : /\ abandoned'[e] <= abandoned[e] + (IF e = c /\ stage[c] = "sent" THEN 1 ELSE 0)
BY DEF Abandon, TypeOK

LEMMA FailSettles ==
    ASSUME Inv, NEW c \in Calls, Fail(c)
    PROVE  \E o \in Outcomes : Settles(c, o) /\ MaySettle(c, o)
<1> USE DEF Inv
<1> DEFINE o == Failed("error")
<1>1. /\ stage[c] \in {"sent", "answered"} /\ Settle(c, o) /\ Abandon(c)
      /\ UNCHANGED <<retryCount, version, executed>>
  BY DEF Fail
<1>2. o \in Outcomes /\ o # Pending /\ o.kind = "error"
  BY DEF Failed, Outcomes, Pending
<1>3. Settles(c, o)
  BY <1>1, AbandonStep DEF Settles, Requesting
<1>4. MaySettle(c, o)
  BY <1>1, <1>2 DEF MaySettle
<1> HIDE DEF o
<1> QED BY <1>2, <1>3, <1>4

-----------------------------------------------------------------------------
(* Entering the chain: what AwaitMemo, AwaitFlight and Lead have in common. *)

\* Call c enters with mode m and leader d, at stage st, bound by version n.
Enters(c, k, m, d, st, n) ==
    /\ Begin(c, k, m, d)
    /\ stage' = [stage EXCEPT ![c] = st]
    /\ floor' = [floor EXCEPT ![c] = n]
    /\ memo' = IF m.memo /\ st # "memoWait" THEN [memo EXCEPT ![ClientOf[c]][k] = c] ELSE memo
    /\ m.memo /\ st # "memoWait" => memo[ClientOf[c]][k] = NoCall
    /\ inflight' = IF m.flight /\ st = "queued" THEN [inflight EXCEPT ![FlightKey[k]] = c]
                                                ELSE inflight
    /\ cancelable' \in [Clients -> BOOLEAN]
    /\ token' \in [Calls -> BOOLEAN]
    /\ \A e \in Calls \ {c} : token'[e] = token[e]
    /\ m.flight => ~token'[c]

\* The leader that goes with the stage.
Leads(c, k, m, d, st, n) ==
    \/ st = "queued" /\ d = c /\ n = version[k] /\ (m.flight => inflight[FlightKey[k]] = NoCall)
    \/ /\ d # c /\ stage[d] # "idle" /\ ~m.write /\ n = floor[d]
       /\ \/ st = "flightWait" /\ LedFlight(d)
          \/ st = "memoWait" /\ memo[ClientOf[c]][k] = d

Stops == {"memoWait", "flightWait", "queued"}

LEMMA EnterStep ==
    ASSUME Inv, NEW c \in Calls, NEW k \in Keys, NEW m \in AllModes, NEW d \in Calls,
           NEW st \in Stops, NEW n \in Nat,
           Enters(c, k, m, d, st, n), Leads(c, k, m, d, st, n)
    PROVE  Inv'
<1> USE DEF Inv, Stops
<1>1. stage[c] = "idle" /\ outcome[c] = Pending /\ leader[c] = c
  BY DEF Enters, Begin, Leaders, SettledWithOutcome
<1>2. /\ \A e \in Calls : stage'[e] = IF e = c THEN st ELSE stage[e]
      /\ \A e \in Calls : key'[e] = IF e = c THEN k ELSE key[e]
      /\ \A e \in Calls : mode'[e] = IF e = c THEN m ELSE mode[e]
      /\ \A e \in Calls : leader'[e] = IF e = c THEN d ELSE leader[e]
      /\ \A e \in Calls : floor'[e] = IF e = c THEN n ELSE floor[e]
      /\ retryCount' = retryCount /\ reply' = reply /\ outcome' = outcome /\ cancelled' = cancelled
      /\ abandoned' = abandoned /\ version' = version /\ executed' = executed
  BY DEF Enters, Begin, originVars, TypeOK
<1>3. /\ ClientOf[c] \in Clients /\ FlightKey[k] \in FlightKeys /\ NoCall \notin Calls
      /\ \A e \in Calls : FlightKey[key[e]] \in FlightKeys
  BY Types, ConstantsAssumption
<1>4. TypeOK'
  <2>1. /\ stage' \in [Calls -> Stages] /\ key' \in [Calls -> Keys] /\ mode' \in [Calls -> AllModes]
        /\ leader' \in [Calls -> Calls] /\ floor' \in [Calls -> Nat]
    BY DEF Enters, Begin, TypeOK, Stages, Waiting, Requesting
  <2>2. /\ cancelable' \in [Clients -> BOOLEAN] /\ token' \in [Calls -> BOOLEAN]
    BY DEF Enters
  <2>3. /\ memo' \in [Clients -> [Keys -> Calls \cup {NoCall}]]
        /\ inflight' \in [FlightKeys -> Calls \cup {NoCall}]
    BY <1>3 DEF Enters, TypeOK
  <2> QED BY <1>2, <2>1, <2>2, <2>3 DEF TypeOK, Stages, RetriesOf
<1>5. /\ LedFlight(c)' <=> m.flight /\ st = "queued"
      /\ \A e \in Calls \ {c} : LedFlight(e)' <=> LedFlight(e)
  <2>1. LedFlight(c)' <=> m.flight /\ d = c
    BY <1>2 DEF LedFlight
  <2>2. st = "queued" <=> d = c
    BY DEF Leads
  <2>3. \A e \in Calls \ {c} : LedFlight(e)' <=> LedFlight(e)
    BY <1>2 DEF LedFlight
  <2> QED BY <2>1, <2>2, <2>3
<1>6. \A cl \in Clients, q \in Keys :
          memo'[cl][q] = IF m.memo /\ st # "memoWait" /\ cl = ClientOf[c] /\ q = k
                         THEN c ELSE memo[cl][q]
  BY <1>3 DEF Enters, TypeOK
<1>7. \A f \in FlightKeys :
          inflight'[f] = IF m.flight /\ st = "queued" /\ f = FlightKey[k] THEN c ELSE inflight[f]
  BY <1>3 DEF Enters, TypeOK
<1>8. /\ Leaders' /\ FlightWaits' /\ MemoWaits' /\ Tokens' /\ SettledWithOutcome'
      /\ FlightsUncancelled'
  <2>1. ASSUME NEW e \in Calls, e # c
        PROVE  /\ stage'[e] = stage[e] /\ key'[e] = key[e] /\ mode'[e] = mode[e]
               /\ leader'[e] = leader[e] /\ token'[e] = token[e] /\ outcome'[e] = outcome[e]
               /\ ClientOf[e] \in Clients /\ key[e] \in Keys
    BY <1>2, <2>1, Types DEF Enters
  <2>2. ASSUME NEW e \in Calls
        PROVE  /\ stage'[e] = "idle" => leader'[e] = e /\ ~token'[e]
               /\ stage'[e] \in Requesting => leader'[e] = e
    <3>1. CASE e = c
      BY <1>2, <3>1 DEF Leads, Requesting
    <3>2. CASE e # c
      BY <2>1, <3>2 DEF Leaders, Tokens
    <3> QED BY <3>1, <3>2
  <2>3. ASSUME NEW e \in Calls
        PROVE  mode'[e].flight => ~token'[e]
    <3>1. CASE e = c
      BY <1>2, <3>1 DEF Enters
    <3>2. CASE e # c
      BY <2>1, <3>2 DEF Tokens
    <3> QED BY <3>1, <3>2
  <2>4. ASSUME NEW e \in Calls, stage'[e] \in Waiting
        PROVE  leader'[e] # e /\ stage'[leader'[e]] # "idle" /\ ~mode'[e].write
    <3>1. CASE e = c
      BY <1>2, <2>4, <3>1 DEF Leads, Waiting
    <3>2. CASE e # c
      <4>1. leader[e] \in Calls
        BY LeaderIsCall
      <4>2. leader[e] # e /\ stage[leader[e]] # "idle" /\ ~mode[e].write
        BY <2>1, <2>4, <3>2 DEF Leaders
      <4> QED BY <1>1, <1>2, <2>1, <3>2, <4>1, <4>2
    <3> QED BY <3>1, <3>2
  <2>5. ASSUME NEW e \in Calls, stage'[e] = "flightWait"
        PROVE  leader'[e] \in Calls /\ leader'[e] # c /\ LedFlight(leader'[e])
    <3>1. CASE e = c
      BY <1>2, <2>5, <3>1 DEF Leads
    <3>2. CASE e # c
      <4>1. leader[e] \in Calls
        BY LeaderIsCall
      <4>2. LedFlight(leader[e]) /\ stage[leader[e]] # "idle"
        BY <2>1, <2>5, <3>2 DEF Leaders, FlightWaits, LedFlight, Waiting
      <4> QED BY <1>1, <2>1, <3>2, <4>1, <4>2
    <3> QED BY <3>1, <3>2
  <2>6. ASSUME NEW e \in Calls, stage'[e] = "flightWait"
        PROVE  mode'[leader'[e]].flight /\ leader'[leader'[e]] = leader'[e]
    BY <1>2, <2>5, <2>6 DEF LedFlight
  <2>7. ASSUME NEW e \in Calls, stage'[e] = "memoWait"
        PROVE  memo'[ClientOf[e]][key'[e]] = leader'[e]
    <3>1. CASE e = c
      BY <1>2, <1>3, <1>6, <2>7, <3>1 DEF Leads
    <3>2. CASE e # c
      <4>1. memo[ClientOf[e]][key[e]] = leader[e]
        BY <2>1, <2>7, <3>2 DEF MemoWaits
      <4>2. m.memo /\ st # "memoWait" => memo[ClientOf[c]][k] = NoCall
        BY DEF Enters
      <4>3. leader[e] # NoCall
        BY <1>3, LeaderIsCall
      <4> QED BY <1>6, <2>1, <3>2, <4>1, <4>2, <4>3
    <3> QED BY <3>1, <3>2
  <2>8. ASSUME NEW e \in Calls
        PROVE  stage'[e] = "settled" <=> outcome'[e] # Pending
    <3>1. CASE e = c
      BY <1>1, <1>2, <3>1
    <3>2. CASE e # c
      BY <2>1, <3>2 DEF SettledWithOutcome
    <3> QED BY <3>1, <3>2
  <2>9. ASSUME NEW e \in Calls, LedFlight(e)'
        PROVE  outcome'[e].kind # "cancelled"
    <3>1. CASE e = c
      BY <1>1, <1>2, <3>1 DEF Pending
    <3>2. CASE e # c
      BY <1>5, <2>1, <2>9, <3>2 DEF FlightsUncancelled
    <3> QED BY <3>1, <3>2
  <2>10. Leaders' /\ FlightWaits' /\ MemoWaits' /\ Tokens'
    BY <2>2, <2>3, <2>4, <2>6, <2>7 DEF Leaders, FlightWaits, MemoWaits, Tokens
  <2>11. SettledWithOutcome' /\ FlightsUncancelled'
    BY <2>8, <2>9 DEF SettledWithOutcome, FlightsUncancelled
  <2> QED BY <2>10, <2>11
<1>9. MemoFiled' /\ MemoHeld'
  <2>1. ASSUME NEW cl \in Clients, NEW q \in Keys, NEW b \in Calls, memo'[cl][q] = b
        PROVE  mode'[b].memo /\ ClientOf[b] = cl /\ key'[b] = q /\ stage'[b] # "idle"
    <3>1. CASE m.memo /\ st # "memoWait" /\ cl = ClientOf[c] /\ q = k
      BY <1>2, <1>6, <2>1, <3>1
    <3>2. CASE ~(m.memo /\ st # "memoWait" /\ cl = ClientOf[c] /\ q = k)
      <4>1. memo[cl][q] = b
        BY <1>6, <2>1, <3>2
      <4> QED BY <1>1, <1>2, <4>1 DEF MemoFiled
    <3> QED BY <3>1, <3>2
  <2>2. ASSUME NEW e \in Calls, mode'[e].memo, stage'[e] \in Requesting \cup {"flightWait"}
        PROVE  memo'[ClientOf[e]][key'[e]] = e
    <3>1. CASE e = c
      BY <1>2, <1>3, <1>6, <2>2, <3>1 DEF Requesting
    <3>2. CASE e # c
      <4>1. memo[ClientOf[e]][key[e]] = e /\ ClientOf[e] \in Clients /\ key[e] \in Keys
        BY <1>2, <2>2, <3>2, Types DEF MemoHeld
      <4>2. m.memo /\ st # "memoWait" => memo[ClientOf[c]][k] = NoCall
        BY DEF Enters
      <4> QED BY <1>2, <1>3, <1>6, <3>2, <4>1, <4>2
    <3> QED BY <3>1, <3>2
  <2> QED BY <2>1, <2>2 DEF MemoFiled, MemoHeld
<1>10. FlightsFiled' /\ FlightsHeld'
  <2>1. ASSUME NEW f \in FlightKeys, NEW b \in Calls, inflight'[f] = b
        PROVE  LedFlight(b)' /\ stage'[b] \in Requesting /\ FlightKey[key'[b]] = f
    <3>1. CASE m.flight /\ st = "queued" /\ f = FlightKey[k]
      BY <1>2, <1>5, <1>7, <2>1, <3>1 DEF Requesting
    <3>2. CASE ~(m.flight /\ st = "queued" /\ f = FlightKey[k])
      <4>1. inflight[f] = b
        BY <1>7, <2>1, <3>2
      <4>2. LedFlight(b) /\ stage[b] \in Requesting /\ FlightKey[key[b]] = f
        BY <4>1 DEF FlightsFiled
      <4>3. b # c
        BY <1>1, <4>2 DEF Requesting
      <4> QED BY <1>2, <1>5, <4>2, <4>3
    <3> QED BY <3>1, <3>2
  <2>2. ASSUME NEW e \in Calls, LedFlight(e)', stage'[e] \in Requesting
        PROVE  inflight'[FlightKey[key'[e]]] = e
    <3>1. CASE e = c
      BY <1>2, <1>3, <1>5, <1>7, <2>2, <3>1
    <3>2. CASE e # c
      <4>1. inflight[FlightKey[key[e]]] = e
        BY <1>2, <1>5, <2>2, <3>2 DEF FlightsHeld
      <4>2. m.flight /\ st = "queued" => inflight[FlightKey[k]] = NoCall
        BY DEF Leads
      <4> QED BY <1>2, <1>3, <1>7, <3>2, <4>1, <4>2
    <3> QED BY <3>1, <3>2
  <2> QED BY <2>1, <2>2 DEF FlightsFiled, FlightsHeld
<1>11. Freshness'
  <2> SUFFICES ASSUME NEW e \in Calls
      PROVE /\ stage'[e] \in Waiting => floor'[e] = floor'[leader'[e]]
            /\ stage'[e] \in Requesting => floor'[e] <= version'[key'[e]]
            /\ stage'[e] = "answered" => floor'[e] <= reply'[e]
    BY DEF Freshness
  <2>1. CASE e = c
    BY <1>2, <2>1 DEF Leads, Waiting, Requesting, TypeOK
  <2>2. CASE e # c
    <3>1. stage[e] \in Waiting => leader[e] \in Calls \ {c}
      BY <1>1, LeaderIsCall DEF Leaders
    <3> QED BY <1>2, <2>2, <3>1 DEF Freshness
  <2> QED BY <2>1, <2>2
<1>12. Budget'
  <2> SUFFICES ASSUME NEW e \in Calls
      PROVE /\ executed[e] + abandoned[e] + Outstanding(e)' <= retryCount[e] + 1
            /\ stage'[e] = "answered" /\ mode'[e].write => executed[e] >= 1
            /\ outcome[e].kind = "ok" /\ mode'[e].write => executed[e] >= 1
    BY <1>2 DEF Budget
  <2>1. executed[e] \in Nat /\ abandoned[e] \in Nat /\ retryCount[e] \in Nat
    BY Types
  <2>2. Outstanding(e)' <= Outstanding(e)
    BY <1>1, <1>2 DEF Outstanding
  <2>3. Outstanding(e) \in Nat /\ Outstanding(e)' \in Nat
    BY DEF Outstanding
  <2>4. executed[e] + abandoned[e] + Outstanding(e)' <= retryCount[e] + 1
    BY <2>1, <2>2, <2>3 DEF Budget
  <2> QED BY <1>1, <1>2, <2>4 DEF Budget, Pending
<1>13. CancelStaysHome'
  BY <1>2 DEF CancelStaysHome
<1>14. NotOlderThanFlight'
  BY <1>1, <1>2 DEF NotOlderThanFlight, Pending
<1> QED BY <1>4, <1>8, <1>9, <1>10, <1>11, <1>12, <1>13, <1>14

LEMMA AwaitMemoEnters ==
    ASSUME Inv, NEW c \in Calls, NEW k \in Keys, NEW m \in AllModes, AwaitMemo(c, k, m)
    PROVE  \E d \in Calls, st \in Stops, n \in Nat :
               Enters(c, k, m, d, st, n) /\ Leads(c, k, m, d, st, n)
<1> USE DEF Inv
<1> DEFINE d == memo[ClientOf[c]][k]
<1>1. /\ m.memo /\ Begin(c, k, m, d) /\ stage' = [stage EXCEPT ![c] = "memoWait"]
      /\ floor' = [floor EXCEPT ![c] = floor[d]]
      /\ token' = token /\ memo' = memo /\ inflight' = inflight /\ cancelable' = cancelable
  BY DEF AwaitMemo
<1>2. d \in Calls
  <2>1. ClientOf[c] \in Clients /\ d # NoCall
    BY ConstantsAssumption DEF AwaitMemo
  <2> QED BY <2>1 DEF TypeOK
<1>3. stage[c] = "idle" /\ stage[d] # "idle" /\ ~m.write /\ floor[d] \in Nat
  <2>1. stage[d] # "idle"
    BY <1>2, ConstantsAssumption DEF MemoFiled
  <2>2. ~m.write
    BY <1>1 DEF AllModes
  <2> QED BY <1>1, <1>2, <2>1, <2>2, Types DEF Begin
<1>4. Leads(c, k, m, d, "memoWait", floor[d])
  BY <1>3 DEF Leads
<1>5. Enters(c, k, m, d, "memoWait", floor[d])
  <2>1. ~token[c] /\ token \in [Calls -> BOOLEAN] /\ cancelable \in [Clients -> BOOLEAN]
    BY <1>3 DEF Tokens, TypeOK
  <2> QED BY <1>1, <2>1 DEF Enters
<1> HIDE DEF d
<1> QED BY <1>2, <1>3, <1>4, <1>5 DEF Stops

LEMMA GuardStep ==
    ASSUME TypeOK, NEW c \in Calls, NEW k \in Keys, NEW m \in AllModes, MemoizeAndGuard(c, k, m)
    PROVE  /\ memo' = IF m.memo THEN [memo EXCEPT ![ClientOf[c]][k] = c] ELSE memo
           /\ m.memo => memo[ClientOf[c]][k] = NoCall
           /\ cancelable' \in [Clients -> BOOLEAN] /\ token' \in [Calls -> BOOLEAN]
           /\ \A e \in Calls \ {c} : token'[e] = token[e]
           /\ m.flight => ~token'[c]
<1>1. m.write \in BOOLEAN /\ m.flight \in BOOLEAN /\ ClientOf[c] \in Clients
  BY ConstantsAssumption DEF AllModes
<1>2. cancelable' \in [Clients -> BOOLEAN]
  BY <1>1 DEF MemoizeAndGuard, TypeOK
<1>3. (cancelable[ClientOf[c]] /\ ~m.write /\ ~m.flight) \in BOOLEAN
  OBVIOUS
<1>4. token' \in [Calls -> BOOLEAN] /\ \A e \in Calls \ {c} : token'[e] = token[e]
  BY <1>3 DEF MemoizeAndGuard, TypeOK
<1>5. token'[c] = (cancelable[ClientOf[c]] /\ ~m.write /\ ~m.flight)
  BY DEF MemoizeAndGuard, TypeOK
<1>6. m.flight => ~token'[c]
  BY <1>5
<1> QED BY <1>2, <1>4, <1>6 DEF MemoizeAndGuard

LEMMA AwaitFlightEnters ==
    ASSUME Inv, NEW c \in Calls, NEW k \in Keys, NEW m \in AllModes, AwaitFlight(c, k, m)
    PROVE  \E d \in Calls, st \in Stops, n \in Nat :
               Enters(c, k, m, d, st, n) /\ Leads(c, k, m, d, st, n)
<1> USE DEF Inv
<1> DEFINE d == inflight[FlightKey[k]]
<1>1. /\ m.flight /\ d # NoCall /\ Begin(c, k, m, d) /\ MemoizeAndGuard(c, k, m)
      /\ stage' = [stage EXCEPT ![c] = "flightWait"] /\ inflight' = inflight
      /\ floor' = [floor EXCEPT ![c] = IF Settled(d) THEN version[k] ELSE floor[d]]
  BY DEF AwaitFlight, FlightOf
<1>2. d \in Calls /\ FlightKey[k] \in FlightKeys
  <2>1. FlightKey[k] \in FlightKeys
    BY ConstantsAssumption
  <2> QED BY <1>1, <2>1 DEF TypeOK
<1>3. LedFlight(d) /\ stage[d] \in Requesting
  BY <1>2 DEF FlightsFiled
<1>4. stage[c] = "idle" /\ ~m.write /\ floor[d] \in Nat /\ ~Settled(d)
  <2>1. ~m.write
    BY <1>1 DEF AllModes
  <2> QED BY <1>1, <1>2, <1>3, <2>1, Types DEF Begin, Settled, Requesting
<1>5. Leads(c, k, m, d, "flightWait", floor[d])
  BY <1>3, <1>4 DEF Leads, Requesting
<1>6. Enters(c, k, m, d, "flightWait", floor[d])
  BY <1>1, <1>4, GuardStep DEF Enters
<1> HIDE DEF d
<1> QED BY <1>2, <1>4, <1>5, <1>6 DEF Stops

LEMMA LeadEnters ==
    ASSUME Inv, NEW c \in Calls, NEW k \in Keys, NEW m \in AllModes, Lead(c, k, m)
    PROVE  \E d \in Calls, st \in Stops, n \in Nat :
               Enters(c, k, m, d, st, n) /\ Leads(c, k, m, d, st, n)
<1> USE DEF Inv
<1>1. /\ m.flight => inflight[FlightKey[k]] = NoCall
      /\ Begin(c, k, m, c) /\ MemoizeAndGuard(c, k, m)
      /\ stage' = [stage EXCEPT ![c] = "queued"]
      /\ inflight' = IF m.flight THEN [inflight EXCEPT ![FlightKey[k]] = c] ELSE inflight
      /\ floor' = [floor EXCEPT ![c] = version[k]]
  BY DEF Lead, FlightOf
<1>2. version[k] \in Nat
  BY DEF TypeOK
<1>3. Leads(c, k, m, c, "queued", version[k])
  BY <1>1 DEF Leads
<1>4. Enters(c, k, m, c, "queued", version[k])
  BY <1>1, GuardStep DEF Enters
<1> QED BY <1>2, <1>3, <1>4 DEF Stops

LEMMA EnterEnters ==
    ASSUME Inv, NEW c \in Calls, Enter(c)
    PROVE  \E k \in Keys, m \in AllModes, d \in Calls, st \in Stops, n \in Nat :
               Enters(c, k, m, d, st, n) /\ Leads(c, k, m, d, st, n)
<1>1. PICK k \in Keys, m \in Modes : AwaitMemo(c, k, m) \/ AwaitFlight(c, k, m) \/ Lead(c, k, m)
  BY DEF Enter
<1>2. m \in AllModes
  BY ConstantsAssumption
<1>3. \E d \in Calls, st \in Stops, n \in Nat :
          Enters(c, k, m, d, st, n) /\ Leads(c, k, m, d, st, n)
  BY <1>1, <1>2, AwaitMemoEnters, AwaitFlightEnters, LeadEnters
<1> QED BY <1>2, <1>3

-----------------------------------------------------------------------------
(* The attempts of a request, which leave the maps and the outcomes alone. *)

\* Call c goes from one stage of its request to another one, as far as the parts of
\* Inv about leaders, maps and outcomes see.
Attempts(c) ==
    /\ \A e \in Calls \ {c} : stage'[e] = stage[e]
    /\ stage'[c] # stage[c] => stage[c] \in Requesting /\ stage'[c] \in Requesting
    /\ UNCHANGED <<key, mode, leader, token, outcome, mapVars, cancelable, cancelled, floor>>

LEMMA AttemptStep ==
    ASSUME Inv, NEW c \in Calls, Attempts(c), TypeOK', Freshness', Budget'
    PROVE  Inv'
<1> USE DEF Inv
<1>1. /\ key' = key /\ mode' = mode /\ leader' = leader /\ token' = token /\ outcome' = outcome
      /\ memo' = memo /\ inflight' = inflight /\ cancelled' = cancelled /\ floor' = floor
  BY DEF Attempts, mapVars
<1>2. \A e \in Calls :
          /\ stage'[e] \in Requesting <=> stage[e] \in Requesting
          /\ \A st \in {"idle", "memoWait", "flightWait", "settled"} :
                 stage'[e] = st <=> stage[e] = st
  BY DEF Attempts, Requesting
<1>3. Leaders'
  <2> SUFFICES ASSUME NEW e \in Calls
      PROVE  /\ stage'[e] \in Requesting \cup {"idle"} => leader[e] = e
             /\ stage'[e] \in Waiting => /\ leader[e] # e /\ stage'[leader[e]] # "idle"
                                         /\ ~mode[e].write
    BY <1>1 DEF Leaders
  <2>1. leader[e] \in Calls
    BY LeaderIsCall
  <2> QED BY <1>2, <2>1 DEF Leaders, Waiting
<1>4. FlightWaits' /\ MemoWaits' /\ Tokens' /\ SettledWithOutcome'
  BY <1>1, <1>2 DEF FlightWaits, MemoWaits, Tokens, SettledWithOutcome
<1>5. \A e \in Calls : LedFlight(e)' <=> LedFlight(e)
  BY <1>1 DEF LedFlight
<1>6. FlightsUncancelled'
  BY <1>1, <1>5 DEF FlightsUncancelled
<1>7. MemoFiled' /\ MemoHeld'
  <2>1. MemoFiled'
    BY <1>1, <1>2 DEF MemoFiled
  <2>2. MemoHeld'
    BY <1>1, <1>2 DEF MemoHeld
  <2> QED BY <2>1, <2>2
<1>8. FlightsFiled' /\ FlightsHeld'
  <2>1. FlightsFiled'
    BY <1>1, <1>2, <1>5 DEF FlightsFiled
  <2>2. FlightsHeld'
    BY <1>1, <1>2, <1>5 DEF FlightsHeld
  <2> QED BY <2>1, <2>2
<1>9. CancelStaysHome' /\ NotOlderThanFlight'
  BY <1>1 DEF CancelStaysHome, NotOlderThanFlight
<1> QED BY <1>3, <1>4, <1>6, <1>7, <1>8, <1>9

LEMMA DispatchAttempts == ASSUME Inv, NEW c \in Calls, Dispatch(c) PROVE Attempts(c) /\ Inv'
<1> USE DEF Inv
<1>1. /\ stage[c] \in {"queued", "backoff"} /\ stage' = [stage EXCEPT ![c] = "sent"]
      /\ \A e \in Calls : stage'[e] = IF e = c THEN "sent" ELSE stage[e]
      /\ UNCHANGED <<key, mode, leader, token, retryCount, reply, outcome, memo, inflight,
                     cancelable, cancelled, abandoned, version, executed, floor>>
  BY DEF Dispatch, mapVars, originVars, TypeOK
<1>2. TypeOK'
  BY <1>1 DEF TypeOK, Requesting, RetriesOf
<1>3. Freshness'
  BY <1>1 DEF Freshness, Waiting, Requesting
<1>4. Budget'
  BY <1>1 DEF Budget, Outstanding
<1>5. Attempts(c)
  BY <1>1 DEF Attempts, Requesting, mapVars
<1> QED BY <1>2, <1>3, <1>4, <1>5, AttemptStep

LEMMA RetryAttempts == ASSUME Inv, NEW c \in Calls, Retry(c) PROVE Attempts(c) /\ Inv'
<1> USE DEF Inv
<1>1. /\ stage[c] \in {"sent", "answered"} /\ stage' = [stage EXCEPT ![c] = "backoff"]
      /\ \A e \in Calls : stage'[e] = IF e = c THEN "backoff" ELSE stage[e]
      /\ retryCount[c] < RetriesOf(c) /\ retryCount' = [retryCount EXCEPT ![c] = @ + 1]
      /\ UNCHANGED <<key, mode, leader, token, reply, outcome, memo, inflight,
                     cancelable, cancelled, version, executed, floor>>
  BY DEF Retry, mapVars, TypeOK
<1>2. /\ abandoned' \in [Calls -> Nat]
      /\ \A e \in Calls : abandoned'[e] <= abandoned[e] + (IF e = c /\ stage[c] = "sent" THEN 1 ELSE 0)
  BY AbandonStep DEF Retry
<1>3. \A e \in Calls : retryCount'[e] = IF e = c THEN retryCount[e] + 1 ELSE retryCount[e]
  BY <1>1 DEF TypeOK
<1>4. TypeOK'
  <2>1. stage' \in [Calls -> Waiting \cup Requesting \cup {"idle", "settled"}]
    BY <1>1 DEF TypeOK, Requesting
  <2>2. retryCount' \in [Calls -> Nat]
    BY <1>1 DEF TypeOK
  <2>3. \A e \in Calls : retryCount'[e] <= RetriesOf(e)
    BY <1>1, <1>3, Types DEF TypeOK
  <2> QED BY <1>1, <1>2, <2>1, <2>2, <2>3 DEF TypeOK, RetriesOf
<1>5. Freshness'
  BY <1>1 DEF Freshness, Waiting, Requesting
<1>6. Budget'
  <2> SUFFICES ASSUME NEW e \in Calls
      PROVE /\ executed[e] + abandoned'[e] + Outstanding(e)' <= retryCount'[e] + 1
            /\ stage'[e] = "answered" /\ mode[e].write => executed[e] >= 1
            /\ outcome[e].kind = "ok" /\ mode[e].write => executed[e] >= 1
    BY <1>1 DEF Budget
  <2>1. /\ executed[e] \in Nat /\ abandoned[e] \in Nat /\ abandoned'[e] \in Nat
        /\ retryCount[e] \in Nat
    BY <1>2, Types
  <2>2. executed[e] + abandoned'[e] + Outstanding(e)' <= retryCount'[e] + 1
    BY <1>1, <1>2, <1>3, <2>1 DEF Budget, Outstanding
  <2> QED BY <1>1, <2>2 DEF Budget
<1>7. Attempts(c)
  BY <1>1 DEF Attempts, Requesting, mapVars
<1> QED BY <1>4, <1>5, <1>6, <1>7, AttemptStep

\* The origin may handle a write: its version and the count of the write grow.
LEMMA OriginHandlesAttempts == ASSUME Inv, NEW c \in Calls, OriginHandles(c) PROVE Attempts(c) /\ Inv'
<1> USE DEF Inv
<1>1. /\ stage[c] = "sent" /\ stage' = [stage EXCEPT ![c] = "answered"]
      /\ \A e \in Calls : stage'[e] = IF e = c THEN "answered" ELSE stage[e]
      /\ UNCHANGED <<key, mode, leader, token, retryCount, outcome, memo, inflight,
                     cancelable, cancelled, abandoned, floor>>
  BY DEF OriginHandles, mapVars, TypeOK
<1>2. /\ version' \in [Keys -> Nat] /\ executed' \in [Calls -> Nat]
      /\ \A q \in Keys : version[q] <= version'[q]
      /\ \A e \in Calls : executed'[e] = IF e = c /\ mode[c].write THEN executed[e] + 1 ELSE executed[e]
  BY Types DEF OriginHandles, TypeOK
<1>3. /\ reply' \in [Calls -> Nat]
      /\ \A e \in Calls : reply'[e] = IF e = c THEN version'[key[c]] ELSE reply[e]
  BY <1>2, Types DEF OriginHandles, TypeOK
<1>4. TypeOK'
  <2>1. stage' \in [Calls -> Waiting \cup Requesting \cup {"idle", "settled"}]
    BY <1>1 DEF TypeOK, Requesting
  <2> QED BY <1>1, <1>2, <1>3, <2>1 DEF TypeOK, RetriesOf
<1>5. Freshness'
  <2> SUFFICES ASSUME NEW e \in Calls
      PROVE /\ stage'[e] \in Waiting => floor[e] = floor[leader[e]]
            /\ stage'[e] \in Requesting => floor[e] <= version'[key[e]]
            /\ stage'[e] = "answered" => floor[e] <= reply'[e]
    BY <1>1 DEF Freshness
  <2>1. /\ floor[e] \in Nat /\ key[e] \in Keys /\ version[key[e]] \in Nat /\ version'[key[e]] \in Nat
    BY <1>2, Types
  <2>2. version[key[e]] <= version'[key[e]]
    BY <1>2, <2>1
  <2> QED BY <1>1, <1>3, <2>1, <2>2 DEF Freshness, Waiting, Requesting
<1>6. Budget'
  <2> SUFFICES ASSUME NEW e \in Calls
      PROVE /\ executed'[e] + abandoned[e] + Outstanding(e)' <= retryCount[e] + 1
            /\ stage'[e] = "answered" /\ mode[e].write => executed'[e] >= 1
            /\ outcome[e].kind = "ok" /\ mode[e].write => executed'[e] >= 1
    BY <1>1 DEF Budget
  <2>1. /\ executed[e] \in Nat /\ abandoned[e] \in Nat /\ retryCount[e] \in Nat
    BY Types
  <2>2. executed'[e] + abandoned[e] + Outstanding(e)' <= retryCount[e] + 1
    BY <1>1, <1>2, <2>1 DEF Budget, Outstanding
  <2> QED BY <1>1, <1>2, <2>1, <2>2 DEF Budget
<1>7. Attempts(c)
  BY <1>1 DEF Attempts, Requesting, mapVars
<1> QED BY <1>4, <1>5, <1>6, <1>7, AttemptStep

LEMMA LateHandlingAttempts == ASSUME Inv, NEW c \in Calls, LateHandling(c) PROVE Attempts(c) /\ Inv'
<1> USE DEF Inv
<1>1. /\ abandoned[c] > 0
      /\ UNCHANGED <<stage, key, mode, leader, token, retryCount, reply, outcome, memo, inflight,
                     cancelable, cancelled, floor>>
  BY DEF LateHandling, callVars, mapVars
<1>2. /\ version' \in [Keys -> Nat] /\ executed' \in [Calls -> Nat] /\ abandoned' \in [Calls -> Nat]
      /\ \A q \in Keys : version[q] <= version'[q]
      /\ \A e \in Calls : executed'[e] = IF e = c THEN executed[e] + 1 ELSE executed[e]
      /\ \A e \in Calls : abandoned'[e] = IF e = c THEN abandoned[e] - 1 ELSE abandoned[e]
  BY <1>1, Types DEF LateHandling, TypeOK
<1>3. TypeOK'
  BY <1>1, <1>2 DEF TypeOK, RetriesOf
<1>4. Freshness'
  <2> SUFFICES ASSUME NEW e \in Calls
      PROVE stage[e] \in Requesting => floor[e] <= version'[key[e]]
    BY <1>1 DEF Freshness
  <2>1. /\ floor[e] \in Nat /\ key[e] \in Keys /\ version[key[e]] \in Nat /\ version'[key[e]] \in Nat
    BY <1>2, Types
  <2>2. version[key[e]] <= version'[key[e]]
    BY <1>2, <2>1
  <2> QED BY <2>1, <2>2 DEF Freshness
<1>5. Budget'
  <2> SUFFICES ASSUME NEW e \in Calls
      PROVE /\ executed'[e] + abandoned'[e] + Outstanding(e) <= retryCount[e] + 1
            /\ stage[e] = "answered" /\ mode[e].write => executed'[e] >= 1
            /\ outcome[e].kind = "ok" /\ mode[e].write => executed'[e] >= 1
    BY <1>1 DEF Budget, Outstanding
  <2>1. executed[e] \in Nat /\ abandoned[e] \in Nat /\ retryCount[e] \in Nat /\ Outstanding(e) \in Nat
    BY Types DEF Outstanding
  <2>2. executed'[e] >= executed[e] /\ executed'[e] + abandoned'[e] = executed[e] + abandoned[e]
    BY <1>2, <2>1
  <2>3. executed'[e] \in Nat /\ abandoned'[e] \in Nat
    BY <1>2
  <2> QED BY <2>1, <2>2, <2>3 DEF Budget
<1>6. Attempts(c)
  BY <1>1 DEF Attempts, mapVars
<1> QED BY <1>3, <1>4, <1>5, <1>6, AttemptStep

LEMMA ClientAbortsStep == ASSUME Inv, NEW cl \in Clients, ClientAborts(cl) PROVE Inv'
<1> USE DEF Inv
<1>1. /\ UNCHANGED <<stage, key, mode, leader, token, retryCount, reply, outcome, memo, inflight,
                     cancelable, abandoned, version, executed, floor>>
      /\ cancelled' = [cancelled EXCEPT ![cl] = TRUE]
  BY DEF ClientAborts, callVars, mapVars, originVars
<1>2. /\ cancelled' \in [Clients -> BOOLEAN]
      /\ \A c \in Calls : cancelled[ClientOf[c]] => cancelled'[ClientOf[c]]
  BY <1>1, ConstantsAssumption DEF TypeOK
<1>3. TypeOK'
  BY <1>1, <1>2 DEF TypeOK, RetriesOf
<1>4. Leaders' /\ FlightWaits' /\ MemoWaits' /\ Tokens' /\ SettledWithOutcome'
  BY <1>1 DEF Leaders, FlightWaits, MemoWaits, Tokens, SettledWithOutcome
<1>5. FlightsUncancelled' /\ FlightsFiled' /\ FlightsHeld'
  BY <1>1 DEF FlightsUncancelled, FlightsFiled, FlightsHeld, LedFlight
<1>6. MemoFiled' /\ MemoHeld' /\ Freshness' /\ NotOlderThanFlight'
  BY <1>1 DEF MemoFiled, MemoHeld, Freshness, NotOlderThanFlight
<1>7. Budget'
  BY <1>1 DEF Budget, Outstanding
<1>8. CancelStaysHome'
  BY <1>1, <1>2 DEF CancelStaysHome
<1> QED BY <1>3, <1>4, <1>5, <1>6, <1>7, <1>8

-----------------------------------------------------------------------------

LEMMA ProgressSettlesOrAttempts ==
    ASSUME Inv, NEW c \in Calls, Progress(c)
    PROVE  \/ \E o \in Outcomes : Settles(c, o) /\ MaySettle(c, o)
           \/ Attempts(c) /\ Inv'
BY FollowSettles, DispatchAttempts, CancelledSettles, OriginHandlesAttempts, AnswerSettles,
   RetryAttempts, FailSettles DEF Progress

LEMMA InvInductive == Inv /\ [Next]_vars => Inv'
<1> SUFFICES ASSUME Inv, [Next]_vars PROVE Inv'
  OBVIOUS
<1>1. ASSUME NEW c \in Calls, Enter(c) PROVE Inv'
  BY <1>1, EnterEnters, EnterStep
<1>2. ASSUME NEW c \in Calls, Progress(c) PROVE Inv'
  BY <1>2, ProgressSettlesOrAttempts, SettleStep
<1>3. ASSUME NEW c \in Calls, LateHandling(c) PROVE Inv'
  BY <1>3, LateHandlingAttempts
<1>4. ASSUME NEW cl \in Clients, ClientAborts(cl) PROVE Inv'
  BY <1>4, ClientAbortsStep
<1>5. CASE UNCHANGED vars
  <2>1. UNCHANGED <<stage, key, mode, leader, token, retryCount, reply, outcome, memo, inflight,
                    cancelable, cancelled, abandoned, version, executed, floor>>
    BY <1>5 DEF vars, callVars, mapVars, originVars
  <2> QED BY <2>1 DEF Inv, TypeOK, Leaders, FlightWaits, MemoWaits, Tokens, SettledWithOutcome,
       FlightsUncancelled, MemoFiled, MemoHeld, FlightsFiled, FlightsHeld, Freshness, Budget,
       Outstanding, CancelStaysHome, NotOlderThanFlight, LedFlight, RetriesOf
<1> QED BY <1>1, <1>2, <1>3, <1>4, <1>5 DEF Next

LEMMA InvAlways == Spec => []Inv
BY InitInv, InvInductive, PTL DEF Spec

\* The variables of the shared calls keep their types, retry counts within their limits.
THEOREM TypeCorrect == Spec => []TypeOK
<1>1. Inv => TypeOK
  BY DEF Inv
<1> QED BY InvAlways, <1>1, PTL

\* For any calls of any clients, with any keys: the inflight map holds exactly the
\* requests under way that asked for sharing.
THEOREM FlightsAreUnderWay == Spec => []FlightEntries
<1>1. Inv => FlightEntries
  <2> SUFFICES ASSUME Inv, NEW c \in Calls
      PROVE  LedFlight(c) /\ stage[c] \in Requesting <=> \E f \in FlightKeys :
                 inflight[f] = c /\ f = FlightKey[key[c]]
    BY DEF FlightEntries
  <2>1. FlightKey[key[c]] \in FlightKeys
    BY Types DEF Inv
  <2>2. LedFlight(c) /\ stage[c] \in Requesting => inflight[FlightKey[key[c]]] = c
    BY DEF Inv, FlightsHeld
  <2>3. \A f \in FlightKeys : inflight[f] = c => LedFlight(c) /\ stage[c] \in Requesting
    BY DEF Inv, FlightsFiled
  <2> QED BY <2>1, <2>2, <2>3
<1> QED BY InvAlways, <1>1, PTL

\* No call is cancelled for the sake of another incoming request than its own.
THEOREM CancellationIsOwn == Spec => []CancelStaysHome
<1>1. Inv => CancelStaysHome
  BY DEF Inv
<1> QED BY InvAlways, <1>1, PTL

\* No call is answered with a version older than its flight.
THEOREM AnswersAreFresh == Spec => []NotOlderThanFlight
<1>1. Inv => NotOlderThanFlight
  BY DEF Inv
<1> QED BY InvAlways, <1>1, PTL

\* Whatever is retried, given up on and late, a write is executed at most once more
\* than it was retried.
THEOREM WritesAreBounded == Spec => []ExecutionsBounded
<1>1. Inv => ExecutionsBounded
  <2> SUFFICES ASSUME Inv, NEW c \in Calls
      PROVE  /\ executed[c] <= retryCount[c] + 1
             /\ executed[c] <= RetriesOf(c) + 1
             /\ outcome[c].kind = "ok" /\ mode[c].write => executed[c] >= 1
    BY DEF ExecutionsBounded
  <2>1. /\ executed[c] \in Nat /\ abandoned[c] \in Nat /\ retryCount[c] \in Nat
        /\ RetriesOf(c) \in Nat /\ Outstanding(c) \in Nat
    BY Types DEF Inv, Outstanding
  <2>2. retryCount[c] <= RetriesOf(c)
    BY DEF Inv, TypeOK
  <2> QED BY <2>1, <2>2 DEF Inv, Budget
<1> QED BY InvAlways, <1>1, PTL

-----------------------------------------------------------------------------
(* Memoization implements WriteOnce: entering asks, settling gives.        *)

Slot(c) == <<ClientOf[c], key[c]>>

\* What WriteOnce sees of the state, point by point.
LEMMA InitWriteOnce == Init => Memo!Init
<1> SUFFICES ASSUME Init PROVE Memo!Init
  OBVIOUS
<1>1. \A c \in Calls : ~Asks(c)
  BY DEF Init, Asks
<1>2. \A s \in Slots : memo[s[1]][s[2]] = NoCall
  BY DEF Init, Slots
<1>3. \A c \in Calls : outcome[c] = Pending
  BY DEF Init
<1> QED BY <1>1, <1>2, <1>3 DEF Memo!Init

LEMMA EnterRefines ==
    ASSUME Inv, NEW c \in Calls, NEW k \in Keys, NEW m \in AllModes, NEW d \in Calls,
           NEW st \in Stops, NEW n \in Nat,
           Enters(c, k, m, d, st, n)
    PROVE  [Memo!Next]_(Memo!wvars)
<1>1. stage[c] = "idle" /\ outcome[c] = Pending
  BY DEF Inv, Enters, Begin, SettledWithOutcome
<1>2. /\ \A e \in Calls : stage'[e] = IF e = c THEN st ELSE stage[e]
      /\ \A e \in Calls : key'[e] = IF e = c THEN k ELSE key[e]
      /\ \A e \in Calls : mode'[e] = IF e = c THEN m ELSE mode[e]
      /\ outcome' = outcome /\ st # "idle" /\ <<ClientOf[c], k>> \in Slots
  BY ConstantsAssumption DEF Inv, Enters, Begin, Stops, TypeOK, Slots
<1>3. \A s \in Slots :
          (IF memo'[s[1]][s[2]] = NoCall THEN Pending ELSE outcome[memo'[s[1]][s[2]]])
              = (IF memo[s[1]][s[2]] = NoCall THEN Pending ELSE outcome[memo[s[1]][s[2]]])
  <2> SUFFICES ASSUME NEW cl \in Clients, NEW q \in Keys, memo'[cl][q] # memo[cl][q]
               PROVE  memo[cl][q] = NoCall /\ memo'[cl][q] = c
    BY <1>1 DEF Slots
  <2> QED BY DEF Inv, Enters, TypeOK
<1>4. \A e \in Calls : (IF mode'[e].memo THEN outcome[e] ELSE Pending)
                           = (IF mode[e].memo THEN outcome[e] ELSE Pending)
  BY <1>1, <1>2
<1>5. \A e \in Calls \ {c} : Asks(e)' = Asks(e) /\ key'[e] = key[e]
  BY <1>2 DEF Asks
<1>6. ~Asks(c) /\ (Asks(c)' <=> m.memo) /\ key'[c] = k
  BY <1>1, <1>2 DEF Asks
<1>7. CASE m.memo
  <2>1. Memo!Ask(c, <<ClientOf[c], k>>)
    BY <1>2, <1>3, <1>4, <1>5, <1>6, <1>7 DEF Memo!Ask
  <2> QED BY <1>2, <2>1 DEF Memo!Next
<1>8. CASE ~m.memo
  BY <1>2, <1>3, <1>4, <1>5, <1>6, <1>8 DEF Memo!wvars
<1> QED BY <1>7, <1>8

LEMMA SettleRefines ==
    ASSUME Inv, NEW c \in Calls, NEW o \in Outcomes, Settles(c, o), MaySettle(c, o)
    PROVE  [Memo!Next]_(Memo!wvars)
<1>1. /\ \A e \in Calls : stage'[e] # "idle" <=> stage[e] # "idle"
      /\ \A e \in Calls : outcome'[e] = IF e = c THEN o ELSE outcome[e]
      /\ key' = key /\ mode' = mode /\ memo' = memo
  BY DEF Inv, Settles, Settle, TypeOK, Waiting, Requesting
<1>2. /\ stage[c] # "idle" /\ outcome[c] = Pending /\ o # Pending
      /\ ClientOf[c] \in Clients /\ key[c] \in Keys /\ c # NoCall
  BY Types, ConstantsAssumption
     DEF Inv, Settles, MaySettle, SettledWithOutcome, Waiting, Requesting
<1>3. \A e \in Calls : Asks(e)' <=> Asks(e)
  BY <1>1 DEF Asks
<1>4. \A cl \in Clients, q \in Keys : memo[cl][q] = c => mode[c].memo /\ cl = ClientOf[c] /\ q = key[c]
  BY DEF Inv, MemoFiled
<1>5. CASE mode[c].memo
  <2> DEFINE b == memo[ClientOf[c]][key[c]]
  <2>1. b \in Calls /\ (b = c \/ outcome[b] = o)
    <3>1. CASE stage[c] = "memoWait"
      BY <3>1, LeaderIsCall DEF Inv, MemoWaits, MaySettle
    <3>2. CASE stage[c] # "memoWait"
      BY <1>5, <3>2 DEF Inv, MemoHeld, Settles, Waiting
    <3> QED BY <3>1, <3>2
  <2>2. \A s \in Slots :
            (IF memo[s[1]][s[2]] = NoCall THEN Pending ELSE outcome'[memo[s[1]][s[2]]])
                = IF s = Slot(c) THEN o
                  ELSE IF memo[s[1]][s[2]] = NoCall THEN Pending ELSE outcome[memo[s[1]][s[2]]]
    <3> SUFFICES ASSUME NEW cl \in Clients, NEW q \in Keys
        PROVE (IF memo[cl][q] = NoCall THEN Pending ELSE outcome'[memo[cl][q]])
                = IF <<cl, q>> = Slot(c) THEN o
                  ELSE IF memo[cl][q] = NoCall THEN Pending ELSE outcome[memo[cl][q]]
      BY DEF Slots
    <3>1. memo[cl][q] \in Calls \cup {NoCall}
      BY DEF Inv, TypeOK
    <3> QED BY <1>1, <1>2, <1>4, <2>1, <3>1, ConstantsAssumption DEF Slot
  <2>3. /\ Slot(c) \in Slots /\ Slot(c) # NoCall /\ Asks(c)
        /\ (IF b = NoCall THEN Pending ELSE outcome[b]) \in {Pending, o}
    BY <1>2, <1>5, <2>1, ConstantsAssumption DEF Slot, Slots, Asks
  <2>4. Memo!Give(c)
    BY <1>1, <1>2, <1>3, <1>5, <2>2, <2>3 DEF Memo!Give, Slot
  <2> QED BY <2>4 DEF Memo!Next
<1>6. CASE ~mode[c].memo
  <2>1. \A s \in Slots : memo[s[1]][s[2]] # NoCall =>
            outcome'[memo[s[1]][s[2]]] = outcome[memo[s[1]][s[2]]]
    <3> SUFFICES ASSUME NEW cl \in Clients, NEW q \in Keys, memo[cl][q] # NoCall
                 PROVE  outcome'[memo[cl][q]] = outcome[memo[cl][q]]
      BY DEF Slots
    <3>1. memo[cl][q] \in Calls
      BY DEF Inv, TypeOK
    <3> QED BY <1>1, <1>4, <1>6, <3>1
  <2>2. \A e \in Calls : mode[e].memo => outcome'[e] = outcome[e]
    BY <1>1, <1>6
  <2> QED BY <1>1, <1>3, <2>1, <2>2 DEF Memo!wvars
<1> QED BY <1>5, <1>6

LEMMA StutterRefines ==
    ASSUME \A e \in Calls : stage'[e] # "idle" <=> stage[e] # "idle",
           UNCHANGED <<key, mode, outcome, memo>>
    PROVE  UNCHANGED Memo!wvars
<1>1. \A e \in Calls : Asks(e)' <=> Asks(e)
  BY DEF Asks
<1> QED BY <1>1 DEF Memo!wvars

LEMMA NextRefines == Inv /\ [Next]_vars => [Memo!Next]_(Memo!wvars)
<1> SUFFICES ASSUME Inv, [Next]_vars PROVE [Memo!Next]_(Memo!wvars)
  OBVIOUS
<1>1. ASSUME NEW c \in Calls, Enter(c) PROVE [Memo!Next]_(Memo!wvars)
  BY <1>1, EnterEnters, EnterRefines
<1>2. ASSUME NEW c \in Calls, Attempts(c) PROVE [Memo!Next]_(Memo!wvars)
  BY <1>2, StutterRefines DEF Attempts, mapVars, Requesting
<1>3. ASSUME NEW c \in Calls, Progress(c) PROVE [Memo!Next]_(Memo!wvars)
  BY <1>2, <1>3, ProgressSettlesOrAttempts, SettleRefines
<1>4. ASSUME NEW c \in Calls, LateHandling(c) PROVE [Memo!Next]_(Memo!wvars)
  BY <1>2, <1>4, LateHandlingAttempts
<1>5. ASSUME NEW cl \in Clients, ClientAborts(cl) PROVE [Memo!Next]_(Memo!wvars)
  BY <1>5, StutterRefines DEF ClientAborts, callVars, mapVars
<1>6. CASE UNCHANGED vars
  BY <1>6, StutterRefines DEF vars, callVars, mapVars
<1> QED BY <1>1, <1>3, <1>4, <1>5, <1>6 DEF Next

\* Within one client every memoized call for a resource settles with one and the same
\* outcome, a failure included, whatever is shared, retried or cancelled meanwhile.
THEOREM MemoImplementsWriteOnce == Spec => MemoIsWriteOnce
<1>1. Init /\ []Inv /\ [][Next]_vars => Memo!Init /\ [][Memo!Next]_(Memo!wvars)
  BY InitWriteOnce, NextRefines, PTL
<1> QED BY InvAlways, <1>1, PTL DEF Spec, MemoIsWriteOnce

=============================================================================
