--------------------------- MODULE HttpCacheProofs ---------------------------
(***************************************************************************)
(* Proofs about HttpCache, for any calls, segments, headers and versions.  *)
(***************************************************************************)
EXTENDS HttpCache, TLAPS

-----------------------------------------------------------------------------
(* Paths and types. *)

LEMMA PathInOrder ==
  ASSUME NEW c, Uses(c, "memory"), Uses(c, "disk")
  PROVE  Len(Path(c)) = 2 /\ Path(c)[1] = "memory" /\ Path(c)[2] = "disk"
  <1>1. Path(c) = <<"memory">> \o <<"disk">>
    BY DEF Path
  <1>2. <<"memory">> \in Seq({"memory", "disk"}) /\ <<"disk">> \in Seq({"memory", "disk"})
    OBVIOUS
  <1> QED
    BY <1>1, <1>2

\* The layers of a call are configured caches: memory, disk, or disk inside memory.
LEMMA PathLayers ==
  ASSUME NEW c
  PROVE  /\ Len(Path(c)) \in 0..2
         /\ Path(c) = <<>> <=> Len(Path(c)) = 0
         /\ \A i \in 1..Len(Path(c)) : Path(c)[i] \in storages \cap {"memory", "disk"}
         /\ Len(Path(c)) = 2 => /\ Path(c)[1] = "memory" /\ Path(c)[2] = "disk"
                                /\ {"memory", "disk"} \subseteq storages
  <1>1. CASE Uses(c, "memory") /\ Uses(c, "disk")
    BY <1>1, PathInOrder DEF Uses
  <1>2. CASE Uses(c, "memory") /\ ~Uses(c, "disk")
    <2>1. Path(c) = <<"memory">>
      BY <1>2 DEF Path
    <2> QED
      BY <1>2, <2>1 DEF Uses
  <1>3. CASE ~Uses(c, "memory") /\ Uses(c, "disk")
    <2>1. Path(c) = <<"disk">>
      BY <1>3 DEF Path
    <2> QED
      BY <1>3, <2>1 DEF Uses
  <1>4. CASE ~Uses(c, "memory") /\ ~Uses(c, "disk")
    <2>1. Path(c) = <<>>
      BY <1>4 DEF Path
    <2> QED
      BY <2>1
  <1> QED
    BY <1>1, <1>2, <1>3, <1>4

Entry == Entries \cup {None}
Stages == {"idle", "down", "get", "up", "origin", "done", "failed"}
Inside(c) == stage[c] \in {"down", "get", "up"}

\* Where a call stands in its path, and that one on its way up has a response.
DepthType ==
    /\ depth \in [Calls -> Nat]
    /\ \A c \in Calls :
        /\ Inside(c) => depth[c] \in 1..Len(Path(c))
        /\ depth[c] <= Len(Path(c)) + 1
        /\ stage[c] \in {"up", "done"} => response[c] \in Responses

\* The types of the variables as functions.
FunctionTypes ==
    /\ storages \in Configurations
    /\ stage \in [Calls -> Stages]
    /\ found \in [Calls -> BOOLEAN]
    /\ cached \in [Calls -> [storages -> Entry]]
    /\ etagSent \in [Calls -> Bodies \cup {None}]
    /\ response \in [Calls -> Responses \cup {None}]
    /\ store \in [storages -> [Slots -> Entry]]
    /\ version \in 0..MaxVersion
    /\ now \in 0..MaxTime

TypeInv == FunctionTypes /\ DepthType

LEMMA TypeInvImpliesTypeOK == TypeInv => TypeOK
  <1> SUFFICES ASSUME TypeInv PROVE TypeOK
    OBVIOUS
  <1>1. \A c \in Calls : Len(Path(c)) \in Nat
    BY PathLayers
  <1> QED
    BY <1>1 DEF TypeInv, FunctionTypes, DepthType, TypeOK, Inside, Entry, Stages

\* What a call finds in the layer it stands in.
LEMMA LookedUpType ==
  ASSUME TypeInv, NEW c \in Calls, Inside(c)
  PROVE  /\ Layer(c) \in storages \cap {"memory", "disk"}
         /\ SegmentOf[c] \in Slots
         /\ LookedUp(c) \in Entry
         /\ cached[c][Layer(c)] \in Entry
  <1>1. Layer(c) \in storages \cap {"memory", "disk"}
    BY PathLayers DEF TypeInv, DepthType, Layer
  <1>2. SegmentOf[c] \in Slots /\ None \in Slots
    BY ConstantsAssumption DEF Slots
  <1> QED
    BY <1>1, <1>2 DEF TypeInv, FunctionTypes, LookedUp

\* The response a layer goes on with is one of the origin, or that of its own entry.
LEMMA RevalidatedType ==
  ASSUME TypeInv, NEW c \in Calls, stage[c] = "up"
  PROVE  Revalidated(c) \in Responses
  <1>1. response[c] \in Responses /\ cached[c][Layer(c)] \in Entry
    BY LookedUpType DEF TypeInv, DepthType, Inside
  <1>2. CASE response[c].status = 304 /\ cached[c][Layer(c)] # None
    <2>1. cached[c][Layer(c)].response \in Responses
      BY <1>1, <1>2 DEF Entry, Entries
    <2>2. [cached[c][Layer(c)].response EXCEPT !.vouched = response[c].vouched,
                                               !.at = response[c].at] \in Responses
      BY <1>1, <2>1 DEF Responses
    <2> QED
      BY <1>2, <2>2 DEF Revalidated
  <1> QED
    BY <1>1, <1>2 DEF Revalidated

LEMMA MaxAgeType == ASSUME NEW r \in Responses PROVE MaxAge(r) \in Nat
  BY ConstantsAssumption DEF MaxAge, Responses, Headers

LEMMA InitType == Init => TypeInv
  <1>1. ASSUME Init, NEW c \in Calls PROVE Len(Path(c)) \in Nat
    BY PathLayers
  <1> QED
    BY <1>1, ConstantsAssumption
       DEF Init, TypeInv, FunctionTypes, DepthType, Entry, Stages, Inside

LEMMA SamePaths ==
  ASSUME [Next]_vars
  PROVE  storages' = storages /\ \A c : Path(c)' = Path(c)
  BY DEF Next, vars, Begin, Has, Hit, MissOrStale, OriginAnswers, RequestFails, GoUp,
         Drop, Change, Tick, Path, Uses

\* What the steps of a call do to where it stands, which no other step changes.
StepOf(c) ==
    \/ Begin(c) \/ Has(c) \/ Hit(c) \/ MissOrStale(c)
    \/ \E h \in HeaderSets[storages] : OriginAnswers(c, h)
    \/ RequestFails(c) \/ GoUp(c)

LEMMA OthersStay ==
  ASSUME TypeInv, NEW c \in Calls, StepOf(c), NEW d \in Calls, d # c
  PROVE  /\ stage'[d] = stage[d] /\ depth'[d] = depth[d] /\ found'[d] = found[d]
         /\ cached'[d] = cached[d] /\ etagSent'[d] = etagSent[d]
         /\ response'[d] = response[d]
  BY DEF TypeInv, FunctionTypes, DepthType, StepOf, Begin, Has, Hit, MissOrStale,
         OriginAnswers, RequestFails, GoUp

\* What happens around the calls.
Surroundings ==
    /\ \/ \E l \in storages, s \in Slots : Drop(l, s)
       \/ Change \/ Tick \/ UNCHANGED vars
    /\ UNCHANGED <<storages, stage, depth, found, cached, etagSent, response>>

LEMMA NextSteps ==
  ASSUME [Next]_vars
  PROVE  (\E c \in Calls : StepOf(c)) \/ Surroundings
  BY DEF Next, StepOf, Surroundings, Drop, Change, Tick, vars

\* What a lookup finds is an entry when it is fresh, and answers as a response.
LEMMA HitType ==
  ASSUME TypeInv, NEW c \in Calls, Hit(c)
  PROVE  /\ LookedUp(c) \in Entries
         /\ response'[c] \in Responses
         /\ response'[c].status = LookedUp(c).response.status
         /\ response'[c].body = LookedUp(c).response.body
         /\ response'[c].headers = LookedUp(c).response.headers
         /\ response'[c].tag = LookedUp(c).response.tag
         /\ response'[c].vouched = LookedUp(c).response.vouched
         /\ response'[c].at = LookedUp(c).response.at
  <1>1. LookedUp(c) \in Entries
    BY LookedUpType DEF Hit, Fresh, Entry, Inside
  <1>2. response'[c] = [LookedUp(c).response EXCEPT !.hits = @ + 1]
    BY DEF Hit, TypeInv, FunctionTypes
  <1>3. LookedUp(c).response \in Responses
    BY <1>1 DEF Entries
  <1> QED
    BY <1>1, <1>2, <1>3 DEF Responses

LEMMA BodyType ==
  ASSUME TypeInv, NEW c \in Calls, NEW h
  PROVE  /\ CurrentBody(c, h) \in Bodies /\ CurrentBody(c, h) # None
         /\ CurrentBody(c, h).version = version
         /\ CurrentBody(c, h).segment = IF h.vary = "segment" THEN SegmentOf[c] ELSE None
  BY ConstantsAssumption DEF CurrentBody, Bodies, Slots, TypeInv, FunctionTypes

\* What the origin answers with.
LEMMA AnswerType ==
  ASSUME TypeInv, NEW c \in Calls, NEW h \in HeaderSets[storages], OriginAnswers(c, h)
  PROVE  /\ h \in Headers
         /\ response'[c] \in Responses
         /\ response'[c].headers = h
         /\ response'[c].status = IF etagSent[c] = CurrentBody(c, h) THEN 304 ELSE 200
         /\ response'[c].body = IF etagSent[c] = CurrentBody(c, h) THEN None
                                ELSE CurrentBody(c, h)
         /\ response'[c].tag = IF h.etag THEN CurrentBody(c, h) ELSE None
         /\ response'[c].vouched = version
         /\ response'[c].at = IF etagSent[c] = CurrentBody(c, h) THEN now ELSE now - h.age
  <1> DEFINE same == etagSent[c] = CurrentBody(c, h)
             r == [status |-> IF same THEN 304 ELSE 200,
                   body |-> IF same THEN None ELSE CurrentBody(c, h),
                   headers |-> h, tag |-> IF h.etag THEN CurrentBody(c, h) ELSE None,
                   vouched |-> version, at |-> IF same THEN now ELSE now - h.age, hits |-> 0]
  <1>1. response'[c] = r
    BY DEF OriginAnswers, TypeInv, FunctionTypes
  <1>2. h \in Headers /\ h.age \in Nat
    BY ConstantsAssumption DEF TypeInv, FunctionTypes, Headers
  <1>3. CurrentBody(c, h) \in Bodies /\ version \in 0..MaxVersion /\ now \in Int
    BY BodyType DEF TypeInv, FunctionTypes
  <1>4. r.at \in Int
    BY <1>2, <1>3
  <1>5. r \in Responses
    BY <1>2, <1>3, <1>4 DEF Responses
  <1> QED
    BY <1>1, <1>2, <1>5

\* A call moves one layer at a time, and knows its response on its way up.
LEMMA DepthStep ==
  ASSUME TypeInv, NEW c \in Calls, StepOf(c)
  PROVE  DepthType'
  <1>0. [Next]_vars
    BY DEF Next, StepOf
  <1>1. \A d \in Calls : Path(d)' = Path(d)
    BY <1>0, SamePaths
  <1>2. /\ Len(Path(c)) \in 0..2 /\ (Path(c) = <<>> <=> Len(Path(c)) = 0)
        /\ depth[c] \in Nat /\ depth[c] <= Len(Path(c)) + 1
        /\ Inside(c) => depth[c] \in 1..Len(Path(c))
    BY PathLayers DEF TypeInv, DepthType
  <1>3. /\ depth' \in [Calls -> Nat]
        /\ depth'[c] <= Len(Path(c)) + 1
        /\ stage'[c] \in {"down", "get", "up"} => depth'[c] \in 1..Len(Path(c))
    <2> USE <1>2 DEF TypeInv, DepthType, FunctionTypes, Inside
    <2>1. CASE Begin(c)
      BY <2>1 DEF Begin
    <2>2. CASE Has(c)
      BY <2>2 DEF Has
    <2>3. CASE Hit(c)
      BY <2>3 DEF Hit
    <2>4. CASE MissOrStale(c)
      BY <2>4 DEF MissOrStale
    <2>5. CASE \E h \in HeaderSets[storages] : OriginAnswers(c, h)
      BY <2>5 DEF OriginAnswers
    <2>6. CASE RequestFails(c)
      BY <2>6 DEF RequestFails
    <2>7. CASE GoUp(c)
      BY <2>7 DEF GoUp
    <2> QED
      BY <2>1, <2>2, <2>3, <2>4, <2>5, <2>6, <2>7 DEF StepOf
  <1>4. stage'[c] \in {"up", "done"} => response'[c] \in Responses
    <2> USE DEF TypeInv, DepthType, FunctionTypes
    <2>1. CASE Begin(c) \/ Has(c) \/ MissOrStale(c) \/ RequestFails(c)
      BY <2>1 DEF Begin, Has, MissOrStale, RequestFails
    <2>2. CASE Hit(c)
      BY <2>2, HitType
    <2>3. CASE \E h \in HeaderSets[storages] : OriginAnswers(c, h)
      BY <2>3, AnswerType
    <2>4. CASE GoUp(c)
      BY <2>4, RevalidatedType DEF GoUp
    <2> QED
      BY <2>1, <2>2, <2>3, <2>4 DEF StepOf
  <1> QED
    BY <1>1, <1>3, <1>4, OthersStay DEF TypeInv, DepthType, Inside

LEMMA FunctionTypesStep ==
  ASSUME TypeInv, NEW c \in Calls, StepOf(c)
  PROVE  FunctionTypes'
  <1> USE DEF TypeInv, DepthType, FunctionTypes, Stages
  <1>1. CASE Begin(c)
    BY <1>1 DEF Begin
  <1>2. CASE Has(c)
    BY <1>2 DEF Has
  <1>3. CASE Hit(c)
    BY <1>3, HitType DEF Hit
  <1>4. CASE MissOrStale(c)
    <2>1. /\ LookedUp(c) \in Entry /\ Layer(c) \in storages
      BY <1>4, LookedUpType DEF Inside, MissOrStale
    <2>2. cached' \in [Calls -> [storages -> Entry]]
      BY <1>4, <2>1 DEF MissOrStale
    <2>3. etagSent' \in [Calls -> Bodies \cup {None}]
      BY <1>4, <2>1 DEF MissOrStale, Entry, Entries, Responses
    <2> QED
      BY <1>4, <2>2, <2>3 DEF MissOrStale
  <1>5. CASE \E h \in HeaderSets[storages] : OriginAnswers(c, h)
    <2>1. PICK h \in HeaderSets[storages] : OriginAnswers(c, h)
      BY <1>5
    <2>2. response'[c] \in Responses
      BY <2>1, AnswerType
    <2>3. response' \in [Calls -> Responses \cup {None}]
      BY <2>1, <2>2 DEF OriginAnswers
    <2> QED
      BY <2>1, <2>3 DEF OriginAnswers
  <1>6. CASE RequestFails(c)
    BY <1>6 DEF RequestFails
  <1>7. CASE GoUp(c)
    <2>1. stage[c] = "up" /\ Inside(c)
      BY <1>7 DEF GoUp, Inside
    <2>2. Revalidated(c) \in Responses /\ MaxAge(Revalidated(c)) \in Nat
      BY <2>1, RevalidatedType, MaxAgeType
    <2>3. Layer(c) \in storages /\ SegmentOf[c] \in Slots /\ None \in Slots
      BY <2>1, LookedUpType DEF Slots
    <2>4. SetKey(c, Revalidated(c)) \in Slots
      BY <2>3 DEF SetKey
    <2>5. Revalidated(c).headers.age \in Nat
      BY <2>2 DEF Responses, Headers
    <2> DEFINE age == IF response[c].status = 304 THEN 0 ELSE Revalidated(c).headers.age
               e == [response |-> Revalidated(c),
                     expiration |-> now + MaxAge(Revalidated(c)) - age]
    <2>6. e \in Entry
      BY <2>2, <2>5, ConstantsAssumption DEF Entry, Entries
    <2>7. store' = IF Storable(Revalidated(c))
                   THEN [store EXCEPT ![Layer(c)][SetKey(c, Revalidated(c))] = e] ELSE store
      BY <1>7 DEF GoUp
    <2> HIDE DEF e
    <2>8. store' \in [storages -> [Slots -> Entry]]
      BY <2>3, <2>4, <2>6, <2>7
    <2> QED
      BY <1>7, <2>2, <2>8 DEF GoUp
  <1> QED
    BY <1>1, <1>2, <1>3, <1>4, <1>5, <1>6, <1>7 DEF StepOf

LEMMA NextType == TypeInv /\ [Next]_vars => TypeInv'
  <1> SUFFICES ASSUME TypeInv, [Next]_vars PROVE TypeInv'
    OBVIOUS
  <1>1. ASSUME NEW c \in Calls, StepOf(c) PROVE TypeInv'
    BY <1>1, DepthStep, FunctionTypesStep DEF TypeInv
  <1>2. CASE Surroundings
    <2>1. DepthType'
      BY <1>2, SamePaths DEF Surroundings, TypeInv, DepthType, Inside
    <2>2. store' \in [storages -> [Slots -> Entry]]
      BY <1>2 DEF Surroundings, TypeInv, FunctionTypes, Entry, vars, Drop, Change, Tick
    <2>3. version' \in 0..MaxVersion /\ now' \in 0..MaxTime
      BY <1>2, ConstantsAssumption
         DEF Surroundings, TypeInv, FunctionTypes, vars, Drop, Change, Tick
    <2> QED
      BY <1>2, <2>1, <2>2, <2>3 DEF Surroundings, TypeInv, FunctionTypes
  <1> QED
    BY <1>1, <1>2, NextSteps

\* The middlewares keep every call within its path, every entry well formed and every
\* response on its way up in place.
THEOREM TypeCorrect == Spec => []TypeOK
  <1>1. Init => TypeInv
    BY InitType
  <1>2. TypeInv /\ [Next]_vars => TypeInv'
    BY NextType
  <1>3. TypeInv => TypeOK
    BY TypeInvImpliesTypeOK
  <1> QED
    BY <1>1, <1>2, <1>3, PTL DEF Spec

-----------------------------------------------------------------------------
(* What is stored, looked up and answered with. *)

\* The entry a call stores in its layer on its way up.
Stored(c) ==
    LET r == Revalidated(c)
        age == IF response[c].status = 304 THEN 0 ELSE r.headers.age
    IN  [response |-> r, expiration |-> now + MaxAge(r) - age]

\* Storage changes where a call on its way up stores, or where it drops an entry.
StoreSteps ==
    \A l \in storages, s \in Slots :
        \/ store'[l][s] \in {store[l][s], None}
        \/ \E c \in Calls : /\ GoUp(c) /\ l = Layer(c) /\ s = SetKey(c, Revalidated(c))
                            /\ store'[l][s] = Stored(c)

LEMMA StoreChanges ==
  ASSUME TypeInv, [Next]_vars
  PROVE  StoreSteps
  <1>1. ASSUME NEW c \in Calls, StepOf(c), ~GoUp(c) PROVE store' = store
    BY <1>1 DEF StepOf, Begin, Has, Hit, MissOrStale, OriginAnswers, RequestFails
  <1>2. ASSUME NEW c \in Calls, GoUp(c) PROVE StoreSteps
    <2>1. Layer(c) \in storages
      BY <1>2, LookedUpType DEF GoUp, Inside
    <2>2. store' = IF Storable(Revalidated(c))
                   THEN [store EXCEPT ![Layer(c)][SetKey(c, Revalidated(c))] = Stored(c)]
                   ELSE store
      BY <1>2 DEF GoUp, Stored
    <2>3. store \in [storages -> [Slots -> Entry]]
      BY DEF TypeInv, FunctionTypes
    <2>4. ASSUME NEW l \in storages, NEW s \in Slots
          PROVE  \/ store'[l][s] = store[l][s]
                 \/ /\ l = Layer(c) /\ s = SetKey(c, Revalidated(c))
                    /\ store'[l][s] = Stored(c)
      BY <2>1, <2>2, <2>3
    <2> QED
      BY <1>2, <2>4 DEF StoreSteps
  <1>3. CASE Surroundings
    BY <1>3 DEF StoreSteps, Surroundings, Drop, Change, Tick, vars, TypeInv, FunctionTypes
  <1> QED
    BY <1>1, <1>2, <1>3, NextSteps DEF StoreSteps

\* What a call remembers of a layer changes when it finds nothing fresh there.
LEMMA FoundChanges ==
  ASSUME TypeInv, [Next]_vars, NEW d \in Calls, NEW l \in storages
  PROVE  \/ cached'[d][l] = cached[d][l]
         \/ MissOrStale(d) /\ l = Layer(d) /\ cached'[d][l] = LookedUp(d)
  <1>1. ASSUME NEW c \in Calls, MissOrStale(c)
        PROVE  \/ cached'[d][l] = cached[d][l]
               \/ d = c /\ l = Layer(c) /\ cached'[d][l] = LookedUp(c)
    <2>1. Layer(c) \in storages
      BY <1>1, LookedUpType DEF Inside, MissOrStale
    <2>2. cached' = [cached EXCEPT ![c][Layer(c)] = LookedUp(c)]
      BY <1>1 DEF MissOrStale
    <2> QED
      BY <2>1, <2>2 DEF TypeInv, FunctionTypes
  <1>2. ASSUME NEW c \in Calls, StepOf(c), ~MissOrStale(c) PROVE cached' = cached
    BY <1>2 DEF StepOf, Begin, Has, Hit, OriginAnswers, RequestFails, GoUp
  <1>3. Surroundings => cached' = cached
    BY DEF Surroundings
  <1> QED
    BY <1>1, <1>2, <1>3, NextSteps

\* A call goes on with the response below it, or with its own entry's content.
LEMMA RevalidatedIs ==
  ASSUME TypeInv, NEW c \in Calls, stage[c] = "up"
  PROVE  \/ /\ Revalidated(c) = response[c]
            /\ response[c].status = 304 => cached[c][Layer(c)] = None
         \/ /\ response[c].status = 304 /\ cached[c][Layer(c)] # None
            /\ cached[c][Layer(c)] \in Entries
            /\ Revalidated(c).status = cached[c][Layer(c)].response.status
            /\ Revalidated(c).body = cached[c][Layer(c)].response.body
            /\ Revalidated(c).headers = cached[c][Layer(c)].response.headers
            /\ Revalidated(c).tag = cached[c][Layer(c)].response.tag
            /\ Revalidated(c).vouched = response[c].vouched
            /\ Revalidated(c).at = response[c].at
  <1>1. cached[c][Layer(c)] \in Entry
    BY LookedUpType DEF Inside
  <1>2. CASE response[c].status = 304 /\ cached[c][Layer(c)] # None
    <2>1. cached[c][Layer(c)].response \in Responses /\ cached[c][Layer(c)] \in Entries
      BY <1>1, <1>2 DEF Entry, Entries
    <2>2. Revalidated(c) = [cached[c][Layer(c)].response EXCEPT
                               !.vouched = response[c].vouched, !.at = response[c].at]
      BY <1>2 DEF Revalidated
    <2> QED
      BY <1>2, <2>1, <2>2 DEF Responses
  <1> QED
    BY <1>2 DEF Revalidated

-----------------------------------------------------------------------------
(* Segments. *)

\* Content fit for a call that sends s: its own or everybody's, and everybody's unless
\* the headers say that it varies.
Fits(r, s) ==
    r.body # None => /\ r.body.segment \in {None, s}
                     /\ r.headers.vary # "segment" => r.body.segment = None

StoredFit ==
    \A l \in storages, s \in Slots : store[l][s] # None => Fits(store[l][s].response, s)
FoundFit ==
    \A c \in Calls, l \in storages :
        cached[c][l] # None => Fits(cached[c][l].response, SegmentOf[c])
AnsweredFit ==
    \A c \in Calls : stage[c] \in {"up", "done"} => Fits(response[c], SegmentOf[c])

SegmentInv == StoredFit /\ FoundFit /\ AnsweredFit

LEMMA LookedUpFits ==
  ASSUME TypeInv, StoredFit, NEW c \in Calls, Inside(c), LookedUp(c) # None
  PROVE  Fits(LookedUp(c).response, SegmentOf[c])
  <1>1. Layer(c) \in storages /\ SegmentOf[c] \in Slots /\ None \in Slots
    BY LookedUpType DEF Slots
  <1>2. LookedUp(c) = store[Layer(c)][SegmentOf[c]] \/ LookedUp(c) = store[Layer(c)][None]
    BY DEF LookedUp
  <1> QED
    BY <1>1, <1>2 DEF StoredFit, Fits

LEMMA RevalidatedFits ==
  ASSUME TypeInv, SegmentInv, NEW c \in Calls, stage[c] = "up"
  PROVE  Fits(Revalidated(c), SegmentOf[c])
  <1>1. Layer(c) \in storages
    BY LookedUpType DEF Inside
  <1> QED
    BY <1>1, RevalidatedIs DEF SegmentInv, FoundFit, AnsweredFit, Fits

LEMMA StoredFitStep == TypeInv /\ SegmentInv /\ [Next]_vars => StoredFit'
  <1> SUFFICES ASSUME TypeInv, SegmentInv, [Next]_vars,
                      NEW l \in storages, NEW s \in Slots, store'[l][s] # None
               PROVE  Fits(store'[l][s].response, s)
    BY SamePaths DEF StoredFit, Fits
  <1>1. CASE store'[l][s] \in {store[l][s], None}
    BY <1>1 DEF SegmentInv, StoredFit
  <1>2. ASSUME NEW c \in Calls, GoUp(c), s = SetKey(c, Revalidated(c)),
               store'[l][s] = Stored(c)
        PROVE  Fits(store'[l][s].response, s)
    <2>1. Fits(Revalidated(c), SegmentOf[c])
      BY <1>2, RevalidatedFits DEF GoUp
    <2>2. store'[l][s].response = Revalidated(c)
      BY <1>2 DEF Stored
    <2> QED
      BY <1>2, <2>1, <2>2 DEF Fits, SetKey
  <1> QED
    BY <1>1, <1>2, StoreChanges DEF StoreSteps

LEMMA FoundFitStep == TypeInv /\ SegmentInv /\ [Next]_vars => FoundFit'
  <1> SUFFICES ASSUME TypeInv, SegmentInv, [Next]_vars,
                      NEW d \in Calls, NEW l \in storages, cached'[d][l] # None
               PROVE  Fits(cached'[d][l].response, SegmentOf[d])
    BY SamePaths DEF FoundFit, Fits
  <1>1. CASE cached'[d][l] = cached[d][l]
    BY <1>1 DEF SegmentInv, FoundFit
  <1>2. CASE MissOrStale(d) /\ cached'[d][l] = LookedUp(d)
    BY <1>2, LookedUpFits DEF SegmentInv, MissOrStale, Inside
  <1> QED
    BY <1>1, <1>2, FoundChanges

LEMMA AnsweredFitStep == TypeInv /\ SegmentInv /\ [Next]_vars => AnsweredFit'
  <1> SUFFICES ASSUME TypeInv, SegmentInv, [Next]_vars PROVE AnsweredFit'
    OBVIOUS
  <1>1. ASSUME NEW c \in Calls, StepOf(c), stage'[c] \in {"up", "done"}
        PROVE  Fits(response'[c], SegmentOf[c])
    <2> USE DEF TypeInv, FunctionTypes
    <2>1. CASE Begin(c) \/ Has(c) \/ MissOrStale(c) \/ RequestFails(c)
      BY <1>1, <2>1 DEF Begin, Has, MissOrStale, RequestFails
    <2>2. CASE Hit(c)
      <3>1. LookedUp(c) # None /\ Inside(c)
        BY <2>2 DEF Hit, Fresh, Inside
      <3>2. Fits(LookedUp(c).response, SegmentOf[c])
        BY <3>1, LookedUpFits DEF SegmentInv
      <3> QED
        BY <2>2, <3>2, HitType DEF Fits
    <2>3. CASE \E h \in HeaderSets[storages] : OriginAnswers(c, h)
      <3>1. PICK h \in HeaderSets[storages] : OriginAnswers(c, h)
        BY <2>3
      <3>2. /\ response'[c].body \in {None, CurrentBody(c, h)}
            /\ response'[c].headers = h
        BY <3>1, AnswerType
      <3>3. CurrentBody(c, h).segment = IF h.vary = "segment" THEN SegmentOf[c] ELSE None
        BY BodyType
      <3> QED
        BY <3>2, <3>3 DEF Fits
    <2>4. CASE GoUp(c)
      BY <2>4, RevalidatedFits DEF GoUp
    <2> QED
      BY <1>1, <2>1, <2>2, <2>3, <2>4 DEF StepOf
  <1>2. ASSUME NEW c \in Calls, StepOf(c) PROVE AnsweredFit'
    BY <1>1, <1>2, OthersStay DEF SegmentInv, AnsweredFit, Fits
  <1>3. CASE Surroundings
    BY <1>3 DEF SegmentInv, AnsweredFit, Fits, Surroundings
  <1> QED
    BY <1>2, <1>3, NextSteps

\* No call is answered with content made for another segment, whichever layers it goes
\* through, whatever the origin varies by, and whatever storage drops meanwhile.
THEOREM SegmentsKeptApart == Spec => []OwnSegment
  <1>1. Init => TypeInv /\ SegmentInv
    BY InitType, ConstantsAssumption
       DEF Init, SegmentInv, StoredFit, FoundFit, AnsweredFit
  <1>2. TypeInv /\ SegmentInv /\ [Next]_vars => (TypeInv /\ SegmentInv)'
    BY NextType, StoredFitStep, FoundFitStep, AnsweredFitStep DEF SegmentInv
  <1>3. SegmentInv => OwnSegment
    BY DEF SegmentInv, AnsweredFit, Fits, OwnSegment, Finished
  <1> QED
    BY <1>1, <1>2, <1>3, PTL DEF Spec

-----------------------------------------------------------------------------
(* Revalidation, where the etag a call sends can only be that of its own entry: with  *)
(* one layer, or with two and an origin that sends no etags.                          *)

RenewsItsOwn ==
    \A conf \in Configurations :
        {"memory", "disk"} \subseteq conf => \A h \in HeaderSets[conf] : ~h.etag

Vouched(r) ==
    /\ r.status = 200
    /\ r.body \in Bodies /\ r.body # None
    /\ r.body.version = r.vouched
    /\ r.tag \in {None, r.body}
    /\ {"memory", "disk"} \subseteq storages => r.tag = None

StoredVouched ==
    \A l \in storages, s \in Slots : store[l][s] # None => Vouched(store[l][s].response)
FoundVouched ==
    \A c \in Calls, l \in storages : cached[c][l] # None => Vouched(cached[c][l].response)

\* A call that sends an etag has the entry it is of, in its only layer.
TagOf(c) ==
    /\ Len(Path(c)) = 1
    /\ stage[c] \notin {"idle", "down", "get"}
    /\ cached[c][Path(c)[1]] # None
    /\ cached[c][Path(c)[1]].response.tag = etagSent[c]
TagsFound == \A c \in Calls : etagSent[c] # None => TagOf(c)

\* A 304 vouches for the version of the etag it answers.
Answered(c) ==
    IF response[c].status = 304
    THEN /\ stage[c] = "up" /\ etagSent[c] # None
         /\ response[c].vouched = etagSent[c].version
    ELSE Vouched(response[c])
AnsweredVouched == \A c \in Calls : stage[c] \in {"up", "done"} => Answered(c)

VouchInv == StoredVouched /\ FoundVouched /\ TagsFound /\ AnsweredVouched

LEMMA SlotsOf ==
  ASSUME TypeInv, NEW c \in Calls, Inside(c)
  PROVE  /\ Layer(c) \in storages /\ SegmentOf[c] \in Slots /\ None \in Slots
         /\ LookedUp(c) # None => \E s \in Slots : LookedUp(c) = store[Layer(c)][s]
  BY LookedUpType DEF Slots, LookedUp

LEMMA RevalidatedVouched ==
  ASSUME TypeInv, VouchInv, NEW c \in Calls, stage[c] = "up"
  PROVE  Vouched(Revalidated(c))
  <1>1. Answered(c) /\ Layer(c) \in storages
    BY SlotsOf DEF VouchInv, AnsweredVouched, Inside
  <1>2. CASE response[c].status # 304
    BY <1>1, <1>2, RevalidatedIs DEF Answered
  <1>3. CASE response[c].status = 304
    <2>1. etagSent[c] # None /\ response[c].vouched = etagSent[c].version
      BY <1>1, <1>3 DEF Answered
    <2>2. TagOf(c)
      BY <2>1 DEF VouchInv, TagsFound
    <2>3. Layer(c) = Path(c)[1]
      <3>1. depth[c] \in 1..Len(Path(c))
        BY DEF TypeInv, DepthType, Inside
      <3> QED
        BY <2>2, <3>1 DEF TagOf, Layer
    <2>4. cached[c][Layer(c)] # None /\ cached[c][Layer(c)].response.tag = etagSent[c]
      BY <2>2, <2>3 DEF TagOf
    <2>5. Vouched(cached[c][Layer(c)].response)
      BY <1>1, <2>4 DEF VouchInv, FoundVouched
    <2>6. cached[c][Layer(c)].response.body = etagSent[c]
      BY <2>1, <2>4, <2>5 DEF Vouched
    <2>7. /\ Revalidated(c).status = cached[c][Layer(c)].response.status
          /\ Revalidated(c).body = cached[c][Layer(c)].response.body
          /\ Revalidated(c).tag = cached[c][Layer(c)].response.tag
          /\ Revalidated(c).vouched = response[c].vouched
      BY <1>3, <2>4, RevalidatedIs
    <2> QED
      BY <2>1, <2>5, <2>6, <2>7 DEF Vouched
  <1> QED
    BY <1>2, <1>3

LEMMA StoredVouchedStep == TypeInv /\ VouchInv /\ [Next]_vars => StoredVouched'
  <1> SUFFICES ASSUME TypeInv, VouchInv, [Next]_vars,
                      NEW l \in storages, NEW s \in Slots, store'[l][s] # None
               PROVE  Vouched(store'[l][s].response)
    BY SamePaths DEF StoredVouched, Vouched
  <1>1. CASE store'[l][s] \in {store[l][s], None}
    BY <1>1 DEF VouchInv, StoredVouched
  <1>2. ASSUME NEW c \in Calls, GoUp(c), store'[l][s] = Stored(c)
        PROVE  Vouched(store'[l][s].response)
    <2>1. Vouched(Revalidated(c))
      BY <1>2, RevalidatedVouched DEF GoUp
    <2> QED
      BY <1>2, <2>1 DEF Stored
  <1> QED
    BY <1>1, <1>2, StoreChanges DEF StoreSteps

LEMMA LookedUpVouched ==
  ASSUME TypeInv, StoredVouched, NEW c \in Calls, Inside(c), LookedUp(c) # None
  PROVE  Vouched(LookedUp(c).response)
  BY SlotsOf DEF StoredVouched

LEMMA FoundVouchedStep == TypeInv /\ VouchInv /\ [Next]_vars => FoundVouched'
  <1> SUFFICES ASSUME TypeInv, VouchInv, [Next]_vars,
                      NEW d \in Calls, NEW l \in storages, cached'[d][l] # None
               PROVE  Vouched(cached'[d][l].response)
    BY SamePaths DEF FoundVouched, Vouched
  <1>1. CASE cached'[d][l] = cached[d][l]
    BY <1>1 DEF VouchInv, FoundVouched
  <1>2. CASE MissOrStale(d) /\ cached'[d][l] = LookedUp(d)
    BY <1>2, LookedUpVouched DEF VouchInv, MissOrStale, Inside
  <1> QED
    BY <1>1, <1>2, FoundChanges

LEMMA TagsFoundStep ==
  ASSUME TypeInv, VouchInv, [Next]_vars, NEW d \in Calls, etagSent'[d] # None
  PROVE  TagOf(d)'
  <1>1. storages' = storages /\ Path(d)' = Path(d)
    BY SamePaths
  <1>2. CASE MissOrStale(d)
    <2>1. etagSent[d] = None
      BY <1>2 DEF VouchInv, TagsFound, TagOf, MissOrStale
    <2>2. /\ LookedUp(d) # None /\ LookedUp(d).response.tag # None
          /\ etagSent'[d] = LookedUp(d).response.tag
      BY <1>2, <2>1 DEF MissOrStale, TypeInv, FunctionTypes
    <2>3. Vouched(LookedUp(d).response)
      BY <1>2, <2>2, LookedUpVouched DEF VouchInv, MissOrStale, Inside
    <2>4. Len(Path(d)) # 2
      BY <2>2, <2>3, PathLayers DEF Vouched
    <2>5. Len(Path(d)) = 1 /\ depth[d] = 1
      BY <1>2, <2>4, PathLayers DEF TypeInv, DepthType, Inside, MissOrStale
    <2>6. stage'[d] = "origin"
      BY <1>2, <2>5 DEF MissOrStale, TypeInv, FunctionTypes
    <2>7. Layer(d) \in storages /\ Layer(d) = Path(d)[1]
      BY <1>2, <2>5, LookedUpType DEF MissOrStale, Inside, Layer
    <2>8. cached'[d][Layer(d)] = LookedUp(d)
      BY <1>2, <2>7 DEF MissOrStale, TypeInv, FunctionTypes
    <2> QED
      BY <1>1, <2>2, <2>5, <2>6, <2>7, <2>8 DEF TagOf
  <1>3. CASE ~MissOrStale(d)
    <2>1. etagSent'[d] = etagSent[d]
      <3>1. ASSUME NEW c \in Calls, StepOf(c) PROVE etagSent'[d] = etagSent[d]
        <4>1. CASE c # d
          BY <3>1, <4>1, OthersStay
        <4>2. CASE c = d
          BY <1>3, <3>1, <4>2 DEF StepOf, Begin, Has, Hit, OriginAnswers, RequestFails, GoUp
        <4> QED
          BY <4>1, <4>2
      <3> QED
        BY <3>1, NextSteps DEF Surroundings
    <2>2. TagOf(d)
      BY <2>1 DEF VouchInv, TagsFound
    <2>3. Path(d)[1] \in storages
      BY <2>2, PathLayers DEF TagOf
    <2>4. cached'[d][Path(d)[1]] = cached[d][Path(d)[1]]
      BY <1>3, <2>3, FoundChanges
    <2>5. stage'[d] \notin {"idle", "down", "get"}
      <3>1. ASSUME NEW c \in Calls, StepOf(c) PROVE stage'[d] \notin {"idle", "down", "get"}
        <4>1. CASE c # d
          BY <2>2, <3>1, <4>1, OthersStay DEF TagOf
        <4>2. CASE c = d
          BY <2>2, <3>1, <4>2 DEF TagOf, TypeInv, FunctionTypes, StepOf, Begin, Has, Hit,
             MissOrStale, OriginAnswers, RequestFails, GoUp
        <4> QED
          BY <4>1, <4>2
      <3> QED
        BY <2>2, <3>1, NextSteps DEF Surroundings, TagOf
    <2> QED
      BY <1>1, <2>1, <2>2, <2>4, <2>5 DEF TagOf
  <1> QED
    BY <1>2, <1>3

LEMMA AnsweredVouchedStep ==
  ASSUME TypeInv, VouchInv, RenewsItsOwn, NEW c \in Calls, StepOf(c),
         stage'[c] \in {"up", "done"}
  PROVE  Answered(c)'
  <1>0. storages' = storages
    BY SamePaths DEF Next, StepOf
  <1>1. CASE Begin(c) \/ Has(c) \/ MissOrStale(c) \/ RequestFails(c)
    BY <1>1 DEF Begin, Has, MissOrStale, RequestFails, TypeInv, FunctionTypes
  <1>2. CASE Hit(c)
    <2>1. Vouched(LookedUp(c).response)
      BY <1>2, LookedUpVouched DEF VouchInv, Hit, Fresh, Inside
    <2>2. Vouched(response'[c])
      BY <1>2, <2>1, HitType DEF Vouched
    <2> QED
      BY <1>0, <2>2 DEF Answered, Vouched
  <1>3. CASE \E h \in HeaderSets[storages] : OriginAnswers(c, h)
    <2>1. PICK h \in HeaderSets[storages] : OriginAnswers(c, h)
      BY <1>3
    <2>2. /\ CurrentBody(c, h) \in Bodies /\ CurrentBody(c, h) # None
          /\ CurrentBody(c, h).version = version
      BY BodyType
    <2>3. {"memory", "disk"} \subseteq storages => ~h.etag
      BY <2>1 DEF RenewsItsOwn, TypeInv, FunctionTypes
    <2>4. CASE etagSent[c] = CurrentBody(c, h)
      <3>0. etagSent' = etagSent
        BY <2>1 DEF OriginAnswers
      <3>1. response'[c].status = 304 /\ response'[c].vouched = version
        BY <2>1, <2>4, AnswerType
      <3>2. stage'[c] = "up"
        <4>1. Len(Path(c)) = 1
          BY <2>2, <2>4 DEF VouchInv, TagsFound, TagOf
        <4>2. Path(c) # <<>>
          BY <4>1, PathLayers
        <4> QED
          BY <2>1, <4>2 DEF OriginAnswers, TypeInv, FunctionTypes
      <3> QED
        BY <2>2, <2>4, <3>0, <3>1, <3>2 DEF Answered
    <2>5. CASE etagSent[c] # CurrentBody(c, h)
      <3>1. /\ response'[c].status = 200 /\ response'[c].vouched = version
            /\ response'[c].body = CurrentBody(c, h)
            /\ response'[c].tag = IF h.etag THEN CurrentBody(c, h) ELSE None
        BY <2>1, <2>5, AnswerType
      <3> QED
        BY <1>0, <2>2, <2>3, <3>1 DEF Answered, Vouched
    <2> QED
      BY <2>4, <2>5
  <1>4. CASE GoUp(c)
    <2>1. Vouched(Revalidated(c)) /\ response'[c] = Revalidated(c)
      BY <1>4, RevalidatedVouched DEF GoUp, TypeInv, FunctionTypes
    <2> QED
      BY <1>0, <2>1 DEF Answered, Vouched
  <1> QED
    BY <1>1, <1>2, <1>3, <1>4 DEF StepOf

LEMMA VouchInit == Init => VouchInv
  BY ConstantsAssumption
     DEF Init, VouchInv, StoredVouched, FoundVouched, TagsFound, AnsweredVouched

LEMMA VouchStep == RenewsItsOwn /\ TypeInv /\ VouchInv /\ [Next]_vars => VouchInv'
  <1> SUFFICES ASSUME RenewsItsOwn, TypeInv, VouchInv, [Next]_vars PROVE VouchInv'
    OBVIOUS
  <1>1. StoredVouched' /\ FoundVouched' /\ TagsFound'
    BY StoredVouchedStep, FoundVouchedStep, TagsFoundStep DEF TagsFound
  <1>2. AnsweredVouched'
    <2>1. ASSUME NEW c \in Calls, StepOf(c) PROVE AnsweredVouched'
      <3>1. ASSUME NEW d \in Calls, d # c, stage'[d] \in {"up", "done"} PROVE Answered(d)'
        <4>1. /\ stage'[d] = stage[d] /\ etagSent'[d] = etagSent[d]
              /\ response'[d] = response[d] /\ storages' = storages
          BY <2>1, <3>1, OthersStay, SamePaths
        <4>2. Answered(d)
          BY <3>1, <4>1 DEF VouchInv, AnsweredVouched
        <4> QED
          BY <4>1, <4>2 DEF Answered, Vouched
      <3> QED
        BY <2>1, <3>1, AnsweredVouchedStep DEF AnsweredVouched
    <2>2. CASE Surroundings
      BY <2>2 DEF Surroundings, VouchInv, AnsweredVouched, Answered, Vouched
    <2> QED
      BY <2>1, <2>2, NextSteps
  <1> QED
    BY <1>1, <1>2 DEF VouchInv

\* A call is answered with content, and with the version that the origin vouched for
\* last, by the answer it came in or by the 304 that renewed it, where an etag can only
\* renew its own entry.
THEOREM ContentVouchedFor ==
  ASSUME RenewsItsOwn
  PROVE  Spec => []BodyIsVouchedFor
  <1>1. Init => TypeInv /\ VouchInv
    BY InitType, VouchInit
  <1>2. TypeInv /\ VouchInv /\ [Next]_vars => (TypeInv /\ VouchInv)'
    BY RenewsItsOwn, NextType, VouchStep
  <1>3. VouchInv => BodyIsVouchedFor
    BY DEF VouchInv, AnsweredVouched, Answered, Vouched, BodyIsVouchedFor, Finished
  <1> QED
    BY <1>1, <1>2, <1>3, PTL DEF Spec

-----------------------------------------------------------------------------
(* Lifetimes. *)

\* An entry expires within the lifetime of its response, counted from the origin's.
StoredInTime ==
    \A l \in storages, s \in Slots : store[l][s] # None =>
        store[l][s].expiration <= store[l][s].response.at + Lifetime(l, store[l][s].response)

\* A response on its way up comes from the origin at this second, or from a disk entry
\* that is fresh and is about to be copied to memory.
UpInTime ==
    \A c \in Calls : stage[c] = "up" =>
        IF response[c].status = 304 THEN response[c].at = now
        ELSE \/ response[c].at = now - response[c].headers.age
             \/ /\ Layer(c) = "memory" /\ "disk" \in storages
                /\ now - response[c].at < MaxAge(response[c])

TimeInv == StoredInTime /\ UpInTime

LEMMA StoredInTimeStep ==
  TypeInv /\ VouchInv /\ TimeInv /\ [Next]_vars => StoredInTime'
  <1> SUFFICES ASSUME TypeInv, VouchInv, TimeInv, [Next]_vars,
                      NEW l \in storages, NEW s \in Slots, store'[l][s] # None
               PROVE  store'[l][s].expiration
                         <= store'[l][s].response.at + Lifetime(l, store'[l][s].response)
    BY SamePaths DEF StoredInTime, Lifetime
  <1>1. CASE store'[l][s] \in {store[l][s], None}
    BY <1>1 DEF TimeInv, StoredInTime
  <1>2. ASSUME NEW c \in Calls, GoUp(c), l = Layer(c), store'[l][s] = Stored(c)
        PROVE  store'[l][s].expiration
                  <= store'[l][s].response.at + Lifetime(l, store'[l][s].response)
    <2> DEFINE r == Revalidated(c)
    <2>1. r \in Responses /\ MaxAge(r) \in Nat /\ r.at \in Int /\ r.headers.age \in Nat
          /\ now \in Int
      BY <1>2, RevalidatedType, MaxAgeType
         DEF GoUp, Responses, Headers, TypeInv, FunctionTypes
    <2>2. store'[l][s].response = r
          /\ store'[l][s].expiration
             = now + MaxAge(r) - (IF response[c].status = 304 THEN 0 ELSE r.headers.age)
      BY <1>2 DEF Stored
    <2>3. Lifetime(l, r) \in {MaxAge(r), 2 * MaxAge(r)}
          /\ (l = "memory" /\ "disk" \in storages => Lifetime(l, r) = 2 * MaxAge(r))
      BY <2>1 DEF Lifetime
    <2>4. CASE response[c].status = 304
      <3>1. r.at = now
        BY <1>2, <2>4, RevalidatedIs DEF TimeInv, UpInTime, GoUp
      <3> HIDE DEF r
      <3> QED
        BY <2>1, <2>2, <2>3, <2>4, <3>1
    <2>5. CASE response[c].status # 304
      <3>1. r = response[c]
        BY <1>2, <2>5, RevalidatedIs DEF GoUp
      <3>2. \/ r.at = now - r.headers.age
            \/ /\ l = "memory" /\ "disk" \in storages
               /\ now - r.at < MaxAge(r)
        BY <1>2, <2>5, <3>1 DEF TimeInv, UpInTime, GoUp
      <3> HIDE DEF r
      <3> QED
        BY <2>1, <2>2, <2>3, <2>5, <3>2
    <2> QED
      BY <2>4, <2>5
  <1> QED
    BY <1>1, <1>2, StoreChanges DEF StoreSteps

\* Of a layer's fresh entry: its response is younger than its lifetime.
LEMMA HitInTime ==
  ASSUME TypeInv, StoredInTime, NEW c \in Calls, Hit(c)
  PROVE  /\ LookedUp(c).response \in Responses
         /\ now - LookedUp(c).response.at < Lifetime(Layer(c), LookedUp(c).response)
  <1>1. Inside(c) /\ LookedUp(c) # None /\ LookedUp(c).expiration > now
    BY DEF Hit, Fresh, Inside
  <1>2. PICK s \in Slots : LookedUp(c) = store[Layer(c)][s]
    BY <1>1, SlotsOf
  <1>3. LookedUp(c) \in Entries
    BY HitType
  <1> DEFINE e == LookedUp(c)
  <1>4. e.response \in Responses /\ e.expiration \in Int /\ e.response.at \in Int
        /\ now \in Int /\ Lifetime(Layer(c), e.response) \in Int
    <2>1. e.response \in Responses /\ e.expiration \in Int
      BY <1>3 DEF Entries
    <2>2. MaxAge(e.response) \in Nat
      BY <2>1, MaxAgeType
    <2> QED
      BY <2>1, <2>2 DEF Responses, Lifetime, TypeInv, FunctionTypes
  <1>5. e.expiration <= e.response.at + Lifetime(Layer(c), e.response)
    BY <1>1, <1>2, SlotsOf DEF StoredInTime
  <1> HIDE DEF e
  <1>6. e.response \in Responses /\ now - e.response.at < Lifetime(Layer(c), e.response)
    BY <1>1, <1>4, <1>5 DEF e
  <1> QED
    BY <1>6 DEF e

LEMMA SameLifetime ==
  ASSUME TypeInv, NEW c \in Calls, Hit(c), NEW l
  PROVE  Lifetime(l, response'[c]) = Lifetime(l, LookedUp(c).response)
  BY HitType DEF Lifetime, MaxAge

LEMMA UpInTimeStep ==
  ASSUME TypeInv, VouchInv, TimeInv, NEW c \in Calls, StepOf(c), stage'[c] = "up"
  PROVE  IF response'[c].status = 304 THEN response'[c].at = now
         ELSE \/ response'[c].at = now - response'[c].headers.age
              \/ /\ Layer(c)' = "memory" /\ "disk" \in storages
                 /\ now - response'[c].at < MaxAge(response'[c])
  <1>1. CASE Begin(c) \/ Has(c) \/ MissOrStale(c) \/ RequestFails(c)
    BY <1>1 DEF Begin, Has, MissOrStale, RequestFails, TypeInv, FunctionTypes
  <1>2. \A d : Path(d)' = Path(d)
    BY SamePaths DEF Next, StepOf
  <1>3. CASE Hit(c)
    <2>1. Vouched(LookedUp(c).response)
      BY <1>3, LookedUpVouched DEF VouchInv, Hit, Fresh, Inside
    <2>2. response'[c].status = 200
      BY <1>3, <2>1, HitType DEF Vouched
    <2>3. depth[c] \in 1..Len(Path(c)) /\ depth[c] # 1 /\ depth'[c] = depth[c] - 1
      BY <1>3 DEF Hit, TypeInv, DepthType, FunctionTypes, Inside
    <2>4. Len(Path(c)) = 2 /\ depth[c] = 2
      BY <2>3, PathLayers
    <2>5. Layer(c) = "disk" /\ Layer(c)' = "memory" /\ "disk" \in storages
      BY <1>2, <2>3, <2>4, PathLayers DEF Layer
    <2>6. MaxAge(LookedUp(c).response) \in Nat
      BY <1>3, HitInTime, MaxAgeType DEF TimeInv
    <2>7. Lifetime("disk", LookedUp(c).response) = MaxAge(LookedUp(c).response)
      BY <2>6 DEF Lifetime
    <2>8. now - LookedUp(c).response.at < MaxAge(LookedUp(c).response)
      BY <1>3, <2>5, <2>7, HitInTime DEF TimeInv
    <2>9. MaxAge(response'[c]) = MaxAge(LookedUp(c).response)
          /\ response'[c].at = LookedUp(c).response.at
      BY <1>3, HitType DEF MaxAge
    <2> QED
      BY <2>2, <2>5, <2>8, <2>9
  <1>4. CASE \E h \in HeaderSets[storages] : OriginAnswers(c, h)
    BY <1>4, AnswerType
  <1>5. CASE GoUp(c)
    <2>1. response'[c] = Revalidated(c) /\ stage[c] = "up"
      BY <1>5 DEF GoUp, TypeInv, FunctionTypes
    <2>2. Vouched(Revalidated(c))
      BY <2>1, RevalidatedVouched
    <2>3. depth[c] \in 1..Len(Path(c)) /\ depth[c] # 1 /\ depth'[c] = depth[c] - 1
      BY <1>5 DEF GoUp, TypeInv, DepthType, FunctionTypes, Inside
    <2>4. Len(Path(c)) = 2 /\ depth[c] = 2
      BY <2>3, PathLayers
    <2>5. Layer(c) = "disk"
      BY <2>4, PathLayers DEF Layer
    <2>6. response[c].status # 304
      BY <2>1, <2>4 DEF VouchInv, AnsweredVouched, Answered, TagsFound, TagOf
    <2>7. response'[c] = response[c]
      BY <2>1, <2>6, RevalidatedIs
    <2> QED
      BY <2>1, <2>5, <2>6, <2>7 DEF TimeInv, UpInTime
  <1> QED
    BY <1>1, <1>3, <1>4, <1>5 DEF StepOf

LEMMA TimeStep == TypeInv /\ VouchInv /\ TimeInv /\ [Next]_vars => TimeInv'
  <1> SUFFICES ASSUME TypeInv, VouchInv, TimeInv, [Next]_vars PROVE TimeInv'
    OBVIOUS
  <1>1. StoredInTime'
    BY StoredInTimeStep
  <1>2. UpInTime'
    <2>1. \A d : Path(d)' = Path(d)
      BY SamePaths
    <2>2. ASSUME NEW c \in Calls, StepOf(c) PROVE UpInTime'
      <3>1. now' = now /\ storages' = storages
        BY <2>2 DEF StepOf, Begin, Has, Hit, MissOrStale, OriginAnswers, RequestFails, GoUp
      <3>2. ASSUME NEW d \in Calls, d # c
            PROVE  /\ stage'[d] = stage[d] /\ Layer(d)' = Layer(d)
                   /\ response'[d] = response[d]
        BY <2>1, <2>2, <3>2, OthersStay DEF Layer
      <3>3. \A d \in Calls : MaxAge(response[d])' = MaxAge(response'[d])
        BY DEF MaxAge
      <3> QED
        BY <2>2, <3>1, <3>2, <3>3, UpInTimeStep DEF TimeInv, UpInTime
    <2>3. CASE Surroundings /\ ~Tick
      <3>1. now' = now /\ UNCHANGED <<storages, stage, depth, response>>
        BY <2>3 DEF Surroundings, Drop, Change, vars
      <3> QED
        BY <2>1, <3>1 DEF TimeInv, UpInTime, Layer, MaxAge
    <2>4. CASE Tick
      BY <2>4 DEF Tick, UpInTime
    <2> QED
      BY <2>2, <2>3, <2>4, NextSteps
  <1> QED
    BY <1>1, <1>2 DEF TimeInv

\* Where an etag can only renew its own entry, what a layer answers with is younger
\* than the lifetime its headers give, or twice that for memory in front of a disk.
THEOREM AnsweredInTime ==
  ASSUME RenewsItsOwn
  PROVE  Spec => WithinLifetimes
  <1>1. Init => TypeInv /\ VouchInv /\ TimeInv
    BY InitType, VouchInit, ConstantsAssumption DEF Init, TimeInv, StoredInTime, UpInTime
  <1>2. TypeInv /\ VouchInv /\ TimeInv /\ [Next]_vars => (TypeInv /\ VouchInv /\ TimeInv)'
    BY RenewsItsOwn, NextType, VouchStep, TimeStep
  <1>3. TypeInv /\ TimeInv /\ [Next]_vars =>
           [\A c \in Calls : stage[c] = "get" /\ stage'[c] \in {"up", "done"} =>
               now - response'[c].at < Lifetime(Layer(c), response'[c])]_vars
    <2> SUFFICES ASSUME TypeInv, TimeInv, [Next]_vars,
                        NEW c \in Calls, stage[c] = "get", stage'[c] \in {"up", "done"}
                 PROVE  now - response'[c].at < Lifetime(Layer(c), response'[c])
      OBVIOUS
    <2>1. Hit(c)
      <3>1. PICK d \in Calls : StepOf(d)
        BY NextSteps DEF Surroundings
      <3>2. d = c
        BY <3>1, OthersStay
      <3> QED
        BY <3>1, <3>2 DEF StepOf, Begin, Has, MissOrStale, OriginAnswers, RequestFails,
           GoUp, TypeInv, FunctionTypes
    <2> QED
      BY <2>1, HitInTime, HitType, SameLifetime DEF TimeInv
  <1> QED
    BY <1>1, <1>2, <1>3, PTL DEF Spec, WithinLifetimes
=============================================================================
