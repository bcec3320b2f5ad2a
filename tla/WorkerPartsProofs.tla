--------------------------- MODULE WorkerPartsProofs ---------------------------
(***************************************************************************)
(* The five parts of a worker.  The limiter: a bucket holds no more than   *)
(* its size, and what it lets through it held or was given.  The schema:   *)
(* that a query runs on a schema it is valid for is inductive with what    *)
(* the schema in use has to do with its provider, and what a request that  *)
(* fetches has seen; then every update which was not overtaken goes from a *)
(* schema to one that has all its fields.  The cache control of a request: *)
(* what a field that has started asks for stays asked for until errors     *)
(* overrule it.  The two layers: what waits for the file before a read, or *)
(* else the file, is as new as whatever had been seen when the read was    *)
(* asked for.  The translations: sorting moves the messages of a batch     *)
(* about, grouping keeps their order, so that each answer is that of the   *)
(* message in its place.                                                   *)
(***************************************************************************)
EXTENDS MCWorkerParts, Loops, FunctionTheorems

-----------------------------------------------------------------------------
(* The limiter of requests per minute.                                     *)

\* A bucket's size is a number.
LEMMA SizeType ==
  ASSUME NEW b \in Buckets
  PROVE  Size(b) \in Nat
  <1>1. Limit[b] \in Nat /\ Minute \in Nat
    BY ConstantsAssumption
  <1>2. (Limit[b] + 1) \div 2 \in Nat
    BY <1>1
  <1>3. \A m, n \in Nat : m * n \in Nat
    OBVIOUS
  <1> QED
    BY <1>1, <1>2, <1>3 DEF Size

LEMMA FillType ==
  ASSUME TypeOK, NEW b \in Buckets
  PROVE  /\ Fill(b) \in Nat
         /\ Fill(b) <= Size(b)
         /\ Fill(b) <= tokensLeft[b] + Limit[b]
  <1>1. tokensLeft[b] \in Nat /\ Limit[b] \in Nat /\ Size(b) \in Nat
    BY SizeType, ConstantsAssumption DEF TypeOK
  <1> QED
    BY <1>1 DEF Fill

\* What a request takes, from each bucket it draws from: one token.
LEMMA AdmitTakes ==
  ASSUME TypeOK, NEW rt \in Routes, Admit(rt), NEW b \in Buckets
  PROVE  /\ tokensLeft'[b] \in Nat
         /\ tokensLeft'[b] <= Size(b)
         /\ admitted'[b] \in Nat
         /\ Limit[b] > 0 => \/ /\ tokensLeft'[b] = tokensLeft[b] - Minute
                               /\ admitted'[b] = admitted[b] + 1
                            \/ /\ tokensLeft'[b] = tokensLeft[b]
                               /\ admitted'[b] = admitted[b]
  <1>1. /\ tokensLeft[b] \in Nat /\ tokensLeft[b] <= Size(b) /\ admitted[b] \in Nat
        /\ Minute \in Nat /\ Size(b) \in Nat
    BY SizeType, ConstantsAssumption DEF TypeOK
  <1>2. b \in DrawnFrom(rt) => tokensLeft[b] >= Minute
    BY DEF Admit
  <1>3. /\ tokensLeft'[b] = IF b \in DrawnFrom(rt) THEN tokensLeft[b] - Minute ELSE tokensLeft[b]
        /\ admitted'[b] = IF b \in {rt, Replica} THEN admitted[b] + 1 ELSE admitted[b]
    BY DEF Admit
  <1>4. Limit[b] > 0 => (b \in DrawnFrom(rt) <=> b \in {rt, Replica})
    BY DEF DrawnFrom
  <1> QED
    BY <1>1, <1>2, <1>3, <1>4

\* Filling and taking keep every bucket between nothing and its size.
LEMMA RateNextType == TypeOK /\ [Next]_vars => TypeOK'
  <1> SUFFICES ASSUME TypeOK, [Next]_vars PROVE TypeOK'
    OBVIOUS
  <1>1. CASE Tick
    <2>1. tokensLeft' \in [Buckets -> Nat] /\ \A b \in Buckets : tokensLeft'[b] <= Size(b)
      BY <1>1, FillType DEF Tick
    <2>2. elapsed' \in 0..MaxWindow
      BY <1>1, ConstantsAssumption DEF Tick, TypeOK
    <2> QED
      BY <1>1, <2>1, <2>2 DEF Tick, TypeOK, Size
  <1>2. CASE Observe
    BY <1>2, ConstantsAssumption DEF Observe, TypeOK, Size
  <1>3. ASSUME NEW rt \in Routes, Admit(rt)
        PROVE  TypeOK'
    <2>1. /\ tokensLeft' = [b \in Buckets |-> tokensLeft'[b]]
          /\ admitted' = [b \in Buckets |-> admitted'[b]]
      BY <1>3 DEF Admit
    <2>2. tokensLeft' \in [Buckets -> Nat] /\ admitted' \in [Buckets -> Nat]
      BY <1>3, <2>1, AdmitTakes
    <2>3. \A b \in Buckets : tokensLeft'[b] <= Size(b)
      BY <1>3, AdmitTakes
    <2> QED
      BY <1>3, <2>2, <2>3 DEF Admit, TypeOK, Size
  <1>4. CASE UNCHANGED vars
    BY <1>4 DEF TypeOK, Size, vars
  <1> QED
    BY <1>1, <1>2, <1>3, <1>4 DEF Next, Reject

LEMMA RateInitType == Init => TypeOK
  BY SizeType, ConstantsAssumption DEF Init, TypeOK

\* No bucket ever holds more than its size or less than nothing.
THEOREM RateTypeCorrect == Spec => []TypeOK
  BY RateInitType, RateNextType, PTL DEF Spec

\* At the start nothing has been admitted.
LEMMA InitBound == Init => WindowBound
  <1>1. ASSUME Init, NEW b \in Buckets
        PROVE  admitted[b] * Minute + tokensLeft[b] <= Size(b) + elapsed * Limit[b]
    <2>1. /\ Size(b) \in Nat /\ Minute \in Nat /\ Limit[b] \in Nat
      BY SizeType, ConstantsAssumption
    <2>2. admitted[b] = 0 /\ elapsed = 0 /\ tokensLeft[b] = Size(b)
      BY <1>1 DEF Init
    <2> QED
      BY <2>1, <2>2
  <1> QED
    BY <1>1 DEF WindowBound

\* What a step admits it takes from the bucket, and what it adds to a bucket is counted.
LEMMA NextBound == TypeOK /\ WindowBound /\ [Next]_vars => WindowBound'
  <1> SUFFICES ASSUME TypeOK, WindowBound, [Next]_vars,
                      NEW b \in Buckets, Limit[b] > 0
               PROVE  admitted'[b] * Minute + tokensLeft'[b] <= Size(b) + elapsed' * Limit[b]
    BY DEF WindowBound, Size
  <1>1. /\ Size(b) \in Nat /\ Minute \in Nat /\ Limit[b] \in Nat
        /\ admitted[b] \in Nat /\ tokensLeft[b] \in Nat /\ elapsed \in Nat
        /\ tokensLeft[b] <= Size(b)
    BY SizeType, ConstantsAssumption DEF TypeOK
  <1>2. admitted[b] * Minute + tokensLeft[b] <= Size(b) + elapsed * Limit[b]
    BY DEF WindowBound
  <1>3. \A m, n \in Nat : m * n \in Nat /\ (m + 1) * n = m * n + n
    OBVIOUS
  <1>4. CASE Tick
    <2>1. elapsed' = elapsed + 1 /\ admitted' = admitted
      BY <1>4 DEF Tick
    <2>2. tokensLeft'[b] = Fill(b)
      BY <1>4 DEF Tick
    <2>3. Fill(b) \in Nat /\ Fill(b) <= tokensLeft[b] + Limit[b]
      BY FillType
    <2>4. elapsed' * Limit[b] = elapsed * Limit[b] + Limit[b]
      BY <1>1, <1>3, <2>1
    <2> QED
      BY <1>1, <1>2, <1>3, <2>1, <2>2, <2>3, <2>4
  <1>5. CASE Observe
    <2>1. admitted'[b] = 0 /\ elapsed' = 0 /\ tokensLeft' = tokensLeft
      BY <1>5 DEF Observe
    <2> QED
      BY <1>1, <2>1
  <1>6. ASSUME NEW rt \in Routes, Admit(rt)
        PROVE  admitted'[b] * Minute + tokensLeft'[b] <= Size(b) + elapsed' * Limit[b]
    <2>1. elapsed' = elapsed
      BY <1>6 DEF Admit
    <2>2. CASE tokensLeft'[b] = tokensLeft[b] - Minute /\ admitted'[b] = admitted[b] + 1
      <3>1. admitted'[b] * Minute = admitted[b] * Minute + Minute
        BY <1>1, <1>3, <2>2
      <3> QED
        BY <1>1, <1>2, <1>3, <2>1, <2>2, <3>1
    <2>3. CASE tokensLeft'[b] = tokensLeft[b] /\ admitted'[b] = admitted[b]
      BY <1>2, <2>1, <2>3
    <2> QED
      BY <1>6, <2>2, <2>3, AdmitTakes
  <1>7. CASE UNCHANGED vars
    BY <1>2, <1>7 DEF vars
  <1> QED
    BY <1>4, <1>5, <1>6, <1>7 DEF Next, Reject

\* In any window, a bucket lets through no more than its size and what is added to
\* it meanwhile: the contents it had are at most its size, each request takes a
\* whole token from every bucket on its way up, and filling only ever caps.
THEOREM WindowBounded == Spec => []WindowBound
  BY RateTypeCorrect, InitBound, NextBound, PTL DEF Spec

-----------------------------------------------------------------------------
(* The GraphQL schema.                                                     *)

\* The executable schema is the provider's, or the deployed one before the first;
\* whoever fetches names a provider newer than the one it saw.
UpdateShape ==
    /\ schema = IF provider = 0 THEN Initial ELSE provider
    /\ \A q \in Queriers : querying[q] = "fetch" =>
           /\ ProviderOf[q] # 0
           /\ sawProvider[q] # 0 => Newer(ProviderOf[q], sawProvider[q])

\* What was validated, whenever it was, is valid for the schema of now.
ValidatedIsValid ==
    ~overtaken =>
        /\ \A d \in documents : ValidFor(d, schema)
        /\ \A q \in Queriers : querying[q] = "run" => ValidFor(NeedOf[q], schema)

SchemaInv == SchemaTypeOK /\ UpdateShape /\ ValidatedIsValid /\ RunsWhatIsValid

-----------------------------------------------------------------------------

\* A query valid for a schema is valid for every schema the former is valid for.
LEMMA ValidForTransitive ==
    ASSUME NEW u \in Nat, NEW v \in Nat, NEW w \in Nat, ValidFor(u, v), ValidFor(v, w)
    PROVE  ValidFor(u, w)
BY DEF ValidFor

LEMMA VersionsAreNumbers ==
    /\ \A v \in Versions : v \in Nat
    /\ \A q \in Queriers : ProviderOf[q] \in {0} \cup Versions /\ NeedOf[q] \in Versions
BY SchemaAssumption

\* An update that is not overtaken replaces the schema by one it is valid for.
LEMMA UpdateIsNewer ==
    ASSUME SchemaTypeOK, UpdateShape, NEW q \in Queriers, querying[q] = "fetch",
           provider = sawProvider[q], ValidFor(Initial, ProviderOf[q])
    PROVE  ValidFor(schema, ProviderOf[q])
<1>1. ProviderOf[q] \in Nat /\ Initial \in Nat /\ provider \in Nat
  <2>1. ProviderOf[q] \in {0} \cup Versions /\ Initial \in Versions
    BY VersionsAreNumbers, SchemaAssumption
  <2>2. provider \in {0} \cup Versions
    BY DEF SchemaTypeOK
  <2> QED BY <2>1, <2>2, VersionsAreNumbers
<1>2. CASE provider = 0
  BY <1>2 DEF UpdateShape
<1>3. CASE provider # 0
  BY <1>1, <1>3 DEF UpdateShape, Newer, ValidFor
<1> QED BY <1>2, <1>3

LEMMA InitSchemaInv == SchemaInit => SchemaInv
BY SchemaAssumption DEF SchemaInit, SchemaInv, SchemaTypeOK, UpdateShape, ValidatedIsValid,
   RunsWhatIsValid

\* Updates and queries, in whatever order, keep what is known of the schema in use.
LEMMA SchemaInvInductive == SchemaInv /\ [SchemaNext]_schemaVars => SchemaInv'
<1> SUFFICES ASSUME SchemaInv, [SchemaNext]_schemaVars PROVE SchemaInv'
  OBVIOUS
<1> USE DEF SchemaInv
<1>1. CASE DocumentEvicted
  BY <1>1 DEF DocumentEvicted, SchemaTypeOK, UpdateShape, ValidatedIsValid, RunsWhatIsValid
<1>2. ASSUME NEW q \in Queriers, UpToDate(q) PROVE SchemaInv'
  BY <1>2 DEF UpToDate, SchemaTypeOK, UpdateShape, ValidatedIsValid, RunsWhatIsValid
<1>3. ASSUME NEW q \in Queriers, FetchSchema(q) PROVE SchemaInv'
  <2>1. SchemaTypeOK'
    BY <1>3 DEF FetchSchema, SchemaTypeOK
  <2>2. UpdateShape'
    BY <1>3 DEF FetchSchema, WantsSchema, SchemaTypeOK, UpdateShape, Newer
  <2>3. ValidatedIsValid' /\ RunsWhatIsValid'
    BY <1>3 DEF FetchSchema, SchemaTypeOK, ValidatedIsValid, RunsWhatIsValid
  <2> QED BY <2>1, <2>2, <2>3
<1>4. ASSUME NEW q \in Queriers, SchemaArrives(q) PROVE SchemaInv'
  <2>1. ProviderOf[q] \in Versions
    BY <1>4, SchemaAssumption DEF SchemaArrives, UpdateShape
  <2>2. SchemaTypeOK'
    BY <1>4, <2>1 DEF SchemaArrives, SchemaTypeOK
  <2>3. RunsWhatIsValid'
    BY <1>4 DEF SchemaArrives, SchemaTypeOK, RunsWhatIsValid
  <2>4. CASE ProviderOf[q] \in Broken
    BY <1>4, <2>2, <2>3, <2>4 DEF SchemaArrives, SchemaTypeOK, UpdateShape, ValidatedIsValid
  <2>5. CASE ProviderOf[q] \notin Broken
    <3>1. UpdateShape'
      BY <1>4, <2>5, <2>1, SchemaAssumption DEF SchemaArrives, SchemaTypeOK, UpdateShape
    <3>2. ASSUME ~overtaken'
          PROVE  ~overtaken /\ ValidFor(schema, ProviderOf[q]) /\ schema' = ProviderOf[q]
      BY <1>4, <2>5, <3>2, UpdateIsNewer DEF SchemaArrives
    <3>3. ASSUME NEW v \in Versions, ValidFor(v, schema), ~overtaken'
          PROVE  ValidFor(v, schema')
      BY <3>2, <3>3, <2>1, SchemaAssumption, ValidForTransitive DEF SchemaTypeOK
    <3>4. /\ documents' = documents /\ documents \subseteq Versions
          /\ \A r \in Queriers : querying'[r] = "run" => querying[r] = "run"
          /\ \A r \in Queriers : NeedOf[r] \in Versions
      BY <1>4, SchemaAssumption DEF SchemaArrives, SchemaTypeOK
    <3>5. ValidatedIsValid'
      <4> SUFFICES ASSUME ~overtaken'
                   PROVE  /\ \A d \in documents : ValidFor(d, schema')
                          /\ \A r \in Queriers : querying'[r] = "run" => ValidFor(NeedOf[r], schema')
        BY <3>4 DEF ValidatedIsValid, ValidFor
      <4> QED BY <3>2, <3>3, <3>4 DEF ValidatedIsValid
    <3> QED BY <2>2, <2>3, <3>1, <3>5
  <2> QED BY <2>4, <2>5
<1>5. ASSUME NEW q \in Queriers, SchemaMissing(q) PROVE SchemaInv'
  BY <1>5 DEF SchemaMissing, SchemaTypeOK, UpdateShape, ValidatedIsValid, RunsWhatIsValid
<1>6. ASSUME NEW q \in Queriers, ExtractQuery(q) PROVE SchemaInv'
  <2>1. SchemaTypeOK'
    BY <1>6, VersionsAreNumbers DEF ExtractQuery, SchemaTypeOK
  <2>2. UpdateShape' /\ RunsWhatIsValid'
    BY <1>6 DEF ExtractQuery, SchemaTypeOK, UpdateShape, RunsWhatIsValid
  <2>3. ValidatedIsValid'
    BY <1>6 DEF ExtractQuery, ParseAndValidate, SchemaTypeOK, ValidatedIsValid, ValidFor
  <2> QED BY <2>1, <2>2, <2>3
<1>7. ASSUME NEW q \in Queriers, Run(q) PROVE SchemaInv'
  <2>1. SchemaTypeOK'
    BY <1>7 DEF Run, SchemaTypeOK
  <2>2. UpdateShape' /\ ValidatedIsValid'
    BY <1>7 DEF Run, SchemaTypeOK, UpdateShape, ValidatedIsValid
  <2>3. RunsWhatIsValid'
    BY <1>7 DEF Run, SchemaTypeOK, ValidatedIsValid, RunsWhatIsValid, ValidFor
  <2> QED BY <2>1, <2>2, <2>3
<1>8. CASE UNCHANGED schemaVars
  BY <1>8 DEF schemaVars, SchemaTypeOK, UpdateShape, ValidatedIsValid, RunsWhatIsValid
<1> QED BY <1>1, <1>2, <1>3, <1>4, <1>5, <1>6, <1>7, <1>8 DEF SchemaNext

\* For any set of requests, providers and queries: no query is executed on a schema
\* it is not valid for, unless an update was overtaken or the first provider older
\* than the deployed schema.
THEOREM QueriesRunValid == SchemaSpec => []RunsWhatIsValid
<1>1. SchemaInv => RunsWhatIsValid
  BY DEF SchemaInv
<1> QED BY InitSchemaInv, SchemaInvInductive, <1>1, PTL DEF SchemaSpec

\* The executable schema always compiles, whatever texts arrive.
THEOREM SchemaTypeCorrect == SchemaSpec => []SchemaTypeOK
<1>1. SchemaInv => SchemaTypeOK
  BY DEF SchemaInv
<1> QED BY InitSchemaInv, SchemaInvInductive, <1>1, PTL DEF SchemaSpec

-----------------------------------------------------------------------------

\* The cache control of a request.

Controls == [age : 0..Long, scope : Scopes, noCache : BOOLEAN]

HeadersTypeOK ==
    headers \in [cacheable : BOOLEAN, age : Nat, private : BOOLEAN,
                 vary : SUBSET {"segment", "session"}, tags : SUBSET Fields]

\* Nothing runs before a query has been extracted, nor has failed; a request without
\* recorder records nothing; and what is in the response had resolved.
RunsInOrder ==
    /\ stage \in {"query", "execute"} => ~failed
    /\ stage = "query" => \A f \in Fields : resolving[f] = "new"
    /\ recorder \/ recording = {}
    /\ \A f \in data : resolving[f] = "resolved"
    /\ stage \in {"query", "execute"} => data = {}

\* What fields that have started ask for is asked for, the age unless errors came.
FieldsNarrow ==
    \A f \in Fields : resolving[f] # "new" =>
        /\ ~failed => control.age <= kind[f].age
        /\ kind[f].scope = "private" => control.scope = "private"
        /\ kind[f].scope = "segment" => control.scope # "public"

\* A response with errors is short-lived or not to be cached at all.
ErrorsNarrow ==
    failed /\ stage \in {"respond", "sent", "flushed"} =>
        control.age <= Short \/ control.noCache \/ ~request.production

CacheShape == CacheTypeOK /\ HeadersTypeOK /\ RunsInOrder

CacheInv == CacheShape /\ FieldsNarrow /\ ErrorsNarrow /\ CacheableAsDeclared

\* A field with @metric that has resolved too late for the response.
LateMetric == \E f \in Fields \ data : kind[f].metric /\ resolving[f] = "resolved"

\* The status of a response with errors stays error until one has.  Then what was
\* recorded is dropped, and what is recorded afterwards is not in the response.
ErrorsKnown ==
    /\ failed /\ stage = "respond" => status = "error" \/ LateMetric
    /\ failed /\ stage \in {"sent", "flushed"} => recorded \cap data = {} \/ LateMetric

TagsInv == CacheShape /\ ErrorsKnown /\ ErrorsUntagged

\* A directive only ever narrows.
LEMMA NarrowNarrows ==
    ASSUME NEW c \in Controls, NEW k \in FieldKinds
    PROVE  /\ Narrow(c, k) \in Controls
           /\ Narrow(c, k).age <= c.age /\ Narrow(c, k).age <= k.age
           /\ Narrow(c, k).noCache = c.noCache
           /\ k.scope = "private" \/ c.scope = "private" => Narrow(c, k).scope = "private"
           /\ k.scope = "segment" \/ c.scope # "public" => Narrow(c, k).scope # "public"
<1> DEFINE age == IF k.age < c.age THEN k.age ELSE c.age
           narrows == k.scope = "private" \/ (k.scope = "segment" /\ c.scope = "public")
           scope == IF narrows THEN k.scope ELSE c.scope
<1>1. Narrow(c, k) = [c EXCEPT !.age = age, !.scope = scope]
  BY DEF Narrow
<1>2. k.age \in Nat /\ k.scope \in Scopes /\ c.age \in 0..Long /\ c.scope \in Scopes
  BY DEF Controls, FieldKinds
<1>3. age \in 0..Long /\ age <= c.age /\ age <= k.age
  BY <1>2, FieldsAssumption
<1>4. /\ scope \in Scopes
      /\ k.scope = "private" \/ c.scope = "private" => scope = "private"
      /\ k.scope = "segment" \/ c.scope # "public" => scope # "public"
  BY <1>2 DEF Scopes
<1> HIDE DEF age, scope
<1>5. /\ Narrow(c, k) \in Controls
      /\ Narrow(c, k).age = age /\ Narrow(c, k).scope = scope
      /\ Narrow(c, k).noCache = c.noCache
  BY <1>1, <1>3, <1>4 DEF Controls
<1> QED BY <1>3, <1>4, <1>5

LEMMA CacheInitInv == CacheInit => CacheInv /\ TagsInv
<1> SUFFICES ASSUME CacheInit PROVE CacheInv /\ TagsInv
  OBVIOUS
<1>1. control \in Controls
  BY FieldsAssumption DEF CacheInit, Controls, Scopes
<1>2. CacheTypeOK
  BY <1>1 DEF CacheInit, CacheTypeOK, Controls, Requests, NoHeaders
<1>3. HeadersTypeOK
  BY DEF CacheInit, HeadersTypeOK, NoHeaders
<1>4. RunsInOrder
  BY DEF CacheInit, RunsInOrder
<1>5. FieldsNarrow /\ ErrorsNarrow /\ ErrorsKnown /\ CacheableAsDeclared /\ ErrorsUntagged
  BY DEF CacheInit, FieldsNarrow, ErrorsNarrow, ErrorsKnown, CacheableAsDeclared, ErrorsUntagged
<1> QED BY <1>2, <1>3, <1>4, <1>5 DEF CacheInv, TagsInv, CacheShape

\* No step of a request leaves the ranges of its cache control, status and stages.
LEMMA CacheShapeInductive == CacheShape /\ [CacheNext]_cacheVars => CacheShape'
<1> SUFFICES ASSUME CacheShape, [CacheNext]_cacheVars PROVE CacheShape'
  OBVIOUS
<1> USE DEF CacheShape
<1>1. CASE ExtractedQuery
  BY <1>1 DEF ExtractedQuery, CacheTypeOK, HeadersTypeOK, RunsInOrder
<1>9. CASE Rejected
  BY <1>9 DEF Rejected, CacheTypeOK, HeadersTypeOK, RunsInOrder, resolveVars
<1>10. CASE RequestCancelled
  BY <1>10 DEF RequestCancelled, CacheTypeOK, HeadersTypeOK, RunsInOrder, resolveVars
<1>2. ASSUME NEW f \in Fields, StartField(f) PROVE CacheShape'
  <2>1. kind[f] \in FieldKinds
    BY FieldsAssumption DEF CacheTypeOK
  <2>2. control' \in Controls
    BY <1>2, <2>1, NarrowNarrows DEF StartField, CacheTypeOK, Controls
  <2>3. recorder' \in BOOLEAN
    BY <1>2, <2>1 DEF StartField, CacheTypeOK, FieldKinds
  <2>4. /\ UNCHANGED <<request, kind, status, recorded, stage, failed, data, headers>>
        /\ resolving' = [resolving EXCEPT ![f] = "running"]
        /\ resolving[f] = "new"
    BY <1>2 DEF StartField
  <2>7. stage # "query"
    <3>1. ASSUME stage = "query" PROVE FALSE
      BY <1>2, <3>1, FieldsAssumption DEF StartField, RunsInOrder, CacheTypeOK
    <3> QED BY <3>1
  <2>8. recording' \in {recording, recording \cup {f}} /\ (recorder' \/ recording' = {})
    <3>1. CASE recorder'
      BY <1>2, <3>1 DEF StartField
    <3>2. CASE ~recorder'
      BY <1>2, <3>2 DEF StartField, RunsInOrder
    <3> QED BY <3>1, <3>2
  <2>5. CacheTypeOK'
    BY <2>2, <2>3, <2>4, <2>8 DEF CacheTypeOK, Controls
  <2>6. HeadersTypeOK' /\ RunsInOrder'
    BY <2>4, <2>7, <2>8 DEF HeadersTypeOK, RunsInOrder, CacheTypeOK
  <2> QED BY <2>5, <2>6
<1>3. ASSUME NEW f \in Fields, EndField(f) PROVE CacheShape'
  BY <1>3 DEF EndField, CacheTypeOK, HeadersTypeOK, RunsInOrder
<1>4. CASE RunEnds
  BY <1>4 DEF RunEnds, CacheTypeOK, HeadersTypeOK, RunsInOrder, resolveVars
<1>5. CASE GraphqlError
  <2>1. control' \in Controls
    <3>1. \/ control' = control
          \/ control' = [control EXCEPT !.age = Short]
          \/ control' = [control EXCEPT !.noCache = TRUE]
      BY <1>5 DEF GraphqlError
    <3> QED BY <3>1, FieldsAssumption DEF CacheTypeOK, Controls
  <2>2. CacheTypeOK' /\ HeadersTypeOK' /\ RunsInOrder'
    <3>1. /\ status' \in {"success", "error"} /\ stage = "errors" /\ stage' = "respond"
          /\ UNCHANGED <<request, kind, resolving, recorder, recording, recorded, failed, data,
                         headers>>
      BY <1>5 DEF GraphqlError, CacheTypeOK
    <3> QED BY <3>1, <2>1 DEF CacheTypeOK, Controls, HeadersTypeOK, RunsInOrder
  <2> QED BY <2>2
<1>6. CASE Respond
  <2> DEFINE cacheable == ~control.noCache /\ request.production /\ ~request.hidden
             private == control.scope = "private" \/ request.privateRoute
             vary == CASE control.scope = "private" -> {"segment", "session"}
                       [] control.scope = "segment" -> {"segment"}
                       [] OTHER -> {}
  <2>0. /\ headers' = [headers EXCEPT !.cacheable = cacheable, !.age = control.age,
                                      !.private = private, !.vary = vary]
        /\ cacheable \in BOOLEAN /\ private \in BOOLEAN
        /\ vary \in SUBSET {"segment", "session"} /\ control.age \in Nat
    <3>1. /\ control.age \in Nat /\ control.noCache \in BOOLEAN
          /\ request.production \in BOOLEAN /\ request.hidden \in BOOLEAN
          /\ request.privateRoute \in BOOLEAN
      BY FieldsAssumption DEF CacheTypeOK, Requests
    <3>2. headers' = [headers EXCEPT !.cacheable = cacheable, !.age = control.age,
                                     !.private = private, !.vary = vary]
      BY <1>6 DEF Respond
    <3>3. vary \in SUBSET {"segment", "session"}
      OBVIOUS
    <3> QED BY <3>1, <3>2, <3>3
  <2> HIDE DEF cacheable, private, vary
  <2>1. HeadersTypeOK'
    BY <2>0 DEF HeadersTypeOK
  <2>2. CacheTypeOK' /\ RunsInOrder'
    BY <1>6, <2>1 DEF Respond, CacheTypeOK, HeadersTypeOK, RunsInOrder
  <2> QED BY <2>1, <2>2
<1>7. CASE Flush
  BY <1>7 DEF Flush, CacheTypeOK, HeadersTypeOK, RunsInOrder, resolveVars
<1>8. CASE UNCHANGED cacheVars
  BY <1>8 DEF cacheVars, CacheTypeOK, HeadersTypeOK, RunsInOrder
<1> QED BY <1>1, <1>2, <1>3, <1>4, <1>5, <1>6, <1>7, <1>8, <1>9, <1>10 DEF CacheNext

\* Directives, errors and late resolvers narrow what the response allows, or leave it.
LEMMA CacheInvInductive == CacheInv /\ [CacheNext]_cacheVars => CacheInv'
<1> SUFFICES ASSUME CacheInv, [CacheNext]_cacheVars
             PROVE  FieldsNarrow' /\ ErrorsNarrow' /\ CacheableAsDeclared'
  BY CacheShapeInductive DEF CacheInv
<1> USE DEF CacheInv, CacheShape
<1>0. \A f \in Fields : kind[f] \in FieldKinds
  BY FieldsAssumption DEF CacheTypeOK
<1>1. CASE ExtractedQuery \/ Rejected \/ RequestCancelled
  BY <1>1 DEF ExtractedQuery, Rejected, RequestCancelled, RunsInOrder, resolveVars,
     FieldsNarrow, ErrorsNarrow, CacheableAsDeclared
<1>2. ASSUME NEW f \in Fields, StartField(f)
      PROVE  FieldsNarrow' /\ ErrorsNarrow' /\ CacheableAsDeclared'
  <2>1. /\ control' = Narrow(control, kind[f])
        /\ control' \in Controls
        /\ control'.noCache = control.noCache
        /\ control'.age <= control.age /\ control'.age <= kind[f].age
        /\ kind[f].scope = "private" \/ control.scope = "private" => control'.scope = "private"
        /\ kind[f].scope = "segment" \/ control.scope # "public" => control'.scope # "public"
    BY <1>2, <1>0, NarrowNarrows DEF StartField, CacheTypeOK, Controls
  <2>2. /\ UNCHANGED <<request, kind, failed, stage, headers, data>>
        /\ \A g \in Fields : g # f => resolving'[g] = resolving[g]
    BY <1>2 DEF StartField, CacheTypeOK
  <2>3. FieldsNarrow'
    <3> SUFFICES ASSUME NEW g \in Fields, resolving'[g] # "new"
                 PROVE  /\ ~failed => control'.age <= kind[g].age
                        /\ kind[g].scope = "private" => control'.scope = "private"
                        /\ kind[g].scope = "segment" => control'.scope # "public"
      BY <2>2 DEF FieldsNarrow
    <3>1. CASE g = f
      BY <3>1, <2>1
    <3>2. CASE g # f
      <4>1. /\ control.age \in Nat /\ control'.age \in Nat /\ kind[g].age \in Nat
            /\ resolving[g] # "new"
        BY <3>2, <2>1, <2>2, <1>0, FieldsAssumption DEF CacheTypeOK, FieldKinds, Controls
      <4> QED BY <4>1, <2>1 DEF FieldsNarrow
    <3> QED BY <3>1, <3>2
  <2>4. ErrorsNarrow' /\ CacheableAsDeclared'
    <3>1. control.age \in Nat /\ control'.age \in Nat /\ Short \in Nat
      BY <2>1, FieldsAssumption DEF CacheTypeOK, Controls
    <3>2. ErrorsNarrow'
      BY <3>1, <2>1, <2>2 DEF ErrorsNarrow
    <3> QED BY <3>2, <2>2 DEF CacheableAsDeclared
  <2> QED BY <2>3, <2>4
<1>3. ASSUME NEW f \in Fields, EndField(f)
      PROVE  FieldsNarrow' /\ ErrorsNarrow' /\ CacheableAsDeclared'
  <2>1. /\ UNCHANGED <<request, kind, control, failed, stage, headers, data>>
        /\ \A g \in Fields : resolving'[g] # "new" => resolving[g] # "new"
    BY <1>3 DEF EndField, CacheTypeOK
  <2> QED BY <2>1 DEF FieldsNarrow, ErrorsNarrow, CacheableAsDeclared
<1>4. CASE RunEnds
  BY <1>4 DEF RunEnds, resolveVars, CacheTypeOK, RunsInOrder, FieldsNarrow, ErrorsNarrow,
     CacheableAsDeclared
<1>5. CASE GraphqlError
  <2>1. FieldsNarrow'
    BY <1>5 DEF GraphqlError, FieldsNarrow, CacheTypeOK
  <2>2. ErrorsNarrow'
    BY <1>5, FieldsAssumption DEF GraphqlError, ErrorsNarrow, CacheTypeOK
  <2>3. CacheableAsDeclared'
    BY <1>5 DEF GraphqlError, CacheableAsDeclared
  <2> QED BY <2>1, <2>2, <2>3
<1>6. CASE Respond
  <2>1. FieldsNarrow' /\ ErrorsNarrow'
    BY <1>6 DEF Respond, FieldsNarrow, ErrorsNarrow
  <2>2. /\ headers'.cacheable = (~control.noCache /\ request.production /\ ~request.hidden)
        /\ headers'.age = control.age
        /\ headers'.private = (control.scope = "private" \/ request.privateRoute)
        /\ control.scope = "private" => headers'.vary = {"segment", "session"}
        /\ control.scope = "segment" => headers'.vary = {"segment"}
    BY <1>6 DEF Respond, HeadersTypeOK
  <2>3. \A f \in data : f \in Fields /\ resolving[f] # "new"
    BY DEF RunsInOrder, CacheTypeOK
  <2>4. UNCHANGED <<request, kind, control, failed, data>> /\ stage = "respond"
    BY <1>6 DEF Respond
  <2>5. control.scope \in {"public", "segment", "private"}
    BY DEF CacheTypeOK, Scopes
  <2>6. CacheableAsDeclared'
    <3> SUFFICES ASSUME headers'.cacheable
                 PROVE  /\ failed => headers'.age <= Short
                        /\ \A f \in data :
                              /\ ~failed => headers'.age <= kind[f].age
                              /\ kind[f].scope = "private" =>
                                    headers'.private /\ headers'.vary = {"segment", "session"}
                              /\ kind[f].scope = "segment" => "segment" \in headers'.vary
      BY <2>4 DEF CacheableAsDeclared
    <3>1. failed => headers'.age <= Short
      BY <2>2, <2>4 DEF ErrorsNarrow
    <3> QED BY <3>1, <2>2, <2>3, <2>5 DEF FieldsNarrow
  <2> QED BY <2>1, <2>6
<1>7. CASE Flush
  <2>1. /\ headers'.cacheable = headers.cacheable /\ headers'.age = headers.age
        /\ headers'.private = headers.private /\ headers'.vary = headers.vary
    BY <1>7 DEF Flush, HeadersTypeOK
  <2> QED BY <1>7, <2>1 DEF Flush, resolveVars, FieldsNarrow, ErrorsNarrow, CacheableAsDeclared
<1>8. CASE UNCHANGED cacheVars
  BY <1>8 DEF cacheVars, FieldsNarrow, ErrorsNarrow, CacheableAsDeclared
<1> QED BY <1>1, <1>2, <1>3, <1>4, <1>5, <1>6, <1>7, <1>8 DEF CacheNext

\* Once a response has failed its status says so, but for resolvers that end late.
LEMMA TagsInvInductive == TagsInv /\ [CacheNext]_cacheVars => TagsInv'
<1> SUFFICES ASSUME TagsInv, [CacheNext]_cacheVars PROVE ErrorsKnown' /\ ErrorsUntagged'
  BY CacheShapeInductive DEF TagsInv
<1> USE DEF TagsInv, CacheShape
<1>1. CASE ExtractedQuery
  BY <1>1 DEF ExtractedQuery, ErrorsKnown, ErrorsUntagged
<1>2. CASE Rejected
  BY <1>2 DEF Rejected, ErrorsKnown, ErrorsUntagged
<1>3. CASE RequestCancelled
  BY <1>3 DEF RequestCancelled, RunsInOrder, ErrorsKnown, ErrorsUntagged
<1>4. ASSUME NEW f \in Fields, StartField(f) PROVE ErrorsKnown' /\ ErrorsUntagged'
  <2>1. /\ UNCHANGED <<kind, status, recorded, stage, failed, data, headers>>
        /\ resolving[f] = "new" /\ \A g \in Fields : g # f => resolving'[g] = resolving[g]
    BY <1>4 DEF StartField, CacheTypeOK
  <2>2. LateMetric => LateMetric'
    BY <2>1 DEF LateMetric
  <2>3. stage # "flushed"
    BY <1>4, FieldsAssumption DEF StartField
  <2> QED BY <2>1, <2>2, <2>3 DEF ErrorsKnown, ErrorsUntagged
<1>5. ASSUME NEW f \in Fields, EndField(f) PROVE ErrorsKnown' /\ ErrorsUntagged'
  <2>1. /\ UNCHANGED <<kind, stage, failed, data, headers>>
        /\ resolving[f] = "running" /\ stage # "flushed"
        /\ \A g \in Fields : g # f => resolving'[g] = resolving[g]
        /\ f \notin data
    BY <1>5 DEF EndField, CacheTypeOK, RunsInOrder
  <2>2. LateMetric => LateMetric'
    BY <2>1 DEF LateMetric
  <2>3. recorded' \cap data = recorded \cap data
    BY <1>5, <2>1 DEF EndField
  <2>4. status' = "error" \/ LateMetric' \/ status' = status
    <3>1. CASE ~kind[f].metric
      BY <1>5, <3>1 DEF EndField
    <3>2. CASE kind[f].metric
      <4>1. PICK outcome \in {"resolved", "failed"} :
               /\ resolving' = [resolving EXCEPT ![f] = outcome]
               /\ status' = IF outcome = "failed" THEN "error" ELSE "success"
        BY <1>5, <3>2 DEF EndField
      <4>2. CASE outcome = "resolved"
        BY <2>1, <3>2, <4>1, <4>2 DEF LateMetric, CacheTypeOK
      <4> QED BY <4>1, <4>2
    <3> QED BY <3>1, <3>2
  <2> QED BY <2>1, <2>2, <2>3, <2>4 DEF ErrorsKnown, ErrorsUntagged
<1>6. CASE RunEnds
  BY <1>6 DEF RunEnds, ErrorsKnown, ErrorsUntagged
<1>7. CASE GraphqlError
  BY <1>7 DEF GraphqlError, ErrorsKnown, ErrorsUntagged
<1>8. CASE Respond
  <2>1. /\ UNCHANGED <<kind, resolving, status, recorder, recording, failed, data>>
        /\ stage = "respond" /\ stage' = "sent"
        /\ recorded' = IF status = "error" /\ recorder THEN {} ELSE recorded
    BY <1>8 DEF Respond
  <2>2. LateMetric => LateMetric'
    BY <2>1 DEF LateMetric
  <2>3. status = "error" => recorded' = {}
    BY <2>1 DEF CacheTypeOK, RunsInOrder
  <2> QED BY <2>1, <2>2, <2>3 DEF ErrorsKnown, ErrorsUntagged
<1>9. CASE Flush
  <2>1. /\ UNCHANGED <<kind, resolving, recorded, failed, data>>
        /\ stage = "sent" /\ stage' = "flushed"
        /\ headers'.tags = recorded
    BY <1>9 DEF Flush, resolveVars, HeadersTypeOK
  <2>2. LateMetric => LateMetric'
    BY <2>1 DEF LateMetric
  <2> QED BY <2>1, <2>2 DEF ErrorsKnown, ErrorsUntagged, LateMetric
<1>10. CASE UNCHANGED cacheVars
  BY <1>10 DEF cacheVars, ErrorsKnown, ErrorsUntagged, LateMetric
<1> QED BY <1>1, <1>2, <1>3, <1>4, <1>5, <1>6, <1>7, <1>8, <1>9, <1>10 DEF CacheNext

\* For any query of any fields: a response that may be cached allows no more than each
\* of its fields does, in whatever order directives, errors and late resolvers came.
THEOREM CachedAsDeclared == CacheSpec => []CacheableAsDeclared
<1>1. CacheInv => CacheableAsDeclared
  BY DEF CacheInv
<1> QED BY CacheInitInv, CacheInvInductive, <1>1, PTL DEF CacheSpec

\* For any query: a response with errors has no tags of the data it holds, but for a
\* field with @metric that resolved too late.
THEOREM NoTagsOfErrors == CacheSpec => []ErrorsUntagged
<1>1. TagsInv => ErrorsUntagged
  BY DEF TagsInv
<1> QED BY CacheInitInv, TagsInvInductive, <1>1, PTL DEF CacheSpec

-----------------------------------------------------------------------------

\* A cache of two layers.

LayersRanges ==
    /\ newest \in Nat /\ newest >= 1
    /\ memory \in Absent..newest /\ file \in {Absent} \cup 1..newest
    /\ seen \in 0..newest
    /\ floor \in [Getters -> Nat] /\ since \in [Getters -> Nat]
    /\ answer \in [Getters -> Int] /\ hasFile \in [Getters -> BOOLEAN]

Waiters == [call : Getters \cup Setters, writes : Int]

\* What waits for the file writes a value there has been, or reads for a get.
LockShape ==
    /\ lock \in Seq(Waiters)
    /\ \A i \in DOMAIN lock : lock[i].call \in Getters \cup Setters
    /\ \A i \in DOMAIN lock :
          /\ lock[i].writes = Absent \/ lock[i].writes \in 1..newest
          /\ lock[i].writes = Absent => lock[i].call \in Getters

\* A get that has not ended began when no more was seen, put nothing back, and fetches
\* no less than it had to return.
GetsUnderWay ==
    \A g \in Getters : getting[g] \in {"new", "disk", "fetch"} =>
        /\ g \notin putBack
        /\ getting[g] # "new" => floor[g] <= newest
        /\ getting[g] = "fetch" => 1 <= since[g] /\ floor[g] <= since[g]

LayersShape == LayersTypeOK /\ LayersRanges /\ LockShape /\ GetsUnderWay

\* Nothing has gone wrong: no file operation failed, and no get put anything back.
Orderly == ~failure /\ putBack = {}

\* Each get has at most one read waiting.
OneReadEach ==
    /\ \A i, j \in DOMAIN lock :
          lock[i].writes = Absent /\ lock[j].writes = Absent /\ lock[i].call = lock[j].call
              => i = j
    /\ \A i \in DOMAIN lock : lock[i].writes = Absent => getting[lock[i].call] = "disk"

\* Then memory has the newest, the file is written in the order of values,
MemoryNewest == Orderly => memory \in {Absent, newest}
WritesInOrder ==
    Orderly =>
        /\ \A i \in DOMAIN lock : lock[i].writes # Absent => file <= lock[i].writes
        /\ \A i, j \in DOMAIN lock :
              i < j /\ lock[i].writes # Absent /\ lock[j].writes # Absent =>
                  lock[i].writes <= lock[j].writes

\* and once anything is to be written, the file has the newest or a write of it waits.
FileCatchesUp ==
    Orderly /\ (file # Absent \/ \E i \in DOMAIN lock : lock[i].writes # Absent) =>
        \/ file = newest
        \/ \E i \in DOMAIN lock : lock[i].writes = newest

\* Whoever found the file there waits behind a write of what it had to return at
\* least, if the file has not got it.
ReadsCatchUp ==
    Orderly => \A i \in DOMAIN lock :
        lock[i].writes = Absent /\ hasFile[lock[i].call] =>
            /\ file # Absent
            /\ \/ floor[lock[i].call] <= file
               \/ \E j \in DOMAIN lock : j < i /\ floor[lock[i].call] <= lock[j].writes

LayersInv ==
    /\ LayersShape /\ OneReadEach
    /\ MemoryNewest /\ WritesInOrder /\ FileCatchesUp /\ ReadsCatchUp
    /\ AnswersDoNotGoBack

LockInv == OneReadEach /\ WritesInOrder /\ FileCatchesUp /\ ReadsCatchUp

LEMMA AppendedElements ==
    ASSUME NEW q \in Seq(Waiters), NEW w \in Waiters
    PROVE  /\ Append(q, w) \in Seq(Waiters)
           /\ DOMAIN Append(q, w) = DOMAIN q \cup {Len(q) + 1}
           /\ Append(q, w)[Len(q) + 1] = w
           /\ \A i \in DOMAIN q : i \in 1..Len(q) /\ Append(q, w)[i] = q[i]
OBVIOUS

LEMMA TailElements ==
    ASSUME NEW q \in Seq(Waiters), q # <<>>
    PROVE  /\ Tail(q) \in Seq(Waiters)
           /\ 1 \in DOMAIN q /\ Head(q) = q[1]
           /\ \A i \in DOMAIN q : i \in Nat /\ i >= 1
           /\ \A i \in DOMAIN Tail(q) : i + 1 \in DOMAIN q /\ i >= 1 /\ Tail(q)[i] = q[i + 1]
           /\ \A i \in DOMAIN q : i # 1 => i - 1 \in DOMAIN Tail(q)
OBVIOUS

LEMMA LayersInitInv == LayersInit => LayersInv
<1> SUFFICES ASSUME LayersInit PROVE LayersInv
  OBVIOUS
<1>1. LayersTypeOK
  <2>1. DOMAIN lock = {}
    BY DEF LayersInit
  <2>2. memory \in Absent..newest /\ file \in Absent..newest
    BY DEF LayersInit, Absent
  <2> QED BY <2>1, <2>2 DEF LayersInit, LayersTypeOK
<1>5. LayersRanges
  BY DEF LayersInit, LayersRanges, Absent, Undefined
<1>6. GetsUnderWay
  BY DEF LayersInit, GetsUnderWay
<1>2. lock = <<>> /\ DOMAIN lock = {}
  BY DEF LayersInit
<1>3. LockShape /\ OneReadEach /\ WritesInOrder /\ ReadsCatchUp
  BY <1>2 DEF LockShape, OneReadEach, WritesInOrder, ReadsCatchUp
<1>4. MemoryNewest /\ FileCatchesUp /\ AnswersDoNotGoBack
  BY <1>2 DEF LayersInit, MemoryNewest, FileCatchesUp, AnswersDoNotGoBack
<1> QED BY <1>1, <1>3, <1>4, <1>5, <1>6 DEF LayersInv, LayersShape

\* A read is asked for.
LEMMA ReadAppended ==
    ASSUME LayersInv, NEW g \in Getters, AskDisk(g)
    PROVE  LockShape' /\ LockInv'
<1> USE DEF LayersInv, LayersShape
<1> DEFINE w == Waiting(g, Absent)
           n == Len(lock) + 1
<1>1. w \in Waiters /\ w.call = g /\ w.writes = Absent
  BY DEF Waiting, Waiters, Absent
<1>2. /\ lock \in Seq(Waiters) /\ lock' = Append(lock, w)
      /\ getting[g] = "new" /\ getting' = [getting EXCEPT ![g] = "disk"]
      /\ floor' = [floor EXCEPT ![g] = seen]
      /\ hasFile' = [hasFile EXCEPT ![g] = file # Absent]
      /\ UNCHANGED <<memory, file, answer, newest, seen, failure, putBack>>
  BY DEF AskDisk, LockShape, Waiters
<1> HIDE DEF w
<1>3. /\ lock' \in Seq(Waiters) /\ DOMAIN lock' = DOMAIN lock \cup {n} /\ lock'[n] = w
      /\ \A i \in DOMAIN lock : i \in 1..Len(lock) /\ lock'[i] = lock[i] /\ i < n
  <2>1. Len(lock) \in Nat
    BY <1>2
  <2> QED BY <1>1, <1>2, <2>1, AppendedElements
<1> HIDE DEF n
<1>4. LockShape'
  <2>1. \A i \in DOMAIN lock' : lock'[i].writes = Absent \/ lock'[i].writes \in 1..newest
    BY <1>1, <1>2, <1>3 DEF LockShape
  <2>2. \A i \in DOMAIN lock' : lock'[i].writes = Absent => lock'[i].call \in Getters
    BY <1>1, <1>2, <1>3 DEF LockShape
  <2> QED BY <1>2, <1>3, <2>1, <2>2 DEF LockShape, Waiters
<1>5. \A i \in DOMAIN lock : lock[i].writes = Absent =>
          /\ lock[i].call # g /\ lock[i].call \in Getters
          /\ getting'[lock[i].call] = "disk"
          /\ floor'[lock[i].call] = floor[lock[i].call]
          /\ hasFile'[lock[i].call] = hasFile[lock[i].call]
  BY <1>2 DEF OneReadEach, LockShape, LayersTypeOK, LayersRanges
<1>6. OneReadEach'
  <2>1. getting'[g] = "disk"
    BY <1>2 DEF LayersTypeOK
  <2> QED BY <2>1, <1>1, <1>3, <1>5 DEF OneReadEach
<1>7. WritesInOrder'
  BY <1>1, <1>2, <1>3 DEF WritesInOrder, Orderly
<1>8. FileCatchesUp'
  BY <1>1, <1>2, <1>3 DEF FileCatchesUp, Orderly
<1>9. ReadsCatchUp'
  <2> SUFFICES ASSUME Orderly', NEW i \in DOMAIN lock', lock'[i].writes = Absent,
                      hasFile'[lock'[i].call]
               PROVE  /\ file # Absent
                      /\ \/ floor'[lock'[i].call] <= file
                         \/ \E j \in DOMAIN lock' : j < i /\ floor'[lock'[i].call] <= lock'[j].writes
    BY <1>2 DEF ReadsCatchUp
  <2>0. Orderly
    BY <1>2 DEF Orderly
  <2>1. CASE i = n
    <3>1. file # Absent /\ floor'[g] = seen /\ lock'[i].call = g
      BY <2>1, <1>1, <1>2, <1>3 DEF LayersRanges
    <3>2. \/ file = newest
          \/ \E j \in DOMAIN lock : lock[j].writes = newest
      BY <3>1, <2>0 DEF FileCatchesUp
    <3>3. seen <= newest
      BY DEF LayersRanges
    <3> QED BY <3>1, <3>2, <3>3, <2>1, <1>3
  <2>2. CASE i \in DOMAIN lock
    BY <2>0, <2>2, <1>3, <1>5 DEF ReadsCatchUp
  <2> QED BY <2>1, <2>2, <1>3
<1> QED BY <1>4, <1>6, <1>7, <1>8, <1>9 DEF LockInv

\* A write is: of the newest, if all goes in order.
LEMMA WriteAppended ==
    ASSUME LayersInv, NEW c \in Getters \cup Setters, NEW v \in Nat,
           lock' = Append(lock, Waiting(c, v)),
           newest' \in Nat, newest <= newest', 1 <= v, v <= newest',
           UNCHANGED <<file, hasFile, floor>>,
           \A g \in Getters : getting[g] = "disk" => getting'[g] = "disk",
           Orderly' => Orderly /\ v = newest'
    PROVE  LockShape' /\ LockInv'
<1> USE DEF LayersInv, LayersShape
<1> DEFINE w == Waiting(c, v)
           n == Len(lock) + 1
<1>1. w \in Waiters /\ w.call = c /\ w.writes = v /\ v # Absent
  BY DEF Waiting, Waiters, Absent
<1>2. lock \in Seq(Waiters) /\ lock' = Append(lock, w)
  BY DEF LockShape, Waiters
<1> HIDE DEF w
<1>3. /\ lock' \in Seq(Waiters) /\ DOMAIN lock' = DOMAIN lock \cup {n} /\ lock'[n] = w
      /\ \A i \in DOMAIN lock : i \in 1..Len(lock) /\ lock'[i] = lock[i] /\ i < n /\ i \in Nat
      /\ n \in Nat
  <2>1. Len(lock) \in Nat
    BY <1>2
  <2> QED BY <1>1, <1>2, <2>1, AppendedElements
<1> HIDE DEF n
<1>4. LockShape'
  <2>1. newest \in Nat
    BY DEF LayersRanges
  <2>2. \A i \in DOMAIN lock' : lock'[i].writes = Absent \/ lock'[i].writes \in 1..newest'
    BY <2>1, <1>1, <1>3 DEF LockShape
  <2>3. \A i \in DOMAIN lock' : lock'[i].writes = Absent => lock'[i].call \in Getters
    BY <1>1, <1>3 DEF LockShape
  <2> QED BY <1>3, <2>2, <2>3 DEF LockShape, Waiters
<1>5. OneReadEach'
  <2>1. \A i \in DOMAIN lock' : lock'[i].writes = Absent =>
            i \in DOMAIN lock /\ lock'[i] = lock[i] /\ lock[i].call \in Getters
    BY <1>1, <1>3 DEF LockShape
  <2>2. \A i \in DOMAIN lock' : lock'[i].writes = Absent => getting'[lock'[i].call] = "disk"
    BY <2>1 DEF OneReadEach
  <2>3. ASSUME NEW i \in DOMAIN lock', NEW j \in DOMAIN lock',
               lock'[i].writes = Absent, lock'[j].writes = Absent, lock'[i].call = lock'[j].call
        PROVE  i = j
    BY <2>1, <2>3 DEF OneReadEach
  <2> QED BY <2>2, <2>3 DEF OneReadEach
<1>6. WritesInOrder'
  <2>1. /\ newest \in Nat /\ file <= newest
        /\ \A i \in DOMAIN lock : lock[i].writes # Absent =>
              lock[i].writes \in Nat /\ lock[i].writes <= newest
    BY DEF LayersRanges, LockShape, Absent
  <2> SUFFICES ASSUME Orderly'
               PROVE  /\ \A i \in DOMAIN lock' : lock'[i].writes # Absent => file <= lock'[i].writes
                      /\ \A i, j \in DOMAIN lock' :
                            i < j /\ lock'[i].writes # Absent /\ lock'[j].writes # Absent =>
                                lock'[i].writes <= lock'[j].writes
    BY DEF WritesInOrder
  <2>2. Orderly /\ v = newest'
    OBVIOUS
  <2>3. file \in Int
    BY DEF LayersRanges, Absent
  <2>4. \A i \in DOMAIN lock' : lock'[i].writes # Absent => file <= lock'[i].writes
    BY <2>1, <2>2, <2>3, <1>1, <1>3 DEF WritesInOrder
  <2>5. ASSUME NEW i \in DOMAIN lock', NEW j \in DOMAIN lock', i < j,
               lock'[i].writes # Absent, lock'[j].writes # Absent
        PROVE  lock'[i].writes <= lock'[j].writes
    <3>1. i \in DOMAIN lock
      BY <2>5, <1>3
    <3>2. CASE j = n
      BY <3>1, <3>2, <2>1, <2>2, <2>5, <1>1, <1>3
    <3>3. CASE j \in DOMAIN lock
      BY <3>1, <3>3, <2>2, <2>5, <1>3 DEF WritesInOrder
    <3> QED BY <3>2, <3>3, <1>3
  <2> QED BY <2>4, <2>5
<1>7. FileCatchesUp'
  BY <1>1, <1>3 DEF FileCatchesUp
<1>8. ReadsCatchUp'
  BY <1>1, <1>3 DEF ReadsCatchUp
<1> QED BY <1>4, <1>5, <1>6, <1>7, <1>8 DEF LockInv

\* What waited longest is done: a read, or a write, which the file takes if all is well.
LEMMA HeadRemoved ==
    ASSUME LayersInv, lock # <<>>, lock' = Tail(lock),
           UNCHANGED <<newest, hasFile, floor>>,
           \A g \in Getters : getting[g] = "disk" /\ (lock[1].writes = Absent => g # lock[1].call)
                                  => getting'[g] = "disk",
           Orderly' => Orderly /\ file' = (IF lock[1].writes = Absent THEN file ELSE lock[1].writes)
    PROVE  LockShape' /\ LockInv'
<1> USE DEF LayersInv, LayersShape
<1>1. lock \in Seq(Waiters)
  BY DEF LockShape, Waiters
<1>2. /\ lock' \in Seq(Waiters)
      /\ 1 \in DOMAIN lock
      /\ \A i \in DOMAIN lock : i \in Nat /\ i >= 1
      /\ \A i \in DOMAIN lock' : i \in Nat /\ i + 1 \in DOMAIN lock /\ i >= 1
                                 /\ lock'[i] = lock[i + 1]
      /\ \A i \in DOMAIN lock : i # 1 => i - 1 \in DOMAIN lock' /\ lock'[i - 1] = lock[i]
  <2>1. \A i \in DOMAIN lock' : i \in Nat
    BY <1>1, TailElements
  <2>2. \A i \in DOMAIN lock : i \in Nat /\ i - 1 + 1 = i
    BY <1>1, TailElements
  <2> QED BY <1>1, <2>1, <2>2, TailElements
<1>3. LockShape'
  BY <1>2 DEF LockShape, Waiters
<1>4. \A i \in DOMAIN lock' : lock'[i].writes = Absent =>
          /\ lock'[i].call \in Getters /\ getting'[lock'[i].call] = "disk"
  <2> SUFFICES ASSUME NEW i \in DOMAIN lock', lock'[i].writes = Absent
               PROVE  lock'[i].call \in Getters /\ getting'[lock'[i].call] = "disk"
    OBVIOUS
  <2>1. /\ i + 1 \in DOMAIN lock /\ lock'[i] = lock[i + 1] /\ i + 1 # 1
        /\ lock[i + 1].writes = Absent
    BY <1>2
  <2>2. lock[i + 1].call \in Getters /\ getting[lock[i + 1].call] = "disk"
    BY <2>1 DEF OneReadEach, LockShape
  <2>3. lock[1].writes = Absent => lock[i + 1].call # lock[1].call
    BY <2>1, <1>2 DEF OneReadEach
  <2> QED BY <2>1, <2>2, <2>3
<1>5. OneReadEach'
  <2>1. ASSUME NEW i \in DOMAIN lock', NEW j \in DOMAIN lock',
               lock'[i].writes = Absent, lock'[j].writes = Absent, lock'[i].call = lock'[j].call
        PROVE  i = j
    <3>1. i + 1 = j + 1
      BY <2>1, <1>2 DEF OneReadEach
    <3> QED BY <3>1, <1>2
  <2> QED BY <2>1, <1>4 DEF OneReadEach
<1>6. \A i \in DOMAIN lock : lock[i].writes = Absent \/ lock[i].writes \in Nat
  BY DEF LockShape, LayersRanges
<1>7. Orderly' => \A i \in DOMAIN lock : i # 1 /\ lock[i].writes # Absent => file' <= lock[i].writes
  BY <1>2 DEF WritesInOrder
<1>8. WritesInOrder'
  <2>1. Orderly' => \A i \in DOMAIN lock' : lock'[i].writes # Absent => file' <= lock'[i].writes
    BY <1>2, <1>7
  <2>2. Orderly' => \A i, j \in DOMAIN lock' :
            i < j /\ lock'[i].writes # Absent /\ lock'[j].writes # Absent =>
                lock'[i].writes <= lock'[j].writes
    BY <1>2 DEF WritesInOrder
  <2> QED BY <2>1, <2>2 DEF WritesInOrder
<1>9. FileCatchesUp'
  <2> SUFFICES ASSUME Orderly', ~(\E i \in DOMAIN lock' : lock'[i].writes = newest),
                      file' # Absent \/ \E i \in DOMAIN lock' : lock'[i].writes # Absent
               PROVE  file' = newest
    BY DEF FileCatchesUp
  <2>1. file # Absent \/ \E i \in DOMAIN lock : lock[i].writes # Absent
    BY <1>2
  <2>2. file = newest \/ \E i \in DOMAIN lock : lock[i].writes = newest
    BY <2>1 DEF FileCatchesUp
  <2>3. newest # Absent
    BY DEF LayersRanges, Absent
  <2>4. CASE \E i \in DOMAIN lock : lock[i].writes = newest
    <3>1. lock[1].writes = newest
      BY <2>4, <1>2
    <3> QED BY <3>1, <2>3
  <2>5. CASE file = newest /\ lock[1].writes # Absent
    <3>1. newest <= lock[1].writes /\ lock[1].writes <= newest
      BY <2>5, <1>2 DEF WritesInOrder, LockShape
    <3> QED BY <3>1, <2>5, <1>2, <1>6 DEF LayersRanges
  <2>6. CASE file = newest /\ lock[1].writes = Absent
    BY <2>6
  <2> QED BY <2>2, <2>4, <2>5, <2>6
<1>10. ReadsCatchUp'
  <2> SUFFICES ASSUME Orderly', NEW i \in DOMAIN lock', lock'[i].writes = Absent,
                      hasFile[lock'[i].call]
               PROVE  /\ file' # Absent
                      /\ \/ floor[lock'[i].call] <= file'
                         \/ \E j \in DOMAIN lock' : j < i /\ floor[lock'[i].call] <= lock'[j].writes
    BY DEF ReadsCatchUp
  <2>1. /\ file # Absent
        /\ \/ floor[lock'[i].call] <= file
           \/ \E j \in DOMAIN lock : j < i + 1 /\ floor[lock'[i].call] <= lock[j].writes
    BY <1>2 DEF ReadsCatchUp
  <2>2. file \in Nat /\ floor[lock'[i].call] \in Nat
    BY <2>1, <1>4 DEF LayersRanges
  <2>3. file' # Absent /\ file <= file' /\ file' \in Nat
    <3>1. CASE lock[1].writes = Absent
      BY <3>1, <2>1, <2>2
    <3>2. CASE lock[1].writes # Absent
      BY <3>2, <1>2, <1>6 DEF WritesInOrder
    <3> QED BY <3>1, <3>2
  <2>4. CASE floor[lock'[i].call] <= file
    BY <2>2, <2>3, <2>4
  <2>5. ASSUME NEW j \in DOMAIN lock, j < i + 1, floor[lock'[i].call] <= lock[j].writes
        PROVE  \/ floor[lock'[i].call] <= file'
               \/ \E k \in DOMAIN lock' : k < i /\ floor[lock'[i].call] <= lock'[k].writes
    <3>1. CASE j = 1
      <4>1. lock[1].writes # Absent
        BY <2>2, <2>5, <3>1 DEF Absent
      <4> QED BY <4>1, <2>5, <3>1
    <3>2. CASE j # 1
      <4>1. j - 1 \in DOMAIN lock' /\ lock'[j - 1] = lock[j] /\ j - 1 < i
        BY <3>2, <2>5, <1>2
      <4> QED BY <4>1, <2>5
    <3> QED BY <3>1, <3>2
  <2> QED BY <2>1, <2>3, <2>4, <2>5
<1> QED BY <1>3, <1>5, <1>8, <1>9, <1>10 DEF LockInv

\* Gets, sets and file operations keep the order of what waits for the file.
LEMMA LayersInvInductive == LayersInv /\ [LayersNext]_layerVars => LayersInv'
<1> SUFFICES ASSUME LayersInv, [LayersNext]_layerVars PROVE LayersInv'
  OBVIOUS
<1> USE DEF LayersInv, LayersShape
<1>0. /\ newest \in Nat /\ newest >= 1 /\ Absent = -1 /\ Undefined = 0
      /\ seen \in Nat /\ seen <= newest
  BY DEF LayersRanges, Absent, Undefined
<1>1. ASSUME NEW g \in Getters, GetFromMemory(g) PROVE LayersInv'
  <2>1. /\ getting[g] = "new" /\ memory # Absent
        /\ getting' = [getting EXCEPT ![g] = "done"] /\ answer' = [answer EXCEPT ![g] = memory]
        /\ floor' = [floor EXCEPT ![g] = seen] /\ seen' = Later(seen, memory)
        /\ UNCHANGED <<memory, file, lock, setting, hasFile, newest, since, failure, putBack>>
    BY <1>1 DEF GetFromMemory, Returns
  <2>2. LockShape' /\ LockInv'
    <3>1. \A i \in DOMAIN lock : lock[i].writes = Absent =>
              lock[i].call # g /\ getting'[lock[i].call] = "disk"
              /\ floor'[lock[i].call] = floor[lock[i].call]
      BY <2>1 DEF OneReadEach, LockShape, LayersTypeOK, LayersRanges
    <3>2. LockShape' /\ OneReadEach' /\ WritesInOrder' /\ FileCatchesUp'
      BY <2>1, <3>1 DEF LockShape, OneReadEach, WritesInOrder, FileCatchesUp, Orderly
    <3>3. ReadsCatchUp'
      BY <2>1, <3>1 DEF ReadsCatchUp, Orderly
    <3> QED BY <3>2, <3>3 DEF LockInv
  <2>3. LayersTypeOK' /\ LayersRanges'
    BY <2>1, <1>0 DEF LayersTypeOK, LayersRanges, Later
  <2>4. MemoryNewest' /\ GetsUnderWay'
    BY <2>1, <1>0 DEF MemoryNewest, Orderly, GetsUnderWay, LayersTypeOK, LayersRanges
  <2>5. g \notin putBack /\ (Orderly => memory = newest)
    BY <2>1 DEF GetsUnderWay, MemoryNewest
  <2>6. AnswersDoNotGoBack'
    BY <2>1, <2>5, <1>0
    DEF AnswersDoNotGoBack, Orderly, Later, LayersTypeOK, LayersRanges
  <2> QED BY <2>2, <2>3, <2>4, <2>6 DEF LockInv
<1>2. ASSUME NEW g \in Getters, AskDisk(g) PROVE LayersInv'
  <2>1. /\ getting[g] = "new" /\ memory = Absent
        /\ getting' = [getting EXCEPT ![g] = "disk"]
        /\ floor' = [floor EXCEPT ![g] = seen]
        /\ hasFile' = [hasFile EXCEPT ![g] = file # Absent]
        /\ UNCHANGED <<memory, file, setting, answer, newest, since, seen, failure, putBack>>
    BY <1>2 DEF AskDisk
  <2>2. LockShape' /\ LockInv'
    BY <1>2, ReadAppended
  <2>3. LayersTypeOK' /\ LayersRanges'
    <3>1. LayersRanges'
      BY <2>1, <1>0 DEF LayersRanges, Later
    <3>2. \A i \in DOMAIN lock' : lock'[i].call \in Getters \cup Setters
      BY <2>2 DEF LockShape
    <3>3. memory' \in Absent..newest' /\ file' \in Absent..newest'
      BY <3>1, <2>1, <1>0 DEF LayersRanges, LayersTypeOK
    <3> QED BY <2>1, <1>0, <3>1, <3>2, <3>3 DEF LayersTypeOK
  <2>4. MemoryNewest' /\ GetsUnderWay'
    BY <2>1, <1>0 DEF MemoryNewest, Orderly, GetsUnderWay, LayersTypeOK, LayersRanges
  <2>5. AnswersDoNotGoBack'
    BY <2>1 DEF AnswersDoNotGoBack, LayersTypeOK, LayersRanges
  <2> QED BY <2>2, <2>3, <2>4, <2>5 DEF LockInv
<1>3. ASSUME NEW g \in Getters, Read(g) PROVE LayersInv'
  <2>1. PICK v \in {Undefined, Later(file, Undefined)} : EndOfRead(g, v)
    BY <1>3 DEF Read
  <2>2. /\ lock # <<>> /\ lock[1].call = g /\ lock[1].writes = Absent /\ lock' = Tail(lock)
        /\ 1 \in DOMAIN lock /\ getting[g] = "disk"
        /\ UNCHANGED <<file, setting, hasFile, newest, floor>>
    <3>1. lock \in Seq(Waiters) /\ lock # <<>> /\ Head(lock) = Waiting(g, Absent)
      BY <1>3 DEF Read, LockShape, Waiters
    <3>2. 1 \in DOMAIN lock /\ lock[1] = Waiting(g, Absent)
      BY <3>1, TailElements
    <3>3. lock[1].call = g /\ lock[1].writes = Absent
      BY <3>2 DEF Waiting
    <3>4. getting[g] = "disk"
      BY <3>2, <3>3 DEF OneReadEach
    <3> QED BY <1>3, <3>1, <3>2, <3>3, <3>4 DEF Read
  <2>3. v \in Nat /\ v <= newest /\ (v # Undefined => v = file)
    BY <2>1, <1>0 DEF Later, LayersRanges
  <2>4. g \notin putBack /\ floor[g] <= newest /\ floor[g] \in Nat
    BY <2>2 DEF GetsUnderWay, LayersRanges
  <2>5. CASE hasFile[g]
    <3>1. /\ memory' = v /\ getting' = [getting EXCEPT ![g] = "done"]
          /\ answer' = [answer EXCEPT ![g] = v] /\ seen' = Later(seen, v)
          /\ (~failure' <=> ~failure /\ v # Undefined) /\ failure' \in BOOLEAN
          /\ putBack' = PutBack(g, v) /\ since' = since
      BY <2>1, <2>5 DEF EndOfRead, Returns, LayersTypeOK
    <3>2. putBack' = IF v < newest THEN putBack \cup {g} ELSE putBack
      BY <3>1 DEF PutBack
    <3>3. Orderly' => Orderly /\ v = newest
      BY <3>1, <3>2, <2>3, <1>0 DEF Orderly
    <3>4. \A h \in Getters : h # g => getting'[h] = getting[h]
      BY <3>1 DEF LayersTypeOK
    <3>5. LockShape' /\ LockInv'
      BY <2>2, <3>3, <3>4, HeadRemoved
    <3>6. LayersTypeOK' /\ LayersRanges'
      BY <2>2, <2>3, <3>1, <3>2, <3>5, <1>0 DEF LayersTypeOK, LayersRanges, LockShape, Later
    <3>7. MemoryNewest' /\ GetsUnderWay'
      BY <2>2, <3>1, <3>2, <3>3 DEF MemoryNewest, GetsUnderWay, LayersTypeOK
    <3>8. Orderly /\ v # Undefined => floor[g] <= v /\ 1 <= v
      <4> SUFFICES ASSUME Orderly, v # Undefined PROVE floor[g] <= v /\ 1 <= v
        OBVIOUS
      <4>1. \/ floor[g] <= file
            \/ \E j \in DOMAIN lock : j < 1 /\ floor[g] <= lock[j].writes
        BY <2>2, <2>5 DEF ReadsCatchUp
      <4>2. \A j \in DOMAIN lock : ~(j < 1)
        BY <2>2, TailElements DEF LockShape, Waiters
      <4> QED BY <4>1, <4>2, <2>3, <1>0
    <3>9. AnswersDoNotGoBack'
      <4> SUFFICES ASSUME NEW h \in Getters, getting'[h] = "done", ~failure', putBack' \ {h} = {}
                   PROVE  answer'[h] >= Later(floor[h], 1)
        BY <2>2 DEF AnswersDoNotGoBack
      <4>1. CASE h = g
        <5>1. Orderly /\ v # Undefined
          BY <4>1, <3>1, <3>2, <2>4 DEF Orderly
        <5> QED BY <4>1, <5>1, <3>1, <3>8, <2>3, <2>4 DEF Later, LayersRanges
      <4>2. CASE h # g
        BY <4>2, <3>1, <3>2, <3>4 DEF AnswersDoNotGoBack, LayersRanges
      <4> QED BY <4>1, <4>2
    <3> QED BY <3>5, <3>6, <3>7, <3>9 DEF LockInv
  <2>6. CASE ~hasFile[g]
    <3>1. /\ getting' = [getting EXCEPT ![g] = "fetch"]
          /\ since' = [since EXCEPT ![g] = newest]
          /\ UNCHANGED <<memory, answer, seen, failure, putBack>>
      BY <2>1, <2>6 DEF EndOfRead
    <3>2. \A h \in Getters : h # g => getting'[h] = getting[h] /\ since'[h] = since[h]
      BY <3>1 DEF LayersTypeOK, LayersRanges
    <3>3. getting'[g] = "fetch" /\ since'[g] = newest
      BY <3>1 DEF LayersTypeOK, LayersRanges
    <3>4. LockShape' /\ LockInv'
      BY <2>2, <3>1, <3>2, HeadRemoved DEF Orderly
    <3>5. LayersTypeOK' /\ LayersRanges'
      BY <2>2, <3>1, <3>4, <1>0 DEF LayersTypeOK, LayersRanges, LockShape
    <3>6. MemoryNewest' /\ GetsUnderWay'
      BY <2>2, <2>4, <3>1, <3>2, <3>3, <1>0 DEF MemoryNewest, Orderly, GetsUnderWay
    <3>7. AnswersDoNotGoBack'
      BY <2>2, <3>1, <3>2, <3>3 DEF AnswersDoNotGoBack
    <3> QED BY <3>4, <3>5, <3>6, <3>7 DEF LockInv
  <2> QED BY <2>5, <2>6
<1>4. ASSUME NEW g \in Getters, Fetched(g) PROVE LayersInv'
  <2>1. PICK v \in since[g]..newest :
            /\ memory' = v /\ lock' = Append(lock, Waiting(g, v))
            /\ Returns(g, v) /\ putBack' = PutBack(g, v)
    BY <1>4 DEF Fetched
  <2>2. /\ getting[g] = "fetch" /\ g \notin putBack
        /\ since[g] \in Nat /\ 1 <= since[g] /\ floor[g] \in Nat /\ floor[g] <= since[g]
        /\ UNCHANGED <<file, setting, hasFile, newest, since, floor, failure>>
    BY <1>4 DEF Fetched, GetsUnderWay, LayersRanges
  <2>3. /\ getting' = [getting EXCEPT ![g] = "done"]
        /\ answer' = [answer EXCEPT ![g] = v] /\ seen' = Later(seen, v)
        /\ putBack' = IF v < newest THEN putBack \cup {g} ELSE putBack
    BY <2>1 DEF Returns, PutBack
  <2>4. v \in Nat /\ 1 <= v /\ v <= newest /\ floor[g] <= v
    BY <2>2, <1>0
  <2>5. Orderly' => Orderly /\ v = newest
    BY <2>2, <2>3, <2>4, <1>0 DEF Orderly
  <2>6. \A h \in Getters : h # g => getting'[h] = getting[h]
    BY <2>3 DEF LayersTypeOK
  <2>7. LockShape' /\ LockInv'
    <3>1. \A h \in Getters : getting[h] = "disk" => getting'[h] = "disk"
      BY <2>2, <2>6
    <3> QED BY <2>1, <2>2, <2>4, <2>5, <3>1, <1>0, WriteAppended
  <2>8. LayersTypeOK' /\ LayersRanges'
    <3>1. LayersRanges'
      BY <2>1, <2>2, <2>3, <2>4, <1>0 DEF LayersRanges, Later
    <3>2. \A i \in DOMAIN lock' : lock'[i].call \in Getters \cup Setters
      BY <2>7 DEF LockShape
    <3>3. memory' \in Absent..newest' /\ file' \in Absent..newest'
      BY <3>1, <2>1, <2>2, <2>3, <2>4, <1>0 DEF LayersRanges, LayersTypeOK
    <3> QED BY <2>1, <2>2, <2>3, <2>4, <1>0, <3>1, <3>2, <3>3 DEF LayersTypeOK
  <2>9. MemoryNewest' /\ GetsUnderWay'
    BY <2>1, <2>2, <2>3, <2>5 DEF MemoryNewest, GetsUnderWay, LayersTypeOK
  <2>10. AnswersDoNotGoBack'
    <3> SUFFICES ASSUME NEW h \in Getters, getting'[h] = "done", ~failure', putBack' \ {h} = {}
                 PROVE  answer'[h] >= Later(floor[h], 1)
      BY <2>2 DEF AnswersDoNotGoBack
    <3>1. CASE h = g
      BY <3>1, <2>2, <2>3, <2>4 DEF Later, LayersRanges
    <3>2. CASE h # g
      BY <3>2, <2>2, <2>3, <2>6 DEF AnswersDoNotGoBack, LayersRanges
    <3> QED BY <3>1, <3>2
  <2> QED BY <2>7, <2>8, <2>9, <2>10 DEF LockInv
<1>5. ASSUME NEW g \in Getters, FetcherFails(g) PROVE LayersInv'
  <2>1. /\ getting[g] = "fetch" /\ getting' = [getting EXCEPT ![g] = "failed"]
        /\ UNCHANGED <<memory, file, lock, setting, hasFile, answer, newest, since, seen, floor,
                       failure, putBack>>
    BY <1>5 DEF FetcherFails
  <2>2. LockShape' /\ WritesInOrder' /\ FileCatchesUp' /\ ReadsCatchUp'
    BY <2>1 DEF LockShape, WritesInOrder, FileCatchesUp, ReadsCatchUp, Orderly
  <2>3. OneReadEach'
    BY <2>1 DEF OneReadEach, LockShape, LayersTypeOK
  <2>4. LayersTypeOK' /\ LayersRanges' /\ MemoryNewest' /\ GetsUnderWay' /\ AnswersDoNotGoBack'
    BY <2>1 DEF LayersTypeOK, LayersRanges, MemoryNewest, Orderly, GetsUnderWay,
       AnswersDoNotGoBack
  <2> QED BY <2>2, <2>3, <2>4
<1>6. ASSUME NEW s \in Setters, Set(s) PROVE LayersInv'
  <2>1. /\ setting' = [setting EXCEPT ![s] = "storing"]
        /\ newest' = newest + 1 /\ memory' = newest'
        /\ lock' = Append(lock, Waiting(s, newest'))
        /\ UNCHANGED <<file, getting, hasFile, answer, since, seen, floor, failure, putBack>>
    BY <1>6 DEF Set
  <2>2. newest' \in Nat /\ newest <= newest' /\ 1 <= newest'
    BY <2>1, <1>0
  <2>3. LockShape' /\ LockInv'
    BY <2>1, <2>2, WriteAppended DEF Orderly
  <2>4. LayersTypeOK' /\ LayersRanges'
    <3>1. LayersRanges'
      BY <2>1, <2>2, <1>0 DEF LayersRanges, Later
    <3>2. \A i \in DOMAIN lock' : lock'[i].call \in Getters \cup Setters
      BY <2>3 DEF LockShape
    <3>3. memory' \in Absent..newest' /\ file' \in Absent..newest'
      BY <3>1, <2>1, <2>2, <1>0 DEF LayersRanges, LayersTypeOK
    <3> QED BY <2>1, <2>2, <1>0, <3>1, <3>2, <3>3 DEF LayersTypeOK
  <2>5. MemoryNewest' /\ GetsUnderWay' /\ AnswersDoNotGoBack'
    BY <2>1, <2>2, <1>0 DEF MemoryNewest, Orderly, GetsUnderWay, AnswersDoNotGoBack, LayersRanges
  <2> QED BY <2>3, <2>4, <2>5 DEF LockInv
<1>7. CASE Written
  <2>1. /\ lock # <<>> /\ lock' = Tail(lock) /\ Head(lock).writes # Absent
        /\ UNCHANGED <<memory, getting, hasFile, answer, newest, since, floor, putBack>>
    BY <1>7 DEF Written
  <2>2. /\ 1 \in DOMAIN lock /\ Head(lock) = lock[1]
    BY <2>1, TailElements DEF LockShape, Waiters
  <2>3. lock[1].writes # Absent /\ lock[1].writes \in 1..newest
    BY <2>1, <2>2 DEF LockShape
  <2>4. \/ file' = lock[1].writes /\ failure' = failure
        \/ file' = file /\ failure' = TRUE
    BY <1>7, <2>2 DEF Written
  <2>5. /\ seen' = seen \/ seen' = Later(seen, lock[1].writes)
        /\ setting' = setting \/ \E c \in Setters : setting' = [setting EXCEPT ![c] = "done"]
    BY <1>7, <2>2 DEF Written
  <2>6. LockShape' /\ LockInv'
    BY <2>1, <2>3, <2>4, HeadRemoved DEF Orderly
  <2>7. LayersTypeOK' /\ LayersRanges'
    <3>1. LayersRanges'
      BY <2>1, <2>3, <2>4, <2>5, <1>0 DEF LayersRanges, Later
    <3>2. setting' \in [Setters -> {"new", "storing", "done"}] /\ failure' \in BOOLEAN
      BY <2>4, <2>5 DEF LayersTypeOK
    <3>3. memory' \in Absent..newest' /\ file' \in Absent..newest'
      BY <3>1, <2>1, <1>0 DEF LayersRanges
    <3> QED BY <2>1, <2>6, <3>1, <3>2, <3>3 DEF LayersTypeOK, LockShape
  <2>8. MemoryNewest' /\ GetsUnderWay' /\ AnswersDoNotGoBack'
    BY <2>1, <2>4 DEF MemoryNewest, Orderly, GetsUnderWay, AnswersDoNotGoBack
  <2> QED BY <2>6, <2>7, <2>8 DEF LockInv
<1>8. CASE MemoryDrops
  <2>1. /\ memory' = Absent
        /\ UNCHANGED <<file, lock, getting, setting, hasFile, answer, newest, since, seen, floor,
                       failure, putBack>>
    BY <1>8 DEF MemoryDrops
  <2>2. LockShape' /\ OneReadEach' /\ WritesInOrder' /\ FileCatchesUp' /\ ReadsCatchUp'
    BY <2>1 DEF LockShape, OneReadEach, WritesInOrder, FileCatchesUp, ReadsCatchUp, Orderly
  <2>3. LayersTypeOK' /\ LayersRanges'
    BY <2>1, <1>0 DEF LayersTypeOK, LayersRanges
  <2>4. MemoryNewest' /\ GetsUnderWay' /\ AnswersDoNotGoBack'
    BY <2>1 DEF MemoryNewest, Orderly, GetsUnderWay, AnswersDoNotGoBack
  <2> QED BY <2>2, <2>3, <2>4
<1>9. CASE UNCHANGED layerVars
  BY <1>9 DEF layerVars, LayersTypeOK, LayersRanges, LockShape, GetsUnderWay, OneReadEach,
     WritesInOrder, FileCatchesUp, ReadsCatchUp, MemoryNewest, Orderly, AnswersDoNotGoBack
<1> QED BY <1>1, <1>2, <1>3, <1>4, <1>5, <1>6, <1>7, <1>8, <1>9 DEF LayersNext

\* For any number of gets and sets: a get returns no less than what any call had that
\* ended before it began, unless a file operation failed or another get put back.
THEOREM AnswersGoForward == LayersSpec => []AnswersDoNotGoBack
<1>1. LayersInv => AnswersDoNotGoBack
  BY DEF LayersInv
<1> QED BY LayersInitInv, LayersInvInductive, <1>1, PTL DEF LayersSpec

-----------------------------------------------------------------------------
(* The translations: a batch and what it is answered with.                 *)

Groups == [from : Nat, messages : Seq(Messages)]

\* answers is what Translate has after each group.
TranslateRun(answers, groups, l) ==
    /\ answers \in [0..Len(groups) -> Seq(Messages)]
    /\ answers[0] = <<>>
    /\ \A n \in 1..Len(groups) : answers[n] = answers[n - 1] \o TranslateGroup(groups[n], l)
    /\ Translate(groups, l) = answers[Len(groups)]

\* Languages are numbers, which sorting compares.
LEMMA LanguagesAreNumbers ==
  ASSUME TranslateTypeOK, NEW f \in Strings
  PROVE  /\ says[f] \in Messages
         /\ From(f) \in Nat /\ Language(f) \in Nat
<1>1. Nothing \in Messages
  BY DEF Nothing, Messages
<1>2. says[f] \in Messages
  BY <1>1, TextsAssumption DEF TranslateTypeOK
<1> QED BY <1>2, TextsAssumption DEF Messages, From, Language

\* A group of messages is answered by as many translations.
LEMMA GroupIsTranslated ==
  ASSUME TranslateTypeOK, NEW l \in Strings, NEW group \in Groups
  PROVE  /\ TranslateGroup(group, l) \in Seq(Messages)
         /\ Len(TranslateGroup(group, l)) = Len(group.messages)
         /\ \A i \in 1..Len(group.messages) :
               TranslateGroup(group, l)[i] =
                   [group.messages[i] EXCEPT !.from = group.from, !.to = Language(l),
                                             !.withDeps = says[l].withDeps]
<1>1. group.messages \in Seq(Messages) /\ group.from \in Nat
  BY DEF Groups
<1>2. Language(l) \in Nat /\ says[l].withDeps \in BOOLEAN
  BY LanguagesAreNumbers DEF Messages
<1>3. ASSUME NEW m \in Messages
      PROVE  [m EXCEPT !.from = group.from, !.to = Language(l), !.withDeps = says[l].withDeps]
                 \in Messages
  BY <1>1, <1>2 DEF Messages
<1> DEFINE N == Len(group.messages)
           Answer(m) == [m EXCEPT !.from = group.from, !.to = Language(l),
                                  !.withDeps = says[l].withDeps]
<1>4. TranslateGroup(group, l) = [i \in 1..N |-> Answer(group.messages[i])]
  BY <1>1 DEF TranslateGroup
<1>5. N \in Nat /\ \A i \in 1..N : group.messages[i] \in Messages
  BY <1>1
<1> HIDE DEF N, Answer
<1>6. \A i \in 1..N : Answer(group.messages[i]) \in Messages
  BY <1>3, <1>5 DEF Answer
<1>7. TranslateGroup(group, l) \in [1..N -> Messages]
  BY <1>4, <1>6
<1>8. TranslateGroup(group, l) \in Seq(Messages) /\ Len(TranslateGroup(group, l)) = N
  BY <1>5, <1>7
<1> QED BY <1>4, <1>8 DEF N, Answer

\* There is a list of answers after each group, and the messages app gives the last.
LEMMA TranslateRuns ==
  ASSUME TranslateTypeOK, NEW l \in Strings, NEW groups \in Seq(Groups)
  PROVE  \E answers : TranslateRun(answers, groups, l)
<1> DEFINE N == Len(groups)
           Next1(s, n) == s \o TranslateGroup(groups[n], l)
           IsRun(f) == f = [n \in 0..N |-> IF n = 0 THEN <<>> ELSE Next1(f[n - 1], n)]
           answers == CHOOSE f : IsRun(f)
           round == [n \in 1..N |-> [s \in Seq(Messages) |-> Next1(s, n)]]
<1>0. N \in Nat /\ <<>> \in Seq(Messages) /\ \A n \in 1..N : groups[n] \in Groups
  OBVIOUS
<1>1. ASSUME NEW s \in Seq(Messages), NEW n \in 1..N PROVE Next1(s, n) \in Seq(Messages)
  <2>1. TranslateGroup(groups[n], l) \in Seq(Messages)
    BY <1>0, GroupIsTranslated
  <2> QED BY <2>1, ConcatProperties
<1>2. round \in [1..N -> [Seq(Messages) -> Seq(Messages)]]
  <2> HIDE DEF Next1
  <2> QED BY <1>1
<1>3. PICK f : Loop(f, N, Seq(Messages), <<>>, round)
  <2> HIDE DEF round, N
  <2> QED BY <1>0, <1>2, LoopRuns
<1>4. ASSUME NEW n \in 1..N PROVE f[n] = Next1(f[n - 1], n)
  <2>1. n - 1 \in 0..N /\ f[n - 1] \in Seq(Messages)
    <3> HIDE DEF N
    <3> QED BY <1>0, <1>3 DEF Loop
  <2>2. round[n][f[n - 1]] = Next1(f[n - 1], n)
    <3> HIDE DEF Next1, N
    <3> QED BY <2>1
  <2> HIDE DEF N, round, Next1
  <2> QED BY <1>3, <2>2 DEF Loop
<1>5. IsRun(f)
  <2> HIDE DEF Next1, N, round
  <2> QED BY <1>0, <1>3, <1>4 DEF Loop
<1>6. IsRun(answers)
  <2> HIDE DEF IsRun
  <2> QED BY <1>5
<1>7. Translate(groups, l) = answers[N]
  BY DEF Translate
<1> HIDE DEF answers
<1>8. answers[0] = <<>> /\ \A n \in 1..N : answers[n] = Next1(answers[n - 1], n)
  <2> HIDE DEF Next1
  <2> QED BY <1>0, <1>6
<1>9. answers \in [0..N -> Seq(Messages)]
  <2> DEFINE S == {n \in 0..N : answers[n] \in Seq(Messages)}
  <2>1. 0 \in S
    <3>1. 0 \in 0..N /\ answers[0] \in Seq(Messages)
      <4> HIDE DEF N, Next1, IsRun
      <4>1. answers[0] = <<>>
        BY <1>8
      <4> QED BY <1>0, <4>1
    <3> QED BY <3>1
  <2>2. \A n \in 1..N : n - 1 \in S => n \in S
    <3> HIDE DEF Next1
    <3> QED BY <1>0, <1>1, <1>8
  <2>3. 0..N \subseteq S
    <3> HIDE DEF S, N
    <3> QED BY <1>0, <2>1, <2>2, InductionTo
  <2>4. answers = [n \in 0..N |-> answers[n]]
    <3> HIDE DEF Next1
    <3> QED BY <1>6
  <2> QED BY <2>3, <2>4
<1> QED BY <1>7, <1>8, <1>9 DEF TranslateRun

\* No groups, no answers.
LEMMA NothingToTranslate ==
  ASSUME TranslateTypeOK, NEW l \in Strings
  PROVE  Translate(<<>>, l) = <<>>
<1>0. <<>> \in Seq(Groups) /\ Len(<<>>) = 0
  OBVIOUS
<1>1. PICK answers : TranslateRun(answers, <<>>, l)
  <2> HIDE DEF Groups
  <2> QED BY <1>0, TranslateRuns
<1> QED BY <1>0, <1>1 DEF TranslateRun

\* The answers to one more group come after the others.
LEMMA OneMoreGroup ==
  ASSUME TranslateTypeOK, NEW l \in Strings, NEW groups \in Seq(Groups), NEW group \in Groups
  PROVE  /\ Translate(groups, l) \in Seq(Messages)
         /\ Translate(Append(groups, group), l) = Translate(groups, l) \o TranslateGroup(group, l)
<1> DEFINE more == Append(groups, group)
           N == Len(groups)
<1>0. /\ more \in Seq(Groups) /\ Len(more) = N + 1 /\ N \in Nat
      /\ more[N + 1] = group /\ \A n \in 1..N : more[n] = groups[n]
  BY AppendProperties
<1>1. PICK a : TranslateRun(a, groups, l)
  BY TranslateRuns
<1> HIDE DEF more
<1>2. PICK b : TranslateRun(b, more, l)
  BY <1>0, TranslateRuns
<1> HIDE DEF N
<1> DEFINE S == {n \in 0..N : a[n] = b[n]}
<1>a. /\ a[0] = <<>> /\ \A n \in 1..N : a[n] = a[n - 1] \o TranslateGroup(groups[n], l)
      /\ Translate(groups, l) = a[N] /\ a \in [0..N -> Seq(Messages)]
  BY <1>1 DEF TranslateRun, N
<1>b. /\ b[0] = <<>> /\ \A n \in 1..(N + 1) : b[n] = b[n - 1] \o TranslateGroup(more[n], l)
      /\ Translate(more, l) = b[N + 1]
  BY <1>0, <1>2 DEF TranslateRun
<1>3. 0 \in S
  BY <1>0, <1>a, <1>b
<1>4. ASSUME NEW n \in 1..N, n - 1 \in S PROVE n \in S
  <2>1. a[n - 1] = b[n - 1] /\ more[n] = groups[n] /\ n \in 1..(N + 1)
    BY <1>0, <1>4
  <2>2. a[n] = b[n]
    BY <1>a, <1>b, <2>1
  <2> QED BY <1>0, <2>2
<1>5. a[N] = b[N]
  <2>1. 0..N \subseteq S
    <3> HIDE DEF S
    <3> QED BY <1>0, <1>3, <1>4, InductionTo
  <2> QED BY <1>0, <2>1
<1>6. b[N + 1] = b[N] \o TranslateGroup(group, l)
  <2>1. N + 1 \in 1..(N + 1) /\ (N + 1) - 1 = N
    BY <1>0
  <2> QED BY <1>0, <1>b, <2>1
<1>7. Translate(groups, l) \in Seq(Messages)
  BY <1>0, <1>a
<1> QED BY <1>5, <1>6, <1>7, <1>a, <1>b DEF more

\* What a message of f is answered with.
Answer(f, l) == [says[f] EXCEPT !.from = From(f), !.to = Language(l), !.withDeps = says[l].withDeps]

\* A group g with the message of f after its others.
With(g, f) == [g EXCEPT !.messages = Append(@, says[f])]

\* One more message in a group gives one more answer at its end.
LEMMA OneMoreOfGroup ==
  ASSUME TranslateTypeOK, NEW l \in Strings, NEW f \in Strings,
         NEW group \in Groups, group.from = From(f)
  PROVE  /\ With(group, f) \in Groups /\ Answer(f, l) \in Messages
         /\ TranslateGroup(With(group, f), l) = TranslateGroup(group, l) \o <<Answer(f, l)>>
<1> DEFINE N == Len(group.messages)
           more == With(group, f)
<1>1. /\ says[f] \in Messages /\ From(f) \in Nat /\ Language(l) \in Nat
      /\ says[l] \in Messages
  BY LanguagesAreNumbers
<1>2. group.messages \in Seq(Messages) /\ group.from \in Nat
  BY DEF Groups
<1>3. /\ Append(group.messages, says[f]) \in Seq(Messages)
      /\ Len(Append(group.messages, says[f])) = N + 1 /\ N \in Nat
      /\ Append(group.messages, says[f])[N + 1] = says[f]
      /\ \A i \in 1..N : Append(group.messages, says[f])[i] = group.messages[i]
  BY <1>1, <1>2, AppendProperties
<1>4. more = [from |-> group.from, messages |-> Append(group.messages, says[f])]
  BY DEF With, Groups
<1>5. more \in Groups
  BY <1>2, <1>3, <1>4 DEF Groups
<1>6. Answer(f, l) \in Messages
  BY <1>1 DEF Answer, Messages
<1> DEFINE s == TranslateGroup(more, l)
           t == TranslateGroup(group, l)
<1> HIDE DEF more
<1>7. /\ t \in Seq(Messages) /\ Len(t) = N
      /\ \A i \in 1..N : t[i] = [group.messages[i] EXCEPT !.from = group.from,
                                    !.to = Language(l), !.withDeps = says[l].withDeps]
  BY GroupIsTranslated
<1>8. /\ s \in Seq(Messages) /\ Len(s) = N + 1
      /\ \A i \in 1..(N + 1) : s[i] = [more.messages[i] EXCEPT !.from = group.from,
                                    !.to = Language(l), !.withDeps = says[l].withDeps]
  <2>1. more.messages = Append(group.messages, says[f]) /\ more.from = group.from
    BY <1>4
  <2>2. /\ TranslateGroup(more, l) \in Seq(Messages)
        /\ Len(TranslateGroup(more, l)) = Len(more.messages)
        /\ \A i \in 1..Len(more.messages) :
              TranslateGroup(more, l)[i] = [more.messages[i] EXCEPT !.from = more.from,
                                    !.to = Language(l), !.withDeps = says[l].withDeps]
    BY <1>5, GroupIsTranslated
  <2> QED BY <1>3, <2>1, <2>2
<1>9. /\ <<Answer(f, l)>> \in Seq(Messages) /\ Len(<<Answer(f, l)>>) = 1
      /\ <<Answer(f, l)>>[1] = Answer(f, l)
  BY <1>6
<1> HIDE DEF s, t
<1> DEFINE u == t \o <<Answer(f, l)>>
<1>10. /\ u \in Seq(Messages) /\ Len(u) = N + 1 /\ u[N + 1] = Answer(f, l)
       /\ \A i \in 1..N : u[i] = t[i]
  <2> HIDE DEF N
  <2>1. t \in Seq(Messages) /\ Answer(f, l) \in Messages
    BY <1>6, <1>7
  <2>2. /\ u \in Seq(Messages) /\ Len(u) = Len(t) + 1 /\ u[Len(t) + 1] = Answer(f, l)
        /\ \A i \in 1..Len(t) : u[i] = t[i]
    BY <2>1, OneAfter
  <2> HIDE DEF u
  <2> QED BY <1>7, <2>2
<1>11. s[N + 1] = Answer(f, l)
  <2>1. N + 1 \in 1..(N + 1) /\ more.messages[N + 1] = says[f]
    BY <1>3, <1>4
  <2> HIDE DEF N
  <2> QED BY <1>8, <2>1 DEF Answer
<1>12. ASSUME NEW i \in 1..N PROVE s[i] = t[i]
  <2>1. i \in 1..(N + 1) /\ more.messages[i] = group.messages[i]
    BY <1>3, <1>4
  <2> HIDE DEF N
  <2> QED BY <1>7, <1>8, <2>1
<1>13. s = u
  <2> HIDE DEF N, u
  <2>1. \A i \in 1..(N + 1) : s[i] = u[i]
    BY <1>3, <1>10, <1>11, <1>12
  <2> QED BY <1>8, <1>10, <2>1, SeqEqual
<1> QED BY <1>5, <1>6, <1>13 DEF s, t, u, more

\* The groups with the message of f in the last one, or in a new one.
InLast(groups, f) == [groups EXCEPT ![Len(groups)].messages = Append(@, says[f])]
NewGroup(f) == [from |-> From(f), messages |-> <<says[f]>>]

\* So it does in the last of several groups.
LEMMA OneMoreInLast ==
  ASSUME TranslateTypeOK, NEW l \in Strings, NEW f \in Strings,
         NEW groups \in Seq(Groups), groups # <<>>, groups[Len(groups)].from = From(f)
  PROVE  /\ InLast(groups, f) \in Seq(Groups)
         /\ Translate(InLast(groups, f), l) = Translate(groups, l) \o <<Answer(f, l)>>
<1>1. PICK front \in Seq(Groups), group \in Groups : groups = Append(front, group)
  BY SequenceEmptyOrAppend
<1> DEFINE N == Len(front)
           more == Append(front, With(group, f))
<1>2. /\ N \in Nat /\ Len(groups) = N + 1 /\ groups[N + 1] = group
      /\ \A i \in 1..N : groups[i] = front[i]
  BY <1>1, AppendProperties
<1>3. group.from = From(f)
  <2> HIDE DEF N
  <2> QED BY <1>2
<1>4. /\ With(group, f) \in Groups /\ Answer(f, l) \in Messages
      /\ TranslateGroup(With(group, f), l) = TranslateGroup(group, l) \o <<Answer(f, l)>>
  BY <1>3, OneMoreOfGroup
<1>5. /\ more \in Seq(Groups) /\ Len(more) = N + 1 /\ more[N + 1] = With(group, f)
      /\ \A i \in 1..N : more[i] = front[i]
  BY <1>4, AppendProperties
<1>6. InLast(groups, f) = more
  <2>1. groups \in [1..(N + 1) -> Groups] /\ N + 1 \in 1..(N + 1)
    BY <1>2
  <2>2. InLast(groups, f) = [groups EXCEPT ![N + 1] = With(group, f)]
    <3> HIDE DEF N
    <3> QED BY <1>2, <2>1 DEF InLast, With
  <2>3. /\ InLast(groups, f) \in Seq(Groups) /\ Len(InLast(groups, f)) = N + 1
        /\ \A j \in 1..(N + 1) : InLast(groups, f)[j] =
               IF j = N + 1 THEN With(group, f) ELSE groups[j]
    <3> HIDE DEF N
    <3> QED BY <1>2, <1>4, <2>1, <2>2, ExceptSeq
  <2> HIDE DEF more
  <2>4. ASSUME NEW j \in 1..(N + 1) PROVE InLast(groups, f)[j] = more[j]
    <3> HIDE DEF N
    <3>1. CASE j = N + 1
      BY <1>5, <2>3, <3>1
    <3>2. CASE j # N + 1
      <4>1. j \in 1..N
        BY <1>2, <3>2
      <4> QED BY <1>2, <1>5, <2>3, <3>2, <4>1
    <3> QED BY <3>1, <3>2
  <2> HIDE DEF N
  <2>5. InLast(groups, f) \in Seq(Groups) /\ more \in Seq(Groups)
    BY <1>5, <2>3
  <2>6. /\ Len(InLast(groups, f)) = Len(more)
        /\ \A j \in 1..Len(InLast(groups, f)) : InLast(groups, f)[j] = more[j]
    BY <1>5, <2>3, <2>4
  <2> QED BY <2>5, <2>6, SeqEqual
<1>7. /\ Translate(front, l) \in Seq(Messages)
      /\ Translate(groups, l) = Translate(front, l) \o TranslateGroup(group, l)
  BY <1>1, OneMoreGroup
<1>8. Translate(more, l) = Translate(front, l) \o (TranslateGroup(group, l) \o <<Answer(f, l)>>)
  BY <1>4, OneMoreGroup
<1>9. TranslateGroup(group, l) \in Seq(Messages) /\ <<Answer(f, l)>> \in Seq(Messages)
  <2>1. TranslateGroup(group, l) \in Seq(Messages)
    BY GroupIsTranslated
  <2>2. <<Answer(f, l)>> \in Seq(Messages)
    BY <1>4
  <2> QED BY <2>1, <2>2
<1>10. Translate(more, l) = Translate(groups, l) \o <<Answer(f, l)>>
  BY <1>7, <1>8, <1>9, ConcatAssociative
<1> QED BY <1>5, <1>6, <1>10

\* A message in a group of its own also gives one more answer, at the end.
LEMMA OneMoreNewGroup ==
  ASSUME TranslateTypeOK, NEW l \in Strings, NEW f \in Strings, NEW groups \in Seq(Groups)
  PROVE  /\ Append(groups, NewGroup(f)) \in Seq(Groups)
         /\ Translate(Append(groups, NewGroup(f)), l) = Translate(groups, l) \o <<Answer(f, l)>>
<1> DEFINE empty == [from |-> From(f), messages |-> <<>>]
<1>1. empty \in Groups /\ empty.from = From(f) /\ empty.messages = <<>>
  <2>1. <<>> \in Seq(Messages) /\ From(f) \in Nat
    BY LanguagesAreNumbers
  <2> QED BY <2>1 DEF Groups
<1>2. says[f] \in Messages
  BY LanguagesAreNumbers
<1>3. NewGroup(f) = With(empty, f)
  <2>1. <<says[f]>> = Append(<<>>, says[f])
    OBVIOUS
  <2> QED BY <2>1 DEF NewGroup, With
<1> HIDE DEF empty
<1>4. /\ NewGroup(f) \in Groups /\ Answer(f, l) \in Messages
      /\ TranslateGroup(NewGroup(f), l) = TranslateGroup(empty, l) \o <<Answer(f, l)>>
  BY <1>1, <1>3, OneMoreOfGroup
<1>5. TranslateGroup(empty, l) = <<>>
  <2>1. TranslateGroup(empty, l) \in Seq(Messages) /\ Len(TranslateGroup(empty, l)) = Len(<<>>)
    BY <1>1, GroupIsTranslated
  <2> QED BY <2>1, EmptySeq
<1>6. <<Answer(f, l)>> \in Seq(Messages)
  BY <1>4
<1>7. TranslateGroup(NewGroup(f), l) = <<Answer(f, l)>>
  BY <1>4, <1>5, <1>6, ConcatEmptySeq
<1> QED BY <1>4, <1>7, OneMoreGroup, AppendProperties

\* groups is what IndexByFrom has after each field.
IndexRun(groups, fields) ==
    /\ groups \in [0..Len(fields) -> Seq(Groups)]
    /\ groups[0] = <<>>
    /\ \A n \in 1..Len(fields) :
           LET f == fields[n]  before == groups[n - 1] IN
           groups[n] = IF Len(before) # 0 /\ before[Len(before)].from = From(f)
                       THEN InLast(before, f) ELSE Append(before, NewGroup(f))
    /\ IndexByFrom(fields) = groups[Len(fields)]

\* There is a list of groups after each field, and indexMessagesByFrom gives the last.
LEMMA IndexRuns ==
  ASSUME TranslateTypeOK, NEW fields \in Seq(Strings)
  PROVE  \E groups : IndexRun(groups, fields)
<1> DEFINE N == Len(fields)
           Next1(s, n) == IF Len(s) # 0 /\ s[Len(s)].from = From(fields[n])
                          THEN [s EXCEPT ![Len(s)].messages = Append(@, says[fields[n]])]
                          ELSE Append(s, [from |-> From(fields[n]), messages |-> <<says[fields[n]]>>])
           IsRun(f) == f = [n \in 0..N |-> IF n = 0 THEN <<>> ELSE Next1(f[n - 1], n)]
           groups == CHOOSE f : IsRun(f)
           round == [n \in 1..N |-> [s \in Seq(Groups) |-> Next1(s, n)]]
<1>0. N \in Nat /\ <<>> \in Seq(Groups) /\ \A n \in 1..N : fields[n] \in Strings
  OBVIOUS
<1>1. ASSUME NEW s \in Seq(Groups), NEW n \in 1..N PROVE Next1(s, n) \in Seq(Groups)
  <2>0. fields[n] \in Strings
    BY <1>0
  <2>1. CASE Len(s) # 0 /\ s[Len(s)].from = From(fields[n])
    <3>1. s # <<>>
      BY <2>1, EmptySeq
    <3>2. InLast(s, fields[n]) \in Seq(Groups)
      BY <2>0, <2>1, <3>1, OneMoreInLast
    <3> QED BY <2>1, <3>2 DEF InLast
  <2>2. CASE ~(Len(s) # 0 /\ s[Len(s)].from = From(fields[n]))
    <3>1. Append(s, NewGroup(fields[n])) \in Seq(Groups)
      BY <2>0, OneMoreNewGroup
    <3>2. Next1(s, n) = Append(s, NewGroup(fields[n]))
      BY <2>2 DEF NewGroup
    <3> HIDE DEF Next1
    <3> QED BY <3>1, <3>2
  <2> QED BY <2>1, <2>2
<1>2. round \in [1..N -> [Seq(Groups) -> Seq(Groups)]]
  <2> HIDE DEF Next1
  <2> QED BY <1>1
<1>3. PICK f : Loop(f, N, Seq(Groups), <<>>, round)
  <2> HIDE DEF round, N
  <2> QED BY <1>0, <1>2, LoopRuns
<1>4. ASSUME NEW n \in 1..N PROVE f[n] = Next1(f[n - 1], n)
  <2>1. n - 1 \in 0..N /\ f[n - 1] \in Seq(Groups)
    <3> HIDE DEF N
    <3> QED BY <1>0, <1>3 DEF Loop
  <2>2. round[n][f[n - 1]] = Next1(f[n - 1], n)
    <3> HIDE DEF Next1, N
    <3> QED BY <2>1
  <2> HIDE DEF N, round, Next1
  <2> QED BY <1>3, <2>2 DEF Loop
<1>5. IsRun(f)
  <2> HIDE DEF Next1, N, round
  <2> QED BY <1>0, <1>3, <1>4 DEF Loop
<1>6. IsRun(groups)
  <2> HIDE DEF IsRun
  <2> QED BY <1>5
<1>7. IndexByFrom(fields) = groups[N]
  BY DEF IndexByFrom
<1> HIDE DEF groups
<1>8. groups[0] = <<>> /\ \A n \in 1..N : groups[n] = Next1(groups[n - 1], n)
  <2> HIDE DEF Next1
  <2> QED BY <1>0, <1>6
<1>9. groups \in [0..N -> Seq(Groups)]
  <2> DEFINE S == {n \in 0..N : groups[n] \in Seq(Groups)}
  <2>1. 0 \in S
    <3>1. 0 \in 0..N /\ groups[0] \in Seq(Groups)
      <4> HIDE DEF N, Next1, IsRun
      <4>1. groups[0] = <<>>
        BY <1>8
      <4> QED BY <1>0, <4>1
    <3> QED BY <3>1
  <2>2. \A n \in 1..N : n - 1 \in S => n \in S
    <3> HIDE DEF Next1
    <3> QED BY <1>0, <1>1, <1>8
  <2>3. 0..N \subseteq S
    <3> HIDE DEF S, N
    <3> QED BY <1>0, <2>1, <2>2, InductionTo
  <2>4. groups = [n \in 0..N |-> groups[n]]
    <3> HIDE DEF Next1
    <3> QED BY <1>6
  <2> QED BY <2>3, <2>4
<1> QED BY <1>7, <1>8, <1>9 DEF IndexRun, InLast, NewGroup

\* The messages of the groups are those of the fields, and in their order: the n-th
\* answer is that of the n-th field.
LEMMA AnswersAreInOrder ==
  ASSUME TranslateTypeOK, NEW fields \in Seq(Strings), NEW l \in Strings
  PROVE  /\ Len(Translate(IndexByFrom(fields), l)) = Len(fields)
         /\ \A i \in 1..Len(fields) :
                Translate(IndexByFrom(fields), l)[i] = Answer(fields[i], l)
<1> DEFINE N == Len(fields)
<1>0. N \in Nat /\ \A n \in 1..N : fields[n] \in Strings
  OBVIOUS
<1>1. PICK groups : IndexRun(groups, fields)
  BY IndexRuns
<1> DEFINE T(n) == Translate(groups[n], l)
           S == {n \in 0..N : /\ T(n) \in Seq(Messages) /\ Len(T(n)) = n
                              /\ \A i \in 1..n : T(n)[i] = Answer(fields[i], l)}
<1>2. 0 \in S
  <2>1. T(0) = <<>>
    BY <1>1, NothingToTranslate DEF IndexRun
  <2>2. <<>> \in Seq(Messages) /\ Len(<<>>) = 0 /\ 0 \in 0..N
    BY <1>0
  <2>3. T(0) \in Seq(Messages) /\ Len(T(0)) = 0
    BY <2>1, <2>2
  <2>4. \A i \in 1..0 : T(0)[i] = Answer(fields[i], l)
    <3>1. 1..0 = {}
      OBVIOUS
    <3> HIDE DEF T
    <3> QED BY <3>1
  <2> HIDE DEF T, N
  <2> QED BY <2>2, <2>3, <2>4
<1>3. ASSUME NEW n \in 1..N, n - 1 \in S PROVE n \in S
  <2> DEFINE before == groups[n - 1]
             f == fields[n]
  <2>1. n - 1 \in 0..N /\ f \in Strings /\ n \in Nat
    BY <1>0
  <2>2. /\ before \in Seq(Groups)
        /\ groups[n] = IF Len(before) # 0 /\ before[Len(before)].from = From(f)
                       THEN InLast(before, f) ELSE Append(before, NewGroup(f))
    BY <1>1, <2>1 DEF IndexRun
  <2>3. /\ T(n - 1) \in Seq(Messages) /\ Len(T(n - 1)) = n - 1
        /\ \A i \in 1..(n - 1) : T(n - 1)[i] = Answer(fields[i], l)
    <3> HIDE DEF T
    <3> QED BY <1>3
  <2>4. Translate(groups[n], l) = Translate(before, l) \o <<Answer(f, l)>>
    <3> HIDE DEF f, before
    <3>1. CASE Len(before) # 0 /\ before[Len(before)].from = From(f)
      <4>1. before # <<>>
        BY <3>1, EmptySeq
      <4> QED BY <2>1, <2>2, <3>1, <4>1, OneMoreInLast
    <3>2. CASE ~(Len(before) # 0 /\ before[Len(before)].from = From(f))
      BY <2>1, <2>2, <3>2, OneMoreNewGroup
    <3> QED BY <3>1, <3>2
  <2>5. Answer(f, l) \in Messages
    <3>1. /\ says[f] \in Messages /\ From(f) \in Nat /\ Language(l) \in Nat
          /\ says[l] \in Messages
      BY <2>1, LanguagesAreNumbers
    <3> QED BY <3>1 DEF Answer, Messages
  <2> HIDE DEF f
  <2>6. /\ T(n) \in Seq(Messages) /\ Len(T(n)) = n /\ T(n)[n] = Answer(f, l)
        /\ \A i \in 1..(n - 1) : T(n)[i] = T(n - 1)[i]
    <3> DEFINE u == T(n - 1)
    <3>1. T(n) = u \o <<Answer(f, l)>>
      BY <2>4
    <3>2. /\ u \o <<Answer(f, l)>> \in Seq(Messages)
          /\ Len(u \o <<Answer(f, l)>>) = Len(u) + 1
          /\ (u \o <<Answer(f, l)>>)[Len(u) + 1] = Answer(f, l)
          /\ \A i \in 1..Len(u) : (u \o <<Answer(f, l)>>)[i] = u[i]
      <4> HIDE DEF T
      <4>1. u \in Seq(Messages)
        BY <2>3
      <4> HIDE DEF u
      <4> QED BY <2>5, <4>1, OneAfter
    <3>3. Len(u) = n - 1 /\ (n - 1) + 1 = n
      <4> HIDE DEF T
      <4> QED BY <2>1, <2>3
    <3> HIDE DEF u
    <3>4. \A i \in 1..(n - 1) : T(n)[i] = u[i]
      <4> HIDE DEF T
      <4> QED BY <3>1, <3>2, <3>3
    <3>5. T(n) \in Seq(Messages) /\ Len(T(n)) = n /\ T(n)[n] = Answer(f, l)
      <4> HIDE DEF T
      <4> QED BY <3>1, <3>2, <3>3
    <3> QED BY <3>4, <3>5 DEF u
  <2>7. ASSUME NEW i \in 1..n PROVE T(n)[i] = Answer(fields[i], l)
    <3> HIDE DEF T
    <3>1. CASE i = n
      BY <2>6, <3>1 DEF f
    <3>2. CASE i # n
      <4>1. i \in 1..(n - 1)
        BY <2>1, <3>2
      <4> QED BY <2>3, <2>6, <4>1
    <3> QED BY <3>1, <3>2
  <2> HIDE DEF T, N
  <2> QED BY <1>0, <2>6, <2>7
<1>4. N \in S
  <2> HIDE DEF S, N
  <2>1. 0..N \subseteq S
    BY <1>0, <1>2, <1>3, InductionTo
  <2> QED BY <1>0, <2>1
<1>5. IndexByFrom(fields) = groups[N]
  BY <1>1 DEF IndexRun
<1> QED BY <1>4, <1>5

\* How many of the places come before i.
Rank(fields, places, i) == Cardinality({j \in places : Precedes(fields, j, i)})

\* The order of two places is total, for it compares their languages, then their
\* contents, then themselves.
LEMMA PlacesAreOrdered ==
  ASSUME TranslateTypeOK, NEW fields \in Seq(Strings)
  PROVE  /\ \A i \in DOMAIN fields : ~Precedes(fields, i, i)
         /\ \A i, j \in DOMAIN fields : i # j => Precedes(fields, i, j) \/ Precedes(fields, j, i)
         /\ \A i, j, k \in DOMAIN fields :
                Precedes(fields, i, j) /\ Precedes(fields, j, k) => Precedes(fields, i, k)
<1>1. ASSUME NEW i \in DOMAIN fields
      PROVE  i \in Nat /\ From(fields[i]) \in Nat /\ says[fields[i]].content \in Nat
  <2>1. i \in Nat /\ fields[i] \in Strings
    OBVIOUS
  <2> QED BY <2>1, LanguagesAreNumbers DEF Messages
<1>2. ASSUME NEW i \in DOMAIN fields PROVE ~Precedes(fields, i, i)
  BY <1>1 DEF Precedes
<1>3. ASSUME NEW i \in DOMAIN fields, NEW j \in DOMAIN fields, i # j
      PROVE  Precedes(fields, i, j) \/ Precedes(fields, j, i)
  BY <1>1, <1>3 DEF Precedes
<1>4. ASSUME NEW i \in DOMAIN fields, NEW j \in DOMAIN fields, NEW k \in DOMAIN fields,
             Precedes(fields, i, j), Precedes(fields, j, k)
      PROVE  Precedes(fields, i, k)
  BY <1>1, <1>4 DEF Precedes
<1> QED BY <1>2, <1>3, <1>4

\* Each place has a rank of its own, and they are all taken.
LEMMA RanksAreTheirOwn ==
  ASSUME TranslateTypeOK, NEW fields \in Seq(Strings), NEW places \in SUBSET DOMAIN fields
  PROVE  /\ IsFiniteSet(places) /\ Cardinality(places) \in Nat
         /\ \A i \in places : Rank(fields, places, i) \in 0..(Cardinality(places) - 1)
         /\ \A i, j \in places : Rank(fields, places, i) = Rank(fields, places, j) => i = j
         /\ \A n \in 0..(Cardinality(places) - 1) : \E i \in places : Rank(fields, places, i) = n
<1> DEFINE c == Cardinality(places)
           Before(i) == {j \in places : Precedes(fields, j, i)}
           R == [i \in places |-> Cardinality(Before(i))]
<1>1. IsFiniteSet(places) /\ c \in Nat
  <2>1. Len(fields) \in Nat /\ DOMAIN fields = 1..Len(fields)
    OBVIOUS
  <2>2. IsFiniteSet(DOMAIN fields)
    BY <2>1, FS_Interval
  <2> QED BY <2>2, FS_Subset, FS_CardinalityType
<1>2. \A i \in places : i \in DOMAIN fields
  OBVIOUS
<1>3. ASSUME NEW i \in places
      PROVE  IsFiniteSet(Before(i)) /\ Cardinality(Before(i)) \in Nat /\ Cardinality(Before(i)) < c
  <2>1. Before(i) \in SUBSET places /\ i \notin Before(i)
    BY <1>2, PlacesAreOrdered
  <2>2. Before(i) # places
    BY <2>1
  <2> HIDE DEF Before
  <2> QED BY <1>1, <2>1, <2>2, FS_Subset, FS_CardinalityType
<1>4. ASSUME NEW i \in places, NEW j \in places, Precedes(fields, i, j)
      PROVE  Cardinality(Before(i)) < Cardinality(Before(j))
  <2>1. Before(i) \in SUBSET Before(j)
    BY <1>2, <1>4, PlacesAreOrdered
  <2>2. i \in Before(j) /\ i \notin Before(i)
    BY <1>2, <1>4, PlacesAreOrdered
  <2> HIDE DEF Before
  <2>3. Before(i) # Before(j)
    BY <2>2
  <2>4. Cardinality(Before(i)) <= Cardinality(Before(j))
        /\ Cardinality(Before(i)) # Cardinality(Before(j))
    BY <1>3, <2>1, <2>3, FS_Subset
  <2> QED BY <1>3, <2>4
<1>5. ASSUME NEW i \in places, NEW j \in places, R[i] = R[j] PROVE i = j
  <2> HIDE DEF Before
  <2>1. CASE Precedes(fields, i, j)
    BY <1>3, <1>4, <1>5, <2>1
  <2>2. CASE Precedes(fields, j, i)
    BY <1>3, <1>4, <1>5, <2>2
  <2> QED BY <1>2, <2>1, <2>2, PlacesAreOrdered
<1>6. R \in [places -> 0..(c - 1)]
  <2> HIDE DEF Before, c
  <2> QED BY <1>1, <1>3
<1>7. R \in Injection(places, 0..(c - 1))
  <2> HIDE DEF R, c
  <2> QED BY <1>5, <1>6 DEF Injection, IsInjective
<1>8. IsFiniteSet(0..(c - 1)) /\ Cardinality(0..(c - 1)) = c
  <2> HIDE DEF c
  <2>1. c - 1 \in Int /\ 0 \in Int
    BY <1>1
  <2> QED BY <1>1, <2>1, FS_Interval
<1>9. R \in Surjection(places, 0..(c - 1))
  <2> HIDE DEF R
  <2> QED BY <1>7, <1>8, FS_Injection
<1>10. \A n \in 0..(c - 1) : \E i \in places : R[i] = n
  <2> HIDE DEF R, c
  <2> QED BY <1>9 DEF Surjection
<1>11. \A i \in places : R[i] = Rank(fields, places, i)
  BY DEF Rank
<1> HIDE DEF R
<1> QED BY <1>1, <1>5, <1>6, <1>10, <1>11

\* Sorting moves the fields of the places about: it loses none, and adds none.
LEMMA SortingMoves ==
  ASSUME TranslateTypeOK, NEW fields \in Seq(Strings), NEW places \in SUBSET DOMAIN fields
  PROVE  /\ SortByContentAndFrom(fields, places) \in Seq(Strings)
         /\ \A i \in places : \E n \in DOMAIN SortByContentAndFrom(fields, places) :
                SortByContentAndFrom(fields, places)[n] = fields[i]
<1> DEFINE c == Cardinality(places)
           Place(n) == CHOOSE i \in places : Rank(fields, places, i) = n - 1
           sorted == SortByContentAndFrom(fields, places)
<1>1. /\ c \in Nat
      /\ \A i \in places : Rank(fields, places, i) \in 0..(c - 1)
      /\ \A i, j \in places : Rank(fields, places, i) = Rank(fields, places, j) => i = j
      /\ \A n \in 0..(c - 1) : \E i \in places : Rank(fields, places, i) = n
  BY RanksAreTheirOwn
<1>2. sorted = [n \in 1..c |-> fields[Place(n)]]
  BY DEF SortByContentAndFrom, Rank
<1> HIDE DEF sorted, c
<1>3. ASSUME NEW n \in 1..c PROVE Place(n) \in places /\ Rank(fields, places, Place(n)) = n - 1
  <2>1. n - 1 \in 0..(c - 1)
    BY <1>1
  <2>2. \E i \in places : Rank(fields, places, i) = n - 1
    BY <1>1, <2>1
  <2> QED BY <2>2
<1> HIDE DEF Place
<1>4. sorted \in Seq(Strings)
  <2>1. \A i \in places : fields[i] \in Strings
    OBVIOUS
  <2>2. sorted \in [1..c -> Strings]
    BY <1>2, <1>3, <2>1
  <2> QED BY <1>1, <2>2
<1>5. ASSUME NEW i \in places PROVE \E n \in DOMAIN sorted : sorted[n] = fields[i]
  <2> DEFINE n == Rank(fields, places, i) + 1
  <2>1. n \in 1..c /\ n - 1 = Rank(fields, places, i)
    BY <1>1
  <2> HIDE DEF n
  <2>2. Place(n) = i
    BY <1>1, <1>3, <2>1
  <2> QED BY <1>2, <2>1, <2>2
<1> QED BY <1>4, <1>5 DEF sorted

\* Each field of a batch is given its own translation.
LEMMA TranslationOfField ==
  ASSUME TranslateTypeOK, NEW l \in Strings, NEW fields \in Seq(Strings),
         NEW f \in ToSet(fields)
  PROVE  Translation(l, fields, f) = IF Original(l, f) THEN [Nothing EXCEPT !.content = says[f].content]
                                     ELSE Answer(f, l)
<1> DEFINE places == ToTranslate(l, fields)
           asked == SortByContentAndFrom(fields, places)
           answers == Translate(IndexByFrom(asked), l)
           n == CHOOSE m \in DOMAIN asked : asked[m] = f
<1>1. Translation(l, fields, f) = IF Original(l, f) THEN [Nothing EXCEPT !.content = says[f].content]
                                  ELSE answers[n]
  BY DEF Translation
<1>2. ASSUME ~Original(l, f) PROVE answers[n] = Answer(f, l)
  <2>1. PICK i \in DOMAIN fields : fields[i] = f
    BY DEF ToSet
  <2>2. i \in places /\ places \in SUBSET DOMAIN fields
    BY <1>2, <2>1 DEF ToTranslate
  <2> HIDE DEF places
  <2>3. asked \in Seq(Strings) /\ \E m \in DOMAIN asked : asked[m] = f
    BY <2>1, <2>2, SortingMoves
  <2> HIDE DEF asked
  <2>4. n \in DOMAIN asked /\ asked[n] = f
    BY <2>3
  <2> HIDE DEF n
  <2>5. n \in 1..Len(asked)
    BY <2>3, <2>4
  <2> QED BY <2>3, <2>4, <2>5, AnswersAreInOrder
<1> HIDE DEF answers, n
<1> QED BY <1>1, <1>2

-----------------------------------------------------------------------------
\* The texts are there before anything begins.
AskedFirst == \A f \in Strings : at[f] # "new" => says[f] # Nothing

\* A loader is of the directive it is kept for, and there when a field resolves.
LoadersAreTheirs ==
    /\ \A d \in {"translatableV2", "translateTo"} : loader[d] # 0 =>
          at[loader[d]] # "new" /\ Directive(loader[d]) = d
    /\ \A f \in Strings : at[f] = "resolve" => loader[Directive(f)] # 0

\* A field loads into the loader of its directive, once, and gets a promise that is
\* there, of a field with the same key.
LoadedInOne == \A f \in Strings :
    /\ at[f] \in {"new", "deps", "resolve"} => via[f] = 0
    /\ at[f] \in {"loaded", "done"} =>
          /\ via[f] # 0 /\ Directive(via[f]) = Directive(f)
          /\ via[twin[f]] = via[f] /\ Directive(twin[f]) = Directive(f)
          /\ SameKey(f, twin[f])

\* What waits at a loader, or for its answers, was loaded there.
WaitsAtItsOwn == \A l \in Strings : \A fields \in batches[l] \cup {queue[l]} :
    \A g \in ToSet(fields) : via[g] = l

TranslateInv ==
    /\ TranslateTypeOK /\ AskedFirst /\ LoadersAreTheirs /\ LoadedInOne /\ WaitsAtItsOwn
    /\ TranslationIsOwn

\* What TranslationIsOwn says of a field that is done.
OwnAnswer(f, l, reply) ==
    /\ Directive(l) = Directive(f)
    /\ reply.content = says[f].content
    /\ IF From(f) = Language(l) \/ says[f].content = 0 THEN reply.to = 0
       ELSE /\ reply.context = says[f].context /\ reply.from = From(f)
            /\ reply.to = Language(l)
            /\ \E g \in Strings : SameKey(f, g) /\ reply.behavior = says[g].behavior

\* Fields of one key are content with one reply.
LEMMA SameKeySameAnswer ==
  ASSUME NEW f \in Strings, NEW g \in Strings, NEW l, NEW reply,
         SameKey(f, g), Directive(f) = Directive(g), OwnAnswer(g, l, reply)
  PROVE  OwnAnswer(f, l, reply)
BY DEF SameKey, OwnAnswer

\* A batch answers with what is a field's own.
LEMMA BatchAnswerIsOwn ==
  ASSUME TranslateTypeOK, NEW l \in Strings, NEW fields \in Seq(Strings),
         NEW f \in ToSet(fields), Directive(l) = Directive(f)
  PROVE  /\ f \in Strings /\ Translation(l, fields, f) \in Messages
         /\ OwnAnswer(f, l, Translation(l, fields, f))
<1>1. f \in Strings
  BY DEF ToSet
<1>2. /\ says[f] \in Messages /\ From(f) \in Nat /\ Language(l) \in Nat
      /\ says[l] \in Messages
  BY <1>1, LanguagesAreNumbers
<1>3. CASE Original(l, f)
  <2>1. Translation(l, fields, f) = [Nothing EXCEPT !.content = says[f].content]
    BY <1>3, TranslationOfField
  <2>2. Translation(l, fields, f) = [content |-> says[f].content, context |-> 0, from |-> 0,
                                     behavior |-> 0, to |-> 0, withDeps |-> FALSE]
    BY <2>1 DEF Nothing
  <2>3. /\ Translation(l, fields, f) \in Messages
        /\ Translation(l, fields, f).content = says[f].content
        /\ Translation(l, fields, f).to = 0
    BY <1>2, <2>2 DEF Messages
  <2> QED BY <1>1, <1>3, <2>3 DEF Original, OwnAnswer
<1>4. CASE ~Original(l, f)
  <2>1. Translation(l, fields, f) = Answer(f, l)
    BY <1>4, TranslationOfField
  <2>2. /\ Answer(f, l) \in Messages
        /\ Answer(f, l).content = says[f].content /\ Answer(f, l).context = says[f].context
        /\ Answer(f, l).from = From(f) /\ Answer(f, l).to = Language(l)
        /\ Answer(f, l).behavior = says[f].behavior
    BY <1>2 DEF Answer, Messages
  <2>3. SameKey(f, f)
    BY DEF SameKey
  <2> QED BY <1>1, <1>4, <2>1, <2>2, <2>3 DEF Original, OwnAnswer
<1> QED BY <1>1, <1>3, <1>4

\* At the start no field has been asked for.
LEMMA TranslateInvInitially == TranslateInit => TranslateInv
<1> SUFFICES ASSUME TranslateInit PROVE TranslateInv
  OBVIOUS
<1>1. TranslateTypeOK
  <2>1. Nothing \in Messages /\ <<>> \in Seq(Strings)
    BY DEF Nothing, Messages
  <2> QED BY <2>1 DEF TranslateInit, TranslateTypeOK
<1>2. WaitsAtItsOwn
  <2>1. ToSet(<<>>) = {}
    BY DEF ToSet
  <2> QED BY <2>1 DEF TranslateInit, WaitsAtItsOwn
<1> QED BY <1>1, <1>2 DEF TranslateInit, TranslateInv, AskedFirst, LoadersAreTheirs,
                         LoadedInOne, TranslationIsOwn

\* What is said, and so the languages, do not change after the texts are there.
LEMMA AskedKeepsInv == TranslateInv /\ Asked => TranslateInv'
<1> SUFFICES ASSUME TranslateInv, Asked PROVE TranslateInv'
  OBVIOUS
<1>1. \A f \in Strings : at[f] = "new" /\ via[f] = 0
  BY DEF TranslateInv, AskedFirst, Asked, LoadedInOne
<1>2. TranslateTypeOK'
  BY DEF TranslateInv, TranslateTypeOK, Asked
<1>3. \A d \in {"translatableV2", "translateTo"} : loader[d] = 0
  BY <1>1 DEF TranslateInv, TranslateTypeOK, LoadersAreTheirs
<1>4. AskedFirst' /\ LoadersAreTheirs' /\ LoadedInOne' /\ TranslationIsOwn'
  BY <1>1, <1>3 DEF Asked, AskedFirst, LoadersAreTheirs, LoadedInOne, TranslationIsOwn
<1>5. WaitsAtItsOwn'
  BY DEF TranslateInv, Asked, WaitsAtItsOwn
<1> QED BY <1>2, <1>4, <1>5 DEF TranslateInv

\* A step that leaves the texts, and what is loaded, as they are.
LEMMA EnteringKeepsInv ==
  ASSUME TranslateInv, NEW f \in Strings, EnterField(f) \/ DependenciesArrive(f) \/ ResolverFails(f)
  PROVE  TranslateInv'
<1>0. /\ says' = says /\ via' = via /\ twin' = twin /\ queue' = queue /\ batches' = batches
      /\ result' = result
      /\ at[f] \in {"new", "deps", "resolve"} /\ says[f] # Nothing
      /\ \E s \in {"deps", "resolve", "failed"} : at' = [at EXCEPT ![f] = s]
      /\ loader' \in {loader, [loader EXCEPT ![Directive(f)] = f]}
      /\ at'[f] = "resolve" => loader'[Directive(f)] # 0
  BY TextsAssumption DEF TranslateInv, TranslateTypeOK, AskedFirst, EnterField,
     DependenciesArrive, ResolverFails, Directive
<1>1. Directive(f) \in {"translatableV2", "translateTo"} /\ f # 0
  BY TextsAssumption DEF Directive
<1>2. TranslateTypeOK'
  BY <1>0, <1>1 DEF TranslateInv, TranslateTypeOK
<1>3. \A g \in Strings : /\ g # f => at'[g] = at[g]
                         /\ at'[f] \in {"deps", "resolve", "failed"}
  BY <1>0 DEF TranslateInv, TranslateTypeOK
<1>4. \A g : Directive(g)' = Directive(g) /\ Language(g)' = Language(g) /\ From(g)' = From(g)
  BY <1>0 DEF Directive, Language, From
<1>5. \A g, h : SameKey(g, h)' = SameKey(g, h)
  BY <1>0, <1>4 DEF SameKey
<1>6. AskedFirst'
  BY <1>0, <1>3 DEF TranslateInv, AskedFirst
<1>7. LoadersAreTheirs'
  <2>1. ASSUME NEW d \in {"translatableV2", "translateTo"}, loader'[d] # 0
        PROVE  at'[loader'[d]] # "new" /\ Directive(loader'[d]) = d
    <3>1. CASE loader'[d] = loader[d]
      <4>1. at[loader[d]] # "new" /\ Directive(loader[d]) = d /\ loader[d] \in Strings
        BY <2>1, <3>1 DEF TranslateInv, TranslateTypeOK, LoadersAreTheirs
      <4> QED BY <1>3, <3>1, <4>1
    <3>2. CASE loader'[d] # loader[d]
      <4>1. loader'[d] = f /\ d = Directive(f)
        BY <1>0, <1>1, <3>2 DEF TranslateInv, TranslateTypeOK
      <4> QED BY <1>3, <4>1
    <3> QED BY <3>1, <3>2
  <2>2. ASSUME NEW g \in Strings, at'[g] = "resolve" PROVE loader'[Directive(g)] # 0
    <3>1. CASE g = f
      BY <1>0, <2>2, <3>1
    <3>2. CASE g # f
      <4>1. loader[Directive(g)] # 0 /\ Directive(g) \in {"translatableV2", "translateTo"}
        BY <1>3, <2>2, <3>2 DEF TranslateInv, LoadersAreTheirs, Directive
      <4> QED BY <1>0, <1>1, <4>1 DEF TranslateInv, TranslateTypeOK
    <3> QED BY <3>1, <3>2
  <2> QED BY <1>0, <2>1, <2>2 DEF LoadersAreTheirs, Directive
<1>8. LoadedInOne'
  BY <1>0, <1>3, <1>4, <1>5 DEF TranslateInv, LoadedInOne
<1>9. WaitsAtItsOwn'
  BY <1>0 DEF TranslateInv, WaitsAtItsOwn
<1>10. TranslationIsOwn'
  BY <1>0, <1>3, <1>4, <1>5 DEF TranslateInv, TranslationIsOwn
<1> QED BY <1>2, <1>6, <1>7, <1>8, <1>9, <1>10 DEF TranslateInv

\* The field that loads gets a promise of its own, or one of the same key: what holds
\* of that one's answer holds of its own.
LEMMA LoadingKeepsInv ==
  ASSUME TranslateInv, NEW f \in Strings, LoadMessage(f)
  PROVE  TranslateInv'
<1> DEFINE l == loader[Directive(f)]
           cached == {g \in Strings : at[g] \in {"loaded", "done"} /\ via[g] = l /\ twin[g] = g
                                      /\ SameKey(f, g)}
<1>1. /\ at[f] = "resolve" /\ via[f] = 0 /\ says[f] # Nothing /\ f # 0
      /\ Directive(f) \in {"translatableV2", "translateTo"}
  BY TextsAssumption DEF TranslateInv, AskedFirst, LoadedInOne, LoadMessage, Directive
<1>2. l \in Strings /\ l # 0 /\ Directive(l) = Directive(f)
  BY <1>1 DEF TranslateInv, TranslateTypeOK, LoadersAreTheirs
<1>3. PICK g \in IF cached = {} THEN {f} ELSE cached :
        /\ twin' = [twin EXCEPT ![f] = g]
        /\ at' = [at EXCEPT ![f] = IF at[g] = "done" THEN "done" ELSE "loaded"]
        /\ result' = [result EXCEPT ![f] = result[g]]
  BY DEF LoadMessage
<1>4. /\ via' = [via EXCEPT ![f] = l]
      /\ queue' = IF cached = {} THEN [queue EXCEPT ![l] = Append(@, f)] ELSE queue
      /\ says' = says /\ loader' = loader /\ batches' = batches
  BY DEF LoadMessage
<1>5. /\ g \in Strings /\ SameKey(f, g)
      /\ g = f \/ (g # f /\ at[g] \in {"loaded", "done"} /\ via[g] = l)
  BY <1>1 DEF SameKey
<1>a. Directive(g) = Directive(f)
  BY <1>2, <1>5 DEF TranslateInv, LoadedInOne
<1> HIDE DEF l, cached
<1>6. TranslateTypeOK'
  <2>1. queue[l] \in Seq(Strings)
    BY <1>2 DEF TranslateInv, TranslateTypeOK
  <2>2. Append(queue[l], f) \in Seq(Strings)
    BY <2>1, AppendProperties
  <2>3. queue' \in [Strings -> Seq(Strings)]
    BY <1>2, <1>4, <2>2 DEF TranslateInv, TranslateTypeOK
  <2> QED BY <1>2, <1>3, <1>4, <1>5, <2>3 DEF TranslateInv, TranslateTypeOK
<1>7. /\ \A h \in Strings \ {f} : at'[h] = at[h] /\ twin'[h] = twin[h] /\ via'[h] = via[h]
                                  /\ result'[h] = result[h]
      /\ at'[f] = (IF at[g] = "done" THEN "done" ELSE "loaded")
      /\ twin'[f] = g /\ via'[f] = l /\ result'[f] = result[g] /\ via'[g] = l
  BY <1>3, <1>4, <1>5 DEF TranslateInv, TranslateTypeOK
<1>8. \A h : Directive(h)' = Directive(h) /\ Language(h)' = Language(h) /\ From(h)' = From(h)
  BY <1>4 DEF Directive, Language, From
<1>9. \A h, k : SameKey(h, k)' = SameKey(h, k)
  BY <1>4, <1>8 DEF SameKey
<1>10. AskedFirst'
  BY <1>1, <1>4, <1>7 DEF TranslateInv, AskedFirst
<1>11. LoadersAreTheirs'
  <2>1. ASSUME NEW d \in {"translatableV2", "translateTo"}, loader[d] # 0
        PROVE  at'[loader[d]] # "new" /\ Directive(loader[d]) = d
    <3>1. at[loader[d]] # "new" /\ Directive(loader[d]) = d /\ loader[d] \in Strings
      BY <2>1 DEF TranslateInv, TranslateTypeOK, LoadersAreTheirs
    <3> QED BY <1>7, <3>1
  <2>2. \A h \in Strings : at'[h] = "resolve" => loader[Directive(h)] # 0
    BY <1>1, <1>7 DEF TranslateInv, LoadersAreTheirs
  <2> QED BY <1>4, <2>1, <2>2 DEF LoadersAreTheirs, Directive
<1>12. LoadedInOne'
  <2>1. ASSUME NEW h \in Strings \ {f}, at[h] \in {"loaded", "done"}
        PROVE  /\ via'[h] # 0 /\ Directive(via'[h]) = Directive(h)
               /\ via'[twin'[h]] = via'[h] /\ SameKey(h, twin'[h])
               /\ Directive(twin'[h]) = Directive(h)
    <3>1. /\ via[h] # 0 /\ Directive(via[h]) = Directive(h)
          /\ via[twin[h]] = via[h] /\ SameKey(h, twin[h]) /\ twin[h] \in Strings
          /\ Directive(twin[h]) = Directive(h)
      BY <2>1 DEF TranslateInv, TranslateTypeOK, LoadedInOne
    <3>2. twin[h] # f
      BY <1>1, <3>1
    <3> QED BY <1>7, <3>1, <3>2
  <2>2. \A h \in Strings \ {f} : at[h] \in {"new", "deps", "resolve"} => via'[h] = 0
    BY <1>7 DEF TranslateInv, LoadedInOne
  <2>3. /\ via'[f] # 0 /\ Directive(via'[f]) = Directive(f)
        /\ via'[twin'[f]] = via'[f] /\ SameKey(f, twin'[f])
        /\ Directive(twin'[f]) = Directive(f) /\ at'[f] \in {"loaded", "done"}
    BY <1>2, <1>5, <1>7, <1>a
  <2>4. \A h \in Strings :
          /\ at'[h] \in {"new", "deps", "resolve"} => via'[h] = 0
          /\ at'[h] \in {"loaded", "done"} =>
                /\ via'[h] # 0 /\ Directive(via'[h]) = Directive(h)
                /\ via'[twin'[h]] = via'[h] /\ SameKey(h, twin'[h])
                /\ Directive(twin'[h]) = Directive(h)
    BY <1>7, <2>1, <2>2, <2>3
  <2> QED BY <1>4, <2>4 DEF LoadedInOne, Directive, SameKey, From
<1>13. WaitsAtItsOwn'
  <2> SUFFICES ASSUME NEW k \in Strings, NEW fields \in batches[k] \cup {queue'[k]},
                      NEW h \in ToSet(fields)
               PROVE  via'[h] = k
    BY <1>4 DEF WaitsAtItsOwn
  <2>1. CASE fields \in batches[k] \cup {queue[k]}
    <3>1. via[h] = k /\ k # 0
      BY <2>1, TextsAssumption DEF TranslateInv, WaitsAtItsOwn
    <3>2. h # f
      BY <1>1, <3>1
    <3> QED BY <1>4, <3>1, <3>2 DEF TranslateInv, TranslateTypeOK
  <2>2. CASE fields \notin batches[k] \cup {queue[k]}
    <3>1. k = l /\ fields = Append(queue[l], f)
      BY <1>4, <2>2 DEF TranslateInv, TranslateTypeOK
    <3>2. queue[l] \in Seq(Strings)
      BY <1>2 DEF TranslateInv, TranslateTypeOK
    <3>3. h \in ToSet(queue[l]) \/ h = f
      BY <3>1, <3>2, ToSetOfAppend
    <3>4. CASE h = f
      BY <1>7, <3>1, <3>4
    <3>5. CASE h # f
      <4>1. via[h] = l
        BY <1>2, <3>3, <3>5 DEF TranslateInv, WaitsAtItsOwn
      <4> QED BY <1>4, <3>1, <3>5, <4>1 DEF TranslateInv, TranslateTypeOK
    <3> QED BY <3>4, <3>5
  <2> QED BY <2>1, <2>2
<1>14. TranslationIsOwn'
  <2>1. ASSUME NEW h \in Strings \ {f}, at[h] = "done"
        PROVE  OwnAnswer(h, via'[h], result'[h])
    BY <1>7, <2>1 DEF TranslateInv, TranslationIsOwn, OwnAnswer
  <2>2. ASSUME at'[f] = "done" PROVE OwnAnswer(f, via'[f], result'[f])
    <3>1. at[g] = "done" /\ g # f /\ via[g] = l
      BY <1>1, <1>5, <1>7, <2>2
    <3>2. OwnAnswer(g, l, result[g])
      BY <1>5, <3>1 DEF TranslateInv, TranslationIsOwn, OwnAnswer
    <3>3. OwnAnswer(f, l, result[g])
      BY <1>5, <1>a, <3>2, SameKeySameAnswer
    <3> QED BY <1>7, <3>3
  <2>3. \A h \in Strings : at'[h] = "done" => OwnAnswer(h, via'[h], result'[h])
    BY <1>7, <2>1, <2>2
  <2> QED BY <1>4, <2>3 DEF TranslationIsOwn, OwnAnswer, Directive, SameKey, From, Language
<1> QED BY <1>6, <1>10, <1>11, <1>12, <1>13, <1>14 DEF TranslateInv

\* A batch is sent as it was queued.
LEMMA SendingKeepsInv ==
  ASSUME TranslateInv, NEW l \in Strings, SendBatch(l)
  PROVE  TranslateInv'
<1>1. /\ queue' = [queue EXCEPT ![l] = <<>>]
      /\ batches' = [batches EXCEPT ![l] = @ \cup {queue[l]}]
      /\ says' = says /\ at' = at /\ loader' = loader /\ via' = via /\ twin' = twin
      /\ result' = result
  BY DEF SendBatch
<1>2. TranslateTypeOK'
  <2>1. <<>> \in Seq(Strings) /\ queue[l] \in Seq(Strings)
    BY DEF TranslateInv, TranslateTypeOK
  <2> QED BY <1>1, <2>1 DEF TranslateInv, TranslateTypeOK
<1>3. AskedFirst' /\ LoadersAreTheirs' /\ LoadedInOne' /\ TranslationIsOwn'
  BY <1>1 DEF TranslateInv, AskedFirst, LoadersAreTheirs, LoadedInOne, TranslationIsOwn,
              Directive, SameKey, From, Language
<1>4. WaitsAtItsOwn'
  <2>1. ToSet(<<>>) = {}
    BY DEF ToSet
  <2>2. \A k \in Strings :
          \A fields \in batches'[k] \cup {queue'[k]} :
             fields \in batches[k] \cup {queue[k]} \/ fields = <<>>
    BY <1>1 DEF TranslateInv, TranslateTypeOK
  <2> QED BY <1>1, <2>1, <2>2 DEF TranslateInv, WaitsAtItsOwn
<1> QED BY <1>2, <1>3, <1>4 DEF TranslateInv

\* A batch that is answered gives each of its fields the answer of its own message.
LEMMA AnsweringKeepsInv ==
  ASSUME TranslateInv, NEW l \in Strings, BatchAnswers(l)
  PROVE  TranslateInv'
<1> DEFINE Served(fields) == {f \in Strings : at[f] = "loaded" /\ twin[f] \in ToSet(fields)}
<1>1. PICK fields \in batches[l], arrives \in BOOLEAN :
        /\ batches' = [batches EXCEPT ![l] = @ \ {fields}]
        /\ at' = [f \in Strings |-> IF f \notin Served(fields) THEN at[f]
                                    ELSE IF arrives THEN "done" ELSE "failed"]
        /\ result' = [f \in Strings |-> IF f \in Served(fields) /\ arrives
                                    THEN Translation(l, fields, twin[f]) ELSE result[f]]
  BY DEF BatchAnswers
<1>2. /\ says' = says /\ loader' = loader /\ via' = via /\ twin' = twin /\ queue' = queue
  BY DEF BatchAnswers
<1>3. fields \in Seq(Strings)
  BY DEF TranslateInv, TranslateTypeOK
<1>4. ASSUME NEW f \in Strings, f \in Served(fields)
      PROVE  /\ at[f] = "loaded" /\ via[f] = l
             /\ Translation(l, fields, twin[f]) \in Messages
             /\ OwnAnswer(f, l, Translation(l, fields, twin[f]))
  <2>1. at[f] = "loaded" /\ twin[f] \in ToSet(fields) /\ twin[f] \in Strings
    BY <1>4 DEF TranslateInv, TranslateTypeOK
  <2>2. via[twin[f]] = l
    BY <2>1 DEF TranslateInv, WaitsAtItsOwn
  <2>3. /\ via[f] = l /\ Directive(l) = Directive(f) /\ SameKey(f, twin[f])
        /\ Directive(twin[f]) = Directive(f)
    BY <2>1, <2>2 DEF TranslateInv, LoadedInOne
  <2>4. Directive(twin[f]) = Directive(l)
    BY <2>3
  <2>5. /\ Translation(l, fields, twin[f]) \in Messages
        /\ OwnAnswer(twin[f], l, Translation(l, fields, twin[f]))
    BY <1>3, <2>1, <2>4, BatchAnswerIsOwn DEF TranslateInv
  <2> QED BY <2>1, <2>3, <2>4, <2>5, SameKeySameAnswer
<1> HIDE DEF Served
<1>5. TranslateTypeOK'
  <2>1. batches' \in [Strings -> SUBSET Seq(Strings)]
    BY <1>1 DEF TranslateInv, TranslateTypeOK
  <2>2. at' \in [Strings -> {"new", "deps", "resolve", "loaded", "done", "failed"}]
    BY <1>1 DEF TranslateInv, TranslateTypeOK
  <2>3. result' \in [Strings -> Messages]
    BY <1>1, <1>4 DEF TranslateInv, TranslateTypeOK
  <2> QED BY <1>2, <2>1, <2>2, <2>3 DEF TranslateInv, TranslateTypeOK
<1>6. ASSUME NEW f \in Strings
      PROVE  /\ at'[f] # "new" => at[f] # "new"
             /\ at[f] # "new" => at'[f] # "new"
             /\ at'[f] \in {"new", "deps", "resolve"} => at'[f] = at[f]
             /\ at'[f] \in {"loaded", "done"} => at[f] \in {"loaded", "done"}
  BY <1>1, <1>4
<1>7. AskedFirst'
  BY <1>2, <1>6 DEF TranslateInv, AskedFirst
<1>8. LoadersAreTheirs'
  <2>1. ASSUME NEW d \in {"translatableV2", "translateTo"}, loader[d] # 0
        PROVE  at'[loader[d]] # "new" /\ Directive(loader[d]) = d
    BY <1>6, <2>1 DEF TranslateInv, TranslateTypeOK, LoadersAreTheirs
  <2>2. \A h \in Strings : at'[h] = "resolve" => loader[Directive(h)] # 0
    BY <1>6 DEF TranslateInv, LoadersAreTheirs
  <2> QED BY <1>2, <2>1, <2>2 DEF LoadersAreTheirs, Directive
<1>9. LoadedInOne'
  BY <1>2, <1>6 DEF TranslateInv, LoadedInOne, Directive, SameKey, From
<1>10. WaitsAtItsOwn'
  <2>1. \A k \in Strings : batches'[k] \subseteq batches[k]
    BY <1>1 DEF TranslateInv, TranslateTypeOK
  <2> QED BY <1>2, <2>1 DEF TranslateInv, WaitsAtItsOwn
<1>11. TranslationIsOwn'
  <2>1. ASSUME NEW f \in Strings, at'[f] = "done" PROVE OwnAnswer(f, via[f], result'[f])
    <3>1. CASE f \in Served(fields)
      <4>1. arrives
        BY <1>1, <2>1, <3>1
      <4>2. result'[f] = Translation(l, fields, twin[f])
        BY <1>1, <3>1, <4>1
      <4> QED BY <1>4, <3>1, <4>2
    <3>2. CASE f \notin Served(fields)
      <4>1. at[f] = "done" /\ result'[f] = result[f]
        BY <1>1, <2>1, <3>2
      <4> QED BY <4>1 DEF TranslateInv, TranslationIsOwn, OwnAnswer
    <3> QED BY <3>1, <3>2
  <2> QED BY <1>2, <2>1 DEF TranslationIsOwn, OwnAnswer, Directive, SameKey, From, Language
<1> QED BY <1>5, <1>7, <1>8, <1>9, <1>10, <1>11 DEF TranslateInv

\* Every step of the fields, their loaders and the batches keeps the invariant.
LEMMA TranslateInvInductive == TranslateInv /\ [TranslateNext]_translateVars => TranslateInv'
<1> SUFFICES ASSUME TranslateInv, [TranslateNext]_translateVars PROVE TranslateInv'
  OBVIOUS
<1>1. CASE Asked
  BY <1>1, AskedKeepsInv
<1>2. ASSUME NEW f \in Strings, EnterField(f) \/ DependenciesArrive(f) \/ ResolverFails(f)
      PROVE  TranslateInv'
  BY <1>2, EnteringKeepsInv
<1>3. ASSUME NEW f \in Strings, LoadMessage(f) PROVE TranslateInv'
  BY <1>3, LoadingKeepsInv
<1>4. ASSUME NEW l \in Strings, SendBatch(l) PROVE TranslateInv'
  BY <1>4, SendingKeepsInv
<1>5. ASSUME NEW l \in Strings, BatchAnswers(l) PROVE TranslateInv'
  BY <1>5, AnsweringKeepsInv
<1>6. CASE UNCHANGED translateVars
  BY <1>6 DEF TranslateInv, translateVars, TranslateTypeOK, AskedFirst, LoadersAreTheirs,
              LoadedInOne, WaitsAtItsOwn, TranslationIsOwn, Directive, SameKey, From, Language
<1> QED BY <1>1, <1>2, <1>3, <1>4, <1>5, <1>6 DEF TranslateNext

\* Whatever is in a batch, and whoever loaded the same message first, every field is
\* given the translation of its own message.
THEOREM TranslationsAreOwn == TranslateSpec => []TranslationIsOwn
<1>1. TranslateInv => TranslationIsOwn
  BY DEF TranslateInv
<1> QED BY <1>1, TranslateInvInitially, TranslateInvInductive, PTL DEF TranslateSpec

-----------------------------------------------------------------------------
(* The five together, of which one moves and the others rest.              *)

PartsInv == TypeOK /\ SchemaInv /\ CacheShape /\ LayersInv /\ TranslateInv

\* One part moves at a time and keeps its invariant; the others rest.
LEMMA PartsInvInductive == PartsInv /\ [PartsNext /\ UNCHANGED part]_partsVars => PartsInv'
<1> SUFFICES ASSUME PartsInv, [PartsNext /\ UNCHANGED part]_partsVars PROVE PartsInv'
  OBVIOUS
<1>1. /\ [Next]_vars /\ [SchemaNext]_schemaVars /\ [CacheNext]_cacheVars
      /\ [TranslateNext]_translateVars /\ [LayersNext]_layerVars
  BY DEF PartsNext, partsVars
<1>2. TypeOK'
  BY <1>1, RateNextType DEF PartsInv
<1>3. SchemaInv'
  BY <1>1, SchemaInvInductive DEF PartsInv
<1>4. CacheShape'
  BY <1>1, CacheShapeInductive DEF PartsInv
<1>5. TranslateInv'
  BY <1>1, TranslateInvInductive DEF PartsInv
<1>6. LayersInv'
  BY <1>1, LayersInvInductive DEF PartsInv
<1> QED BY <1>2, <1>3, <1>4, <1>5, <1>6 DEF PartsInv

\* The states, counters, versions and messages of all five parts stay in their ranges,
\* whatever the constants are.
THEOREM PartsTypeCorrect == PartsSpec => []PartsTypeOK
<1>1. PartsInit => PartsInv
  BY RateInitType, InitSchemaInv, CacheInitInv, TranslateInvInitially, LayersInitInv
     DEF PartsInit, PartsInv, CacheInv
<1>2. PartsInv => PartsTypeOK
  BY DEF PartsInv, PartsTypeOK, SchemaInv, CacheShape, LayersInv, LayersShape, TranslateInv
<1> QED BY <1>1, <1>2, PartsInvInductive, PTL DEF PartsSpec

=============================================================================
