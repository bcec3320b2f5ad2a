---------------------------- MODULE GraphQLSchema ----------------------------
(***************************************************************************)
(* The schema of a worker's GraphQL route: requests that name a newer      *)
(* provider fetch its schema and replace the one in use (updateSchema),    *)
(* while others validate their queries against it or find them in the      *)
(* cache of validated documents (extractQuery), and execute them (run).    *)
(*                                                                         *)
(* A provider is its version; a schema is the version it came from.  A     *)
(* later version of the same major has all the fields of an earlier one.   *)
(* A query is valid from some version on.  The app hands its schema over   *)
(* in its options; a schema read from a file is never updated.             *)
(***************************************************************************)
EXTENDS Naturals

CONSTANTS
    Queriers,    \* requests to the route
    ProviderOf,  \* the version in x-vtex-provider of each; 0: none
    NeedOf,      \* the query of each, as the first version it is valid for
    Initial,     \* the version whose schema the app was deployed with
    MajorOf,     \* the major of each version
    Broken       \* versions whose schema does not compile

Versions == DOMAIN MajorOf

ASSUME SchemaAssumption ==
    /\ Versions \subseteq Nat \ {0}
    /\ Broken \subseteq Versions /\ Initial \in Versions \ Broken
    /\ ProviderOf \in [Queriers -> {0} \cup Versions]
    /\ NeedOf \in [Queriers -> Versions]

VARIABLES
    text,        \* graphql.schema
    schema,      \* executableSchema.schema
    provider,    \* executableSchema.provider; 0: none yet
    documents,   \* the queries documentStorage holds, validated once
    querying,    \* "update", "fetch", "query", "run", "executed", "rejected"
    sawProvider, \* the provider a request compared its own with
    ranOn,       \* the schema a query was executed with; 0 before
    overtaken    \* an update replaced another provider than the one it had seen,
                 \* or took up a first provider older than the deployed schema

schemaVars == <<text, schema, provider, documents, querying, sawProvider, ranOn, overtaken>>

\* majorEqualAndGreaterThan
Newer(v, w) == MajorOf[v] = MajorOf[w] /\ v > w

ValidFor(query, v) == MajorOf[query] = MajorOf[v] /\ query <= v

SchemaInit ==
    /\ text = Initial /\ schema = Initial
    /\ provider = 0
    /\ documents = {}
    /\ querying = [q \in Queriers |-> "update"]
    /\ sawProvider = [q \in Queriers |-> 0]
    /\ ranOn = [q \in Queriers |-> 0]
    /\ overtaken = FALSE

-----------------------------------------------------------------------------

\* The first provider named is taken whatever its version.
WantsSchema(q) ==
    /\ ProviderOf[q] # 0
    /\ provider # 0 => Newer(ProviderOf[q], provider)

UpToDate(q) ==
    /\ querying[q] = "update" /\ ~WantsSchema(q)
    /\ querying' = [querying EXCEPT ![q] = "query"]
    /\ UNCHANGED <<text, schema, provider, documents, sawProvider, ranOn, overtaken>>

FetchSchema(q) ==
    /\ querying[q] = "update" /\ WantsSchema(q)
    /\ querying' = [querying EXCEPT ![q] = "fetch"]
    /\ sawProvider' = [sawProvider EXCEPT ![q] = provider]
    /\ UNCHANGED <<text, schema, provider, documents, ranOn, overtaken>>

\* getAppFile returns: what was decided before the await is not decided again.  A
\* schema that does not compile leaves its text behind, and only that.
SchemaArrives(q) ==
    /\ querying[q] = "fetch"
    /\ querying' = [querying EXCEPT ![q] = "query"]
    /\ text' = ProviderOf[q]
    /\ IF ProviderOf[q] \in Broken
       THEN UNCHANGED <<schema, provider, overtaken>>
       ELSE /\ schema' = ProviderOf[q]
            /\ provider' = ProviderOf[q]
            /\ overtaken' = (overtaken \/ provider # sawProvider[q]
                                       \/ ~ValidFor(Initial, ProviderOf[q]))
    /\ UNCHANGED <<documents, sawProvider, ranOn>>

\* getAppFile fails: the error is logged and the old schema used.
SchemaMissing(q) ==
    /\ querying[q] = "fetch"
    /\ querying' = [querying EXCEPT ![q] = "query"]
    /\ UNCHANGED <<text, schema, provider, documents, sawProvider, ranOn, overtaken>>

\* Mutant: validates against the text, which may not be what runs.
ParseAndValidateText(q) == ValidFor(NeedOf[q], text)
ParseAndValidate(q) == ValidFor(NeedOf[q], schema)

ExtractQuery(q) ==
    /\ querying[q] = "query"
    /\ IF NeedOf[q] \in documents \/ ParseAndValidate(q)
       THEN /\ querying' = [querying EXCEPT ![q] = "run"]
            /\ documents' = documents \cup {NeedOf[q]}
       ELSE /\ querying' = [querying EXCEPT ![q] = "rejected"]
            /\ UNCHANGED documents
    /\ UNCHANGED <<text, schema, provider, sawProvider, ranOn, overtaken>>

\* The 501st document drops the one used least recently.
DocumentEvicted ==
    /\ \E d \in documents : documents' = documents \ {d}
    /\ UNCHANGED <<text, schema, provider, querying, sawProvider, ranOn, overtaken>>

Run(q) ==
    /\ querying[q] = "run"
    /\ querying' = [querying EXCEPT ![q] = "executed"]
    /\ ranOn' = [ranOn EXCEPT ![q] = schema]
    /\ UNCHANGED <<text, schema, provider, documents, sawProvider, overtaken>>

SchemaNext ==
    \/ DocumentEvicted
    \/ \E q \in Queriers :
          UpToDate(q) \/ FetchSchema(q) \/ SchemaArrives(q) \/ SchemaMissing(q)
          \/ ExtractQuery(q) \/ Run(q)

SchemaSpec == SchemaInit /\ [][SchemaNext]_schemaVars

-----------------------------------------------------------------------------

SchemaTypeOK ==
    /\ text \in Versions /\ schema \in Versions \ Broken
    /\ provider \in {0} \cup (Versions \ Broken)
    /\ documents \subseteq Versions
    /\ querying \in [Queriers -> {"update", "fetch", "query", "run", "executed", "rejected"}]
    /\ sawProvider \in [Queriers -> {0} \cup Versions]
    /\ ranOn \in [Queriers -> {0} \cup Versions]
    /\ overtaken \in BOOLEAN

\* A query runs on the schema of another moment than the one it was validated
\* with, perhaps long ago and for another request.  It is valid for that schema
\* all the same, as long as no older schema may have replaced a newer one: the
\* first provider named was not older than the deployed schema, and no update
\* finished after another one that it had not seen.
RunsWhatIsValid ==
    ~overtaken => \A q \in Queriers : querying[q] = "executed" => ValidFor(NeedOf[q], ranOn[q])

=============================================================================
