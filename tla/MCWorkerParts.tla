---------------------------- MODULE MCWorkerParts ----------------------------
(***************************************************************************)
(* Five parts of a worker that do not interact: the limiters of requests    *)
(* per minute, the GraphQL schema, the cache control of a GraphQL request, *)
(* its translations, a cache of two layers.  One of them moves in a        *)
(* behaviour, and the others rest.                                         *)
(***************************************************************************)
EXTENDS RateLimit, GraphQLSchema, GraphQLCache, Translations, Layers

CONSTANTS low, high, none

VARIABLE part

MCRoutes == {low, high, none}
MCLimit == (low :> 4) @@ (high :> 8) @@ (none :> 0) @@ (Replica :> 6)

\* The first version is deployed, the fourth does not compile, the fifth is another
\* major.
MCProviderOf == <<0, 4, 3, 2>>
MCNeedOf == <<1, 2, 3, 1>>
MCMajorOf == <<1, 1, 1, 1, 2>>

\* Two fields at the top and one below the first.
MCParentOf == <<0, 0, 1>>
Kind(age, scope, metric, smart, nonNull) ==
    [age |-> age, scope |-> scope, metric |-> metric, smart |-> smart, nonNull |-> nonNull]
MCUndeclared == Kind(3, "public", FALSE, FALSE, FALSE)
MCKinds == {MCUndeclared, Kind(1, "public", FALSE, FALSE, TRUE),
            Kind(3, "segment", TRUE, FALSE, FALSE), Kind(0, "private", FALSE, TRUE, FALSE),
            Kind(3, "segment", TRUE, TRUE, TRUE)}

\* Locales 1, 2 and 3; the source is 1 and the locale 2.
Text(content, context, from, behavior, to, withDeps) ==
    [content |-> content, context |-> context, from |-> from, behavior |-> behavior,
     to |-> to, withDeps |-> withDeps]
MCTexts == {Text(1, 0, 0, 1, 0, TRUE), Text(1, 0, 1, 2, 0, FALSE), Text(2, 1, 1, 1, 0, TRUE),
            Text(1, 0, 3, 1, 0, FALSE), Text(2, 0, 2, 1, 0, FALSE), Text(1, 0, 0, 1, 3, TRUE),
            Text(2, 0, 3, 1, 2, TRUE), Text(0, 0, 0, 1, 0, FALSE)}

PartsInit ==
    /\ part \in 1..5
    /\ Init /\ SchemaInit /\ CacheInit /\ TranslateInit /\ LayersInit

PartsNext ==
    \/ part = 1 /\ Next
       /\ UNCHANGED <<schemaVars, cacheVars, translateVars, layerVars>>
    \/ part = 2 /\ SchemaNext
       /\ UNCHANGED <<vars, cacheVars, translateVars, layerVars>>
    \/ part = 3 /\ CacheNext
       /\ UNCHANGED <<vars, schemaVars, translateVars, layerVars>>
    \/ part = 4 /\ TranslateNext
       /\ UNCHANGED <<vars, schemaVars, cacheVars, layerVars>>
    \/ part = 5 /\ LayersNext
       /\ UNCHANGED <<vars, schemaVars, cacheVars, translateVars>>

partsVars == <<part, vars, schemaVars, cacheVars, translateVars, layerVars>>

PartsSpec == PartsInit /\ [][PartsNext /\ UNCHANGED part]_partsVars

\* Of all five: states, counters, versions and contents stay in their ranges.
PartsTypeOK ==
    TypeOK /\ SchemaTypeOK /\ CacheTypeOK /\ TranslateTypeOK /\ LayersTypeOK

=============================================================================
