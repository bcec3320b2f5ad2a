----------------------------- MODULE GraphQLCache -----------------------------
(***************************************************************************)
(* One request to the GraphQL route, from injectGraphqlContext to the      *)
(* recorder's flush: the directives of its fields narrow what may cache    *)
(* the response and switch the recorder on, while resolvers run at the     *)
(* same time; errors overrule some of it; response makes the headers.      *)
(*                                                                         *)
(* Fields are two levels deep.  graphql-js gives up an execution when a    *)
(* non-null field fails, and other resolvers go on after the response.     *)
(***************************************************************************)
EXTENDS Naturals

CONSTANTS
    Fields,      \* fields of the query
    ParentOf,    \* the field each is below; 0 for one at the top
    Kinds,       \* what a field may be: age, scope, metric, smart, nonNull
    Undeclared,  \* the age and the scope of a field without @cacheControl
    Long, Short  \* MAX_AGE.LONG and the two seconds of an error

Scopes == {"public", "segment", "private"}
FieldKinds == [age : Nat, scope : Scopes, metric : BOOLEAN, smart : BOOLEAN, nonNull : BOOLEAN]

ASSUME FieldsAssumption ==
    /\ Kinds \cup {Undeclared} \subseteq FieldKinds
    /\ \A f \in Fields : ParentOf[f] \in Fields \cup {0}
    /\ Long \in Nat /\ Short \in 0..Long

VARIABLES
    request,   \* production, hidden (public endpoint or linked app), private route
    kind,      \* the directives of each field
    resolving, \* "new", "running", "resolved", "failed"
    control,   \* ctx.graphql.cacheControl
    status,    \* ctx.graphql.status
    recorder,  \* ctx.vtex.recorder is set
    recording, \* fields whose calls are recorded
    recorded,  \* those whose calls have been
    stage,     \* "query", "execute", "errors", "respond", "sent", "flushed"
    failed,    \* the response has errors
    data,      \* fields that had resolved when execution ended
    headers    \* Cache-Control (cacheable, age, private), Vary and the tags

cacheVars == <<request, kind, resolving, control, status, recorder, recording, recorded,
               stage, failed, data, headers>>

\* What resolvers change, in the request and in the response.
resolveVars == <<kind, resolving, control, status, recorder, recording, recorded>>

Requests == [production : BOOLEAN, hidden : BOOLEAN, privateRoute : BOOLEAN]
NoHeaders == [cacheable |-> FALSE, age |-> 0, private |-> FALSE, vary |-> {}, tags |-> {}]

CacheInit ==
    /\ request = [production |-> TRUE, hidden |-> FALSE, privateRoute |-> FALSE]
    /\ kind = [f \in Fields |-> Undeclared]
    /\ resolving = [f \in Fields |-> "new"]
    /\ control = [age |-> Long, scope |-> "public", noCache |-> FALSE]
    /\ status = "success"
    /\ recorder \in BOOLEAN  \* smartcache of the route, in service.json
    /\ recording = {} /\ recorded = {}
    /\ stage = "query"
    /\ failed = FALSE /\ data = {}
    /\ headers = NoHeaders

-----------------------------------------------------------------------------

\* The query is parsed and validated, and execution begins; or not.
ExtractedQuery ==
    /\ stage = "query"
    /\ stage' = "execute"
    /\ request' \in Requests
    /\ kind' \in [Fields -> Kinds]
    /\ UNCHANGED <<resolving, control, status, recorder, recording, recorded, failed, data, headers>>

Rejected ==
    /\ stage = "query"
    /\ stage' = "errors" /\ failed' = TRUE
    /\ request' \in Requests
    /\ UNCHANGED <<resolveVars, data, headers>>

\* The incoming request was aborted: 499, and no error to graphqlError.
RequestCancelled ==
    /\ stage = "query"
    /\ stage' = "respond"
    /\ request' \in Requests
    /\ UNCHANGED <<resolveVars, failed, data, headers>>

\* @cacheControl.  Mutant: the last scope wins.
NarrowToLast(c, k) ==
    [c EXCEPT !.age = IF k.age < @ THEN k.age ELSE @,
              !.scope = IF k.scope = "public" THEN @ ELSE k.scope]
Narrow(c, k) ==
    [c EXCEPT !.age = IF k.age < @ THEN k.age ELSE @,
              !.scope = IF k.scope = "private" \/ (k.scope = "segment" /\ @ = "public")
                        THEN k.scope ELSE @]

\* A field's directives, up to its resolver's first await; those at the top start with
\* the execution, the others when what is above them has resolved.  @smartcache sets the
\* recorder, if the route did not, which the clients made afterwards take; here each
\* field makes its own.
StartField(f) ==
    /\ resolving[f] = "new"
    /\ IF ParentOf[f] = 0 THEN stage = "execute"
                          ELSE stage # "flushed" /\ resolving[ParentOf[f]] = "resolved"
    /\ resolving' = [resolving EXCEPT ![f] = "running"]
    /\ control' = Narrow(control, kind[f])
    /\ recorder' = (recorder \/ kind[f].smart)
    /\ recording' = IF recorder' THEN recording \cup {f} ELSE recording
    /\ UNCHANGED <<request, kind, status, recorded, stage, failed, data, headers>>

\* Its calls are answered, and recorded; @metric sets the status.
EndField(f) ==
    /\ resolving[f] = "running"
    /\ stage # "flushed"
    /\ recorded' = recorded \cup ({f} \cap recording)
    /\ \E outcome \in {"resolved", "failed"} :
          /\ resolving' = [resolving EXCEPT ![f] = outcome]
          /\ status' = IF ~kind[f].metric THEN status
                       ELSE IF outcome = "failed" THEN "error" ELSE "success"
    /\ UNCHANGED <<request, kind, control, recorder, recording, stage, failed, data, headers>>

\* graphql-js: a field is null if its resolver failed or a non-null child is null,
\* and execution is over when all fields at the top are known, or the data is null.
Below(f) == {g \in Fields : ParentOf[g] = f}
Null(f) ==
    \/ resolving[f] = "failed"
    \/ \E g \in Below(f) : kind[g].nonNull /\ resolving[g] = "failed"
Known(f) == Null(f) \/ \A g \in {f} \cup Below(f) : resolving[g] = "resolved"
                                                     \/ (g # f /\ resolving[g] = "failed")

RunEnds ==
    /\ stage = "execute"
    /\ \/ \A f \in Below(0) : Known(f)
       \/ \E f \in Below(0) : kind[f].nonNull /\ Null(f)
    /\ stage' = "errors"
    /\ failed' = (\E f \in Fields : resolving[f] = "failed")
    /\ data' = {f \in Fields : resolving[f] = "resolved"}
    /\ UNCHANGED <<request, resolveVars, headers>>

\* Mutant: the two seconds of an error and not the status.
GraphqlErrorUncounted ==
    /\ stage = "errors"
    /\ stage' = "respond"
    /\ IF failed /\ request.production
       THEN control' = [control EXCEPT !.age = Short] ELSE UNCHANGED control
    /\ UNCHANGED <<request, kind, resolving, status, recorder, recording, recorded,
                   failed, data, headers>>
GraphqlError ==
    /\ stage = "errors"
    /\ stage' = "respond"
    /\ IF failed
       THEN /\ status' = "error"
            /\ control' = IF request.production THEN [control EXCEPT !.age = Short]
                                                ELSE [control EXCEPT !.noCache = TRUE]
       ELSE UNCHANGED <<status, control>>
    /\ UNCHANGED <<request, kind, resolving, recorder, recording, recorded, failed, data, headers>>

\* cacheControlHTTP and setVaryHeaders, for a GET (other methods are not cached).
Respond ==
    /\ stage = "respond"
    /\ stage' = "sent"
    /\ headers' = [headers EXCEPT
           !.cacheable = ~control.noCache /\ request.production /\ ~request.hidden,
           !.age = control.age,
           !.private = control.scope = "private" \/ request.privateRoute,
           !.vary = CASE control.scope = "private" -> {"segment", "session"}
                      [] control.scope = "segment" -> {"segment"}
                      [] OTHER -> {}]
    /\ recorded' = IF status = "error" /\ recorder THEN {} ELSE recorded
    /\ UNCHANGED <<request, kind, resolving, control, status, recorder, recording, failed, data>>

\* recorderMiddleware, around all of it.
Flush ==
    /\ stage = "sent"
    /\ stage' = "flushed"
    /\ headers' = [headers EXCEPT !.tags = recorded]
    /\ UNCHANGED <<request, resolveVars, failed, data>>

CacheNext ==
    \/ ExtractedQuery \/ Rejected \/ RequestCancelled
    \/ \E f \in Fields : StartField(f) \/ EndField(f)
    \/ RunEnds \/ GraphqlError \/ Respond \/ Flush

CacheSpec == CacheInit /\ [][CacheNext]_cacheVars

-----------------------------------------------------------------------------

CacheTypeOK ==
    /\ request \in Requests
    /\ kind \in [Fields -> Kinds \cup {Undeclared}]
    /\ resolving \in [Fields -> {"new", "running", "resolved", "failed"}]
    /\ control \in [age : 0..Long, scope : Scopes, noCache : BOOLEAN]
    /\ status \in {"success", "error"}
    /\ {recorder, failed} \subseteq BOOLEAN
    /\ recorded \subseteq recording /\ recording \subseteq Fields /\ data \subseteq Fields
    /\ stage \in {"query", "execute", "errors", "respond", "sent", "flushed"}
    /\ headers.vary \subseteq {"segment", "session"} /\ headers.tags \subseteq Fields

\* A response that may be cached allows no more than each of its fields does, in
\* whatever order they ran and errors came: not longer than the shortest age, or
\* two seconds if it has errors; not shared if one of them is private; and told
\* apart by segment and by session if they are.
CacheableAsDeclared ==
    (stage \in {"sent", "flushed"} /\ headers.cacheable) =>
        /\ failed => headers.age <= Short
        /\ \A f \in data :
              /\ ~failed => headers.age <= kind[f].age
              /\ kind[f].scope = "private" =>
                    headers.private /\ headers.vary = {"segment", "session"}
              /\ kind[f].scope = "segment" => "segment" \in headers.vary

\* "Do not generate etag for errors": a response with errors has no tags of the
\* data it holds, unless a field with @metric resolved after execution was given up
\* and turned the status to success.
ErrorsUntagged ==
    (stage = "flushed" /\ failed) =>
        \/ headers.tags \cap data = {}
        \/ \E f \in Fields \ data : kind[f].metric /\ resolving[f] = "resolved"

=============================================================================
