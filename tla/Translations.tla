----------------------------- MODULE Translations -----------------------------
(***************************************************************************)
(* The fields of one GraphQL request that @translatableV2 or @translateTo  *)
(* translate: they share a loader of messages for each directive, made by  *)
(* whoever finds none, perhaps after an await; the loader sends what is    *)
(* loaded in one turn as a batch, sorted and grouped by language, and puts *)
(* the answers back in place.                                              *)
(*                                                                         *)
(* A translation is the record of what was asked for.                      *)
(***************************************************************************)
EXTENDS Naturals, Sequences, FiniteSets, SequencesExt

CONSTANTS
    Strings,    \* the translated fields, 1..n
    Texts,      \* what they may hold and ask: content (0: empty), context, from
                \* (0: not said), behavior, to (0: the locale), withDeps
    Locale,     \* ctx.vtex.locale
    Source      \* the locale of the binding or the tenant

Messages == [content : Nat, context : Nat, from : Nat, behavior : Nat, to : Nat,
             withDeps : BOOLEAN]

ASSUME TextsAssumption ==
    /\ Strings \subseteq Nat \ {0}
    /\ Texts \subseteq Messages
    /\ Locale \in Nat /\ Source \in Nat

VARIABLES
    says,     \* each field's text
    at,       \* "new", "deps", "resolve", "loaded", "done", "failed"
    loader,   \* for each directive the field that made ctx.loaders' loader; 0: none
    via,      \* the loader a field loaded its message into
    twin,     \* the field whose promise it got: its own, or one of the same key
    queue,    \* for each loader, the messages of this turn, as their fields
    batches,  \* for each loader, the batches whose answers are awaited
    result

translateVars == <<says, at, loader, via, twin, queue, batches, result>>

Nothing == [content |-> 0, context |-> 0, from |-> 0, behavior |-> 0, to |-> 0, withDeps |-> FALSE]
Directive(f) == IF says[f].to = 0 THEN "translatableV2" ELSE "translateTo"
Language(f) == IF says[f].to = 0 THEN Locale ELSE says[f].to
From(f) == IF says[f].from = 0 THEN Source ELSE says[f].from

TranslateInit ==
    /\ says = [f \in Strings |-> Nothing]
    /\ at = [f \in Strings |-> "new"]
    /\ loader = [d \in {"translatableV2", "translateTo"} |-> 0]
    /\ via = [f \in Strings |-> 0]
    /\ twin = [f \in Strings |-> f]
    /\ queue = [f \in Strings |-> <<>>]
    /\ batches = [f \in Strings |-> {}]
    /\ result = [f \in Strings |-> Nothing]

-----------------------------------------------------------------------------

Asked ==
    /\ \A f \in Strings : says[f] = Nothing
    /\ says' \in [Strings -> Texts]
    /\ UNCHANGED <<at, loader, via, twin, queue, batches, result>>

\* The directive finds its loader, makes it, or awaits getAppsMetaInfos first.
EnterField(f) ==
    /\ at[f] = "new" /\ says[f] # Nothing
    /\ LET known == loader[Directive(f)] # 0
           awaits == ~known /\ (Directive(f) = "translateTo" \/ says[f].withDeps)
       IN
       /\ at' = [at EXCEPT ![f] = IF awaits THEN "deps" ELSE "resolve"]
       /\ loader' = IF known \/ awaits THEN loader ELSE [loader EXCEPT ![Directive(f)] = f]
    /\ UNCHANGED <<says, via, twin, queue, batches, result>>

\* The loader of another that also waited is replaced.
DependenciesArrive(f) ==
    /\ at[f] = "deps"
    /\ \/ /\ at' = [at EXCEPT ![f] = "resolve"]
          /\ loader' = [loader EXCEPT ![Directive(f)] = f]
       \/ at' = [at EXCEPT ![f] = "failed"] /\ UNCHANGED loader
    /\ UNCHANGED <<says, via, twin, queue, batches, result>>

\* messageToKey
SameKey(f, g) ==
    /\ says[f].content = says[g].content /\ says[f].context = says[g].context
    /\ From(f) = From(g)

\* The resolver returns, and handleSingleString loads its message into the loader
\* that is there now.
LoadMessage(f) ==
    /\ at[f] = "resolve"
    /\ LET l == loader[Directive(f)]
           cached == {g \in Strings : at[g] \in {"loaded", "done"} /\ via[g] = l /\ twin[g] = g
                                      /\ SameKey(f, g)}
       IN
       /\ via' = [via EXCEPT ![f] = l]
       /\ \E g \in IF cached = {} THEN {f} ELSE cached :
             /\ twin' = [twin EXCEPT ![f] = g]
             /\ at' = [at EXCEPT ![f] = IF at[g] = "done" THEN "done" ELSE "loaded"]
             /\ result' = [result EXCEPT ![f] = result[g]]
       /\ queue' = IF cached = {} THEN [queue EXCEPT ![l] = Append(@, f)] ELSE queue
    /\ UNCHANGED <<says, loader, batches>>

\* It throws, or has nothing to translate.
ResolverFails(f) ==
    /\ at[f] = "resolve"
    /\ at' = [at EXCEPT ![f] = "failed"]
    /\ UNCHANGED <<says, loader, via, twin, queue, batches, result>>

SendBatch(l) ==
    /\ queue[l] # <<>>
    /\ queue' = [queue EXCEPT ![l] = <<>>]
    /\ batches' = [batches EXCEPT ![l] = @ \cup {queue[l]}]
    /\ UNCHANGED <<says, at, loader, via, twin, result>>

-----------------------------------------------------------------------------
(* createMessagesLoader's function of a batch, whose members are fields.      *)

Original(l, f) == From(f) = Language(l) \/ says[f].content = 0

\* Which of a batch's messages are not, by their places (filterFromEqualsTo).
ToTranslate(l, fields) == {i \in DOMAIN fields : ~Original(l, fields[i])}

\* By language, then content; what is equal keeps its order.
Precedes(fields, i, j) ==
    LET f == fields[i]  g == fields[j] IN
    \/ From(f) < From(g)
    \/ From(f) = From(g) /\ says[f].content < says[g].content
    \/ From(f) = From(g) /\ says[f].content = says[g].content /\ i < j

SortByContentAndFrom(fields, places) ==
    [n \in 1..Cardinality(places) |->
        fields[CHOOSE i \in places : Cardinality({j \in places : Precedes(fields, j, i)}) = n - 1]]

\* indexMessagesByFrom: groups of adjacent messages of one language, after so many fields.
IndexByFrom(fields) ==
    LET groups[n \in 0..Len(fields)] ==
            IF n = 0 THEN <<>>
            ELSE LET f == fields[n]  last == Len(groups[n - 1]) IN
                 IF last # 0 /\ groups[n - 1][last].from = From(f)
                 THEN [groups[n - 1] EXCEPT ![last].messages = Append(@, says[f])]
                 ELSE Append(groups[n - 1], [from |-> From(f), messages |-> <<says[f]>>])
    IN groups[Len(fields)]

\* The messages app: a translation for each message, group after group.
TranslateGroup(group, l) ==
    [i \in DOMAIN group.messages |->
        [group.messages[i] EXCEPT !.from = group.from, !.to = Language(l),
                                  !.withDeps = says[l].withDeps]]
Translate(groups, l) ==
    LET answers[n \in 0..Len(groups)] ==
            IF n = 0 THEN <<>> ELSE answers[n - 1] \o TranslateGroup(groups[n], l)
    IN answers[Len(groups)]

\* Mutant: the answers are given to the messages in the order they were loaded.
TranslationInOrder(l, fields, f) ==
    LET places == ToTranslate(l, fields)
        answers == Translate(IndexByFrom(SortByContentAndFrom(fields, places)), l)
        place == CHOOSE i \in places : fields[i] = f
    IN IF Original(l, f) THEN [Nothing EXCEPT !.content = says[f].content]
       ELSE answers[Cardinality({i \in places : i <= place})]
Translation(l, fields, f) ==
    LET asked == SortByContentAndFrom(fields, ToTranslate(l, fields))
        answers == Translate(IndexByFrom(asked), l)
    IN IF Original(l, f) THEN [Nothing EXCEPT !.content = says[f].content]
       ELSE answers[CHOOSE n \in DOMAIN asked : asked[n] = f]

\* A failure rejects the promises of the batch and takes them out of the cache.
BatchAnswers(l) ==
    \E fields \in batches[l], arrives \in BOOLEAN :
        LET served == {f \in Strings : at[f] = "loaded" /\ twin[f] \in ToSet(fields)} IN
        /\ arrives \/ \E f \in ToSet(fields) : ~Original(l, f)
        /\ batches' = [batches EXCEPT ![l] = @ \ {fields}]
        /\ at' = [f \in Strings |->
               IF f \notin served THEN at[f] ELSE IF arrives THEN "done" ELSE "failed"]
        /\ result' = [f \in Strings |->
               IF f \in served /\ arrives THEN Translation(l, fields, twin[f]) ELSE result[f]]
        /\ UNCHANGED <<says, loader, via, twin, queue>>

TranslateNext ==
    \/ Asked
    \/ \E f \in Strings : EnterField(f) \/ DependenciesArrive(f)
                          \/ LoadMessage(f) \/ ResolverFails(f)
    \/ \E l \in Strings : SendBatch(l) \/ BatchAnswers(l)

TranslateSpec == TranslateInit /\ [][TranslateNext]_translateVars

-----------------------------------------------------------------------------

TranslateTypeOK ==
    /\ says \in [Strings -> Texts \cup {Nothing}]
    /\ at \in [Strings -> {"new", "deps", "resolve", "loaded", "done", "failed"}]
    /\ loader \in [{"translatableV2", "translateTo"} -> {0} \cup Strings]
    /\ via \in [Strings -> {0} \cup Strings] /\ twin \in [Strings -> Strings]
    /\ queue \in [Strings -> Seq(Strings)]
    /\ batches \in [Strings -> SUBSET Seq(Strings)]
    /\ result \in [Strings -> Messages]

\* Every field gets the translation of its own message, whatever else was in the
\* batch and whoever loaded the same message first: its content and context, from
\* its language, into its own.  What it may get of another field is what the key of
\* a message leaves out: the behavior, the dependencies, and with @translateTo even
\* the language, which is that of the field that made the loader.
TranslationIsOwn == \A f \in Strings : at[f] = "done" =>
    LET text == says[f]  l == via[f]  answer == result[f] IN
    /\ Directive(l) = Directive(f)
    /\ answer.content = text.content
    /\ IF From(f) = Language(l) \/ text.content = 0 THEN answer.to = 0
       ELSE /\ answer.context = text.context /\ answer.from = From(f)
            /\ answer.to = Language(l)
            /\ \E g \in Strings : SameKey(f, g) /\ answer.behavior = says[g].behavior

=============================================================================
