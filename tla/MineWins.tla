------------------------------- MODULE MineWins -------------------------------
(***************************************************************************)
(* VBase.getRawJSON of a file in conflict, resolved by                     *)
(* MineWinsConflictsResolver: the three contents of the conflict (base,    *)
(* master, mine) are merged, the merge is sent to VBase without awaiting   *)
(* it, and the caller gets mine.                                           *)
(*                                                                         *)
(* A content is deleted (parsed as {}), an array of items, or an object    *)
(* with a scalar "name" (0: absent) and at most one array in "lists".      *)
(* Items are compared by all they hold, or by the comparable keys.         *)
(***************************************************************************)
EXTENDS Naturals, Sequences, FiniteSets, SequencesExt

CONSTANTS
    Items,           \* records: the comparable keys and a payload; 0: absent
    ComparableKeys,  \* fields of items given to the resolver, or none
    MaxItems         \* bound: length of an array

ASSUME MaxItemsAssumption == MaxItems \in Nat

VARIABLES
    conflict,   \* base, master and mine, as getConflicts returns them; or none yet
    resolution, \* "none", "returned", "thrown", "gone": what became of the caller's read
    merged,     \* mine after the merge, which is what the caller gets
    stored      \* the answer to the PATCH: "sent", "accepted", "refused", "unsent"

mergeVars == <<conflict, resolution, merged, stored>>

Arrays == SeqOf(Items, MaxItems)
Deleted == [kind |-> "deleted", lists |-> {}, name |-> 0]
Array(s) == [kind |-> "array", lists |-> {s}, name |-> 0]
Contents ==
    {Deleted} \cup {Array(s) : s \in Arrays}
    \cup [kind : {"object"}, name : 0..2, lists : {{}} \cup {{s} : s \in SeqOf(Items, 1)}]

\* master[key] || []
ListOf(content) == IF content.lists = {} THEN <<>> ELSE CHOOSE s \in content.lists : TRUE

-----------------------------------------------------------------------------

\* splice at findIndex: the first item of s equal to x, if any.
WithoutFirst(s, x) ==
    IF Contains(s, x)
    THEN RemoveAt(s, CHOOSE i \in DOMAIN s : s[i] = x /\ \A j \in 1..(i - 1) : s[j] # x)
    ELSE s

\* What is left of mine after so many items of base.
RemoveMasterDeleted(base, master, mine) ==
    LET left[n \in 0..Len(base)] ==
            IF n = 0 THEN mine
            ELSE IF Contains(master, base[n]) THEN left[n - 1]
            ELSE WithoutFirst(left[n - 1], base[n])
    IN left[Len(base)]

\* Object.keys(item).some(...) and eqProps, for which two absent keys are equal.
Comparable(item) == \E k \in ComparableKeys : item[k] # 0
SameItem(item, other) ==
    IF Comparable(item) THEN \E k \in ComparableKeys : item[k] = other[k] ELSE item = other
KnownIn(item, s) == \E i \in DOMAIN s : SameItem(item, s[i])

\* Mutant: what base has is not looked at.
ShouldAddIgnoringBase(item, base, mine) == ~KnownIn(item, mine)
ShouldAddToMine(item, base, mine) == ~KnownIn(item, mine) /\ ~KnownIn(item, base)

\* What mine has grown to after so many items of master.
AppendMasterAdded(base, master, mine) ==
    LET grown[n \in 0..Len(master)] ==
            IF n = 0 THEN mine
            ELSE IF ShouldAddToMine(master[n], base, grown[n - 1])
            THEN Append(grown[n - 1], master[n])
            ELSE grown[n - 1]
    IN grown[Len(master)]

MergeArrays(base, master, mine) ==
    AppendMasterAdded(base, master, RemoveMasterDeleted(base, master, mine))

\* mergeMineWins as it changes mine: only arrays of mine are merged in place.  The
\* merge of objects goes to a new object, which resolveConflictMineWins drops; a key
\* master has deleted and mine has not touched is deleted there, its array left alone.
MergeIntoMine(base, master, mine) ==
    IF mine.kind = "deleted" THEN mine
    ELSE IF master.kind = "array"
    THEN Array(MergeArrays(ListOf(base), ListOf(master), ListOf(mine)))
    ELSE IF mine.kind = "object" /\ mine.lists # {}
            /\ ~(master.lists = {} /\ base.lists = mine.lists)
    THEN [mine EXCEPT !.lists = {MergeArrays(ListOf(base), ListOf(master), ListOf(mine))}]
    ELSE mine

\* An array in master is merged with a base and a mine that need to be arrays: {}
\* is not replaced by [], and has no forEach, findIndex or some.  The last two are
\* called only if there is an item to look for.
Throws(base, master, mine) ==
    /\ master.kind = "array"
    /\ \/ base.kind # "array"
       \/ /\ mine.kind # "array"
          /\ \/ \E i \in DOMAIN ListOf(base) : ~Contains(ListOf(master), ListOf(base)[i])
             \/ ListOf(master) # <<>>

-----------------------------------------------------------------------------

MergeInit ==
    /\ conflict = <<>>
    /\ resolution = "none"
    /\ merged = Deleted
    /\ stored = "unsent"

\* The read is answered by 409, getConflicts by the conflict (resolve, and
\* resolveConflictMineWins up to the PATCH, which it does not await).  Contents of
\* one file are alike: arrays, or objects, or deleted.
Resolve(base, master, mine) ==
    /\ conflict' = <<base, master, mine>>
    /\ IF Throws(base, master, mine)
       THEN resolution' = "thrown" /\ UNCHANGED <<merged, stored>>
       ELSE /\ resolution' = "returned"
            /\ merged' = MergeIntoMine(base, master, mine)
            /\ stored' = "sent"

ResolveSome ==
    /\ conflict = <<>> /\ resolution = "none"
    /\ \E base \in Contents, master \in Contents, mine \in Contents :
           /\ Cardinality({base.kind, master.kind, mine.kind} \ {"deleted"}) = 1
           /\ Resolve(base, master, mine)

\* VBase's answer, which reaches nobody.
PatchAnswered ==
    /\ stored = "sent"
    /\ stored' \in {"accepted", "refused"}
    /\ UNCHANGED <<conflict, resolution, merged>>

\* Somebody else has resolved it in between: the caller gets {}.
ConflictGone ==
    /\ conflict = <<>> /\ resolution = "none"
    /\ resolution' = "gone"
    /\ UNCHANGED <<conflict, merged, stored>>

MergeNext == ResolveSome \/ ConflictGone \/ PatchAnswered

MergeSpec == MergeInit /\ [][MergeNext]_mergeVars

-----------------------------------------------------------------------------

MergeTypeOK ==
    /\ conflict = <<>> \/ conflict \in Contents \X Contents \X Contents
    /\ resolution \in {"none", "returned", "thrown", "gone"}
    /\ merged.kind \in {"deleted", "array", "object"}
    /\ \A s \in merged.lists : s \in Seq(Items)
    /\ stored \in {"unsent", "sent", "accepted", "refused"}

Count(s, x) == Cardinality({i \in DOMAIN s : s[i] = x})

\* s is what t has at these places, in t's order.
Taken(s, t, places) ==
    \E f \in [DOMAIN s -> places] :
        /\ \A p \in places : \E i \in DOMAIN s : f[i] = p
        /\ \A i, j \in DOMAIN s : i < j => f[i] < f[j]
        /\ \A i \in DOMAIN s : s[i] = t[f[i]]

\* An item that base has n times and master no longer has loses its first n places.
KeptPlaces(base, master, mine) == {p \in DOMAIN mine :
    \/ Contains(master, mine[p])
    \/ Count(SubSeq(mine, 1, p - 1), mine[p]) >= Count(base, mine[p])}

\* What the three arrays should merge to: first mine, less what master has deleted
\* since base; then those of master's items that neither base nor what is left of
\* mine knows, except those that one taken before knows.
ThreeWay(base, master, mine, result) ==
    \E n \in 0..Len(result) :
        LET kept == SubSeq(result, 1, n)
            added == SubSeq(result, n + 1, Len(result))
        IN
        /\ Taken(kept, mine, KeptPlaces(base, master, mine))
        /\ \E places \in SUBSET DOMAIN master :
              /\ Taken(added, master, places)
              /\ \A p \in DOMAIN master :
                    p \in places <=>
                        /\ ~KnownIn(master[p], base) /\ ~KnownIn(master[p], kept)
                        /\ \A q \in places : q < p => ~SameItem(master[p], master[q])

\* Wherever mine holds an array that is merged, the merge is the three-way merge.
ArraysMergeThreeWay ==
    resolution = "returned" =>
        LET base == conflict[1]  master == conflict[2]  mine == conflict[3] IN
        (merged # mine \/ (master.kind = "array" /\ mine.kind = "array")) =>
            ThreeWay(ListOf(base), ListOf(master), ListOf(mine), ListOf(merged))

\* "Take mine and merge with master keys that have no conflict": a key that only
\* master has is in the result.
MasterKeysMerged ==
    resolution = "returned" =>
        LET base == conflict[1]  master == conflict[2]  mine == conflict[3] IN
        (master.name # 0 /\ base.name = 0 /\ mine.name = 0 /\ mine.kind = "object") =>
            merged.name = master.name

=============================================================================
