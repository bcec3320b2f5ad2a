------------------------------ MODULE MCClients ------------------------------
(***************************************************************************)
(* The clients: what two calls share, the meta infos on disk, a conflict   *)
(* in VBase, what is told of calls.  They do not interact; one of them     *)
(* moves in a behaviour, and the others rest.                              *)
(***************************************************************************)
EXTENDS ClientCalls, MetaInfos, MineWins, Metrics, TLC

CONSTANTS a1, a2, b1, c1, w1, w2, en, pt

VARIABLE world

\* Two incoming requests of one process, the first with two calls and the other of
\* another locale, which memory has; and one of a second process.
MCMetaCalls == {a1, a2, b1, c1}
MCRequestOf == (a1 :> 1) @@ (a2 :> 1) @@ (b1 :> 2) @@ (c1 :> 3)
MCWorkerOf == <<w1, w1, w2>>
MCLocaleOf == <<en, pt, en>>
MCWarm == (w1 :> (en :> 0 @@ pt :> 1)) @@ (w2 :> (en :> 0 @@ pt :> 0))

\* Two items with a slug of their own, two with one id and different payloads.
Item(i, j, p) == [id |-> i, slug |-> j, payload |-> p]
MCItems == {Item(0, 0, 1), Item(1, 0, 1), Item(1, 0, 2), Item(0, 1, 1)}

ClientsInit ==
    /\ world \in {"calls", "metaInfos", "conflict", "metrics"}
    /\ CallsInit /\ MetaInit /\ MergeInit /\ MetricsInit

ClientsNext ==
    \/ world = "calls" /\ CallsNext /\ UNCHANGED <<world, metaVars, mergeVars, metricsVars>>
    \/ world = "metaInfos" /\ MetaNext /\ UNCHANGED <<world, callVars, mergeVars, metricsVars>>
    \/ world = "conflict" /\ MergeNext /\ UNCHANGED <<world, callVars, metaVars, metricsVars>>
    \/ world = "metrics" /\ MetricsNext /\ UNCHANGED <<world, callVars, metaVars, mergeVars>>

ClientsSpec == ClientsInit /\ [][ClientsNext]_<<world, callVars, metaVars, mergeVars, metricsVars>>

\* Of all four: states, versions, contents and counters stay in their ranges.
ClientsTypeOK == CallsTypeOK /\ MetaTypeOK /\ MergeTypeOK /\ MetricsTypeOK

=============================================================================
