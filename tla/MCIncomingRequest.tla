-------------------------- MODULE MCIncomingRequest --------------------------
(* Finite instance of IncomingRequest: one plain route and one that awaits a  *)
(* prelude, and one event; the latter two and the replica limited.            *)
EXTENDS IncomingRequest, TLC

CONSTANTS plain, preluded, event

MCRoutes == {plain, preluded, event}
MCPreluded == {preluded, event}
MCMaxRequests == (Global :> 2) @@ (preluded :> 1) @@ (event :> 1) @@ (plain :> 0)
MCMaxOne == (Global :> 1) @@ (preluded :> 1) @@ (event :> 1) @@ (plain :> 1)
RequestSymmetry == Permutations(Requests)
=============================================================================
