---------------------------- MODULE MCSharedCalls ----------------------------
(* Finite instances of SharedCalls: two incoming requests, each with a client. *)
EXTENDS SharedCalls, TLC

CONSTANTS a1, a2, b1, A, B, k1, k2

ThreeCalls == {a1, a2, b1}
MCClientOf == [c \in Calls |-> IF c = b1 THEN B ELSE A]
OwnFlights == [k \in Keys |-> k]
RetryOnce == [cl \in Clients |-> 1]
BRetries == [cl \in Clients |-> IF cl = B THEN 1 ELSE 0]
AllSafe == [cl \in Clients |-> TRUE]
SharedReads == {m \in AllModes : m.memo \/ m.flight}
FlightOrWrite == {m \in AllModes : (m.flight /\ ~m.memo) \/ m.write}
CallSymmetry == Permutations({a1, a2})
=============================================================================
