------------------------------ MODULE MCCluster ------------------------------
(* Finite instance of Cluster: two workers, and two that may replace them. *)
EXTENDS Cluster, TLC

CONSTANTS w1, w2, w3, w4

TwoAtFirst == {w1, w2}
=============================================================================
