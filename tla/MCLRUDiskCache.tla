---------------------------- MODULE MCLRUDiskCache ----------------------------
(* Finite instances of LRUDiskCache: one key more is asked for than fits. *)
EXTENDS LRUDiskCache, TLC

CONSTANTS o1, o2, o3, k1, k2
===============================================================================
