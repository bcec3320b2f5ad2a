----------------------------- MODULE MCHttpCache -----------------------------
(* Finite instances of HttpCache: one layer with every kind of headers and two *)
(* layers without etags; two layers with etags.                                *)
EXTENDS HttpCache, TLC

CONSTANTS c1, c2, c3, s1, s2

OneSegmentEach == [c \in Calls |-> IF c = c2 THEN s2 ELSE s1]
FirstInMemory == [c \in Calls |-> IF c = c1 THEN "memory" ELSE "any"]

Plain == [etag |-> FALSE, maxAge |-> 1, age |-> 0, noStore |-> FALSE,
          noCache |-> FALSE, vary |-> "nothing"]
Tagged == [Plain EXCEPT !.etag = TRUE]
MixedHeaders == {[Tagged EXCEPT !.maxAge = 2, !.age = 1],
                 [Plain EXCEPT !.vary = "segment"],
                 [Tagged EXCEPT !.vary = "segment", !.maxAge = 2, !.age = 1],
                 [Tagged EXCEPT !.noCache = TRUE, !.maxAge = 0],
                 [Plain EXCEPT !.noStore = TRUE], [Tagged EXCEPT !.vary = "session"]}
UntaggedHeaders == {[Plain EXCEPT !.maxAge = 2], [Plain EXCEPT !.vary = "segment"]}
OneOrTwo == {{"memory"}, {"memory", "disk"}}
HeadersByLayers == [conf \in OneOrTwo |->
                       IF conf = {"memory"} THEN MixedHeaders ELSE UntaggedHeaders]
Two == {{"memory", "disk"}}
TaggedHeaders == [conf \in Two |-> {Tagged}]
=============================================================================
