-------------------------------- MODULE Loops --------------------------------
(***************************************************************************)
(* Lemmas about loops over lists, for the proofs of what such loops give:  *)
(* induction on the round, a function that has the state after each round, *)
(* and lists that grow at their end.                                       *)
(***************************************************************************)
EXTENDS Naturals, Sequences, SequencesExt, SequenceTheorems, FiniteSetTheorems,
        WellFoundedInduction, TLAPS

\* A set of natural numbers that is not empty has a least one.
LEMMA LeastNatural ==
  ASSUME NEW T \in SUBSET Nat, T # {}
  PROVE  \E x \in T : \A y \in T : x <= y
<1> DEFINE R == OpToRel(<, Nat)
<1>1. IsWellFoundedOn(R, Nat)
  BY NatLessThanWellFounded
<1>2. \A x, y \in Nat : <<y, x>> \in R <=> y < x
  BY DEF OpToRel
<1> HIDE DEF R
<1>3. PICK x \in T : \A y \in T : <<y, x>> \notin R
  BY <1>1, WFMin
<1>4. ASSUME NEW y \in T PROVE x <= y
  <2>1. x \in Nat /\ y \in Nat
    OBVIOUS
  <2>2. ~(y < x)
    BY <1>2, <1>3, <2>1
  <2> QED BY <2>1, <2>2
<1> QED BY <1>4

\* Induction up to n, with the set of the numbers for which the claim holds.
LEMMA InductionTo ==
  ASSUME NEW n \in Nat, NEW S, 0 \in S, \A k \in 1..n : k - 1 \in S => k \in S
  PROVE  0..n \subseteq S
<1> SUFFICES ASSUME (0..n) \ S # {} PROVE FALSE
  OBVIOUS
<1> DEFINE T == (0..n) \ S
<1>0. T \in SUBSET Nat /\ T # {}
  OBVIOUS
<1>1. PICK x \in T : \A y \in T : x <= y
  <2> HIDE DEF T
  <2> QED BY <1>0, LeastNatural
<1>2. x \in 1..n /\ x - 1 \in 0..n
  BY <1>1
<1>3. x - 1 \in S
  BY <1>1, <1>2
<1> QED BY <1>1, <1>2, <1>3

\* f gives the state of a loop of n rounds, which starts with b, after each of them.
Loop(f, n, X, b, round) ==
    /\ f \in [0..n -> X]
    /\ f[0] = b
    /\ \A i \in 1..n : f[i] = round[i][f[i - 1]]

\* There is such a function.
LEMMA LoopRuns ==
  ASSUME NEW n \in Nat, NEW X, NEW b \in X, NEW round \in [1..n -> [X -> X]]
  PROVE  \E f : Loop(f, n, X, b, round)
<1> DEFINE Runs(m, f) == f[0] = b /\ \A i \in 1..m : f[i] = round[i][f[i - 1]]
           S == {m \in 0..n : \E f \in [0..m -> X] : Runs(m, f)}
<1>1. 0 \in S
  <2>1. Runs(0, [i \in 0..0 |-> b])
    OBVIOUS
  <2>2. [i \in 0..0 |-> b] \in [0..0 -> X]
    OBVIOUS
  <2> HIDE DEF Runs
  <2> QED BY <2>1, <2>2
<1>2. ASSUME NEW m \in 1..n, m - 1 \in S PROVE m \in S
  <2>1. PICK f \in [0..(m - 1) -> X] : Runs(m - 1, f)
    BY <1>2
  <2> DEFINE g == [i \in 0..m |-> IF i = m THEN round[m][f[m - 1]] ELSE f[i]]
  <2>2. g \in [0..m -> X]
    OBVIOUS
  <2>3. Runs(m, g)
    <3>1. g[0] = b
      BY <2>1
    <3>2. ASSUME NEW i \in 1..m PROVE g[i] = round[i][g[i - 1]]
      <4>1. CASE i = m
        BY <4>1
      <4>2. CASE i # m
        <5>1. i \in 1..(m - 1) /\ g[i] = f[i] /\ g[i - 1] = f[i - 1]
          BY <4>2
        <5> QED BY <2>1, <5>1
      <4> QED BY <4>1, <4>2
    <3> QED BY <3>1, <3>2
  <2> HIDE DEF g, Runs
  <2> QED BY <2>2, <2>3
<1>3. n \in S
  <2> HIDE DEF S
  <2>1. 0..n \subseteq S
    BY <1>1, <1>2, InductionTo
  <2> QED BY <2>1
<1> QED BY <1>3 DEF Loop

-----------------------------------------------------------------------------
(* Lists that grow.                                                        *)

\* One more after a list.
LEMMA OneAfter ==
  ASSUME NEW S, NEW t \in Seq(S), NEW x \in S
  PROVE  /\ t \o <<x>> \in Seq(S) /\ Len(t \o <<x>>) = Len(t) + 1
         /\ (t \o <<x>>)[Len(t) + 1] = x
         /\ \A i \in 1..Len(t) : (t \o <<x>>)[i] = t[i]
<1>1. t \o <<x>> = Append(t, x)
  BY AppendIsConcat
<1>2. Append(t, x) \in Seq(S) /\ Len(Append(t, x)) = Len(t) + 1 /\ Append(t, x)[Len(t) + 1] = x
  BY AppendProperties
<1>3. \A i \in 1..Len(t) : Append(t, x)[i] = t[i]
  BY AppendProperties
<1> QED BY <1>1, <1>2, <1>3

\* And in the set of its elements.
LEMMA ToSetOfAppend ==
  ASSUME NEW S, NEW s \in Seq(S), NEW x \in S
  PROVE  Append(s, x) \in Seq(S) /\ ToSet(Append(s, x)) = ToSet(s) \cup {x}
<1>1. /\ Append(s, x) \in Seq(S) /\ Len(Append(s, x)) = Len(s) + 1 /\ Len(s) \in Nat
      /\ Append(s, x)[Len(s) + 1] = x
      /\ \A i \in 1..Len(s) : Append(s, x)[i] = s[i]
  BY AppendProperties
<1>2. DOMAIN Append(s, x) = 1..(Len(s) + 1) /\ DOMAIN s = 1..Len(s)
  BY <1>1
<1>3. 1..(Len(s) + 1) = (1..Len(s)) \cup {Len(s) + 1}
  BY <1>1
<1> QED BY <1>1, <1>2, <1>3 DEF ToSet

=============================================================================
