------------------------------ MODULE WriteOnce ------------------------------
(***************************************************************************)
(* What memoization promises the code that serves one incoming request:    *)
(* each slot (a client and a cache key) is decided once, by an answer or a *)
(* failure, and every call that asked for the slot gets that decision.     *)
(***************************************************************************)
CONSTANTS
    Calls,    \* those who ask
    Slots,    \* what they ask for
    Answers,  \* what a slot may be decided as
    Pending,  \* not an answer: undecided
    Unasked   \* not a slot: has not asked

VARIABLES
    asked,    \* the slot each call asked for, or Unasked
    decided,  \* the decision of each slot, or Pending
    got       \* what each call was given, or Pending

wvars == <<asked, decided, got>>

Init ==
    /\ asked = [c \in Calls |-> Unasked]
    /\ decided = [s \in Slots |-> Pending]
    /\ got = [c \in Calls |-> Pending]

Ask(c, s) ==
    /\ asked[c] = Unasked
    /\ asked' = [asked EXCEPT ![c] = s]
    /\ UNCHANGED <<decided, got>>

\* The first answer given decides the slot; the others repeat it.
Give(c) ==
    LET a == got'[c] IN
    /\ asked[c] # Unasked
    /\ got[c] = Pending
    /\ a \in Answers
    /\ decided[asked[c]] \in {Pending, a}
    /\ decided' = [decided EXCEPT ![asked[c]] = a]
    /\ got' = [got EXCEPT ![c] = a]
    /\ UNCHANGED asked

Next == \E c \in Calls : Give(c) \/ \E s \in Slots : Ask(c, s)

Spec == Init /\ [][Next]_wvars

=============================================================================
