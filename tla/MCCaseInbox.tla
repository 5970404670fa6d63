----------------------------- MODULE MCCaseInbox -----------------------------
EXTENDS CaseInbox, TLC
CONSTANTS d1, d2, m1, m2, n1, n2, c1

\* One notice encloses both petitions, the other repeats the first.
TwoNotices == m1 :> <<d1, d2>> @@ m2 :> <<d1>>
OneClient == d1 :> c1 @@ d2 :> c1
ReadOrMissed == d1 :> {n1, NoNumber} @@ d2 :> {n1, n2}
Runs == {[notices |-> 2, requests |-> 3], [notices |-> 3, requests |-> 1]}
Symmetry == Permutations(Cycles) \cup Permutations(Members)
=============================================================================
