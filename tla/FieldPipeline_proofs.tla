------------------------- MODULE FieldPipeline_proofs -------------------------
(* What holds of a run for every number of fields and every spec. *)
EXTENDS FieldPipeline, FiniteSetTheorems, WellFoundedInduction, TLAPS

USE CountAssumption, OutcomesAssumption, AskingAssumption

(* A row an agent makes has the type of rows and is not the missing one. *)
LEMMA MadeRow ==
    ASSUME TypeOK, NEW f \in Fields, Stage(f) # "user", Dispatch(f)
    PROVE  /\ pending' = pending
           /\ rows' \in [Fields -> Rows \cup {NoRow}]
           /\ rows'[f] \in Rows /\ rows'[f] # NoRow
           /\ rows'[f].saw = Given(f)
           /\ \A g \in Fields : g # f => rows'[g] = rows[g]
<1>1. PICK b \in Answers(f) : rows' = [rows EXCEPT ![f] = [filled |-> b, saw |-> Given(f)]]
    BY DEF Dispatch
<1>2. b \in BOOLEAN
    BY DEF Answers
<1>3. Given(f) \in SUBSET Fields
    BY DEF Given, Deps
<1>4. [filled |-> b, saw |-> Given(f)] \in Rows
    BY <1>2, <1>3 DEF Rows
<1>5. 0 \notin Given(f)
    BY <1>3 DEF Fields
<1>6. [filled |-> b, saw |-> Given(f)] # NoRow
    BY <1>5 DEF NoRow, NoName
<1>7. rows \in [Fields -> Rows \cup {NoRow}]
    BY DEF TypeOK
<1> QED
    BY <1>1, <1>4, <1>6, <1>7 DEF Dispatch

(* Asking the user changes no row. *)
LEMMA AskedUser ==
    ASSUME NEW f \in Fields, Stage(f) = "user", Dispatch(f)
    PROVE  pending' = pending \cup {f} /\ rows' = rows
    BY DEF Dispatch

(* Visiting a field keeps the type invariant. *)
LEMMA VisitTypes ==
    ASSUME TypeOK, NEW f \in Fields, NEW pass \in Passes, Visits(pass, f),
           changed' \in BOOLEAN
    PROVE  TypeOK'
<1>1. spec' = spec /\ phase' = phase /\ at' = f + 1
    BY DEF Visits
<1>2. at' \in 1..(N + 1)
    BY <1>1 DEF Fields
<1>3. /\ rows' \in [Fields -> Rows \cup {NoRow}]
      /\ pending' \in SUBSET {g \in Fields : Stage(g) = "user"}
  <2>1. CASE Stage(f) = "user"
    BY <2>1, AskedUser DEF TypeOK, Visits
  <2>2. CASE Stage(f) # "user"
    BY <2>2, MadeRow DEF TypeOK, Visits
  <2> QED
    BY <2>1, <2>2
<1>4. {g \in Fields : Stage(g)' = "user"} = {g \in Fields : Stage(g) = "user"}
    BY <1>1 DEF Stage
<1> QED
    BY <1>1, <1>2, <1>3, <1>4 DEF TypeOK

(* Picks are made for fields that wait for the user, and give them rows. *)
LEMMA PickedRows ==
    ASSUME TypeOK, NEW picks \in SUBSET pending, NEW blank \in SUBSET picks,
           Submit(picks, blank)
    PROVE  /\ rows' \in [Fields -> Rows \cup {NoRow}]
           /\ \A f \in Fields : Stage(f) # "user" => rows'[f] = rows[f]
<1>1. \A b \in BOOLEAN : [filled |-> b, saw |-> {}] \in Rows
    BY DEF Rows
<1>2. \A f \in picks : Stage(f) = "user"
    BY DEF TypeOK
<1>3. rows \in [Fields -> Rows \cup {NoRow}]
    BY DEF TypeOK
<1>4. rows' = [f \in Fields |->
                  IF f \in picks THEN [filled |-> f \notin blank, saw |-> {}]
                  ELSE rows[f]]
    BY DEF Submit
<1> QED
    BY <1>1, <1>2, <1>3, <1>4

(* A run starts with its types. *)
LEMMA InitTypes == Init => TypeOK
<1> SUFFICES ASSUME Init PROVE TypeOK
    OBVIOUS
<1>1. 1 \in 1..(N + 1)
    OBVIOUS
<1> QED
    BY <1>1 DEF Init, TypeOK, Passes

(* Every action keeps the types. *)
LEMMA NextTypes == TypeOK /\ [Next]_vars => TypeOK'
<1> SUFFICES ASSUME TypeOK, [Next]_vars PROVE TypeOK'
    OBVIOUS
<1>u. spec' = spec => \A g \in Fields : Stage(g)' = Stage(g)
    BY DEF Stage
<1>1. ASSUME NEW f \in Fields, FirstPass(f) PROVE TypeOK'
  <2>1. changed' \in BOOLEAN
    BY <1>1 DEF FirstPass, TypeOK
  <2> QED
    BY <1>1, <2>1, VisitTypes DEF FirstPass, Passes
<1>2. ASSUME NEW f \in Fields, EarlyDerive(f) PROVE TypeOK'
  <2>1. changed' \in BOOLEAN
    BY <1>2 DEF EarlyDerive, TypeOK
  <2> QED
    BY <1>2, <2>1, VisitTypes DEF EarlyDerive, Passes
<1>3. ASSUME NEW f \in Fields, LateDerive(f) PROVE TypeOK'
  <2>1. changed' \in BOOLEAN
    BY <1>3 DEF LateDerive, TypeOK
  <2> QED
    BY <1>3, <2>1, VisitTypes DEF LateDerive, Passes
<1>4. ASSUME NEW f \in Fields, WaveBPass(f) PROVE TypeOK'
  <2>1. changed' \in BOOLEAN
    BY <1>4 DEF WaveBPass, TypeOK
  <2> QED
    BY <1>4, <2>1, VisitTypes DEF WaveBPass, Passes
<1>5. ASSUME NEW f \in Fields, FinalDerive(f) PROVE TypeOK'
  <2>1. changed' \in BOOLEAN
    BY <1>5 DEF FinalDerive
  <2> QED
    BY <1>5, <2>1, VisitTypes DEF FinalDerive, Passes
<1>6. ASSUME NEW pass \in Passes, PassEnds(pass),
             phase' \in Passes \cup {"paused", "done"}
      PROVE  TypeOK'
  <2>1. /\ spec' = spec /\ rows' = rows /\ pending' = pending
        /\ at' = 1 /\ changed' = FALSE
    BY <1>6 DEF PassEnds
  <2>2. at' \in 1..(N + 1)
    BY <2>1
  <2>3. {g \in Fields : Stage(g)' = "user"} = {g \in Fields : Stage(g) = "user"}
    BY <2>1, <1>u
  <2> QED
    BY <1>6, <2>1, <2>2, <2>3 DEF TypeOK
<1>7. ASSUME NEW picks \in SUBSET pending, NEW blank \in SUBSET picks,
             Submit(picks, blank)
      PROVE  TypeOK'
  <2>1. spec' = spec /\ at' = at /\ changed' = changed /\ pending' = pending /\ phase' = "late"
    BY <1>7 DEF Submit
  <2> QED
    BY <1>7, <1>u, <2>1, PickedRows DEF TypeOK, Passes
<1>8. CASE UNCHANGED vars
    BY <1>8, <1>u DEF TypeOK, vars
<1>9. FirstEnds => TypeOK'
    BY <1>6 DEF FirstEnds, Passes
<1>10. EarlyEnds => TypeOK'
    BY <1>6 DEF EarlyEnds, Passes
<1>11. LateEnds => TypeOK'
    BY <1>6 DEF LateEnds, Passes
<1>12. WaveBEnds => TypeOK'
    BY <1>6 DEF WaveBEnds, Passes
<1>13. FinalEnds => TypeOK'
    BY <1>6 DEF FinalEnds, Passes
<1> QED
    BY <1>1, <1>2, <1>3, <1>4, <1>5, <1>7, <1>8, <1>9, <1>10, <1>11, <1>12, <1>13
    DEF Next, Resolve

(* Every run keeps its types, and only fields that need the user are asked *)
(* for (pipeline.py _record_dispatch_result).                              *)
THEOREM TypeCorrect == Spec => []TypeOK
    BY InitTypes, NextTypes, PTL DEF Spec

-----------------------------------------------------------------------------
(* A derivation that is visited sees its parent. *)
LEMMA SeesParent ==
    ASSUME TypeOK, NEW f \in Fields, NEW pass \in Passes, Visits(pass, f),
           Stage(f) = "derived"
    PROVE  Given(f) = {Parent(f)}
<1>1. pass \in {"early", "late", "final"} /\ ParentResolved(f)
  <2>1. Due(pass, f)
    BY DEF Visits
  <2>2. Stage(f) = "derived" => ~ FirstDue(f) /\ ~ WaveBDue(f)
    BY DEF FirstDue, WaveBDue, WaveB
  <2> QED
    BY <2>1, <2>2 DEF Due, EarlyDue, LateDue, FinalDue
<1> QED
    BY <1>1 DEF Given, ParentResolved

(* Visiting a field keeps the derivations after their parents. *)
LEMMA VisitParents ==
    ASSUME TypeOK, ParentsFirst, NEW f \in Fields, NEW pass \in Passes, Visits(pass, f)
    PROVE  ParentsFirst'
<1>1. spec' = spec
    BY DEF Visits
<1>2. Dispatch(f)
    BY DEF Visits
<1> SUFFICES ASSUME NEW g \in Fields, Stage(g) = "derived", rows'[g] # NoRow
             PROVE  rows'[g].saw = {Parent(g)}
    BY <1>1 DEF ParentsFirst, Stage, Parent, Resolved
<1>3. CASE Stage(f) = "user"
    BY <1>2, <1>3, AskedUser DEF ParentsFirst, Resolved
<1>4. CASE Stage(f) # "user" /\ g = f
    BY <1>2, <1>4, MadeRow, SeesParent
<1>5. CASE Stage(f) # "user" /\ g # f
    BY <1>2, <1>5, MadeRow DEF ParentsFirst, Resolved
<1> QED
    BY <1>3, <1>4, <1>5

(* Every action keeps the derivations after their parents. *)
LEMMA NextParents == TypeOK /\ ParentsFirst /\ [Next]_vars => ParentsFirst'
<1> SUFFICES ASSUME TypeOK, ParentsFirst, [Next]_vars PROVE ParentsFirst'
    OBVIOUS
<1>1. ASSUME NEW f \in Fields, NEW pass \in Passes, Visits(pass, f) PROVE ParentsFirst'
    BY <1>1, VisitParents
<1>2. ASSUME NEW pass \in Passes, PassEnds(pass) PROVE ParentsFirst'
    BY <1>2 DEF PassEnds, ParentsFirst, Stage, Parent, Resolved
<1>3. ASSUME NEW picks \in SUBSET pending, NEW blank \in SUBSET picks,
             Submit(picks, blank)
      PROVE  ParentsFirst'
  <2>1. spec' = spec
    BY <1>3 DEF Submit
  <2>2. \A f \in Fields : Stage(f) # "user" => rows'[f] = rows[f]
    BY <1>3, PickedRows
  <2> QED
    BY <2>1, <2>2 DEF ParentsFirst, Stage, Parent, Resolved
<1>4. CASE UNCHANGED vars
    BY <1>4 DEF ParentsFirst, Stage, Parent, Resolved, vars
<1>5. (\E f \in Fields : FirstPass(f) \/ EarlyDerive(f) \/ LateDerive(f)
                         \/ WaveBPass(f) \/ FinalDerive(f)) => ParentsFirst'
    BY <1>1 DEF FirstPass, EarlyDerive, LateDerive, WaveBPass, FinalDerive, Passes
<1>6. FirstEnds \/ EarlyEnds \/ LateEnds \/ WaveBEnds \/ FinalEnds => ParentsFirst'
    BY <1>2 DEF FirstEnds, EarlyEnds, LateEnds, WaveBEnds, FinalEnds, Passes
<1> QED
    BY <1>3, <1>4, <1>5, <1>6 DEF Next, Resolve

(* No derivation is made before its parent has a row, in a template of any *)
(* size, whether or not its spec is valid (dispatcher.py _dispatch_derive).*)
THEOREM ParentsFirstCorrect == Spec => []ParentsFirst
<1>1. Init => ParentsFirst
    BY DEF Init, ParentsFirst, Resolved
<1> QED
    BY <1>1, InitTypes, NextTypes, NextParents, PTL DEF Spec

-----------------------------------------------------------------------------
(* A round of the final pass that has resolved nothing yet began at the    *)
(* first field and has dispatched none, so it still stands there.          *)
Untouched == phase = "final" /\ changed = FALSE => at = 1

Derived == TypeOK /\ Untouched /\ NothingDerivableLeft

(* A run starts with nothing gone by. *)
LEMMA InitDerived == Init => Derived
    BY InitTypes DEF Init, Derived, Untouched, NothingDerivableLeft

(* Every action keeps what the end of a resumed run rests on. *)
LEMMA NextDerived == Derived /\ [Next]_vars => Derived'
<1> SUFFICES ASSUME Derived, [Next]_vars PROVE Derived'
    OBVIOUS
<1>1. TypeOK'
    BY NextTypes DEF Derived
<1> SUFFICES Untouched' /\ NothingDerivableLeft'
    BY <1>1 DEF Derived
<1>2. ASSUME NEW f \in Fields, FirstPass(f) \/ EarlyDerive(f) \/ LateDerive(f) \/ WaveBPass(f)
      PROVE  phase' \notin {"final", "done"}
    BY <1>2 DEF FirstPass, EarlyDerive, LateDerive, WaveBPass, Visits
<1>3. ASSUME NEW f \in Fields, FinalDerive(f) PROVE phase' = "final" /\ changed' = TRUE
    BY <1>3 DEF FinalDerive, Visits
<1>4. FirstEnds \/ LateEnds => phase' \notin {"final", "done"}
    BY DEF FirstEnds, LateEnds
<1>5. EarlyEnds => phase' = "paused" \/ (phase' = "done" /\ pending' = {})
    BY DEF EarlyEnds, PassEnds
<1>6. WaveBEnds => phase' = "final" /\ at' = 1
    BY DEF WaveBEnds, PassEnds
<1>7. FinalEnds => Untouched' /\ NothingDerivableLeft'
  <2> SUFFICES ASSUME FinalEnds PROVE Untouched' /\ NothingDerivableLeft'
    OBVIOUS
  <2>1. Untouched'
    BY DEF FinalEnds, PassEnds, Untouched
  <2>2. CASE changed = TRUE
    BY <2>1, <2>2 DEF FinalEnds, NothingDerivableLeft
  <2>3. CASE changed = FALSE
    <3>1. at = 1
      BY <2>3 DEF FinalEnds, PassEnds, Derived, Untouched
    <3>2. \A g \in Fields : ~ FinalDue(g)
      BY <3>1 DEF FinalEnds, PassEnds, Due, Fields
    <3>3. spec' = spec /\ rows' = rows
      BY DEF FinalEnds, PassEnds
    <3> QED
      BY <2>1, <3>2, <3>3
      DEF NothingDerivableLeft, FinalDue, Stage, Parent, Resolved, ParentResolved
  <2> QED
    BY <2>2, <2>3 DEF Derived, TypeOK
<1>8. ASSUME NEW picks \in SUBSET pending, NEW blank \in SUBSET picks,
             Submit(picks, blank)
      PROVE  phase' = "late"
    BY <1>8 DEF Submit
<1>9. CASE UNCHANGED vars
    BY <1>9 DEF vars, Derived, Untouched, NothingDerivableLeft, FinalDue, Stage, Parent,
                Resolved, ParentResolved
<1> QED
    BY <1>2, <1>3, <1>4, <1>5, <1>6, <1>7, <1>8, <1>9
    DEF Next, Resolve, Untouched, NothingDerivableLeft

(* A resumed run ends with nothing derivable left, in a template of any    *)
(* size: the repetition of step 4 stops only at a fixed point (pipeline.py)*)
THEOREM NothingDerivableLeftCorrect == Spec => []NothingDerivableLeft
<1>1. Derived => NothingDerivableLeft
    BY DEF Derived
<1> QED
    BY <1>1, InitDerived, NextDerived, PTL DEF Spec

-----------------------------------------------------------------------------
(* A set of naturals that is not empty has a least member. *)
LEMMA LeastNatural ==
    ASSUME NEW S \in SUBSET Nat, NEW n \in S
    PROVE  \E m \in S : \A k \in S : m <= k
<1>1. PICK m \in S : \A k \in S : <<k, m>> \notin OpToRel(<, Nat)
    BY WFMin, NatLessThanWellFounded
<1>2. \A k \in S : ~ (k < m)
    BY <1>1 DEF OpToRel
<1> QED
    BY <1>2

(* Induction along an interval, for a set. *)
LEMMA UpTo ==
    ASSUME NEW n \in Nat, NEW S, 0 \in S,
           \A k \in 1..n : k - 1 \in S => k \in S
    PROVE  \A k \in 0..n : k \in S
<1> DEFINE missed == {k \in 0..n : k \notin S}
<1> SUFFICES ASSUME NEW k \in missed PROVE FALSE
    OBVIOUS
<1>1. missed \in SUBSET Nat
    OBVIOUS
<1>2. PICK m \in missed : \A j \in missed : m <= j
    BY <1>1, LeastNatural
<1>3. m \in 1..n
    BY <1>2
<1>4. m - 1 \in 0..n /\ m - 1 \notin missed
    BY <1>2, <1>3
<1> QED
    BY <1>2, <1>3, <1>4

(* g tabulates a function of D repeated n times. *)
Tabulates(g, D, c, step, n) ==
    g \in [0..n -> D] /\ g[0] = c /\ \A k \in 1..n : g[k] = step[g[k - 1]]

(* What is repeated a number of times can be tabulated. *)
LEMMA Iterates ==
    ASSUME NEW D, NEW c \in D, NEW step \in [D -> D], NEW n \in Nat
    PROVE  \E g : Tabulates(g, D, c, step, n)
<1> DEFINE tabulated(m, g) ==
        g \in [0..m -> D] /\ g[0] = c /\ \A k \in 1..m : g[k] = step[g[k - 1]]
<1> DEFINE S == {m \in 0..n : \E g : tabulated(m, g)}
<1>1. 0 \in S
  <2>1. tabulated(0, [k \in 0..0 |-> c])
    OBVIOUS
  <2> HIDE DEF tabulated
  <2> QED
    BY <2>1
<1>2. ASSUME NEW m \in 1..n, m - 1 \in S PROVE m \in S
  <2>1. PICK g : tabulated(m - 1, g)
    BY <1>2
  <2> DEFINE h == [k \in 0..m |-> IF k = m THEN step[g[m - 1]] ELSE g[k]]
  <2>2. g[m - 1] \in D
    BY <2>1
  <2>3. h \in [0..m -> D] /\ h[0] = c
    BY <2>1, <2>2
  <2>4. ASSUME NEW k \in 1..m PROVE h[k] = step[h[k - 1]]
    <3>1. CASE k = m
      BY <2>1, <3>1
    <3>2. CASE k # m
      <4>1. k \in 1..(m - 1) /\ k - 1 \in 0..m /\ k - 1 # m
        BY <3>2
      <4> QED
        BY <2>1, <4>1
    <3> QED
      BY <3>1, <3>2
  <2>5. tabulated(m, h)
    BY <2>3, <2>4
  <2> HIDE DEF tabulated, h
  <2> QED
    BY <2>5
<1>3. n \in S
  <2> HIDE DEF S
  <2> QED
    BY <1>1, <1>2, UpTo
<1>4. PICK g : tabulated(n, g)
    BY <1>3
<1>5. Tabulates(g, D, c, step, n)
    BY <1>4 DEF Tabulates
<1> QED
    BY <1>5

-----------------------------------------------------------------------------
(* A round removes the fields whose edges lead to removed fields. *)
LEMMA RoundsSteps ==
    ASSUME NEW s
    PROVE  /\ Rounds(s)[0] = {}
           /\ \A k \in 1..N :
                 Rounds(s)[k] = {f \in Fields : Edges(s, f) \subseteq Rounds(s)[k - 1]}
<1> DEFINE round(D) == {f \in Fields : Edges(s, f) \subseteq D}
           P(h) == h = [k \in 0..N |-> IF k = 0 THEN {} ELSE round(h[k - 1])]
           step == [D \in SUBSET Fields |-> round(D)]
<1>1. PICK g : Tabulates(g, SUBSET Fields, {}, step, N)
  <2>1. step \in [SUBSET Fields -> SUBSET Fields] /\ {} \in SUBSET Fields
    OBVIOUS
  <2> HIDE DEF step
  <2> QED
    BY <2>1, Iterates
<1>2. P(g)
  <2>1. /\ g \in [0..N -> SUBSET Fields] /\ g[0] = {}
        /\ \A k \in 1..N : g[k] = step[g[k - 1]]
    BY <1>1 DEF Tabulates
  <2>2. \A k \in 1..N : g[k - 1] \in SUBSET Fields
    BY <2>1
  <2>3. \A k \in 1..N : g[k] = round(g[k - 1])
    BY <2>1, <2>2
  <2> HIDE DEF round
  <2>4. \A k \in 0..N : g[k] = IF k = 0 THEN {} ELSE round(g[k - 1])
    BY <2>1, <2>3
  <2> QED
    BY <2>1, <2>4
<1>3. Rounds(s) = CHOOSE h : P(h)
    BY DEF Rounds
<1>4. P(Rounds(s))
  <2> HIDE DEF P
  <2> QED
    BY <1>2, <1>3
<1>5. \A k \in 0..N : Rounds(s)[k] = IF k = 0 THEN {} ELSE round(Rounds(s)[k - 1])
  <2> HIDE DEF round
  <2> QED
    BY <1>4
<1>6. Rounds(s)[0] = {} /\ \A k \in 1..N : Rounds(s)[k] = round(Rounds(s)[k - 1])
  <2> HIDE DEF round
  <2> QED
    BY <1>5
<1> QED
    BY <1>6

(* What is sorted is exactly what can be ranked. *)
LEMMA RankedIsSorted ==
    ASSUME NEW s, NEW rank \in [Fields -> Fields],
           \A f \in Fields : \A g \in Edges(s, f) : rank[g] < rank[f]
    PROVE  Sorted(s) = Fields
<1> DEFINE S == {k \in 0..N : \A f \in Fields : rank[f] <= k => f \in Rounds(s)[k]}
<1>1. 0 \in S
    BY DEF Fields
<1>2. ASSUME NEW k \in 1..N, k - 1 \in S PROVE k \in S
  <2> SUFFICES ASSUME NEW f \in Fields, rank[f] <= k PROVE f \in Rounds(s)[k]
    OBVIOUS
  <2>1. ASSUME NEW g \in Edges(s, f) PROVE g \in Rounds(s)[k - 1]
    <3>1. g \in Fields
      BY DEF Edges
    <3>2. rank[g] <= k - 1
      BY <3>1 DEF Fields
    <3> QED
      BY <1>2, <3>1, <3>2
  <2> QED
    BY <2>1, RoundsSteps
<1>3. N \in S
  <2> HIDE DEF S
  <2> QED
    BY <1>1, <1>2, UpTo
<1>4. \A f \in Fields : f \in Rounds(s)[N]
    BY <1>3 DEF Fields
<1>5. Rounds(s)[N] \subseteq Fields
  <2>1. CASE N = 0
    BY <2>1, RoundsSteps
  <2>2. CASE N # 0
    BY <2>2, RoundsSteps
  <2> QED
    BY <2>1, <2>2
<1> QED
    BY <1>4, <1>5 DEF Sorted

(* The round that removes a field ranks it. *)
LEMMA SortedIsRanked ==
    ASSUME NEW s, Sorted(s) = Fields
    PROVE  \E rank \in [Fields -> Fields] :
               \A f \in Fields : \A g \in Edges(s, f) : rank[g] < rank[f]
<1> DEFINE removed(f, k) == k \in 0..N /\ f \in Rounds(s)[k]
           first(f, k) == removed(f, k) /\ \A j \in 0..N : removed(f, j) => k <= j
           rank == [f \in Fields |-> CHOOSE k \in 0..N : first(f, k)]
<1>1. ASSUME NEW f \in Fields PROVE \E k \in 0..N : first(f, k)
  <2> DEFINE S == {k \in 0..N : removed(f, k)}
  <2>1. N \in S
    BY DEF Sorted
  <2>2. S \in SUBSET Nat
    OBVIOUS
  <2> HIDE DEF removed
  <2>3. PICK m \in S : \A k \in S : m <= k
    BY <2>1, <2>2, LeastNatural
  <2> QED
    BY <2>3
<1>2. ASSUME NEW f \in Fields PROVE rank[f] \in 0..N /\ first(f, rank[f])
  <2> HIDE DEF first
  <2> QED
    BY <1>1
<1> HIDE DEF rank
<1>3. ASSUME NEW f \in Fields PROVE rank[f] \in 1..N
    BY <1>2, RoundsSteps
<1>4. ASSUME NEW f \in Fields, NEW g \in Edges(s, f) PROVE rank[g] < rank[f]
  <2>1. g \in Fields
    BY DEF Edges
  <2>2. f \in Rounds(s)[rank[f]]
    BY <1>2
  <2>3. g \in Rounds(s)[rank[f] - 1]
    BY <1>3, <2>2, RoundsSteps
  <2>4. rank[f] - 1 \in 0..N
    BY <1>3
  <2>5. rank[g] <= rank[f] - 1
    BY <1>2, <2>1, <2>3, <2>4
  <2> QED
    BY <1>3, <2>1, <2>5
<1>5. rank \in [Fields -> Fields]
    BY <1>3 DEF rank, Fields
<1> QED
    BY <1>4, <1>5

(* The gate is right about every spec, not only the one a run starts from. *)
LEMMA GateRanks ==
    ASSUME TypeOK
    PROVE  GateAcceptsRanked
<1> DEFINE needs(f) == spec[f].deps \cup IF Stage(f) = "derived" THEN {Parent(f)} ELSE {}
           ranks(rank) == \A f \in Fields : \A g \in needs(f) : g \in Fields /\ rank[g] < rank[f]
<1>1. ASSUME Valid(spec) PROVE \E rank \in [Fields -> Fields] : ranks(rank)
  <2>1. PICK rank \in [Fields -> Fields] :
            \A f \in Fields : \A g \in Edges(spec, f) : rank[g] < rank[f]
    BY <1>1, SortedIsRanked DEF Valid
  <2>2. ASSUME NEW f \in Fields, NEW g \in needs(f) PROVE g \in Edges(spec, f)
    BY <1>1 DEF Valid, Edges, Stage, Parent
  <2>3. \A f \in Fields : Edges(spec, f) \subseteq Fields
    BY DEF Edges
  <2> QED
    BY <2>1, <2>2, <2>3
<1>2. ASSUME NEW rank \in [Fields -> Fields], ranks(rank) PROVE Valid(spec)
  <2>1. ASSUME NEW f \in Fields, NEW g \in needs(f) PROVE g \in Fields \ {f}
    BY <1>2, <2>1 DEF Fields
  <2>2. \A f \in Fields : Edges(spec, f) \subseteq needs(f)
    BY DEF Edges, Stage, Parent
  <2>3. Sorted(spec) = Fields
    BY <1>2, <2>2, RankedIsSorted
  <2> QED
    BY <2>1, <2>3 DEF Valid, Stage, Parent
<1> QED
    BY <1>1, <1>2 DEF GateAcceptsRanked

(* The publish gate accepts exactly the specs whose fields can be ranked,  *)
(* for every number of fields (validators.py                               *)
(* _validate_no_resolution_cycles_v2).                                     *)
THEOREM GateAcceptsRankedCorrect == Spec => []GateAcceptsRanked
    BY TypeCorrect, GateRanks, PTL

-----------------------------------------------------------------------------
(* The classification of a field stays what it is during a run. *)
LEMMA SpecStays ==
    ASSUME spec' = spec
    PROVE  \A f : /\ Stage(f)' = Stage(f) /\ Parent(f)' = Parent(f) /\ Deps(f)' = Deps(f)
                  /\ WaveB(f)' = WaveB(f) /\ FirstDue(f)' = FirstDue(f)
<1> TAKE f
<1>1. \A g : Stage(g)' = Stage(g) /\ Parent(g)' = Parent(g) /\ Deps(g)' = Deps(g)
    BY DEF Stage, Parent, Deps
<1>2. \A g : Root(g)' = Root(g)
    BY DEF Root, Chain, Up, Stage, Parent
<1>3. Queried(f)' = Queried(f)
    BY DEF Queried, Met, Deps
<1>4. WaveB(f)' = WaveB(f)
    BY <1>1, <1>2, <1>3 DEF WaveB
<1> QED
    BY <1>1, <1>4 DEF FirstDue

(* A visit settles its field and takes nothing back. *)
LEMMA VisitSettles ==
    ASSUME TypeOK, NEW f \in Fields, NEW pass, Visits(pass, f)
    PROVE  /\ IF Stage(f) = "user" THEN f \in pending' ELSE rows'[f] # NoRow
           /\ pending \subseteq pending'
           /\ \A g \in Fields : rows[g] # NoRow => rows'[g] # NoRow
           /\ Stage(f) # "user" => pending' = pending
<1>1. Dispatch(f)
    BY DEF Visits
<1>2. CASE Stage(f) = "user"
    BY <1>1, <1>2, AskedUser
<1>3. CASE Stage(f) # "user"
    BY <1>1, <1>3, MadeRow
<1> QED
    BY <1>2, <1>3

(* What the first pass has gone by waits for the user or has a row. *)
FirstInv ==
    \A f \in Fields : FirstDue(f) /\ (phase = "first" => f < at) =>
        IF Stage(f) = "user" THEN f \in pending ELSE Resolved(f)

(* What the wave-B pass of a resumed run has gone by has a row. *)
WaveBInv ==
    \A f \in Fields :
        WaveB(f) /\ (\/ phase = "waveB" /\ f < at
                     \/ phase = "final"
                     \/ phase = "done" /\ pending # {})
            => Resolved(f)

SettledInv == FirstInv /\ WaveBInv

(* A visit goes by no field that is due. *)
LEMMA VisitSettled ==
    ASSUME TypeOK, SettledInv, NEW f \in Fields, NEW pass \in Passes, Visits(pass, f)
    PROVE  SettledInv'
<1>1. /\ spec' = spec /\ phase = pass /\ phase' = pass /\ at' = f + 1 /\ at <= f
      /\ Due(pass, f) /\ \A g \in at..(f - 1) : ~ Due(pass, g)
    BY DEF Visits
<1>2. at \in Nat /\ Fields \subseteq Nat
    BY DEF TypeOK, Fields
<1>3. FirstInv'
  <2> SUFFICES ASSUME NEW g \in Fields, FirstDue(g), phase' = "first" => g < at'
               PROVE  IF Stage(g) = "user" THEN g \in pending' ELSE rows'[g] # NoRow
    BY <1>1, SpecStays DEF FirstInv, Resolved
  <2>1. CASE g = f
    BY <2>1, VisitSettles
  <2>2. CASE g # f
    <3>1. phase = "first" => g < at
      <4> SUFFICES ASSUME pass = "first", ~ g < at PROVE FALSE
        BY <1>1
      <4>1. g \in at..(f - 1)
        BY <1>1, <1>2, <2>2
      <4> QED
        BY <1>1, <4>1 DEF Due
    <3> QED
      BY <3>1, VisitSettles DEF SettledInv, FirstInv, Resolved
  <2> QED
    BY <2>1, <2>2
<1>4. WaveBInv'
  <2> SUFFICES ASSUME NEW g \in Fields, WaveB(g),
                      (phase' = "waveB" /\ g < at') \/ phase' = "final"
               PROVE  rows'[g] # NoRow
    BY <1>1, SpecStays DEF WaveBInv, Resolved, Passes
  <2>0. Stage(g) # "user"
    BY DEF WaveB
  <2>1. CASE g = f
    BY <2>0, <2>1, VisitSettles
  <2>2. CASE g # f
    <3>1. CASE phase = "waveB" /\ ~ g < at
      <4>1. g \in at..(f - 1)
        BY <1>1, <1>2, <2>2, <3>1
      <4>2. ~ WaveBDue(g)
        BY <1>1, <3>1, <4>1 DEF Due
      <4> QED
        BY <4>2, VisitSettles DEF WaveBDue, Resolved
    <3>2. CASE (phase = "waveB" /\ g < at) \/ phase = "final"
      BY <3>2, VisitSettles DEF SettledInv, WaveBInv, Resolved
    <3> QED
      BY <1>1, <3>1, <3>2
  <2> QED
    BY <2>1, <2>2
<1> QED
    BY <1>3, <1>4 DEF SettledInv

(* A pass ends when it has gone by all. *)
LEMMA EndSettled ==
    ASSUME TypeOK, SettledInv,
           FirstEnds \/ EarlyEnds \/ LateEnds \/ WaveBEnds \/ FinalEnds
    PROVE  SettledInv'
<1>1. /\ spec' = spec /\ rows' = rows /\ pending' = pending /\ phase' # "first"
      /\ phase = "first" => \A g \in at..N : ~ Due("first", g)
      /\ phase' \in {"final", "done"} /\ pending # {} => phase \in {"waveB", "final"}
      /\ phase' = "final" => phase \in {"waveB", "final"}
      /\ phase' # "waveB" \/ at' = 1
      /\ phase = "waveB" => \A g \in at..N : ~ Due("waveB", g)
    BY DEF FirstEnds, EarlyEnds, LateEnds, WaveBEnds, FinalEnds, PassEnds
<1>2. \A g \in Fields : g < at \/ g \in at..N
    BY DEF TypeOK, Fields
<1>3. FirstInv'
  <2> SUFFICES ASSUME NEW g \in Fields, FirstDue(g)
               PROVE  IF Stage(g) = "user" THEN g \in pending ELSE rows[g] # NoRow
    BY <1>1, SpecStays DEF FirstInv, Resolved
  <2>1. phase = "first" => g < at
    BY <1>1, <1>2 DEF Due
  <2> QED
    BY <2>1 DEF SettledInv, FirstInv, Resolved
<1>4. WaveBInv'
  <2> SUFFICES ASSUME NEW g \in Fields, WaveB(g), phase \in {"waveB", "final"}
               PROVE  rows[g] # NoRow
    <3>1. \A g \in Fields : ~ (phase' = "waveB" /\ g < at')
      BY <1>1 DEF Fields
    <3> QED
      BY <1>1, <3>1, SpecStays DEF WaveBInv, Resolved
  <2>1. CASE phase = "waveB" /\ g \in at..N
    BY <1>1, <2>1 DEF Due, WaveBDue, Resolved
  <2>2. CASE phase = "final" \/ g < at
    BY <2>2 DEF SettledInv, WaveBInv, Resolved
  <2> QED
    BY <1>2, <2>1, <2>2
<1> QED
    BY <1>3, <1>4 DEF SettledInv

(* The picks give rows and take none. *)
LEMMA SubmitSettled ==
    ASSUME TypeOK, SettledInv, NEW picks \in SUBSET pending, NEW blank \in SUBSET picks,
           Submit(picks, blank)
    PROVE  SettledInv'
<1>1. spec' = spec /\ pending' = pending /\ phase = "paused" /\ phase' = "late"
    BY DEF Submit
<1>2. \A g \in Fields : Stage(g) # "user" => rows'[g] = rows[g]
    BY PickedRows
<1>3. FirstInv'
    BY <1>1, <1>2, SpecStays DEF SettledInv, FirstInv, Resolved
<1>4. WaveBInv'
    BY <1>1 DEF WaveBInv
<1> QED
    BY <1>3, <1>4 DEF SettledInv

(* Every action keeps what the passes have gone by settled. *)
LEMMA NextSettled == TypeOK /\ SettledInv /\ [Next]_vars => SettledInv'
<1> SUFFICES ASSUME TypeOK, SettledInv, [Next]_vars PROVE SettledInv'
    OBVIOUS
<1>1. ASSUME NEW f \in Fields, FirstPass(f) \/ EarlyDerive(f) \/ LateDerive(f)
                                \/ WaveBPass(f) \/ FinalDerive(f)
      PROVE  SettledInv'
    BY <1>1, VisitSettled DEF FirstPass, EarlyDerive, LateDerive, WaveBPass, FinalDerive, Passes
<1>2. ASSUME NEW picks \in SUBSET pending, NEW blank \in SUBSET picks,
             Submit(picks, blank)
      PROVE  SettledInv'
    BY <1>2, SubmitSettled
<1>3. CASE UNCHANGED vars
  <2>1. \A g : WaveB(g)' = WaveB(g) /\ FirstDue(g)' = FirstDue(g) /\ Stage(g)' = Stage(g)
    BY <1>3, SpecStays DEF vars
  <2> QED
    BY <1>3, <2>1 DEF vars, SettledInv, FirstInv, WaveBInv, Resolved
<1> QED
    BY <1>1, <1>2, <1>3, EndSettled DEF Next, Resolve

(* Fields without a row that all wait for another of them are behind a     *)
(* cycle, so the gate does not let them through.                           *)
LEMMA NoneWaitsForEver ==
    ASSUME Sorted(spec) = Fields, NEW U \in SUBSET Fields,
           \A f \in U : Edges(spec, f) \cap U # {}
    PROVE  U = {}
<1> DEFINE S == {k \in 0..N : Rounds(spec)[k] \cap U = {}}
<1>1. 0 \in S
    BY RoundsSteps
<1>2. ASSUME NEW k \in 1..N, k - 1 \in S PROVE k \in S
  <2>1. Rounds(spec)[k] = {f \in Fields : Edges(spec, f) \subseteq Rounds(spec)[k - 1]}
    BY RoundsSteps
  <2> QED
    BY <1>2, <2>1
<1>3. N \in S
  <2> HIDE DEF S
  <2> QED
    BY <1>1, <1>2, UpTo
<1> QED
    BY <1>3 DEF Sorted

(* A run that is over, was paused and got all its picks has a row for      *)
(* every field of a valid spec.                                            *)
LEMMA AllResolved ==
    ASSUME TypeOK, SettledInv, NothingDerivableLeft
    PROVE  NothingLeftOut
<1> SUFFICES ASSUME phase = "done", pending # {}, Valid(spec),
                    \A f \in pending : Resolved(f)
             PROVE  \A f \in Fields : Resolved(f)
    BY DEF NothingLeftOut
<1> DEFINE U == {f \in Fields : ~ Resolved(f)}
<1>1. ASSUME NEW f \in U PROVE Stage(f) = "derived"
  <2>1. ~ WaveB(f)
    BY DEF SettledInv, WaveBInv
  <2>2. ~ FirstDue(f)
    BY DEF SettledInv, FirstInv
  <2> QED
    BY <2>1, <2>2 DEF FirstDue
<1>2. ASSUME NEW f \in U PROVE Parent(f) \in Edges(spec, f) \cap U
  <2>1. Parent(f) \in Fields \ {f}
    BY <1>1 DEF Valid, Stage, Parent
  <2>2. ~ Resolved(Parent(f))
    BY <1>1, <2>1 DEF NothingDerivableLeft, FinalDue, ParentResolved
  <2> QED
    BY <1>1, <2>1, <2>2 DEF Edges, Stage, Parent
<1>3. U = {}
    BY <1>2, NoneWaitsForEver DEF Valid
<1> QED
    BY <1>3

(* A valid template, paused and answered in full, ends with a row for each *)
(* of its fields, for every number of fields and every order of them       *)
(* (pipeline.py run_resume_stages_v2).                                     *)
THEOREM NothingLeftOutCorrect == Spec => []NothingLeftOut
<1>1. Init => SettledInv
    BY DEF Init, SettledInv, FirstInv, WaveBInv, Fields
<1> QED
    BY <1>1, TypeCorrect, NextSettled, NothingDerivableLeftCorrect, AllResolved, PTL DEF Spec

-----------------------------------------------------------------------------
(* A hop up a chain of derivations. *)
LEMMA ChainSteps ==
    ASSUME NEW f \in Fields
    PROVE  /\ Chain(f)[0] = f
           /\ \A h \in 1..(MaxHops - 1) : Chain(f)[h] = Up(Chain(f)[h - 1])
           /\ \A h \in 0..(MaxHops - 1) : Chain(f)[h] \in Fields
<1> DEFINE last == MaxHops - 1
           P(c) == c = [h \in 0..last |-> IF h = 0 THEN f ELSE Up(c[h - 1])]
           step == [g \in Fields |-> Up(g)]
<1>0. last \in Nat /\ \A g \in Fields : Up(g) \in Fields
    BY DEF Up
<1>1. PICK t : Tabulates(t, Fields, f, step, last)
  <2>1. step \in [Fields -> Fields]
    BY <1>0
  <2> HIDE DEF step, last
  <2> QED
    BY <1>0, <2>1, Iterates
<1> HIDE DEF last
<1>2. P(t)
  <2>1. t \in [0..last -> Fields] /\ t[0] = f /\ \A h \in 1..last : t[h] = step[t[h - 1]]
    BY <1>1 DEF Tabulates
  <2>2. \A h \in 1..last : t[h - 1] \in Fields
    BY <1>0, <2>1
  <2>3. \A h \in 1..last : t[h] = Up(t[h - 1])
    BY <2>1, <2>2
  <2>4. \A h \in 0..last : t[h] = IF h = 0 THEN f ELSE Up(t[h - 1])
    BY <1>0, <2>1, <2>3
  <2> QED
    BY <2>1, <2>4
<1>3. Chain(f) = CHOOSE c : P(c)
    BY DEF Chain, last
<1>4. P(Chain(f))
  <2> HIDE DEF P
  <2> QED
    BY <1>2, <1>3
<1>5. Chain(f)[0] = f /\ \A h \in 1..last : Chain(f)[h] = Up(Chain(f)[h - 1])
  <2>1. \A h \in 0..last : Chain(f)[h] = IF h = 0 THEN f ELSE Up(Chain(f)[h - 1])
    BY <1>4
  <2> QED
    BY <1>0, <2>1
<1>6. \A h \in 0..last : Chain(f)[h] \in Fields
  <2> DEFINE S == {h \in 0..last : Chain(f)[h] \in Fields}
  <2>1. 0 \in S
    BY <1>0, <1>5
  <2>2. ASSUME NEW h \in 1..last, h - 1 \in S PROVE h \in S
    BY <1>0, <1>5, <2>2
  <2>3. \A h \in 0..last : h \in S
    <3> HIDE DEF S
    <3> QED
      BY <1>0, <2>1, <2>2, UpTo
  <2> QED
    BY <2>3
<1> QED
    BY <1>5, <1>6 DEF last

(* A step along query dependencies. *)
LEMMA MetSteps ==
    ASSUME NEW f \in Fields
    PROVE  /\ Met(f)[0] = Deps(f)
           /\ \A k \in 1..N :
                 Met(f)[k] = Met(f)[k - 1] \cup UNION {Deps(g) : g \in Met(f)[k - 1]}
           /\ \A k \in 0..N : Met(f)[k] \in SUBSET Fields
<1> DEFINE further(D) == D \cup UNION {Deps(g) : g \in D}
           P(m) == m = [k \in 0..N |-> IF k = 0 THEN Deps(f) ELSE further(m[k - 1])]
           step == [D \in SUBSET Fields |-> further(D)]
<1>0. Deps(f) \in SUBSET Fields /\ \A D \in SUBSET Fields : further(D) \in SUBSET Fields
    BY DEF Deps
<1>1. PICK t : Tabulates(t, SUBSET Fields, Deps(f), step, N)
  <2>1. step \in [SUBSET Fields -> SUBSET Fields]
    BY <1>0
  <2> HIDE DEF step
  <2> QED
    BY <1>0, <2>1, Iterates
<1>2. P(t)
  <2>1. /\ t \in [0..N -> SUBSET Fields] /\ t[0] = Deps(f)
        /\ \A k \in 1..N : t[k] = step[t[k - 1]]
    BY <1>1 DEF Tabulates
  <2>2. \A k \in 1..N : t[k - 1] \in SUBSET Fields
    BY <2>1
  <2> HIDE DEF further
  <2>3. \A k \in 1..N : t[k] = further(t[k - 1])
    BY <2>1, <2>2
  <2>4. \A k \in 0..N : t[k] = IF k = 0 THEN Deps(f) ELSE further(t[k - 1])
    BY <2>1, <2>3
  <2> QED
    BY <2>1, <2>4
<1>3. Met(f) = CHOOSE m : P(m)
    BY DEF Met
<1>4. P(Met(f))
  <2> HIDE DEF P
  <2> QED
    BY <1>2, <1>3
<1>5. Met(f)[0] = Deps(f) /\ \A k \in 1..N : Met(f)[k] = further(Met(f)[k - 1])
  <2> HIDE DEF further
  <2>1. \A k \in 0..N : Met(f)[k] = IF k = 0 THEN Deps(f) ELSE further(Met(f)[k - 1])
    BY <1>4
  <2> QED
    BY <2>1
<1>6. \A k \in 0..N : Met(f)[k] \in SUBSET Fields
  <2> DEFINE S == {k \in 0..N : Met(f)[k] \in SUBSET Fields}
  <2> HIDE DEF further
  <2>1. 0 \in S
    BY <1>0, <1>5
  <2>2. ASSUME NEW k \in 1..N, k - 1 \in S PROVE k \in S
    BY <1>0, <1>5, <2>2
  <2>3. \A k \in 0..N : k \in S
    <3> HIDE DEF S
    <3> QED
      BY <2>1, <2>2, UpTo
  <2> QED
    BY <2>3
<1> QED
    BY <1>5, <1>6

(* The fields are as many as they are numbered. *)
LEMMA FieldsCounted ==
    /\ IsFiniteSet(Fields) /\ Cardinality(Fields) = N
    /\ \A S \in SUBSET Fields : /\ IsFiniteSet(S) /\ Cardinality(S) \in Nat
                                /\ Cardinality(S) >= N => S = Fields
<1>1. IsFiniteSet(Fields) /\ Cardinality(Fields) = N
    BY FS_Interval DEF Fields
<1> SUFFICES ASSUME NEW S \in SUBSET Fields
             PROVE  /\ IsFiniteSet(S) /\ Cardinality(S) \in Nat
                    /\ Cardinality(S) >= N => S = Fields
    BY <1>1
<1>2. IsFiniteSet(S) /\ Cardinality(S) <= N /\ (Cardinality(Fields) = Cardinality(S) => S = Fields)
    BY <1>1, FS_Subset
<1>3. Cardinality(S) \in Nat
    BY <1>2, FS_CardinalityType
<1> QED
    BY <1>1, <1>2, <1>3

(* A set of fields that a new one joins has more. *)
LEMMA OneMore ==
    ASSUME NEW S \in SUBSET Fields, NEW T \in SUBSET Fields, S \subseteq T, S # T
    PROVE  Cardinality(T) >= Cardinality(S) + 1
<1>1. IsFiniteSet(T) /\ Cardinality(S) \in Nat /\ Cardinality(T) \in Nat
    BY FieldsCounted
<1>2. Cardinality(S) <= Cardinality(T) /\ (Cardinality(T) = Cardinality(S) => S = T)
    BY <1>1, FS_Subset
<1> QED
    BY <1>1, <1>2

(* N steps along query dependencies meet all there is to meet. *)
LEMMA QueriedClosed ==
    ASSUME NEW f \in Fields
    PROVE  /\ Queried(f) \in SUBSET Fields /\ Deps(f) \subseteq Queried(f)
           /\ \A g \in Queried(f) : Deps(g) \subseteq Queried(f)
<1> DEFINE met == Met(f)
           closed(D) == \A g \in D : Deps(g) \subseteq D
           S == {k \in 0..N : Deps(f) \subseteq met[k]
                              /\ (closed(met[k]) \/ Cardinality(met[k]) >= k)}
<1>0. \A k \in 0..N : met[k] \in SUBSET Fields /\ Cardinality(met[k]) \in Nat
    BY MetSteps, FieldsCounted
<1>1. 0 \in S
    BY <1>0, MetSteps
<1>2. ASSUME NEW k \in 1..N, k - 1 \in S PROVE k \in S
  <2>1. met[k] = met[k - 1] \cup UNION {Deps(g) : g \in met[k - 1]}
    BY MetSteps
  <2>2. k - 1 \in 0..N /\ Deps(f) \subseteq met[k]
    BY <1>2, <2>1
  <2>3. CASE closed(met[k - 1])
    <3>1. met[k] = met[k - 1]
      BY <2>1, <2>3
    <3> QED
      BY <2>2, <2>3, <3>1
  <2>4. CASE ~ closed(met[k - 1])
    <3>1. met[k - 1] \subseteq met[k] /\ met[k - 1] # met[k]
      BY <2>1, <2>4
    <3>2. Cardinality(met[k - 1]) >= k - 1
      BY <1>2, <2>4
    <3>3. Cardinality(met[k]) >= Cardinality(met[k - 1]) + 1
      BY <1>0, <2>2, <3>1, OneMore
    <3>4. Cardinality(met[k]) >= k
      BY <1>0, <2>2, <3>2, <3>3
    <3> QED
      BY <2>2, <3>4
  <2> QED
    BY <2>3, <2>4
<1>3. N \in S
  <2> HIDE DEF S
  <2> QED
    BY <1>1, <1>2, UpTo
<1>4. closed(met[N])
  <2>1. CASE Cardinality(met[N]) >= N
    <3>1. met[N] = Fields
      BY <1>0, <2>1, FieldsCounted
    <3> QED
      BY <3>1 DEF Deps
  <2> QED
    BY <1>3, <2>1
<1> QED
    BY <1>0, <1>3, <1>4 DEF Queried

(* A chain that has met a field that is no derivation stays there. *)
LEMMA RootIsReached ==
    ASSUME NEW f \in Fields, NEW h \in 0..(MaxHops - 1), Stage(Chain(f)[h]) # "derived"
    PROVE  Root(f) = Stage(Chain(f)[h])
<1> DEFINE last == MaxHops - 1
           S == {k \in 0..(last - h) : Chain(f)[h + k] = Chain(f)[h]}
<1>0. last - h \in Nat
    OBVIOUS
<1>1. 0 \in S
    OBVIOUS
<1>2. ASSUME NEW k \in 1..(last - h), k - 1 \in S PROVE k \in S
  <2>1. h + k \in 1..last /\ h + (k - 1) = (h + k) - 1
    OBVIOUS
  <2>2. Chain(f)[h + k] = Up(Chain(f)[(h + k) - 1])
    BY <2>1, ChainSteps
  <2>3. Chain(f)[(h + k) - 1] = Chain(f)[h]
    BY <1>2, <2>1
  <2> QED
    BY <2>2, <2>3 DEF Up
<1>3. last - h \in S
  <2> HIDE DEF S
  <2> QED
    BY <1>0, <1>1, <1>2, UpTo
<1>4. Chain(f)[MaxHops - 1] = Chain(f)[h]
    BY <1>3
<1> QED
    BY <1>4 DEF Root

(* What an extractor queries directly is among what it queries. *)
LEMMA AsksDirectly ==
    ASSUME NEW f \in Fields, Stage(f) = "draft", NEW u \in Deps(f), Stage(u) = "user"
    PROVE  WaveB(f)
<1>1. u \in Fields /\ u \in Queried(f)
    BY QueriedClosed DEF Deps
<1>2. Chain(u)[0] = u /\ 0 \in 0..(MaxHops - 1)
    BY <1>1, ChainSteps
<1>3. Root(u) = "user"
    BY <1>1, <1>2, RootIsReached
<1> QED
    BY <1>1, <1>3 DEF WaveB

(* The hops of a chain are all there is behind its first field, if there   *)
(* are no more fields than hops.                                           *)
LEMMA HopsClosed ==
    ASSUME N <= MaxHops, NEW f \in Fields
    PROVE  LET hops == {Chain(f)[h] : h \in 0..(MaxHops - 1)}
           IN  hops \in SUBSET Fields /\ f \in hops /\ \A g \in hops : Up(g) \in hops
<1> DEFINE last == MaxHops - 1
           upto(k) == {Chain(f)[h] : h \in 0..k}
           closed(D) == \A g \in D : Up(g) \in D
           S == {k \in 0..last : closed(upto(k)) \/ Cardinality(upto(k)) >= k + 1}
<1>0. last \in Nat /\ \A k \in 0..last : upto(k) \in SUBSET Fields /\ Cardinality(upto(k)) \in Nat
  <2>1. \A k \in 0..last : upto(k) \in SUBSET Fields
    BY ChainSteps
  <2> HIDE DEF upto
  <2> QED
    BY <2>1, FieldsCounted
<1>1. 0 \in S
  <2>1. upto(0) = {f}
    BY ChainSteps
  <2>2. Cardinality(upto(0)) = 1
    BY <2>1, FS_Singleton
  <2> HIDE DEF upto
  <2> QED
    BY <1>0, <2>2
<1>2. ASSUME NEW k \in 1..last, k - 1 \in S PROVE k \in S
  <2>1. upto(k) = upto(k - 1) \cup {Chain(f)[k]} /\ Chain(f)[k] = Up(Chain(f)[k - 1])
    BY ChainSteps
  <2>2. Chain(f)[k - 1] \in upto(k - 1) /\ k - 1 \in 0..last
    OBVIOUS
  <2>3. CASE closed(upto(k - 1))
    <3> HIDE DEF upto
    <3> QED
      BY <2>1, <2>2, <2>3
  <2>4. CASE Chain(f)[k] \in upto(k - 1)
    <3>1. ASSUME NEW h \in 0..(k - 1) PROVE Up(Chain(f)[h]) \in upto(k)
      <4>1. h + 1 \in 1..last /\ (h + 1) - 1 = h /\ h + 1 \in 0..k
        OBVIOUS
      <4>2. Chain(f)[h + 1] = Up(Chain(f)[h])
        BY <4>1, ChainSteps
      <4> QED
        BY <4>1, <4>2
    <3>2. closed(upto(k - 1))
      <4>1. upto(k) = upto(k - 1)
        BY <2>1, <2>4
      <4> QED
        BY <3>1, <4>1
    <3> QED
      BY <2>3, <3>2
  <2>5. CASE ~ closed(upto(k - 1)) /\ Chain(f)[k] \notin upto(k - 1)
    <3>1. Cardinality(upto(k - 1)) >= (k - 1) + 1
      BY <1>2, <2>5
    <3> HIDE DEF upto
    <3>2. Cardinality(upto(k)) >= Cardinality(upto(k - 1)) + 1
      BY <1>0, <2>1, <2>2, <2>5, OneMore
    <3>3. Cardinality(upto(k)) >= k + 1
      BY <1>0, <2>2, <3>1, <3>2
    <3> QED
      BY <3>3
  <2> QED
    BY <2>3, <2>4, <2>5
<1>3. last \in S
  <2> HIDE DEF S, last
  <2> QED
    BY <1>0, <1>1, <1>2, UpTo
<1>4. closed(upto(last))
  <2>1. CASE Cardinality(upto(last)) >= last + 1
    <3> HIDE DEF upto
    <3>1. upto(last) = Fields
      BY <1>0, <2>1, FieldsCounted
    <3> QED
      BY <3>1 DEF Up
  <2> QED
    BY <1>3, <2>1
<1>5. f \in upto(last)
    BY <1>0, ChainSteps
<1>6. upto(last) \in SUBSET Fields
  <2> HIDE DEF upto, last
  <2> QED
    BY <1>0
<1> QED
    BY <1>4, <1>5, <1>6

(* The wave of an extractor that asks for a pick is the second, unless a   *)
(* chain of derivations is longer than the hops that are followed.         *)
LEMMA AsksIsWaveB ==
    ASSUME N <= MaxHops, NEW f \in Fields, Stage(f) = "draft", AsksForPick(f)
    PROVE  WaveB(f)
<1> DEFINE asked == {S \in SUBSET Fields :
                        Deps(f) \subseteq S /\ \A g \in S : Deps(g) \subseteq S}
           behind(g) == {S \in SUBSET Fields :
                           g \in S /\ \A h \in S : Stage(h) = "derived" =>
                                          {Parent(h)} \cap Fields \subseteq S}
<1>1. PICK g \in Fields, u \in Fields :
          /\ \A S \in asked : g \in S
          /\ \A S \in behind(g) : u \in S
          /\ Stage(u) = "user"
    BY DEF AsksForPick
<1>2. g \in Queried(f)
  <2>1. Queried(f) \in asked
    BY QueriedClosed
  <2> QED
    BY <1>1, <2>1
<1>3. Root(g) = "user"
  <2> DEFINE hops == {Chain(g)[h] : h \in 0..(MaxHops - 1)}
  <2>1. hops \in SUBSET Fields /\ g \in hops /\ \A h \in hops : Up(h) \in hops
    BY HopsClosed
  <2> HIDE DEF hops
  <2>2. hops \in behind(g)
    BY <2>1 DEF Up
  <2>3. u \in hops
    BY <1>1, <2>2
  <2>4. PICK h \in 0..(MaxHops - 1) : u = Chain(g)[h]
    BY <2>3 DEF hops
  <2> QED
    BY <1>1, <2>4, RootIsReached
<1> QED
    BY <1>2, <1>3 DEF WaveB

-----------------------------------------------------------------------------
(* An extractor that has run before the pause is of the first wave. *)
WaveAInv ==
    \A f \in Fields : phase \in BeforePicks /\ Stage(f) = "draft" /\ Resolved(f) => ~ WaveB(f)

(* An extractor has seen every pick with a value it asks for directly. *)
PicksSeen ==
    \A f \in Fields : Stage(f) = "draft" /\ Resolved(f) =>
        \A u \in Deps(f) : Stage(u) = "user" /\ rows[u].filled => u \in rows[f].saw

PickInv == WaveAInv /\ PicksSeen

(* An extractor is visited in its wave, with the picks that have been made.*)
LEMMA VisitPicks ==
    ASSUME TypeOK, PickInv, NEW f \in Fields, NEW pass \in Passes, Visits(pass, f)
    PROVE  PickInv'
<1>1. /\ spec' = spec /\ phase = pass /\ phase' = pass /\ Due(pass, f) /\ Dispatch(f)
    BY DEF Visits
<1>2. \A g : Stage(g)' = Stage(g) /\ Deps(g)' = Deps(g) /\ WaveB(g)' = WaveB(g)
    BY <1>1, SpecStays
<1>3. \A g \in Fields : Stage(g) = "user" \/ g # f => rows'[g] = rows[g]
    BY <1>1, AskedUser, MadeRow
<1>4. Stage(f) = "draft" => rows'[f].saw = {g \in Deps(f) : rows[g].filled}
    BY <1>1, MadeRow DEF Given
<1>5. WaveAInv'
  <2> SUFFICES ASSUME NEW g \in Fields, phase \in BeforePicks, Stage(g) = "draft",
                      rows'[g] # NoRow
               PROVE  ~ WaveB(g)
    BY <1>1, <1>2 DEF WaveAInv, Resolved
  <2>1. CASE g = f
    BY <1>1, <2>1 DEF Due, BeforePicks, FirstDue, EarlyDue
  <2>2. CASE g # f
    BY <1>3, <2>2 DEF PickInv, WaveAInv, Resolved
  <2> QED
    BY <2>1, <2>2
<1>6. PicksSeen'
  <2> SUFFICES ASSUME NEW g \in Fields, Stage(g) = "draft", rows'[g] # NoRow,
                      NEW u \in Deps(g), Stage(u) = "user", rows'[u].filled
               PROVE  u \in rows'[g].saw
    BY <1>2 DEF PicksSeen, Resolved
  <2>0. u \in Fields /\ rows'[u] = rows[u]
    BY <1>3 DEF Deps
  <2>1. CASE g = f
    BY <1>4, <2>0, <2>1
  <2>2. CASE g # f
    BY <1>3, <2>0, <2>2 DEF PickInv, PicksSeen, Resolved
  <2> QED
    BY <2>1, <2>2
<1> QED
    BY <1>5, <1>6 DEF PickInv

(* The picks come when only extractors that ask for none have run. *)
LEMMA SubmitPicks ==
    ASSUME TypeOK, PickInv, NEW picks \in SUBSET pending, NEW blank \in SUBSET picks,
           Submit(picks, blank)
    PROVE  PickInv'
<1>1. /\ spec' = spec /\ phase = "paused" /\ phase' = "late"
    BY DEF Submit
<1>2. \A g : Stage(g)' = Stage(g) /\ Deps(g)' = Deps(g)
    BY <1>1, SpecStays
<1>3. \A g \in Fields : Stage(g) # "user" => rows'[g] = rows[g]
    BY PickedRows
<1>4. WaveAInv'
    BY <1>1 DEF WaveAInv, BeforePicks
<1>5. PicksSeen'
  <2> SUFFICES ASSUME NEW g \in Fields, Stage(g) = "draft", rows'[g] # NoRow,
                      NEW u \in Deps(g), Stage(u) = "user"
               PROVE  FALSE
    BY <1>2 DEF PicksSeen, Resolved
  <2>1. ~ WaveB(g)
    BY <1>1, <1>3 DEF PickInv, WaveAInv, Resolved, BeforePicks
  <2> QED
    BY <2>1, AsksDirectly
<1> QED
    BY <1>4, <1>5 DEF PickInv

(* Every action keeps extractors in their wave and with their picks. *)
LEMMA NextPicks == TypeOK /\ PickInv /\ [Next]_vars => PickInv'
<1> SUFFICES ASSUME TypeOK, PickInv, [Next]_vars PROVE PickInv'
    OBVIOUS
<1>1. ASSUME NEW f \in Fields, FirstPass(f) \/ EarlyDerive(f) \/ LateDerive(f)
                                \/ WaveBPass(f) \/ FinalDerive(f)
      PROVE  PickInv'
    BY <1>1, VisitPicks DEF FirstPass, EarlyDerive, LateDerive, WaveBPass, FinalDerive, Passes
<1>2. ASSUME NEW picks \in SUBSET pending, NEW blank \in SUBSET picks,
             Submit(picks, blank)
      PROVE  PickInv'
    BY <1>2, SubmitPicks
<1>3. ASSUME spec' = spec, rows' = rows, phase' \in BeforePicks => phase \in BeforePicks
      PROVE  PickInv'
  <2>1. \A g : Stage(g)' = Stage(g) /\ Deps(g)' = Deps(g) /\ WaveB(g)' = WaveB(g)
    BY <1>3, SpecStays
  <2> QED
    BY <1>3, <2>1 DEF PickInv, WaveAInv, PicksSeen, Resolved
<1>4. FirstEnds \/ EarlyEnds \/ LateEnds \/ WaveBEnds \/ FinalEnds => PickInv'
    BY <1>3 DEF FirstEnds, EarlyEnds, LateEnds, WaveBEnds, FinalEnds, PassEnds, BeforePicks
<1>5. UNCHANGED vars => PickInv'
    BY <1>3 DEF vars
<1> QED
    BY <1>1, <1>2, <1>4, <1>5 DEF Next, Resolve

(* An extractor that asks for a pick runs after the pause and is given it, *)
(* in a template of any shape with no more fields than the hops that are   *)
(* followed up a chain of derivations (wave.py root_parent_stage_v2 gives  *)
(* up after 50, and takes a longer chain for one that asks nothing).       *)
THEOREM ExtractorsSeePicksCorrect ==
    ASSUME N <= MaxHops
    PROVE  Spec => []ExtractorsSeePicks
<1>1. Init => PickInv
    BY DEF Init, PickInv, WaveAInv, PicksSeen, Resolved
<1>2. PickInv => ExtractorsSeePicks
    BY AsksIsWaveB DEF PickInv, WaveAInv, PicksSeen, ExtractorsSeePicks
<1> QED
    BY <1>1, <1>2, TypeCorrect, NextPicks, PTL DEF Spec
=============================================================================
