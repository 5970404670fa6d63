---------------------------- MODULE FieldPipeline ----------------------------
(***************************************************************************)
(* How one studio_v2 run resolves the fields of a template                 *)
(* (core/studio_v2/orchestration).  The fields are visited in the order of *)
(* their template_index, here 1..N.  A run goes through two passes, pauses *)
(* when a field needs the user's pick, and goes through three more passes  *)
(* when the picks arrive.  A pass visits the fields in order and           *)
(* dispatches those that are due when it gets to them.                     *)
(*                                                                         *)
(* A field's params are reduced to the stage they resolve in, the variable *)
(* it is derived from and the variables its query depends on.  A resolved  *)
(* row is reduced to whether its value is non-empty and which other values *)
(* it was made from.  The spec of a dry run comes from the request and is  *)
(* not validated, so a run may start from any spec.                        *)
(***************************************************************************)
EXTENDS Naturals, FiniteSets

CONSTANTS
    N,          \* number of fields of the template
    MaxDeps,    \* bound on the query dependencies of one field
    MaxHops,    \* length of a derivation chain root_parent_stage_v2 follows
    Outcomes,   \* the model's answers: TRUE a value, FALSE an empty one
    Asking      \* the stages whose params may carry query dependencies

ASSUME CountAssumption == N \in Nat /\ MaxHops \in Nat \ {0}
ASSUME OutcomesAssumption == Outcomes \subseteq BOOLEAN
ASSUME AskingAssumption == Asking \subseteq {"user", "draft"}

VARIABLES
    spec,       \* the template's fields
    phase,      \* the pass the run is in
    at,         \* the next field the pass looks at
    changed,    \* whether this round of the final pass resolved a field
    rows,       \* resolved values by field
    pending     \* fields whose envelope waits for the user

vars == <<spec, phase, at, changed, rows, pending>>

Fields == 1..N
NoName == 0     \* a variable name no field has
NoRow == [filled |-> FALSE, saw |-> {NoName}]
Rows == [filled : BOOLEAN, saw : SUBSET Fields]

Passes == {"first", "early", "late", "waveB", "final"}
BeforePicks == {"first", "early", "paused"}

Stages == {"user", "draft", "system", "derived", "unset"}

(* Params the wizard or the composer can save. *)
Params ==
    LET queries == {d \in SUBSET (Fields \cup {NoName}) : Cardinality(d) <= MaxDeps}
    IN  [stage : Asking, parent : {NoName}, deps : queries]
        \cup [stage : {"derived"}, parent : Fields \cup {NoName}, deps : {{}}]
        \cup [stage : Stages \ {"derived"}, parent : {NoName}, deps : {{}}]

Stage(f) == spec[f].stage
Parent(f) == spec[f].parent
Deps(f) == spec[f].deps \cap Fields

-----------------------------------------------------------------------------
(* Classification of the fields. *)

(* What f is derived from, or f itself. *)
Up(f) == IF Stage(f) = "derived" /\ Parent(f) \in Fields THEN Parent(f) ELSE f

(* The hops up the chain of derivations f is the end of. *)
Chain(f) ==
    LET chain[h \in 0..(MaxHops - 1)] == IF h = 0 THEN f ELSE Up(chain[h - 1])
    IN  chain

(* The stage at the upper end of the chain. *)
Root(f) ==
    LET last == Chain(f)[MaxHops - 1]
    IN  IF Stage(last) = "derived" THEN "unknown" ELSE Stage(last)

(* The fields met in so many steps along query dependencies from f. *)
Met(f) ==
    LET met[k \in 0..N] ==
            IF k = 0 THEN Deps(f)
            ELSE met[k - 1] \cup UNION {Deps(g) : g \in met[k - 1]}
    IN  met

Queried(f) == Met(f)[N]

(* Only the field's own dependency is looked at, not what it derives from. *)
WaveBOfDirectUsers(f) ==
    Stage(f) = "draft" /\ \E g \in Queried(f) : Stage(g) = "user"

(* An extractor is deferred when a field it queries is rooted in a pick. *)
WaveB(f) == Stage(f) = "draft" /\ \E g \in Queried(f) : Root(g) = "user"

(* The edges of the resolution graph. *)
EdgesOfDerivations(s, f) ==
    IF s[f].stage = "derived" THEN {s[f].parent} \cap (Fields \ {f}) ELSE {}

Edges(s, f) ==
    ((IF s[f].stage = "derived" THEN {s[f].parent} ELSE {}) \cup s[f].deps)
    \cap (Fields \ {f})

(* The fields a topological sort has removed after so many rounds. *)
Rounds(s) ==
    LET done[k \in 0..N] ==
            IF k = 0 THEN {}
            ELSE {f \in Fields : Edges(s, f) \subseteq done[k - 1]}
    IN  done

(* The others are on a cycle or behind one. *)
Sorted(s) == Rounds(s)[N]

(* The structural checks of the publish gate find nothing wrong. *)
Valid(s) ==
    /\ \A f \in Fields :
          /\ s[f].stage = "derived" => s[f].parent \in Fields \ {f}
          /\ s[f].deps \subseteq Fields \ {f}
    /\ Sorted(s) = Fields

-----------------------------------------------------------------------------
(* Dispatching one field. *)

Resolved(f) == rows[f] # NoRow
ParentResolved(f) == Parent(f) \in Fields /\ Resolved(Parent(f))

(* The values the agent of f is given. *)
Given(f) ==
    IF Stage(f) = "derived" THEN {g \in {Parent(f)} \cap Fields : Resolved(g)}
    ELSE {g \in Deps(f) : rows[g].filled}

(* What its agent may answer: nothing when the field is not configured or  *)
(* its parent is empty.  No agent raises into the pipeline.                *)
Answers(f) ==
    LET empty == \/ Stage(f) = "unset"
                 \/ Stage(f) = "derived" /\ ~ \E g \in Given(f) : rows[g].filled
    IN  IF empty THEN {FALSE} ELSE Outcomes

(* The dispatcher makes a row, or an envelope for the user to answer. *)
Dispatch(f) ==
    \/ /\ Stage(f) = "user"
       /\ pending' = pending \cup {f}
       /\ rows' = rows
    \/ /\ Stage(f) # "user"
       /\ \E b \in Answers(f) : rows' = [rows EXCEPT ![f] = [filled |-> b, saw |-> Given(f)]]
       /\ pending' = pending

FirstDue(f) == Stage(f) # "derived" /\ ~ WaveB(f)

EarlyDueWithoutParent(f) == Stage(f) = "derived" /\ Root(f) # "user"
EarlyDue(f) == Stage(f) = "derived" /\ Root(f) # "user" /\ ParentResolved(f)

LateDue(f) ==
    Stage(f) = "derived" /\ Root(f) = "user" /\ ParentResolved(f) /\ ~ Resolved(f)

WaveBDueDirectly(f) == WaveBOfDirectUsers(f) /\ ~ Resolved(f)
WaveBDue(f) == WaveB(f) /\ ~ Resolved(f)

FinalDueAgain(f) == Stage(f) = "derived" /\ ParentResolved(f)
FinalDue(f) == Stage(f) = "derived" /\ ~ Resolved(f) /\ ParentResolved(f)

(* The fields a pass dispatches when it gets to them. *)
Due(pass, f) ==
    \/ pass = "first" /\ FirstDue(f)
    \/ pass = "early" /\ EarlyDue(f)
    \/ pass = "late" /\ LateDue(f)
    \/ pass = "waveB" /\ WaveBDue(f)
    \/ pass = "final" /\ FinalDue(f)

(* f is the next field the pass dispatches; it went by those in between. *)
Visits(pass, f) ==
    /\ phase = pass
    /\ at <= f /\ Due(pass, f)
    /\ \A g \in at..(f - 1) : ~ Due(pass, g)
    /\ Dispatch(f)
    /\ at' = f + 1
    /\ UNCHANGED <<spec, phase>>

PassEnds(pass) ==
    /\ phase = pass
    /\ \A g \in at..N : ~ Due(pass, g)
    /\ at' = 1
    /\ changed' = FALSE
    /\ UNCHANGED <<spec, rows, pending>>

-----------------------------------------------------------------------------
Init ==
    /\ spec \in [Fields -> Params]
    /\ phase = "first" /\ at = 1 /\ changed = FALSE
    /\ rows = [f \in Fields |-> NoRow]
    /\ pending = {}

(* run_initial_stages_v2: extractors and envelopes, then early derivations. *)
FirstPass(f) == Visits("first", f) /\ UNCHANGED changed
FirstEnds == PassEnds("first") /\ phase' = "early"

EarlyDerive(f) == Visits("early", f) /\ UNCHANGED changed
EarlyEnds == PassEnds("early") /\ phase' = IF pending = {} THEN "done" ELSE "paused"

(* The user answers some of the envelopes; nobody checks that none is left *)
(* out, nor that an answer is not blank.  run_resume_stages_v2 starts by   *)
(* turning the picks into rows, a blank one into an empty row.             *)
Submit(picks, blank) ==
    /\ phase = "paused"
    /\ rows' = [f \in Fields |->
                  IF f \in picks THEN [filled |-> f \notin blank, saw |-> {}]
                  ELSE rows[f]]
    /\ phase' = "late"
    /\ UNCHANGED <<spec, at, changed, pending>>

LateDerive(f) == Visits("late", f) /\ UNCHANGED changed
LateEnds == PassEnds("late") /\ phase' = "waveB"

WaveBPass(f) == Visits("waveB", f) /\ UNCHANGED changed
WaveBEnds == PassEnds("waveB") /\ phase' = "final"

(* The final pass is repeated until a round of it resolves nothing. *)
FinalDerive(f) == Visits("final", f) /\ changed' = TRUE

FinalEndsOnce == PassEnds("final") /\ phase' = "done"
FinalEnds == PassEnds("final") /\ phase' = IF changed THEN "final" ELSE "done"

Resolve ==
    \/ \E f \in Fields : \/ FirstPass(f) \/ EarlyDerive(f) \/ LateDerive(f)
                         \/ WaveBPass(f) \/ FinalDerive(f)
    \/ FirstEnds \/ EarlyEnds \/ LateEnds \/ WaveBEnds \/ FinalEnds

Next ==
    \/ Resolve
    \/ \E picks \in SUBSET pending : \E blank \in SUBSET picks : Submit(picks, blank)

(* Every agent answers or gives up, so a pass goes on; the user may not.   *)
Spec == Init /\ [][Next]_vars /\ WF_vars(Resolve)

-----------------------------------------------------------------------------
(* Type invariant: rows are made from fields of the template, and an       *)
(* envelope is always for a field that needs the user (pipeline.py).       *)
TypeOK ==
    /\ spec \in [Fields -> Params]
    /\ phase \in Passes \cup {"paused", "done"}
    /\ at \in 1..(N + 1)
    /\ changed \in BOOLEAN
    /\ rows \in [Fields -> Rows \cup {NoRow}]
    /\ pending \in SUBSET {f \in Fields : Stage(f) = "user"}

(* No derivation is made before its parent has a row: the dispatcher's     *)
(* "has not been resolved yet - orchestrator wave ordering bug" never      *)
(* appears, whatever the order of the fields and however a run is cut by a *)
(* pause (dispatcher.py _dispatch_derive).                                 *)
ParentsFirst ==
    \A f \in Fields : Stage(f) = "derived" /\ Resolved(f) => rows[f].saw = {Parent(f)}

(* f asks, through any number of query dependencies, for a field that is a *)
(* pick or is derived from one: reference definition by closed sets.       *)
AsksForPick(f) ==
    LET asked == {S \in SUBSET Fields :
                     Deps(f) \subseteq S /\ \A g \in S : Deps(g) \subseteq S}
        behind(g) == {S \in SUBSET Fields :
                         g \in S /\ \A h \in S : Stage(h) = "derived" =>
                                        {Parent(h)} \cap Fields \subseteq S}
    IN  \E g, u \in Fields : /\ \A S \in asked : g \in S
                             /\ \A S \in behind(g) : u \in S
                             /\ Stage(u) = "user"

(* An extractor that asks for a pick, or for what is derived from one,     *)
(* runs only after the pause, and is then given every pick it asks for     *)
(* directly that is not blank (wave.py classify_wave_v2, pipeline.py       *)
(* wave-B pass and _collect_dependency_values).                            *)
ExtractorsSeePicks ==
    \A f \in Fields :
        Stage(f) = "draft" /\ Resolved(f) =>
            /\ phase \in BeforePicks => ~ AsksForPick(f)
            /\ \A u \in Deps(f) : Stage(u) = "user" /\ rows[u].filled => u \in rows[f].saw

(* A template that passes the publish gate, paused and answered in full,   *)
(* ends with a row for each of its fields, in whatever order they are      *)
(* listed (pipeline.py run_resume_stages_v2).                              *)
NothingLeftOut ==
    phase = "done" /\ pending # {} /\ Valid(spec) /\ (\A f \in pending : Resolved(f))
        => \A f \in Fields : Resolved(f)

(* When a resumed run is over, nothing that could be derived is missing,   *)
(* even if the spec is not valid or picks are missing (pipeline.py step 4).*)
NothingDerivableLeft ==
    phase = "done" /\ pending # {} => \A f \in Fields : ~ FinalDue(f)

(* The publish gate accepts exactly the specs whose references exist and   *)
(* whose fields can be ranked so that each comes after those it needs      *)
(* (validators.py _validate_no_resolution_cycles_v2).                      *)
GateAcceptsRanked ==
    phase = "first" /\ at = 1 =>
        (Valid(spec) <=>
            \E rank \in [Fields -> Fields] : \A f \in Fields :
                LET needs == spec[f].deps \cup
                             IF Stage(f) = "derived" THEN {Parent(f)} ELSE {}
                IN  \A g \in needs : g \in Fields /\ rank[g] < rank[f])

(* A run pauses or ends, even on a spec with a cycle or a missing parent   *)
(* (pipeline.py, the loop of step 4).                                      *)
RunEnds == phase \in Passes ~> phase \in {"paused", "done"}

(* What the gate promises of derivations listed before their parents:      *)
(* "Chained derives (parent is also derived_from_variable) ARE allowed -   *)
(* the resolver handles iterative passes" (validators.py).                 *)
ChainsResolved ==
    phase = "done" /\ pending = {} /\ Valid(spec) => \A f \in Fields : Resolved(f)
=============================================================================
