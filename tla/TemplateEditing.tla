--------------------------- MODULE TemplateEditing ---------------------------
(***************************************************************************)
(* One studio_v2 template edited by concurrent requests and composer jobs: *)
(* its row in templates_v2, its rows in template_fields_v2 and the marked  *)
(* template.docx in R2.  A handler is several transactions, and other      *)
(* handlers run in between.  A write of the template's row is two actions: *)
(* the SELECT that asks for an active row, and the UPDATE by primary key   *)
(* that commits what changed.  A transaction on the fields is one action.  *)
(*                                                                         *)
(* A field's params are reduced to what the publish gate looks at: "ask"   *)
(* waits for the user, "auto" does not, a variable is what the field is    *)
(* derived from.  updated_at and published_at are kept as one bit, drift:  *)
(* updated_at > published_at, or never published.  What a writer puts in   *)
(* them is the time of its SELECT, not that of its commit.                 *)
(***************************************************************************)
EXTENDS FiniteSets

CONSTANTS
    Vars,       \* template variables
    Parents,    \* those a field may be derived from
    Suggested,  \* params the composer's agent may suggest
    Virtuals,   \* sets of virtual parents it may extract
    Requests,   \* requests and jobs in flight
    Api,        \* what they may do
    NoVar, Absent, NoSpec

ASSUME NamesAssumption ==
    /\ {NoVar, Absent, NoSpec} \cap (Vars \cup {"auto", "ask"}) = {}
    /\ Parents \subseteq Vars
    /\ Suggested \subseteq {"auto", "ask"}
    /\ Virtuals \subseteq SUBSET Vars

VARIABLES
    row,        \* the templates_v2 row
    fields,     \* the template_fields_v2 rows: params by variable
    marked,     \* the fields with a placeholder: not the virtual parents
    docx,       \* the placeholders of template.docx
    proc,       \* the handlers: what each has read and will do next
    untold      \* history: an edit that updated_at will not tell of

draft == <<fields, marked>>
vars == <<row, draft, docx, proc, untold>>

Params == {"auto", "ask"} \cup Parents
FieldRows == [Vars -> Params \cup {Absent}]
NoFields == [v \in Vars |-> Absent]
Has(fs) == {v \in Vars : fs[v] # Absent}

Roles == {"single", "part_of_packet"}
Snapshots == [fields : FieldRows, role : Roles]
Rows == [exists : BOOLEAN, active : BOOLEAN, role : Roles,
         spec : Snapshots \cup {NoSpec}, drift : BOOLEAN]

(* Between its SELECT and its commit, a write of the row. *)
Stamped == {"touch_write", "bump_write", "config_write", "delete_write"}
Writes == Stamped \cup {"store_write"}

Labels == {"idle", "patch", "touch", "list", "store", "check", "update",
           "create", "create_many", "agent", "apply", "bump"} \cup Writes

(* var, val: the field a patch is for, and its params.  live: the row it   *)
(* was sent for still exists.  read: fields it read or extracted, marks:   *)
(* those with a placeholder.  role: the role it read or will write.        *)
(* alone: no other job ran beside it.  later: publishes that read the time *)
(* after it did; late: published_at is of such a publish.                  *)
Process == [at : Labels, var : Vars \cup {NoVar}, val : Params \cup {Absent},
            live : BOOLEAN, read : FieldRows, marks : SUBSET Vars, role : Roles,
            alone : BOOLEAN, later : SUBSET Requests, late : BOOLEAN]

Idle == [at |-> "idle", var |-> NoVar, val |-> Absent, live |-> TRUE,
         read |-> NoFields, marks |-> {}, role |-> "single", alone |-> TRUE,
         later |-> {}, late |-> FALSE]

Jobs == {"create", "create_many", "agent", "apply", "bump", "bump_write"}

(* Every read of the template asks for an active row. *)
Found == row.exists /\ row.active

Goes(r, p) == proc' = [proc EXCEPT ![r] = p]
Then(r, label) == Goes(r, [proc[r] EXCEPT !.at = label])
Ends(r) == Goes(r, Idle)

(* The SELECT of a write, and the time it reads: none if the template was  *)
(* deleted.                                                                *)
Selects(r, label) ==
    /\ IF row.active
       THEN Goes(r, [proc[r] EXCEPT !.at = label, !.later = {}, !.late = FALSE])
       ELSE Ends(r)
    /\ UNCHANGED <<row, draft, docx, untold>>

(* The handler will still set updated_at later than published_at for an    *)
(* edit it has made.                                                       *)
WillMark(r) ==
    \/ proc[r].at \in {"touch", "bump"}
    \/ proc[r].at \in {"touch_write", "bump_write"} /\ ~ proc[r].late

(* The commit, whether or not the row is still active.  A late one sets    *)
(* updated_at back to before published_at.                                 *)
Commits(r, update) ==
    /\ row' = [update EXCEPT !.drift = ~ proc[r].late]
    /\ Ends(r)
    /\ untold' = \/ untold
                 \/ /\ proc[r].late
                    /\ row'.spec # [fields |-> fields, role |-> row'.role]
                    /\ \A q \in Requests : ~ WillMark(q)'
    /\ UNCHANGED <<draft, docx>>

(* The companion check: a template enclosed in a packet asks nothing. *)
NoUserInput(fs) == \A v \in Vars : fs[v] # "ask"

(* validate_for_publish: parents exist, derivations do not go round, and a *)
(* companion asks nothing.                                                 *)
Valid(fs, role) ==
    /\ \A v \in Vars : fs[v] \in Vars => fs[v] \in Has(fs)
    /\ \A S \in SUBSET Has(fs) \ {{}} : \E v \in S : fs[v] \notin S
    /\ role = "part_of_packet" => NoUserInput(fs)

-----------------------------------------------------------------------------
(* The wizard's save: PATCH /templates/{id}/fields/{field_id}. *)
Patch(r, v, p) ==
    /\ "patch" \in Api
    /\ proc[r] = Idle /\ Found /\ v \in Has(fields)
    /\ Goes(r, [Idle EXCEPT !.at = "patch", !.var = v, !.val = p])
    /\ UNCHANGED <<row, draft, docx, untold>>

(* The field is found by its id, so not if it was deleted since. *)
PatchParams(r) ==
    /\ proc[r].at = "patch"
    /\ IF proc[r].live
       THEN /\ fields' = [fields EXCEPT ![proc[r].var] = proc[r].val]
            /\ Goes(r, [Idle EXCEPT !.at = "touch"])
       ELSE fields' = fields /\ Ends(r)
    /\ UNCHANGED <<row, marked, docx, untold>>

(* The save answers before it has touched the template. *)
TouchForgotten(r) ==
    /\ proc[r].at = "touch"
    /\ Ends(r)
    /\ UNCHANGED <<row, draft, docx, untold>>

Touch(r) == proc[r].at = "touch" /\ Selects(r, "touch_write")

TouchCommits(r) == proc[r].at = "touch_write" /\ Commits(r, row)

-----------------------------------------------------------------------------
(* POST /templates/{id}/publish: publish_template_v2. *)
Publish(r) ==
    /\ "publish" \in Api
    /\ proc[r] = Idle /\ Found
    /\ Goes(r, [Idle EXCEPT !.at = "list", !.role = row.role])
    /\ UNCHANGED <<row, draft, docx, untold>>

(* The fields are listed and what was listed is validated. *)
ListAndValidate(r) ==
    /\ proc[r].at = "list"
    /\ IF Valid(fields, proc[r].role)
       THEN Goes(r, [proc[r] EXCEPT !.at = "store", !.read = fields])
       ELSE Ends(r)
    /\ UNCHANGED <<row, draft, docx, untold>>

(* update_published_snapshot: the writers that have read the time by now   *)
(* have read an earlier one.                                               *)
StampStore(r, snapshot) ==
    /\ proc' = [q \in Requests |->
                  IF q = r THEN [proc[r] EXCEPT !.at = "store_write", !.read = snapshot]
                  ELSE IF proc[q].at \in Stamped
                  THEN [proc[q] EXCEPT !.later = proc[q].later \cup {r}]
                  ELSE proc[q]]
    /\ UNCHANGED <<row, draft, docx, untold>>

StoreNothing(r) == Ends(r) /\ UNCHANGED <<row, draft, docx, untold>>

(* The snapshot is made from rows read again after validating. *)
StoreReread(r) ==
    /\ proc[r].at = "store"
    /\ IF row.active THEN StampStore(r, fields) ELSE StoreNothing(r)

(* The SELECT does not ask for an active row. *)
StoreAnyway(r) == proc[r].at = "store" /\ StampStore(r, proc[r].read)

Store(r) ==
    /\ proc[r].at = "store"
    /\ IF row.active THEN StampStore(r, proc[r].read) ELSE StoreNothing(r)

StoreCommits(r) ==
    /\ proc[r].at = "store_write"
    /\ row' = [row EXCEPT !.spec = [fields |-> proc[r].read, role |-> proc[r].role],
                          !.drift = FALSE]
    /\ proc' = [q \in Requests |->
                  IF q = r THEN Idle
                  ELSE IF proc[q].at \in Stamped
                  THEN [proc[q] EXCEPT !.late = r \in proc[q].later,
                                       !.later = proc[q].later \ {r}]
                  ELSE proc[q]]
    /\ untold' = /\ row'.spec # [fields |-> fields, role |-> row.role]
                 /\ \A q \in Requests : ~ WillMark(q)'
    /\ UNCHANGED <<draft, docx>>

-----------------------------------------------------------------------------
(* PUT /templates/{id}/bundling-config. *)
Bundle(r, role) ==
    /\ "bundle" \in Api
    /\ proc[r] = Idle /\ Found
    /\ Goes(r, [Idle EXCEPT !.role = role,
                            !.at = IF role = "part_of_packet" THEN "check" ELSE "update"])
    /\ UNCHANGED <<row, draft, docx, untold>>

CheckRole(r) ==
    /\ proc[r].at = "check"
    /\ IF NoUserInput(fields) THEN Then(r, "update") ELSE Ends(r)
    /\ UNCHANGED <<row, draft, docx, untold>>

(* Writing the config that its SELECT found updates nothing; one of the    *)
(* same role may name other companions.                                    *)
UpdateConfig(r) ==
    /\ proc[r].at = "update"
    /\ \/ Selects(r, "config_write")
       \/ /\ row.active /\ row.role = proc[r].role
          /\ Ends(r)
          /\ UNCHANGED <<row, draft, docx, untold>>

ConfigCommits(r) ==
    /\ proc[r].at = "config_write"
    /\ Commits(r, [row EXCEPT !.role = proc[r].role])

(* DELETE /templates/{id}: the rows of its fields stay. *)
Delete(r) ==
    /\ "delete" \in Api
    /\ proc[r] = Idle /\ Found
    /\ Selects(r, "delete_write")

DeleteCommits(r) ==
    /\ proc[r].at = "delete_write"
    /\ Commits(r, [row EXCEPT !.active = FALSE])

-----------------------------------------------------------------------------
(* The composer.  Its agent extracts fields with suggested params, some of *)
(* them virtual parents, and renders a document with the placeholders of   *)
(* some of the others.                                                     *)
Extracted == {fs \in [Vars -> Suggested \cup {Absent}] : Has(fs) # {}}

(* What the agent extracted is kept, rendered or not. *)
KeepOrphans(fs, virtual, rendered) == fs

(* A field that should have a placeholder and has none is dropped. *)
DropOrphans(fs, virtual, rendered) ==
    [v \in Vars |-> IF v \in virtual \cup rendered THEN fs[v] ELSE Absent]

AgentAndUpload(r, label) ==
    \E fs \in Extracted, virtual \in Virtuals :
        \E rendered \in SUBSET (Has(fs) \ virtual) :
            LET kept == DropOrphans(fs, virtual, rendered)
            IN  /\ docx' = rendered
                /\ Goes(r, [proc[r] EXCEPT !.at = label, !.read = kept,
                                           !.marks = Has(kept) \ virtual])

(* generate_template_v2 makes the document, the row and then its fields.   *)
Generate(r, role) ==
    /\ ~ row.exists /\ docx = {} /\ \A q \in Requests : proc[q] = Idle
    /\ Goes(r, [Idle EXCEPT !.at = "create", !.role = role])
    /\ UNCHANGED <<row, draft, docx, untold>>

Create(r) ==
    /\ proc[r].at = "create" /\ ~ row.exists
    /\ row' = [row EXCEPT !.exists = TRUE, !.active = TRUE, !.role = proc[r].role]
    /\ AgentAndUpload(r, "create_many")
    /\ UNCHANGED <<draft, untold>>

(* One variable of the template twice is refused by the unique index, and  *)
(* the job fails.  The template could be published before it had a field,  *)
(* and then updated_at does not tell.                                      *)
CreateMany(r) ==
    /\ proc[r].at = "create_many"
    /\ IF Has(fields) \cap Has(proc[r].read) = {}
       THEN /\ fields' = [v \in Vars |-> IF v \in Has(proc[r].read) THEN proc[r].read[v]
                                         ELSE fields[v]]
            /\ marked' = marked \cup proc[r].marks
       ELSE UNCHANGED draft
    /\ untold' = (untold \/ row.spec # NoSpec)
    /\ Ends(r)
    /\ UNCHANGED <<row, docx>>

(* regenerate_template_v2: document first, rows after. *)
Regenerate(r) ==
    /\ "regenerate" \in Api
    /\ proc[r] = Idle /\ Found
    /\ proc' = [q \in Requests |->
                  IF q = r
                  THEN [Idle EXCEPT !.at = "agent",
                                    !.alone = \A o \in Requests : proc[o].at \notin Jobs]
                  ELSE IF proc[q].at \in Jobs THEN [proc[q] EXCEPT !.alone = FALSE]
                  ELSE proc[q]]
    /\ UNCHANGED <<row, draft, docx, untold>>

RunAgent(r) ==
    /\ proc[r].at = "agent"
    /\ AgentAndUpload(r, "apply")
    /\ UNCHANGED <<row, draft, untold>>

Applies(r, fs) ==
    /\ proc[r].at = "apply"
    /\ fields' = [v \in Vars |-> IF v \in Has(proc[r].read) THEN fs[v] ELSE Absent]
    /\ marked' = proc[r].marks
    /\ proc' = [q \in Requests |->
                  IF q = r THEN [Idle EXCEPT !.at = "bump", !.alone = proc[r].alone]
                  ELSE IF proc[q].at = "patch" /\ proc[q].var \notin Has(proc[r].read)
                  THEN [proc[q] EXCEPT !.live = FALSE]
                  ELSE proc[q]]
    /\ UNCHANGED <<row, docx, untold>>

(* Kept fields take the params the agent suggests. *)
ApplySuggestions(r) == Applies(r, proc[r].read)

(* re_extract_diff_apply: rows not extracted any more are deleted, new     *)
(* ones inserted, kept ones take the marker and keep their params.         *)
DiffApply(r) ==
    Applies(r, [v \in Vars |-> IF v \in Has(fields) THEN fields[v] ELSE proc[r].read[v]])

Bump(r) == proc[r].at = "bump" /\ Selects(r, "bump_write")

BumpCommits(r) == proc[r].at = "bump_write" /\ Commits(r, row)

(* A job whose agent, upload or transaction raises leaves what it has done.*)
JobFails(r) ==
    /\ proc[r].at \in Jobs
    /\ untold' = (untold \/ proc[r].at \in {"bump", "bump_write"})
    /\ Ends(r)
    /\ UNCHANGED <<row, draft, docx>>

-----------------------------------------------------------------------------
Init ==
    /\ row = [exists |-> FALSE, active |-> FALSE, role |-> "single",
              spec |-> NoSpec, drift |-> TRUE]
    /\ fields = NoFields /\ marked = {}
    /\ docx = {}
    /\ proc = [r \in Requests |-> Idle]
    /\ untold = FALSE

Arrives(r) ==
    \/ \E v \in Vars, p \in Params : Patch(r, v, p)
    \/ \E role \in Roles : Bundle(r, role) \/ Generate(r, role)
    \/ Publish(r) \/ Delete(r) \/ Regenerate(r)

Step(r) ==
    \/ PatchParams(r) \/ Touch(r) \/ TouchCommits(r)
    \/ ListAndValidate(r) \/ Store(r) \/ StoreCommits(r)
    \/ CheckRole(r) \/ UpdateConfig(r) \/ ConfigCommits(r) \/ DeleteCommits(r)
    \/ Create(r) \/ CreateMany(r)
    \/ RunAgent(r) \/ DiffApply(r) \/ Bump(r) \/ BumpCommits(r) \/ JobFails(r)

Next == \E r \in Requests : Arrives(r) \/ Step(r)

Spec == Init /\ [][Next]_vars

-----------------------------------------------------------------------------
(* Type invariant. *)
TypeOK ==
    /\ row \in Rows
    /\ fields \in FieldRows
    /\ marked \in SUBSET Vars /\ docx \in SUBSET Vars
    /\ proc \in [Requests -> Process]
    /\ untold \in BOOLEAN

(* The published snapshot passes the publish gate by itself, whatever was  *)
(* edited, regenerated or re-assigned while it was being made (publish.py).*)
PublishedIsValid ==
    row.spec # NoSpec => Valid(row.spec.fields, row.spec.role)

(* "Paralegal's wizard work is sacred across re-extract": while a field    *)
(* exists its params change only by a save that was sent for this row, not *)
(* for one deleted since (template_fields_v2.py re_extract_diff_apply).    *)
WorkIsSacred ==
    [][\A v \in Has(fields) \cap Has(fields)' :
          fields'[v] # fields[v] =>
              \E r \in Requests : /\ proc[r].at = "patch" /\ proc[r].live
                                  /\ proc[r].var = v /\ proc[r].val = fields'[v]]_vars

(* Once a template is deleted it stays so, no publish, save, role change   *)
(* or job gets past its SELECT any more, and the row is written only by    *)
(* one that had before the deletion committed (templates_v2.py: "soft-     *)
(* deleted rows are effectively immutable" but for those).                 *)
DeletedIsFrozen ==
    [][row.exists /\ ~ row.active =>
          /\ row'.exists /\ ~ row'.active
          /\ \A r \in Requests : proc'[r].at \in Writes => proc[r].at \in Writes
          /\ row' # row =>
                \E r \in Requests : proc[r].at \in Writes /\ proc'[r].at \notin Writes]_vars

(* A regeneration that no other job ran beside leaves a document with one  *)
(* placeholder for each field that is not a virtual parent and no other,   *)
(* whatever jobs failed before it (regenerate.py, generate.py              *)
(* _drop_orphan_variables_v2).                                             *)
DocumentMatchesFields ==
    \A r \in Requests :
        proc[r].at \in {"bump", "bump_write"} /\ proc[r].alone =>
            docx = marked /\ marked \subseteq Has(fields)

(* The pill says Live only if the draft is what was published, but for the *)
(* four cases the code lets through: an edit marked between a publish's    *)
(* reads and its commit, a mark or a role change that read the time before *)
(* a publish did and commits after it, a template published before its     *)
(* first fields were inserted, a regeneration that died before its last    *)
(* call (schemas.py has_unpublished_changes, templates_v2.py               *)
(* touch_updated_at).                                                      *)
DriftShown ==
    /\ Found /\ row.spec # NoSpec /\ ~ row.drift /\ ~ untold
    /\ \A r \in Requests : ~ WillMark(r)
    => row.spec = [fields |-> fields, role |-> row.role]
=============================================================================
