----------------------- MODULE TemplateEditing_proofs -----------------------
(* What holds of a template for every number of variables and requests. *)
EXTENDS TemplateEditing, TLAPS

USE NamesAssumption

USE DEF Goes, Then, Ends

(* An idle handler has the type of handlers. *)
LEMMA IdleTypes == Idle \in Process
    BY DEF Idle, Process, Labels, NoFields, FieldRows, Roles

(* Every handler has the type of handlers. *)
LEMMA Typed == ASSUME TypeOK, NEW q \in Requests PROVE proc[q] \in Process
    BY DEF TypeOK

(* Two handlers are alike but for the times they have read. *)
Alike(p, o) ==
    /\ p.at = o.at /\ p.var = o.var /\ p.val = o.val /\ p.live = o.live
    /\ p.read = o.read /\ p.marks = o.marks /\ p.role = o.role /\ p.alone = o.alone

(* What a change of one component of a handler leaves as it is. *)
LEMMA UnaloneFacts ==
    ASSUME NEW o \in Process, NEW p, p = [o EXCEPT !.alone = FALSE]
    PROVE  /\ p \in Process /\ p.at = o.at /\ p.var = o.var /\ p.val = o.val /\ p.live = o.live
           /\ p.read = o.read /\ p.role = o.role /\ p.late = o.late /\ ~ p.alone
    BY DEF Process

LEMMA UnliveFacts ==
    ASSUME NEW o \in Process, NEW p, p = [o EXCEPT !.live = FALSE]
    PROVE  /\ p \in Process /\ p.at = o.at /\ p.var = o.var /\ p.val = o.val /\ ~ p.live
           /\ p.read = o.read /\ p.marks = o.marks /\ p.role = o.role
           /\ p.alone = o.alone /\ p.late = o.late
    BY DEF Process

LEMMA LaterFacts ==
    ASSUME NEW o \in Process, NEW r \in Requests, NEW p,
           p = [o EXCEPT !.later = o.later \cup {r}]
    PROVE  p \in Process /\ Alike(p, o) /\ p.late = o.late
<1>1. o.later \cup {r} \in SUBSET Requests
    BY DEF Process
<1> QED
    BY <1>1 DEF Process, Alike

LEMMA LateFacts ==
    ASSUME NEW o \in Process, NEW r \in Requests, NEW p,
           p = [o EXCEPT !.late = r \in o.later, !.later = o.later \ {r}]
    PROVE  p \in Process /\ Alike(p, o)
<1>1. o.later \ {r} \in SUBSET Requests /\ (r \in o.later) \in BOOLEAN
    BY DEF Process
<1> QED
    BY <1>1 DEF Process, Alike

LEMMA StampFacts ==
    ASSUME NEW o \in Process, NEW label \in Labels, NEW p,
           p = [o EXCEPT !.at = label, !.later = {}, !.late = FALSE]
    PROVE  p \in Process /\ p.at = label /\ ~ p.late /\ p.alone = o.alone
    BY DEF Process

(* Moving one handler on keeps the type of all. *)
LEMMA MovedTypes ==
    ASSUME TypeOK, NEW r \in Requests, NEW p \in Process,
           proc' = [proc EXCEPT ![r] = p]
    PROVE  proc' \in [Requests -> Process]
    BY DEF TypeOK

(* The SELECT of a write and its commit keep the types. *)
LEMMA SelectTypes ==
    ASSUME TypeOK, NEW r \in Requests, NEW label \in Labels, Selects(r, label)
    PROVE  TypeOK'
<1>1. [proc[r] EXCEPT !.at = label, !.later = {}, !.late = FALSE] \in Process
    BY Typed, StampFacts
<1>2. proc' \in [Requests -> Process]
    BY <1>1, IdleTypes, MovedTypes DEF Selects
<1> QED
    BY <1>2 DEF Selects, TypeOK, draft

LEMMA CommitTypes ==
    ASSUME TypeOK, NEW r \in Requests, NEW update \in Rows, Commits(r, update)
    PROVE  TypeOK'
<1>1. proc[r].late \in BOOLEAN
    BY DEF TypeOK, Process
<1>2. row' \in Rows
  <2>1. row' = [update EXCEPT !.drift = ~ proc[r].late]
    BY DEF Commits
  <2> QED
    BY <1>1, <2>1 DEF Rows
<1>3. untold' \in BOOLEAN
    BY <1>1 DEF Commits, TypeOK
<1>4. proc' \in [Requests -> Process]
    BY IdleTypes, MovedTypes DEF Commits
<1> QED
    BY <1>2, <1>3, <1>4 DEF Commits, TypeOK, draft

(* What the agent extracts are field rows, also without the orphans. *)
LEMMA ExtractTypes ==
    ASSUME NEW fs \in Extracted, NEW virtual, NEW rendered
    PROVE  fs \in FieldRows /\ DropOrphans(fs, virtual, rendered) \in FieldRows
<1>1. fs \in [Vars -> Suggested \cup {Absent}]
    BY DEF Extracted
<1> QED
    BY <1>1 DEF DropOrphans, FieldRows, Params

(* What is left without the orphans are the virtual parents and what was   *)
(* rendered.                                                               *)
LEMMA OrphansDropped ==
    ASSUME NEW fs \in Extracted, NEW virtual \in Virtuals,
           NEW rendered \in SUBSET (Has(fs) \ virtual)
    PROVE  Has(DropOrphans(fs, virtual, rendered)) \ virtual = rendered
    BY DEF Has, DropOrphans

(* What the agent's run makes: a document, and fields of which those that  *)
(* are no virtual parents have a placeholder in it.                        *)
LEMMA AgentMakes ==
    ASSUME TypeOK, NEW r \in Requests, NEW label \in Labels, AgentAndUpload(r, label)
    PROVE  \E read \in FieldRows, marks \in SUBSET Vars :
               /\ marks \subseteq Has(read) /\ docx' = marks
               /\ proc' = [proc EXCEPT ![r] =
                      [proc[r] EXCEPT !.at = label, !.read = read, !.marks = marks]]
<1>1. PICK fs \in Extracted, virtual \in Virtuals :
          \E rendered \in SUBSET (Has(fs) \ virtual) :
              /\ docx' = rendered
              /\ proc' = [proc EXCEPT ![r] =
                     [proc[r] EXCEPT !.at = label, !.read = DropOrphans(fs, virtual, rendered),
                                     !.marks = Has(DropOrphans(fs, virtual, rendered)) \ virtual]]
    BY DEF AgentAndUpload
<1>2. PICK rendered \in SUBSET (Has(fs) \ virtual) :
          /\ docx' = rendered
          /\ proc' = [proc EXCEPT ![r] =
                 [proc[r] EXCEPT !.at = label, !.read = DropOrphans(fs, virtual, rendered),
                                 !.marks = Has(DropOrphans(fs, virtual, rendered)) \ virtual]]
    BY <1>1
<1> DEFINE read == DropOrphans(fs, virtual, rendered)
<1>3. read \in FieldRows
    BY ExtractTypes
<1>4. Has(read) \ virtual = rendered
    BY OrphansDropped
<1>5. rendered \subseteq Has(read) /\ Has(read) \subseteq Vars
    BY <1>4 DEF Has
<1> HIDE DEF read
<1>6. /\ docx' = rendered
      /\ proc' = [proc EXCEPT ![r] =
             [proc[r] EXCEPT !.at = label, !.read = read, !.marks = rendered]]
    BY <1>2, <1>4 DEF read
<1> QED
    BY <1>3, <1>5, <1>6

(* The agent's run keeps the types of what it makes. *)
LEMMA AgentTypes ==
    ASSUME TypeOK, NEW r \in Requests, NEW label \in Labels, AgentAndUpload(r, label)
    PROVE  docx' \in SUBSET Vars /\ proc' \in [Requests -> Process]
<1>1. PICK read \in FieldRows, marks \in SUBSET Vars :
          /\ marks \subseteq Has(read) /\ docx' = marks
          /\ proc' = [proc EXCEPT ![r] =
                 [proc[r] EXCEPT !.at = label, !.read = read, !.marks = marks]]
    BY AgentMakes
<1> DEFINE p == [proc[r] EXCEPT !.at = label, !.read = read, !.marks = marks]
<1>2. PICK o \in Process : o = proc[r]
    BY Typed
<1>3. p = [o EXCEPT !.at = label, !.read = read, !.marks = marks]
    BY <1>2
<1>4. docx' = marks /\ proc' = [proc EXCEPT ![r] = p]
    BY <1>1
<1> HIDE DEF p
<1>5. p \in Process
    BY <1>3 DEF Process
<1> QED
    BY <1>4, <1>5, MovedTypes

(* Re-extracted rows and the handlers they leave without one are typed. *)
LEMMA AppliedTypes ==
    ASSUME TypeOK, NEW r \in Requests, DiffApply(r)
    PROVE  TypeOK'
<1> DEFINE kept == [v \in Vars |-> IF v \in Has(fields) THEN fields[v] ELSE proc[r].read[v]]
<1>1. proc[r] \in Process /\ proc[r].read \in FieldRows /\ proc[r].marks \subseteq Vars
    BY DEF TypeOK, Process
<1>2. kept \in FieldRows
    BY <1>1 DEF TypeOK, FieldRows
<1>3. fields' = [v \in Vars |-> IF v \in Has(proc[r].read) THEN kept[v] ELSE Absent]
    BY DEF DiffApply, Applies
<1>4. fields' \in FieldRows
    BY <1>2, <1>3 DEF FieldRows
<1>5. [Idle EXCEPT !.at = "bump", !.alone = proc[r].alone] \in Process
    BY <1>1, IdleTypes DEF Process, Labels
<1>6. \A q \in Requests : [proc[q] EXCEPT !.live = FALSE] \in Process
    BY Typed, UnliveFacts
<1>7. proc' \in [Requests -> Process]
    BY <1>5, <1>6 DEF TypeOK, DiffApply, Applies
<1> QED
    BY <1>1, <1>4, <1>7 DEF TypeOK, DiffApply, Applies

(* A publish's SELECT and commit: what they do to the handlers. *)
LEMMA StampMoves ==
    ASSUME TypeOK, NEW r \in Requests, row.active, Store(r)
    PROVE  /\ proc' \in [Requests -> Process]
           /\ proc'[r].at = "store_write" /\ proc'[r].read = proc[r].read
           /\ proc'[r].role = proc[r].role
           /\ \A q \in Requests : q # r =>
                  Alike(proc'[q], proc[q]) /\ proc'[q].late = proc[q].late
           /\ proc[r].at = "store" /\ UNCHANGED <<row, fields, marked, docx, untold>>
<1>0. proc[r] \in Process /\ proc[r].read \in FieldRows /\ "store_write" \in Labels
    BY Typed DEF Process, Labels, Writes
<1> DEFINE p == [proc[r] EXCEPT !.at = "store_write", !.read = proc[r].read]
<1>1. /\ p \in Process /\ p.at = "store_write" /\ p.read = proc[r].read
      /\ p.role = proc[r].role
  <2>1. PICK o \in Process : o = proc[r]
    BY <1>0
  <2>2. PICK read \in FieldRows : read = proc[r].read
    BY <1>0
  <2>3. p = [o EXCEPT !.at = "store_write", !.read = read]
    BY <2>1, <2>2
  <2> HIDE DEF p
  <2>4. /\ p \in Process /\ p.at = "store_write" /\ p.read = read /\ p.role = o.role
    BY <1>0, <2>3 DEF Process
  <2> QED
    BY <2>1, <2>2, <2>4
<1> DEFINE stamped(q) == [proc[q] EXCEPT !.later = proc[q].later \cup {r}]
<1>2. \A q \in Requests : /\ stamped(q) \in Process /\ Alike(stamped(q), proc[q])
                          /\ stamped(q).late = proc[q].late
    BY Typed, LaterFacts
<1>3. proc' = [q \in Requests |-> IF q = r THEN p
                                  ELSE IF proc[q].at \in Stamped THEN stamped(q) ELSE proc[q]]
    BY DEF Store, StampStore
<1>4. UNCHANGED <<row, fields, marked, docx, untold>> /\ proc[r].at = "store"
    BY DEF Store, StampStore, draft
<1> HIDE DEF p, stamped
<1>5. \A q \in Requests : Alike(proc[q], proc[q])
    BY DEF Alike
<1>6. \A q \in Requests : proc[q] \in Process
    BY Typed
<1> QED
    BY <1>1, <1>2, <1>3, <1>4, <1>5, <1>6

LEMMA StoreMoves ==
    ASSUME TypeOK, NEW r \in Requests, StoreCommits(r)
    PROVE  /\ proc' \in [Requests -> Process] /\ proc'[r] = Idle
           /\ \A q \in Requests : q # r => Alike(proc'[q], proc[q])
           /\ proc[r].at = "store_write" /\ UNCHANGED <<fields, marked, docx>>
<1> DEFINE stamped(q) == [proc[q] EXCEPT !.late = r \in proc[q].later,
                                         !.later = proc[q].later \ {r}]
<1>2. \A q \in Requests : stamped(q) \in Process /\ Alike(stamped(q), proc[q])
    BY Typed, LateFacts
<1>3. proc' = [q \in Requests |-> IF q = r THEN Idle
                                  ELSE IF proc[q].at \in Stamped THEN stamped(q) ELSE proc[q]]
    BY DEF StoreCommits
<1>4. UNCHANGED <<fields, marked, docx>> /\ proc[r].at = "store_write"
    BY DEF StoreCommits, draft
<1> HIDE DEF stamped
<1>5. \A q \in Requests : Alike(proc[q], proc[q])
    BY DEF Alike
<1>6. \A q \in Requests : proc[q] \in Process
    BY Typed
<1> QED
    BY <1>2, <1>3, <1>4, <1>5, <1>6, IdleTypes

LEMMA StampTypes ==
    ASSUME TypeOK, NEW r \in Requests, Store(r)
    PROVE  TypeOK'
<1>1. CASE row.active
    BY <1>1, StampMoves DEF TypeOK
<1>2. CASE ~ row.active
    BY <1>2, IdleTypes, MovedTypes DEF Store, StoreNothing, TypeOK, draft
<1> QED
    BY <1>1, <1>2

LEMMA StoredTypes ==
    ASSUME TypeOK, NEW r \in Requests, StoreCommits(r)
    PROVE  TypeOK'
<1>1. [fields |-> proc[r].read, role |-> proc[r].role] \in Snapshots
    BY Typed DEF Process, Snapshots
<1>2. row' \in Rows
    BY <1>1 DEF StoreCommits, TypeOK, Rows
<1>3. untold' \in BOOLEAN
    BY DEF StoreCommits
<1> QED
    BY <1>2, <1>3, StoreMoves DEF TypeOK

(* Every action keeps the types. *)
LEMMA TypeNext == TypeOK /\ [Next]_vars => TypeOK'
<1> SUFFICES ASSUME TypeOK, [Next]_vars PROVE TypeOK'
    OBVIOUS
<1>0. CASE UNCHANGED vars
    BY <1>0 DEF vars, draft, TypeOK
<1> SUFFICES ASSUME NEW r \in Requests, Arrives(r) \/ Step(r) PROVE TypeOK'
    BY <1>0 DEF Next
<1>a. proc[r] \in Process
    BY DEF TypeOK
<1>1. ASSUME NEW v \in Vars, NEW p \in Params, Patch(r, v, p) PROVE TypeOK'
  <2>1. [Idle EXCEPT !.at = "patch", !.var = v, !.val = p] \in Process
    BY IdleTypes DEF Process, Labels
  <2> QED
    BY <1>1, <2>1, MovedTypes DEF Patch, draft, TypeOK
<1>2. ASSUME NEW role \in Roles, Bundle(r, role) PROVE TypeOK'
  <2>1. [Idle EXCEPT !.role = role,
                     !.at = IF role = "part_of_packet" THEN "check" ELSE "update"] \in Process
    BY IdleTypes DEF Process, Labels
  <2> QED
    BY <1>2, <2>1, MovedTypes DEF Bundle, draft, TypeOK
<1>3. ASSUME NEW role \in Roles, Generate(r, role) PROVE TypeOK'
  <2>1. [Idle EXCEPT !.at = "create", !.role = role] \in Process
    BY IdleTypes DEF Process, Labels
  <2> QED
    BY <1>3, <2>1, MovedTypes DEF Generate, draft, TypeOK
<1>4. CASE Publish(r)
  <2>1. row.role \in Roles
    BY DEF TypeOK, Rows
  <2>2. [Idle EXCEPT !.at = "list", !.role = row.role] \in Process
    BY <2>1, IdleTypes DEF Process, Labels
  <2> QED
    BY <1>4, <2>2, MovedTypes DEF Publish, draft, TypeOK
<1>5. CASE Delete(r)
    BY <1>5, SelectTypes DEF Delete, Labels, Writes, Stamped
<1>6. CASE Regenerate(r)
  <2>1. \A b \in BOOLEAN : [Idle EXCEPT !.at = "agent", !.alone = b] \in Process
    BY IdleTypes DEF Process, Labels
  <2>2. \A q \in Requests : [proc[q] EXCEPT !.alone = FALSE] \in Process
    BY Typed, UnaloneFacts
  <2>3. (\A o \in Requests : proc[o].at \notin Jobs) \in BOOLEAN
    OBVIOUS
  <2>4. proc' \in [Requests -> Process]
    BY <1>6, <2>1, <2>2, <2>3 DEF TypeOK, Regenerate
  <2> QED
    BY <1>6, <2>4 DEF Regenerate, draft, TypeOK
<1>7. CASE PatchParams(r)
  <2>1. CASE proc[r].live
    <3>1. fields' \in FieldRows
      <4>1. fields' = [fields EXCEPT ![proc[r].var] = proc[r].val]
        BY <1>7, <2>1 DEF PatchParams
      <4> QED
        BY <1>a, <4>1 DEF TypeOK, FieldRows, Process
    <3>2. [Idle EXCEPT !.at = "touch"] \in Process
      BY IdleTypes DEF Process, Labels
    <3> QED
      BY <1>7, <2>1, <3>1, <3>2, MovedTypes DEF PatchParams, draft, TypeOK
  <2>2. CASE ~ proc[r].live
    BY <1>7, <2>2, IdleTypes, MovedTypes DEF PatchParams, draft, TypeOK
  <2> QED
    BY <2>1, <2>2
<1>8. CASE Touch(r) \/ Bump(r)
    BY <1>8, SelectTypes DEF Touch, Bump, Labels, Writes, Stamped
<1>9. CASE ListAndValidate(r)
  <2>1. [proc[r] EXCEPT !.at = "store", !.read = fields] \in Process
    BY <1>a DEF TypeOK, Process, Labels
  <2> QED
    BY <1>9, <2>1, IdleTypes, MovedTypes DEF ListAndValidate, draft, TypeOK
<1>10. CASE Store(r) \/ StoreCommits(r)
    BY <1>10, StampTypes, StoredTypes
<1>11. CASE CheckRole(r)
  <2>1. [proc[r] EXCEPT !.at = "update"] \in Process
    BY <1>a DEF Process, Labels
  <2> QED
    BY <1>11, <2>1, IdleTypes, MovedTypes DEF CheckRole, draft, TypeOK
<1>12. CASE UpdateConfig(r)
  <2>1. CASE Selects(r, "config_write")
    BY <2>1, SelectTypes DEF Labels, Writes, Stamped
  <2>2. CASE Ends(r) /\ UNCHANGED <<row, draft, docx, untold>>
    BY <2>2, IdleTypes, MovedTypes DEF draft, TypeOK
  <2> QED
    BY <1>12, <2>1, <2>2 DEF UpdateConfig
<1>13. CASE Create(r)
  <2>1. row' \in Rows
    BY <1>13, <1>a DEF Create, TypeOK, Rows, Process
  <2>2. docx' \in SUBSET Vars /\ proc' \in [Requests -> Process]
    BY <1>13, AgentTypes DEF Create, Labels
  <2> QED
    BY <1>13, <2>1, <2>2 DEF Create, draft, TypeOK
<1>14. CASE CreateMany(r)
  <2>1. fields' \in FieldRows /\ marked' \in SUBSET Vars
    BY <1>14, <1>a DEF CreateMany, draft, TypeOK, FieldRows, Process
  <2>2. untold' \in BOOLEAN
    BY <1>14 DEF CreateMany, TypeOK
  <2> QED
    BY <1>14, <2>1, <2>2, IdleTypes, MovedTypes DEF CreateMany, TypeOK
<1>15. CASE RunAgent(r)
    BY <1>15, AgentTypes DEF RunAgent, Labels, draft, TypeOK
<1>16. CASE DiffApply(r)
    BY <1>16, AppliedTypes
<1>17. CASE TouchCommits(r) \/ BumpCommits(r) \/ ConfigCommits(r) \/ DeleteCommits(r)
  <2>1. /\ row \in Rows /\ [row EXCEPT !.role = proc[r].role] \in Rows
        /\ [row EXCEPT !.active = FALSE] \in Rows
    BY <1>a DEF TypeOK, Rows, Process
  <2> QED
    BY <1>17, <2>1, CommitTypes DEF TouchCommits, BumpCommits, ConfigCommits, DeleteCommits
<1>18. CASE JobFails(r)
  <2>1. untold' \in BOOLEAN
    BY <1>18 DEF JobFails, TypeOK
  <2> QED
    BY <1>18, <2>1, IdleTypes, MovedTypes DEF JobFails, draft, TypeOK
<1> QED
    BY <1>1, <1>2, <1>3, <1>4, <1>5, <1>6, <1>7, <1>8, <1>9, <1>10, <1>11, <1>12,
       <1>13, <1>14, <1>15, <1>16, <1>17, <1>18 DEF Arrives, Step

(* The rows, the document and the handlers keep their types                *)
(* (repositories/models.py).                                               *)
THEOREM TypeCorrect == Spec => []TypeOK
<1>1. Init => TypeOK
  <2> SUFFICES ASSUME Init PROVE TypeOK
    OBVIOUS
  <2>1. row \in Rows
    BY DEF Init, Rows, Roles
  <2>2. fields \in FieldRows /\ marked \in SUBSET Vars /\ docx \in SUBSET Vars
    BY DEF Init, NoFields, FieldRows
  <2>3. proc \in [Requests -> Process] /\ untold \in BOOLEAN
    BY IdleTypes DEF Init
  <2> QED
    BY <2>1, <2>2, <2>3 DEF TypeOK
<1> QED
    BY <1>1, TypeNext, PTL DEF Spec

-----------------------------------------------------------------------------
(* A publish that is about to store has validated what it will store. *)
Storing == {"store", "store_write"}
StoresAreValid ==
    \A r \in Requests : proc[r].at \in Storing => Valid(proc[r].read, proc[r].role)

(* The published snapshot and those about to be. *)
ValidInv == PublishedIsValid /\ StoresAreValid

(* A handler moved on is not about to store what was not validated. *)
LEMMA MovedValid ==
    ASSUME TypeOK, StoresAreValid, NEW r \in Requests, NEW p,
           proc' = [proc EXCEPT ![r] = p],
           p.at \in Storing => Valid(p.read, p.role)
    PROVE  StoresAreValid'
<1> SUFFICES ASSUME NEW q \in Requests, proc'[q].at \in Storing
             PROVE  Valid(proc'[q].read, proc'[q].role)
    BY DEF StoresAreValid
<1>1. CASE q = r
    BY <1>1 DEF TypeOK
<1>2. CASE q # r
  <2>1. proc'[q] = proc[q]
    BY <1>2 DEF TypeOK
  <2> QED
    BY <2>1 DEF StoresAreValid
<1> QED
    BY <1>1, <1>2

(* An idle handler stores nothing. *)
LEMMA EndedValid ==
    ASSUME TypeOK, StoresAreValid, NEW r \in Requests, Ends(r)
    PROVE  StoresAreValid'
    BY MovedValid DEF Idle, Storing

(* The SELECT of another write than a publish's, and its commit, leave the *)
(* snapshot as it is.                                                      *)
LEMMA SelectValid ==
    ASSUME TypeOK, ValidInv, NEW r \in Requests, NEW label \in Stamped, Selects(r, label)
    PROVE  ValidInv'
<1>1. row' = row
    BY DEF Selects
<1>2. [proc[r] EXCEPT !.at = label, !.later = {}, !.late = FALSE].at \notin Storing
    BY DEF TypeOK, Process, Stamped, Storing
<1>3. StoresAreValid'
    BY <1>2, MovedValid, EndedValid DEF Selects, ValidInv
<1> QED
    BY <1>1, <1>3 DEF ValidInv, PublishedIsValid

LEMMA CommitValid ==
    ASSUME TypeOK, ValidInv, NEW r \in Requests, NEW update \in Rows,
           update.spec = row.spec, Commits(r, update)
    PROVE  ValidInv'
<1>1. row'.spec = row.spec
    BY DEF Commits, Rows
<1>2. StoresAreValid'
    BY EndedValid DEF Commits, ValidInv
<1> QED
    BY <1>1, <1>2 DEF ValidInv, PublishedIsValid

(* The agent's run publishes nothing. *)
LEMMA AgentValid ==
    ASSUME TypeOK, StoresAreValid, NEW r \in Requests, NEW label \in Jobs \ {"bump_write"},
           AgentAndUpload(r, label)
    PROVE  StoresAreValid'
<1>0. label \in Labels
    BY DEF Jobs, Labels
<1>1. PICK read \in FieldRows, marks \in SUBSET Vars :
          proc' = [proc EXCEPT ![r] =
              [proc[r] EXCEPT !.at = label, !.read = read, !.marks = marks]]
    BY <1>0, AgentMakes
<1> DEFINE p == [proc[r] EXCEPT !.at = label, !.read = read, !.marks = marks]
<1>2. p.at \notin Storing
    BY DEF TypeOK, Process, Jobs, Storing
<1> HIDE DEF p
<1>3. proc' = [proc EXCEPT ![r] = p]
    BY <1>1 DEF p
<1> QED
    BY <1>2, <1>3, MovedValid

(* A regeneration that marks itself or its neighbours publishes nothing. *)
LEMMA OthersValid ==
    ASSUME TypeOK, StoresAreValid, NEW r \in Requests,
           \A q \in Requests : proc'[q].at \in Storing =>
               /\ proc[q].at \in Storing
               /\ proc'[q].read = proc[q].read /\ proc'[q].role = proc[q].role
    PROVE  StoresAreValid'
    BY DEF StoresAreValid

(* Every action keeps the published snapshot valid. *)
LEMMA ValidNext == TypeOK /\ ValidInv /\ [Next]_vars => ValidInv'
<1> SUFFICES ASSUME TypeOK, ValidInv, [Next]_vars PROVE ValidInv'
    OBVIOUS
<1>0. CASE UNCHANGED vars
    BY <1>0 DEF vars, draft, ValidInv, PublishedIsValid, StoresAreValid
<1> SUFFICES ASSUME NEW r \in Requests, Arrives(r) \/ Step(r) PROVE ValidInv'
    BY <1>0 DEF Next
<1>a. proc[r] \in Process
    BY DEF TypeOK
<1>b. PublishedIsValid /\ StoresAreValid
    BY DEF ValidInv
<1>c. ASSUME row'.spec = row.spec PROVE PublishedIsValid'
    BY <1>b, <1>c DEF PublishedIsValid
<1>1. ASSUME NEW v \in Vars, NEW p \in Params, Patch(r, v, p) PROVE ValidInv'
  <2>1. [Idle EXCEPT !.at = "patch", !.var = v, !.val = p].at = "patch"
    BY DEF Idle
  <2> QED
    BY <1>1, <1>b, <1>c, <2>1, MovedValid DEF Patch, ValidInv, Storing
<1>2. ASSUME NEW role \in Roles, Bundle(r, role) PROVE ValidInv'
  <2>1. [Idle EXCEPT !.role = role,
                     !.at = IF role = "part_of_packet" THEN "check" ELSE "update"].at
            \notin Storing
    BY DEF Idle, Storing
  <2> QED
    BY <1>2, <1>b, <1>c, <2>1, MovedValid DEF Bundle, ValidInv
<1>3. ASSUME NEW role \in Roles, Generate(r, role) PROVE ValidInv'
  <2>1. [Idle EXCEPT !.at = "create", !.role = role].at = "create"
    BY DEF Idle
  <2> QED
    BY <1>3, <1>b, <1>c, <2>1, MovedValid DEF Generate, ValidInv, Storing
<1>4. CASE Publish(r)
  <2>1. [Idle EXCEPT !.at = "list", !.role = row.role].at = "list"
    BY DEF Idle
  <2> QED
    BY <1>4, <1>b, <1>c, <2>1, MovedValid DEF Publish, ValidInv, Storing
<1>5. CASE Delete(r)
    BY <1>5, SelectValid DEF Delete, Stamped
<1>6. CASE Regenerate(r)
  <2>1. row'.spec = row.spec
    BY <1>6 DEF Regenerate
  <2>2. proc' = [q \in Requests |->
                   IF q = r
                   THEN [Idle EXCEPT !.at = "agent",
                                     !.alone = \A o \in Requests : proc[o].at \notin Jobs]
                   ELSE IF proc[q].at \in Jobs THEN [proc[q] EXCEPT !.alone = FALSE]
                   ELSE proc[q]]
    BY <1>6 DEF Regenerate
  <2>3. ASSUME NEW q \in Requests, proc'[q].at \in Storing PROVE proc'[q] = proc[q]
    <3>1. CASE q = r
      BY <2>2, <2>3, <3>1 DEF Idle, Storing
    <3>2. CASE q # r /\ proc[q].at \in Jobs
      <4>1. proc'[q].at = proc[q].at
        BY <2>2, <3>2, Typed, UnaloneFacts
      <4> QED
        BY <2>3, <3>2, <4>1 DEF Jobs, Storing
    <3>3. CASE q # r /\ proc[q].at \notin Jobs
      BY <2>2, <3>3
    <3> QED
      BY <3>1, <3>2, <3>3
  <2> QED
    BY <1>b, <1>c, <2>1, <2>3, OthersValid DEF ValidInv
<1>7. CASE PatchParams(r)
  <2>1. row'.spec = row.spec
    BY <1>7 DEF PatchParams
  <2>2. [Idle EXCEPT !.at = "touch"].at = "touch"
    BY DEF Idle
  <2>3. StoresAreValid'
    <3>1. CASE proc[r].live
      <4> DEFINE p == [Idle EXCEPT !.at = "touch"]
      <4>1. p.at \notin Storing /\ proc' = [proc EXCEPT ![r] = p]
        BY <1>7, <2>2, <3>1 DEF PatchParams, Storing
      <4> HIDE DEF p
      <4> QED
        BY <1>b, <4>1, MovedValid
    <3>2. CASE ~ proc[r].live
      BY <1>7, <1>b, <3>2, EndedValid DEF PatchParams
    <3> QED
      BY <3>1, <3>2
  <2> QED
    BY <1>c, <2>1, <2>3 DEF ValidInv
<1>8. CASE Touch(r) \/ Bump(r)
    BY <1>8, SelectValid DEF Touch, Bump, Stamped
<1>9. CASE ListAndValidate(r)
  <2>1. row'.spec = row.spec
    BY <1>9 DEF ListAndValidate
  <2>2. StoresAreValid'
    <3>1. CASE Valid(fields, proc[r].role)
      <4> DEFINE p == [proc[r] EXCEPT !.at = "store", !.read = fields]
      <4>1. p.read = fields /\ p.role = proc[r].role
        BY <1>a DEF Process
      <4>2. proc' = [proc EXCEPT ![r] = p]
        BY <1>9, <3>1 DEF ListAndValidate
      <4> HIDE DEF p
      <4> QED
        BY <1>b, <3>1, <4>1, <4>2, MovedValid
    <3>2. CASE ~ Valid(fields, proc[r].role)
      BY <1>9, <1>b, <3>2, EndedValid DEF ListAndValidate
    <3> QED
      BY <3>1, <3>2
  <2> QED
    BY <1>c, <2>1, <2>2 DEF ValidInv
<1>10. CASE Store(r)
  <2>1. CASE row.active
    <3>1. row' = row
      BY <1>10, <2>1, StampMoves
    <3>2. ASSUME NEW q \in Requests, proc'[q].at \in Storing
          PROVE  /\ proc[q].at \in Storing
                 /\ proc'[q].read = proc[q].read /\ proc'[q].role = proc[q].role
      BY <1>10, <2>1, <3>2, StampMoves DEF Alike, Storing
    <3> QED
      BY <1>b, <1>c, <3>1, <3>2, OthersValid DEF ValidInv
  <2>2. CASE ~ row.active
    <3>1. row' = row /\ Ends(r)
      BY <1>10, <2>2 DEF Store, StoreNothing
    <3> QED
      BY <1>b, <1>c, <3>1, EndedValid DEF ValidInv
  <2> QED
    BY <2>1, <2>2
<1>19. CASE StoreCommits(r)
  <2>1. row'.spec = [fields |-> proc[r].read, role |-> proc[r].role]
    BY <1>19 DEF StoreCommits, TypeOK, Rows
  <2>2. Valid(proc[r].read, proc[r].role)
    BY <1>19, <1>b DEF StoreCommits, StoresAreValid, Storing
  <2>3. PublishedIsValid'
    BY <2>1, <2>2 DEF PublishedIsValid
  <2>4. ASSUME NEW q \in Requests, proc'[q].at \in Storing
        PROVE  /\ proc[q].at \in Storing
               /\ proc'[q].read = proc[q].read /\ proc'[q].role = proc[q].role
    BY <1>19, <2>4, StoreMoves DEF Alike, Storing, Idle
  <2> QED
    BY <1>b, <2>3, <2>4, OthersValid DEF ValidInv
<1>11. CASE CheckRole(r)
  <2>1. row'.spec = row.spec
    BY <1>11 DEF CheckRole
  <2>2. StoresAreValid'
    <3>1. CASE NoUserInput(fields)
      <4>1. [proc[r] EXCEPT !.at = "update"].at = "update"
        BY <1>a DEF Process
      <4> QED
        BY <1>11, <1>b, <3>1, <4>1, MovedValid DEF CheckRole, Storing
    <3>2. CASE ~ NoUserInput(fields)
      BY <1>11, <1>b, <3>2, EndedValid DEF CheckRole
    <3> QED
      BY <3>1, <3>2
  <2> QED
    BY <1>c, <2>1, <2>2 DEF ValidInv
<1>12. CASE UpdateConfig(r)
  <2>1. CASE Selects(r, "config_write")
    BY <2>1, SelectValid DEF Stamped
  <2>2. CASE Ends(r) /\ UNCHANGED <<row, draft, docx, untold>>
    BY <2>2, <1>b, <1>c, EndedValid DEF ValidInv
  <2> QED
    BY <1>12, <2>1, <2>2 DEF UpdateConfig
<1>13. CASE Create(r)
  <2>1. row'.spec = row.spec
    BY <1>13 DEF Create, TypeOK, Rows
  <2>2. StoresAreValid'
    BY <1>13, <1>b, AgentValid DEF Create, Jobs
  <2> QED
    BY <1>c, <2>1, <2>2 DEF ValidInv
<1>14. CASE CreateMany(r)
  <2>1. StoresAreValid'
    BY <1>14, <1>b, EndedValid DEF CreateMany
  <2> QED
    BY <1>14, <1>c, <2>1 DEF CreateMany, ValidInv
<1>15. CASE RunAgent(r)
  <2>1. StoresAreValid'
    BY <1>15, <1>b, AgentValid DEF RunAgent, Jobs
  <2> QED
    BY <1>15, <1>c, <2>1 DEF RunAgent, ValidInv
<1>16. CASE DiffApply(r)
  <2>1. row'.spec = row.spec
    BY <1>16 DEF DiffApply, Applies
  <2>2. proc' = [q \in Requests |->
                   IF q = r THEN [Idle EXCEPT !.at = "bump", !.alone = proc[r].alone]
                   ELSE IF proc[q].at = "patch" /\ proc[q].var \notin Has(proc[r].read)
                   THEN [proc[q] EXCEPT !.live = FALSE]
                   ELSE proc[q]]
    BY <1>16 DEF DiffApply, Applies
  <2>3. ASSUME NEW q \in Requests, proc'[q].at \in Storing PROVE proc'[q] = proc[q]
    <3>1. CASE q = r
      BY <2>2, <2>3, <3>1 DEF Idle, Storing
    <3>2. CASE q # r /\ proc[q].at = "patch"
      <4>1. proc'[q].at = "patch"
        BY <2>2, <3>2 DEF TypeOK, Process
      <4> QED
        BY <2>3, <4>1 DEF Storing
    <3>3. CASE q # r /\ proc[q].at # "patch"
      BY <2>2, <3>3
    <3> QED
      BY <3>1, <3>2, <3>3
  <2> QED
    BY <1>b, <1>c, <2>1, <2>3, OthersValid DEF ValidInv
<1>17. CASE TouchCommits(r) \/ BumpCommits(r) \/ ConfigCommits(r) \/ DeleteCommits(r)
  <2> DEFINE config == [row EXCEPT !.role = proc[r].role]
             deleted == [row EXCEPT !.active = FALSE]
  <2>1. /\ row \in Rows /\ config \in Rows /\ deleted \in Rows
        /\ config.spec = row.spec /\ deleted.spec = row.spec
    BY <1>a DEF TypeOK, Rows, Process
  <2>2. Commits(r, row) \/ Commits(r, config) \/ Commits(r, deleted)
    BY <1>17 DEF TouchCommits, BumpCommits, ConfigCommits, DeleteCommits
  <2> HIDE DEF config, deleted
  <2> QED
    BY <2>1, <2>2, CommitValid
<1>18. CASE JobFails(r)
  <2>1. StoresAreValid'
    BY <1>18, <1>b, EndedValid DEF JobFails
  <2> QED
    BY <1>18, <1>c, <2>1 DEF JobFails, ValidInv
<1> QED
    BY <1>1, <1>2, <1>3, <1>4, <1>5, <1>6, <1>7, <1>8, <1>9, <1>10, <1>11, <1>12,
       <1>13, <1>14, <1>15, <1>16, <1>17, <1>18, <1>19 DEF Arrives, Step

(* What is published passes the publish gate, however edits, regenerations *)
(* and role changes interleave with publishes (publish.py).                *)
THEOREM PublishedIsValidCorrect == Spec => []PublishedIsValid
<1>1. Init => ValidInv
    BY DEF Init, ValidInv, PublishedIsValid, StoresAreValid, Idle, Storing
<1>2. ValidInv => PublishedIsValid
    BY DEF ValidInv
<1> QED
    BY <1>1, <1>2, TypeCorrect, ValidNext, PTL DEF Spec

-----------------------------------------------------------------------------
(* What DeletedIsFrozen asks of a step. *)
LeftAlone ==
    /\ row'.exists /\ ~ row'.active
    /\ \A r \in Requests : proc'[r].at \in Writes => proc[r].at \in Writes
    /\ row' # row => \E r \in Requests : proc[r].at \in Writes /\ proc'[r].at \notin Writes

(* A handler that moves on without the row, to where it writes nothing. *)
LEMMA MovedLeft ==
    ASSUME TypeOK, row.exists, ~ row.active, row' = row, NEW r \in Requests, NEW p,
           proc' = [proc EXCEPT ![r] = p], p.at \notin Writes
    PROVE  LeftAlone
<1>1. proc'[r] = p /\ \A q \in Requests : q # r => proc'[q] = proc[q]
    BY DEF TypeOK
<1> QED
    BY <1>1 DEF LeftAlone

LEMMA EndedLeft ==
    ASSUME TypeOK, row.exists, ~ row.active, row' = row, NEW r \in Requests, Ends(r)
    PROVE  LeftAlone
<1>1. Idle.at \notin Writes
    BY DEF Idle, Writes, Stamped
<1> QED
    BY <1>1, MovedLeft

(* The commit of one that was past its SELECT. *)
LEMMA CommitLeft ==
    ASSUME TypeOK, row.exists, ~ row.active, NEW r \in Requests, NEW update \in Rows,
           update.exists, ~ update.active, proc[r].at \in Writes, Commits(r, update)
    PROVE  LeftAlone
<1>1. row'.exists /\ ~ row'.active
    BY DEF Commits, Rows
<1>2. proc'[r] = Idle /\ \A q \in Requests : q # r => proc'[q] = proc[q]
    BY DEF Commits, TypeOK
<1> QED
    BY <1>1, <1>2 DEF LeftAlone, Idle, Writes, Stamped

(* Jobs that begin or that apply what they extracted mark other handlers,  *)
(* but none of them begins to write.                                       *)
LEMMA OthersLeft ==
    ASSUME row.exists, ~ row.active, row' = row,
           \A q \in Requests : proc'[q].at = proc[q].at \/ proc'[q].at \notin Writes
    PROVE  LeftAlone
    BY DEF LeftAlone

(* What every action does once the template is deleted. *)
LEMMA DeletedStays ==
    ASSUME TypeOK, [Next]_vars, vars' # vars, row.exists, ~ row.active
    PROVE  LeftAlone
<1> PICK r \in Requests : Arrives(r) \/ Step(r)
    BY DEF Next
<1>a. row \in Rows /\ proc[r] \in Process
    BY DEF TypeOK
<1>1. ~ (\E v \in Vars, p \in Params : Patch(r, v, p))
      /\ ~ (\E role \in Roles : Bundle(r, role) \/ Generate(r, role))
      /\ ~ Publish(r) /\ ~ Delete(r) /\ ~ Regenerate(r) /\ ~ Create(r)
    BY DEF Patch, Bundle, Generate, Publish, Delete, Regenerate, Found, Create
<1>2. CASE PatchParams(r)
  <2>1. [Idle EXCEPT !.at = "touch"].at \notin Writes
    BY DEF Idle, Writes, Stamped
  <2> QED
    BY <1>2, <2>1, MovedLeft, EndedLeft DEF PatchParams
<1>3. CASE Touch(r) \/ Bump(r) \/ UpdateConfig(r) \/ Store(r)
    BY <1>3, EndedLeft DEF Touch, Bump, UpdateConfig, Store, StoreNothing, Selects
<1>4. CASE ListAndValidate(r)
  <2>1. [proc[r] EXCEPT !.at = "store", !.read = fields].at \notin Writes
    BY <1>a DEF Process, Writes, Stamped
  <2> QED
    BY <1>4, <2>1, MovedLeft, EndedLeft DEF ListAndValidate
<1>5. CASE CheckRole(r)
  <2>1. [proc[r] EXCEPT !.at = "update"].at \notin Writes
    BY <1>a DEF Process, Writes, Stamped
  <2> QED
    BY <1>5, <2>1, MovedLeft, EndedLeft DEF CheckRole
<1>6. CASE StoreCommits(r)
  <2>1. row'.exists /\ ~ row'.active /\ proc[r].at \in Writes
    BY <1>6, <1>a DEF StoreCommits, Rows, Writes
  <2>2. proc'[r].at \notin Writes
    BY <1>6 DEF StoreCommits, Idle, Writes, Stamped
  <2>3. \A q \in Requests : q # r => proc'[q].at = proc[q].at
    BY <1>6, StoreMoves DEF Alike
  <2> QED
    BY <2>1, <2>2, <2>3 DEF LeftAlone
<1>7. CASE TouchCommits(r) \/ BumpCommits(r) \/ ConfigCommits(r) \/ DeleteCommits(r)
  <2> DEFINE config == [row EXCEPT !.role = proc[r].role]
             deleted == [row EXCEPT !.active = FALSE]
  <2>1. /\ config \in Rows /\ config.exists /\ ~ config.active
        /\ deleted \in Rows /\ deleted.exists /\ ~ deleted.active
    BY <1>a DEF Rows, Process
  <2>2. Commits(r, row) \/ Commits(r, config) \/ Commits(r, deleted)
    BY <1>7 DEF TouchCommits, BumpCommits, ConfigCommits, DeleteCommits
  <2>3. proc[r].at \in Writes
    BY <1>7 DEF TouchCommits, BumpCommits, ConfigCommits, DeleteCommits, Writes, Stamped
  <2> HIDE DEF config, deleted
  <2> QED
    BY <1>a, <2>1, <2>2, <2>3, CommitLeft
<1>8. CASE CreateMany(r) \/ JobFails(r)
    BY <1>8, EndedLeft DEF CreateMany, JobFails
<1>9. CASE RunAgent(r)
  <2>1. PICK read \in FieldRows, marks \in SUBSET Vars :
            proc' = [proc EXCEPT ![r] =
                [proc[r] EXCEPT !.at = "apply", !.read = read, !.marks = marks]]
    <3> DEFINE label == "apply"
    <3>1. AgentAndUpload(r, label) /\ label \in Labels
      BY <1>9 DEF RunAgent, Labels
    <3> HIDE DEF label
    <3>2. \E read \in FieldRows, marks \in SUBSET Vars :
              /\ marks \subseteq Has(read) /\ docx' = marks
              /\ proc' = [proc EXCEPT ![r] =
                     [proc[r] EXCEPT !.at = label, !.read = read, !.marks = marks]]
      BY <3>1, AgentMakes
    <3> QED
      BY <3>2 DEF label
  <2>2. [proc[r] EXCEPT !.at = "apply", !.read = read, !.marks = marks].at \notin Writes
    BY <1>a DEF Process, Writes, Stamped
  <2> QED
    BY <1>9, <2>1, <2>2, MovedLeft DEF RunAgent
<1>10. CASE DiffApply(r)
  <2>1. row' = row /\ proc'[r].at = "bump"
    BY <1>10 DEF DiffApply, Applies, TypeOK, Idle
  <2>2. \A q \in Requests : q # r => proc'[q].at = proc[q].at
    BY <1>10 DEF DiffApply, Applies, TypeOK, Process
  <2> QED
    BY <2>1, <2>2, OthersLeft DEF Writes, Stamped
<1> QED
    BY <1>1, <1>2, <1>3, <1>4, <1>5, <1>6, <1>7, <1>8, <1>9, <1>10 DEF Arrives, Step

(* No publish, save, role change or job gets past its SELECT once the      *)
(* template is deleted, and only those that had already write to its row   *)
(* (templates_v2.py).                                                      *)
THEOREM DeletedIsFrozenCorrect == Spec => DeletedIsFrozen
<1>1. TypeOK /\ [Next]_vars => [row.exists /\ ~ row.active => LeftAlone]_vars
    BY DeletedStays
<1> QED
    BY <1>1, TypeCorrect, PTL DEF Spec, DeletedIsFrozen, LeftAlone

(* Params of a field that stays change only by a save sent for this row. *)
LEMMA WorkStays ==
    ASSUME TypeOK, [Next]_vars, NEW v \in Has(fields) \cap Has(fields)',
           fields'[v] # fields[v]
    PROVE  \E r \in Requests : /\ proc[r].at = "patch" /\ proc[r].live
                              /\ proc[r].var = v /\ proc[r].val = fields'[v]
<1>0. fields \in FieldRows /\ v \in Vars
    BY DEF TypeOK, Has
<1>1. ~ UNCHANGED vars
    BY DEF vars, draft
<1>2. PICK r \in Requests : Arrives(r) \/ Step(r)
    BY <1>1 DEF Next
<1>3. CASE PatchParams(r)
  <2>1. proc[r].live /\ fields' = [fields EXCEPT ![proc[r].var] = proc[r].val]
    BY <1>3 DEF PatchParams
  <2>2. proc[r].var = v /\ proc[r].val = fields'[v]
    BY <1>0, <2>1 DEF FieldRows
  <2> QED
    BY <1>3, <2>1, <2>2 DEF PatchParams
<1>4. ~ CreateMany(r)
    BY <1>0 DEF CreateMany, draft, Has
<1>5. ~ DiffApply(r)
  <2> SUFFICES ASSUME DiffApply(r) PROVE FALSE
    OBVIOUS
  <2>1. v \in Has(proc[r].read)
    BY <1>0 DEF DiffApply, Applies, Has
  <2> QED
    BY <1>0, <2>1 DEF DiffApply, Applies
<1>6. ~ Arrives(r)
    BY DEF Arrives, Patch, Bundle, Generate, Publish, Delete, Regenerate, Selects, draft
<1>7. ~ (Touch(r) \/ Bump(r) \/ UpdateConfig(r) \/ TouchCommits(r) \/ BumpCommits(r)
         \/ ConfigCommits(r) \/ DeleteCommits(r))
    BY DEF Touch, Bump, UpdateConfig, Selects, TouchCommits, BumpCommits,
           ConfigCommits, DeleteCommits, Commits, draft
<1>8. ~ (ListAndValidate(r) \/ Store(r) \/ StoreCommits(r) \/ CheckRole(r)
         \/ Create(r) \/ RunAgent(r) \/ JobFails(r))
    BY DEF ListAndValidate, Store, StampStore, StoreNothing, StoreCommits, CheckRole,
           Create, RunAgent, JobFails, draft
<1> QED
    BY <1>2, <1>3, <1>4, <1>5, <1>6, <1>7, <1>8 DEF Step

(* No re-extraction, creation or late save overwrites the params of a      *)
(* field that stays (template_fields_v2.py re_extract_diff_apply).         *)
THEOREM WorkIsSacredCorrect == Spec => WorkIsSacred
<1>1. TypeOK /\ [Next]_vars
          => [\A v \in Has(fields) \cap Has(fields)' :
                 fields'[v] # fields[v] =>
                     \E r \in Requests : /\ proc[r].at = "patch" /\ proc[r].live
                                         /\ proc[r].var = v /\ proc[r].val = fields'[v]]_vars
    BY WorkStays
<1> QED
    BY <1>1, TypeCorrect, PTL DEF Spec, WorkIsSacred

-----------------------------------------------------------------------------
(* Of two jobs at work none counts as alone. *)
AloneInv ==
    \A r, q \in Requests :
        r # q /\ proc[r].at \in Jobs /\ proc[q].at \in Jobs => ~ proc[r].alone

(* A save whose row is there finds it and writes params. *)
PatchInv ==
    \A r \in Requests : proc[r].at = "patch" /\ proc[r].live =>
        proc[r].var \in Has(fields) /\ proc[r].val \in Params

(* The document of a job that was alone has the placeholders of what the   *)
(* job extracted.                                                          *)
ApplyInv ==
    \A r \in Requests :
        proc[r].at = "apply" /\ proc[r].alone =>
            docx = proc[r].marks /\ proc[r].marks \subseteq Has(proc[r].read)

DocInv == AloneInv /\ PatchInv /\ ApplyInv /\ DocumentMatchesFields

(* Params are never the absent row. *)
LEMMA ParamsPresent == Absent \notin Params
    BY DEF Params

(* A handler that starts no job, no save and no bump, while the document   *)
(* and the set of fields stay.                                             *)
LEMMA MovedDoc ==
    ASSUME TypeOK, DocInv, NEW r \in Requests, NEW p,
           proc' = [proc EXCEPT ![r] = p],
           p.at \notin Jobs \cup {"patch"},
           docx' = docx, marked' = marked, Has(fields)' = Has(fields)
    PROVE  DocInv'
<1>1. /\ proc'[r] = p
      /\ \A q \in Requests : q # r => proc'[q] = proc[q]
    BY DEF TypeOK
<1>2. AloneInv'
    BY <1>1 DEF AloneInv, DocInv
<1>3. PatchInv'
    BY <1>1 DEF PatchInv, DocInv
<1>4. ApplyInv'
    BY <1>1 DEF ApplyInv, DocInv, Jobs
<1>5. DocumentMatchesFields'
    BY <1>1 DEF DocumentMatchesFields, DocInv, Jobs
<1> QED
    BY <1>2, <1>3, <1>4, <1>5 DEF DocInv

(* A handler that ends. *)
LEMMA EndedDoc ==
    ASSUME TypeOK, DocInv, NEW r \in Requests, Ends(r),
           docx' = docx, marked' = marked, Has(fields)' = Has(fields)
    PROVE  DocInv'
<1>1. Idle.at \notin Jobs \cup {"patch"}
    BY DEF Idle, Jobs
<1> QED
    BY <1>1, MovedDoc

(* A publish's SELECT and commit mark other handlers, not what the         *)
(* document is compared with.                                              *)
LEMMA StampedDoc ==
    ASSUME DocInv, NEW r \in Requests, proc'[r].at \notin Jobs \cup {"patch"},
           \A q \in Requests : q # r => Alike(proc'[q], proc[q]),
           docx' = docx, marked' = marked, fields' = fields
    PROVE  DocInv'
<1>1. AloneInv'
    BY DEF AloneInv, DocInv, Alike
<1>2. PatchInv'
    BY DEF PatchInv, DocInv, Has, Alike
<1>3. ApplyInv'
    BY DEF ApplyInv, DocInv, Jobs, Has, Alike
<1>4. DocumentMatchesFields'
    BY DEF DocumentMatchesFields, DocInv, Jobs, Has, Alike
<1> QED
    BY <1>1, <1>2, <1>3, <1>4 DEF DocInv

(* A job's last SELECT. *)
LEMMA BumpDoc ==
    ASSUME TypeOK, DocInv, NEW r \in Requests, Bump(r)
    PROVE  DocInv'
<1>0. docx' = docx /\ marked' = marked /\ fields' = fields
    BY DEF Bump, Selects, draft
<1>1. CASE ~ row.active
    BY <1>0, <1>1, EndedDoc DEF Bump, Selects, Has
<1>2. CASE row.active
  <2> DEFINE p == [proc[r] EXCEPT !.at = "bump_write", !.later = {}, !.late = FALSE]
  <2>0. p.at = "bump_write" /\ p.alone = proc[r].alone
    <3>1. PICK o \in Process : o = proc[r]
      BY Typed
    <3>2. p = [o EXCEPT !.at = "bump_write", !.later = {}, !.late = FALSE]
      BY <3>1
    <3> HIDE DEF p
    <3> QED
      BY <3>1, <3>2 DEF Process
  <2>p. proc' = [proc EXCEPT ![r] = p] /\ proc[r].at = "bump"
    BY <1>2 DEF Bump, Selects
  <2> HIDE DEF p
  <2>1. /\ proc[r].at = "bump" /\ proc'[r].at = "bump_write" /\ proc'[r].alone = proc[r].alone
        /\ \A q \in Requests : q # r => proc'[q] = proc[q]
    BY <2>0, <2>p DEF TypeOK
  <2>2. AloneInv' /\ PatchInv'
    BY <1>0, <2>1 DEF AloneInv, PatchInv, DocInv, Jobs, Has
  <2>3. ApplyInv'
    BY <1>0, <2>1 DEF ApplyInv, DocInv
  <2>4. DocumentMatchesFields'
    BY <1>0, <2>1 DEF DocumentMatchesFields, DocInv, Has
  <2> QED
    BY <2>2, <2>3, <2>4 DEF DocInv
<1> QED
    BY <1>1, <1>2

(* An upload of one job leaves no other that counts as alone. *)
LEMMA UploadDoc ==
    ASSUME TypeOK, DocInv, NEW r \in Requests, NEW label \in Jobs \ {"bump", "bump_write"},
           proc[r].at \in Jobs, AgentAndUpload(r, label), fields' = fields
    PROVE  DocInv'
<1>0. label \in Labels
    BY DEF Jobs, Labels
<1>1. PICK read \in FieldRows, marks \in SUBSET Vars :
          /\ marks \subseteq Has(read) /\ docx' = marks
          /\ proc' = [proc EXCEPT ![r] =
                 [proc[r] EXCEPT !.at = label, !.read = read, !.marks = marks]]
    BY <1>0, AgentMakes
<1>2. /\ proc'[r].at = label /\ proc'[r].alone = proc[r].alone
      /\ proc'[r].read = read /\ proc'[r].marks = marks
      /\ \A q \in Requests : q # r => proc'[q] = proc[q]
    BY <1>1 DEF TypeOK, Process
<1>3. \A q \in Requests : q # r /\ proc[q].at \in Jobs => ~ proc[q].alone
    BY DEF DocInv, AloneInv
<1>4. AloneInv'
    BY <1>2 DEF AloneInv, DocInv
<1>5. PatchInv'
    BY <1>2 DEF PatchInv, DocInv, Jobs, Has
<1>6. ApplyInv'
    BY <1>1, <1>2, <1>3 DEF ApplyInv, Jobs, Has
<1>7. DocumentMatchesFields'
    BY <1>2, <1>3 DEF DocumentMatchesFields, Jobs
<1> QED
    BY <1>4, <1>5, <1>6, <1>7 DEF DocInv

(* A save of params leaves the set of fields as it is. *)
LEMMA SavedDoc ==
    ASSUME TypeOK, DocInv, NEW r \in Requests, PatchParams(r)
    PROVE  DocInv'
<1>1. CASE proc[r].live
  <2>1. /\ fields' = [fields EXCEPT ![proc[r].var] = proc[r].val]
        /\ proc' = [proc EXCEPT ![r] = [Idle EXCEPT !.at = "touch"]]
        /\ docx' = docx /\ marked' = marked
    BY <1>1 DEF PatchParams
  <2>2. proc[r].var \in Has(fields) /\ proc[r].val # Absent
    BY <1>1, ParamsPresent DEF PatchParams, DocInv, PatchInv
  <2>3. Has(fields)' = Has(fields)
    BY <2>1, <2>2 DEF Has, TypeOK, FieldRows
  <2>4. [Idle EXCEPT !.at = "touch"].at \notin Jobs \cup {"patch"}
    BY DEF Idle, Jobs
  <2> QED
    BY <2>1, <2>3, <2>4, MovedDoc
<1>2. CASE ~ proc[r].live
    BY <1>2, EndedDoc DEF PatchParams
<1> QED
    BY <1>1, <1>2

(* The first fields are added to those there are. *)
LEMMA CreatedDoc ==
    ASSUME TypeOK, DocInv, NEW r \in Requests, CreateMany(r)
    PROVE  DocInv'
<1>1. /\ proc'[r] = Idle /\ docx' = docx /\ proc[r].at \in Jobs
      /\ \A q \in Requests : q # r => proc'[q] = proc[q]
    BY DEF CreateMany, TypeOK, Jobs
<1>2. Has(fields) \subseteq Has(fields)'
    BY DEF CreateMany, draft, Has
<1>3. \A q \in Requests : q # r /\ proc[q].at \in Jobs => ~ proc[q].alone
    BY <1>1 DEF DocInv, AloneInv
<1>4. AloneInv'
    BY <1>1 DEF AloneInv, DocInv, Idle, Jobs
<1>5. PatchInv'
    BY <1>1, <1>2 DEF PatchInv, DocInv, Idle
<1>6. ApplyInv'
    BY <1>1 DEF ApplyInv, DocInv, Idle
<1>7. DocumentMatchesFields'
    BY <1>1, <1>3 DEF DocumentMatchesFields, Idle, Jobs
<1> QED
    BY <1>4, <1>5, <1>6, <1>7 DEF DocInv

(* A regeneration that starts beside other jobs makes none of them alone. *)
LEMMA StartedDoc ==
    ASSUME TypeOK, DocInv, NEW r \in Requests, Regenerate(r)
    PROVE  DocInv'
<1>1. /\ proc'[r].at = "agent" /\ docx' = docx /\ fields' = fields /\ marked' = marked
      /\ proc'[r].alone = \A o \in Requests : proc[o].at \notin Jobs
    BY DEF Regenerate, TypeOK, Idle, draft
<1>2. ASSUME NEW q \in Requests, q # r
      PROVE  /\ proc'[q].at = proc[q].at
             /\ proc[q].at \in Jobs => ~ proc'[q].alone
             /\ proc[q].at \notin Jobs => proc'[q] = proc[q]
    BY <1>2, Typed, UnaloneFacts DEF Regenerate
<1>3. AloneInv'
    BY <1>1, <1>2 DEF AloneInv
<1>4. PatchInv'
    BY <1>1, <1>2 DEF PatchInv, DocInv, Jobs
<1>5. ApplyInv'
    BY <1>1, <1>2 DEF ApplyInv, Jobs
<1>6. DocumentMatchesFields'
    BY <1>1, <1>2 DEF DocumentMatchesFields, Jobs
<1> QED
    BY <1>3, <1>4, <1>5, <1>6 DEF DocInv

(* Applying what was extracted leaves a field for each extracted variable. *)
LEMMA AppliedDoc ==
    ASSUME TypeOK, DocInv, NEW r \in Requests, DiffApply(r)
    PROVE  DocInv'
<1>1. /\ proc[r].at = "apply" /\ docx' = docx /\ marked' = proc[r].marks
      /\ proc'[r].at = "bump" /\ proc'[r].alone = proc[r].alone
    BY DEF DiffApply, Applies, TypeOK, Idle
<1>2. ASSUME NEW q \in Requests, q # r
      PROVE  /\ proc'[q].at = proc[q].at /\ proc'[q].alone = proc[q].alone
             /\ proc'[q].read = proc[q].read /\ proc'[q].marks = proc[q].marks
             /\ proc'[q].var = proc[q].var /\ proc'[q].val = proc[q].val
             /\ proc'[q].at = "patch" /\ proc'[q].live =>
                    proc[q].live /\ proc[q].var \in Has(proc[r].read)
    BY <1>2 DEF DiffApply, Applies, TypeOK, Process
<1>3. Has(fields)' = Has(proc[r].read)
    BY DEF DiffApply, Applies, Has
<1>4. \A q \in Requests : q # r /\ proc[q].at \in Jobs => ~ proc[q].alone
    BY <1>1 DEF DocInv, AloneInv, Jobs
<1>5. AloneInv'
    BY <1>1, <1>2 DEF AloneInv, DocInv, Jobs
<1>6. PatchInv'
    BY <1>1, <1>2, <1>3 DEF PatchInv, DocInv
<1>7. ApplyInv'
    BY <1>1, <1>2, <1>4 DEF ApplyInv, Jobs
<1>8. DocumentMatchesFields'
  <2>1. proc[r].alone => docx = proc[r].marks /\ proc[r].marks \subseteq Has(proc[r].read)
    BY <1>1 DEF DocInv, ApplyInv
  <2> QED
    BY <1>1, <1>2, <1>3, <1>4, <2>1 DEF DocumentMatchesFields, Jobs
<1> QED
    BY <1>5, <1>6, <1>7, <1>8 DEF DocInv

(* Every action keeps document and fields together. *)
LEMMA DocNext == TypeOK /\ DocInv /\ [Next]_vars => DocInv'
<1> SUFFICES ASSUME TypeOK, DocInv, [Next]_vars PROVE DocInv'
    OBVIOUS
<1>0. CASE UNCHANGED vars
    BY <1>0 DEF vars, draft, DocInv, AloneInv, PatchInv, ApplyInv, DocumentMatchesFields, Has
<1> SUFFICES ASSUME NEW r \in Requests, Arrives(r) \/ Step(r) PROVE DocInv'
    BY <1>0 DEF Next
<1>a. proc[r] \in Process
    BY DEF TypeOK
<1>b. ASSUME fields' = fields PROVE Has(fields)' = Has(fields)
    BY <1>b DEF Has
<1>1. ASSUME NEW v \in Vars, NEW p \in Params, Patch(r, v, p) PROVE DocInv'
  <2>1. /\ proc'[r].at = "patch" /\ proc'[r].var = v /\ proc'[r].val = p
        /\ v \in Has(fields) /\ docx' = docx /\ fields' = fields /\ marked' = marked
        /\ \A q \in Requests : q # r => proc'[q] = proc[q]
    BY <1>1 DEF Patch, draft, TypeOK, Idle
  <2>2. AloneInv' /\ PatchInv'
    BY <2>1 DEF AloneInv, PatchInv, DocInv, Jobs, Has
  <2>3. ApplyInv' /\ DocumentMatchesFields'
    BY <2>1 DEF ApplyInv, DocumentMatchesFields, DocInv, Has
  <2> QED
    BY <2>2, <2>3 DEF DocInv
<1>2. ASSUME NEW role \in Roles, Bundle(r, role) PROVE DocInv'
  <2>1. [Idle EXCEPT !.role = role,
                     !.at = IF role = "part_of_packet" THEN "check" ELSE "update"].at
            \notin Jobs \cup {"patch"}
    BY DEF Idle, Jobs
  <2> QED
    BY <1>2, <1>b, <2>1, MovedDoc DEF Bundle, draft
<1>3. ASSUME NEW role \in Roles, Generate(r, role) PROVE DocInv'
  <2>1. /\ proc'[r].at = "create" /\ docx' = docx /\ fields' = fields
        /\ \A q \in Requests : q # r => proc'[q].at = "idle"
    BY <1>3 DEF Generate, draft, TypeOK, Idle
  <2> QED
    BY <2>1 DEF DocInv, AloneInv, PatchInv, ApplyInv, DocumentMatchesFields, Jobs
<1>4. CASE Publish(r)
  <2>1. [Idle EXCEPT !.at = "list", !.role = row.role].at \notin Jobs \cup {"patch"}
    BY DEF Idle, Jobs
  <2> QED
    BY <1>4, <1>b, <2>1, MovedDoc DEF Publish, draft
<1>5. ASSUME NEW label \in Stamped \ {"bump_write"}, Selects(r, label) PROVE DocInv'
  <2>1. [proc[r] EXCEPT !.at = label, !.later = {}, !.late = FALSE].at \notin Jobs \cup {"patch"}
    BY <1>a DEF Process, Stamped, Jobs
  <2>2. docx' = docx /\ marked' = marked /\ Has(fields)' = Has(fields)
    BY <1>5, <1>b DEF Selects, draft
  <2>3. CASE row.active
    <3> DEFINE p == [proc[r] EXCEPT !.at = label, !.later = {}, !.late = FALSE]
    <3>1. p.at \notin Jobs \cup {"patch"} /\ proc' = [proc EXCEPT ![r] = p]
      BY <1>5, <2>1, <2>3 DEF Selects
    <3> HIDE DEF p
    <3> QED
      BY <2>2, <3>1, MovedDoc
  <2>4. CASE ~ row.active
    BY <1>5, <2>2, <2>4, EndedDoc DEF Selects
  <2> QED
    BY <2>3, <2>4
<1>15. CASE Delete(r) \/ Touch(r)
    BY <1>5, <1>15 DEF Delete, Touch, Stamped
<1>6. CASE Regenerate(r)
    BY <1>6, StartedDoc
<1>7. CASE PatchParams(r)
    BY <1>7, SavedDoc
<1>8. CASE TouchCommits(r) \/ BumpCommits(r) \/ ConfigCommits(r) \/ DeleteCommits(r)
           \/ JobFails(r)
    BY <1>8, <1>b, EndedDoc DEF TouchCommits, BumpCommits, ConfigCommits, DeleteCommits,
       Commits, JobFails, draft
<1>16. CASE Bump(r)
    BY <1>16, BumpDoc
<1>17. CASE UpdateConfig(r)
  <2>1. CASE Selects(r, "config_write")
    BY <1>5, <2>1 DEF Stamped
  <2>2. CASE Ends(r) /\ UNCHANGED <<row, draft, docx, untold>>
    BY <2>2, <1>b, EndedDoc DEF draft
  <2> QED
    BY <1>17, <2>1, <2>2 DEF UpdateConfig
<1>18. CASE Store(r)
  <2>1. CASE row.active
    <3>1. proc'[r].at \notin Jobs \cup {"patch"}
      BY <1>18, <2>1, StampMoves DEF Jobs
    <3> QED
      BY <1>18, <2>1, <3>1, StampMoves, StampedDoc
  <2>2. CASE ~ row.active
    BY <1>18, <1>b, <2>2, EndedDoc DEF Store, StoreNothing, draft
  <2> QED
    BY <2>1, <2>2
<1>19. CASE StoreCommits(r)
  <2>1. proc'[r].at \notin Jobs \cup {"patch"}
    BY <1>19 DEF StoreCommits, Idle, Jobs
  <2> QED
    BY <1>19, <2>1, StoreMoves, StampedDoc
<1>9. CASE ListAndValidate(r)
  <2>1. [proc[r] EXCEPT !.at = "store", !.read = fields].at \notin Jobs \cup {"patch"}
    BY <1>a DEF Process, Jobs
  <2> QED
    BY <1>9, <1>b, <2>1, MovedDoc, EndedDoc DEF ListAndValidate, draft
<1>10. CASE CheckRole(r)
  <2>1. [proc[r] EXCEPT !.at = "update"].at \notin Jobs \cup {"patch"}
    BY <1>a DEF Process, Jobs
  <2> QED
    BY <1>10, <1>b, <2>1, MovedDoc, EndedDoc DEF CheckRole, draft
<1>11. CASE Create(r)
    BY <1>11, UploadDoc DEF Create, draft, Jobs
<1>12. CASE CreateMany(r)
    BY <1>12, CreatedDoc
<1>13. CASE RunAgent(r)
    BY <1>13, UploadDoc DEF RunAgent, draft, Jobs
<1>14. CASE DiffApply(r)
    BY <1>14, AppliedDoc
<1> QED
    BY <1>1, <1>2, <1>3, <1>4, <1>5, <1>6, <1>7, <1>8, <1>9, <1>10, <1>11, <1>12,
       <1>13, <1>14, <1>15, <1>16, <1>17, <1>18, <1>19 DEF Arrives, Step

(* A regeneration that had the template for itself leaves one placeholder  *)
(* for each field that is not a virtual parent, whatever saves and failures *)
(* went on (regenerate.py).                                                *)
THEOREM DocumentMatchesFieldsCorrect == Spec => []DocumentMatchesFields
<1>1. Init => DocInv
    BY DEF Init, DocInv, AloneInv, PatchInv, ApplyInv, DocumentMatchesFields, Idle, Jobs
<1>2. DocInv => DocumentMatchesFields
    BY DEF DocInv
<1> QED
    BY <1>1, <1>2, TypeCorrect, DocNext, PTL DEF Spec

-----------------------------------------------------------------------------
(* What is active, published or about to be was made. *)
MadeInv ==
    /\ row.active \/ row.spec # NoSpec => row.exists
    /\ \A r \in Requests : proc[r].at = "store_write" => row.exists

DriftInv == MadeInv /\ DriftShown

(* No handler has an edit to tell of. *)
AllTold == \A q \in Requests : ~ WillMark(q)

(* What DriftShown claims, once its premises hold. *)
Shown == row.spec = [fields |-> fields, role |-> row.role]

(* A publish past its SELECT found the template. *)
StoresMade ==
    \A q \in Requests : proc'[q].at = "store_write" => proc[q].at = "store_write" \/ row.active

(* A step that leaves fields, snapshot and role alone, and no edit that    *)
(* was to be told of untold, leaves the pill right.                        *)
LEMMA QuietDrift ==
    ASSUME DriftInv, StoresMade,
           row'.exists = row.exists, row'.active => row.active,
           row'.spec = row.spec, row'.role = row.role,
           row.drift => row'.drift, untold => untold', fields' = fields,
           AllTold' => AllTold \/ row'.drift \/ untold' \/ ~ row'.active
    PROVE  DriftInv'
<1>1. MadeInv'
    BY DEF DriftInv, MadeInv, StoresMade
<1>2. DriftShown'
  <2> SUFFICES ASSUME Found', row'.spec # NoSpec, ~ row'.drift, ~ untold', AllTold'
               PROVE  Shown'
    BY DEF DriftShown, AllTold, Shown
  <2>1. Found /\ AllTold
    BY DEF Found
  <2>2. Shown
    BY <2>1 DEF DriftInv, DriftShown, AllTold, Shown
  <2> QED
    BY <2>2 DEF Shown
<1> QED
    BY <1>1, <1>2 DEF DriftInv

(* A handler moves on or ends, not to the commit of a publish. *)
LEMMA MovedMade ==
    ASSUME TypeOK, NEW r \in Requests, NEW p, proc' = [proc EXCEPT ![r] = p],
           p.at # "store_write"
    PROVE  StoresMade
    BY DEF StoresMade, TypeOK

LEMMA EndedMade ==
    ASSUME TypeOK, NEW r \in Requests, Ends(r)
    PROVE  StoresMade
<1>1. Idle.at # "store_write"
    BY DEF Idle
<1> QED
    BY <1>1, MovedMade

(* A handler that had nothing to tell moves on or ends. *)
LEMMA MovedTold ==
    ASSUME TypeOK, NEW r \in Requests, ~ WillMark(r), NEW p, proc' = [proc EXCEPT ![r] = p],
           AllTold'
    PROVE  AllTold
<1> SUFFICES ASSUME NEW q \in Requests PROVE ~ WillMark(q)
    BY DEF AllTold
<1>1. CASE q # r
  <2>1. proc'[q] = proc[q]
    BY <1>1 DEF TypeOK
  <2> QED
    BY <2>1 DEF AllTold, WillMark
<1> QED
    BY <1>1

(* A handler that has an edit to tell of keeps the premise from holding. *)
LEMMA TellingDrift ==
    ASSUME DriftInv, StoresMade, NEW r \in Requests, WillMark(r)',
           row'.exists = row.exists, row'.active = row.active, row'.spec = row.spec
    PROVE  DriftInv'
    BY DEF DriftInv, MadeInv, StoresMade, DriftShown

(* A handler that had none moves on or ends, and nothing else changes. *)
LEMMA QuietMoveDrift ==
    ASSUME TypeOK, DriftInv, NEW r \in Requests, ~ WillMark(r),
           row' = row, fields' = fields, untold' = untold,
           NEW p, p.at # "store_write", proc' = [proc EXCEPT ![r] = p]
    PROVE  DriftInv'
<1>1. AllTold' => AllTold
    BY MovedTold
<1>2. StoresMade
    BY MovedMade
<1> QED
    BY <1>1, <1>2, QuietDrift

(* An idle handler has nothing to tell. *)
LEMMA IdleTold == \A r \in Requests : proc[r] = Idle => ~ WillMark(r)
    BY DEF Idle, WillMark

(* The SELECT of a write other than a publish's: a mark is still to come,  *)
(* or the template is gone.                                                *)
LEMMA SelectDrift ==
    ASSUME TypeOK, DriftInv, NEW r \in Requests, NEW label \in Stamped, Selects(r, label),
           label \in {"touch_write", "bump_write"} \/ ~ WillMark(r)
    PROVE  DriftInv'
<1>0. row' = row /\ fields' = fields /\ untold' = untold
    BY DEF Selects, draft
<1>1. CASE row.active
  <2> DEFINE p == [proc[r] EXCEPT !.at = label, !.later = {}, !.late = FALSE]
  <2>1. proc' = [proc EXCEPT ![r] = p] /\ p.at = label /\ ~ p.late
    BY <1>1 DEF Selects, TypeOK, Process
  <2> HIDE DEF p
  <2>2. StoresMade
    BY <2>1, MovedMade DEF Stamped
  <2>3. proc'[r] = p
    BY <2>1 DEF TypeOK
  <2>4. CASE label \in {"touch_write", "bump_write"}
    BY <1>0, <2>1, <2>2, <2>3, <2>4, TellingDrift DEF WillMark
  <2>5. CASE ~ WillMark(r)
    BY <1>0, <2>1, <2>5, QuietMoveDrift DEF Stamped
  <2> QED
    BY <2>4, <2>5
<1>2. CASE ~ row.active
    BY <1>0, <1>2, EndedMade, QuietDrift DEF Selects
<1> QED
    BY <1>1, <1>2

(* A commit on time shows; a late one is untold unless it hides nothing.   *)
LEMMA CommitDrift ==
    ASSUME TypeOK, DriftInv, NEW r \in Requests, NEW update \in Rows, Commits(r, update),
           update.exists = row.exists, update.active => row.active, update.spec = row.spec
    PROVE  DriftInv'
<1>1. /\ row'.exists = row.exists /\ (row'.active => row.active)
      /\ row'.spec = row.spec
      /\ row'.drift = ~ proc[r].late /\ fields' = fields
    BY DEF Commits, Rows, draft
<1>2. StoresMade
    BY EndedMade DEF Commits
<1>3. MadeInv'
  <2>0. MadeInv
    BY DEF DriftInv
  <2>1. row'.active \/ row'.spec # NoSpec => row'.exists
    <3>1. row.active \/ row.spec # NoSpec => row.exists
      BY <2>0 DEF MadeInv
    <3> QED
      BY <1>1, <3>1
  <2>2. ASSUME NEW q \in Requests, proc'[q].at = "store_write" PROVE row'.exists
    <3>1. proc[q].at = "store_write" \/ row.active
      BY <1>2, <2>2 DEF StoresMade
    <3>2. row.exists
      BY <2>0, <3>1 DEF MadeInv
    <3> QED
      BY <1>1, <3>2
  <2> QED
    BY <2>1, <2>2 DEF MadeInv
<1>4. DriftShown'
    BY <1>1 DEF Commits, DriftShown
<1> QED
    BY <1>3, <1>4 DEF DriftInv

(* A publish reads the time: what it will store it has read. *)
LEMMA StampDrift ==
    ASSUME TypeOK, DriftInv, NEW r \in Requests, Store(r)
    PROVE  DriftInv'
<1>0. row' = row /\ fields' = fields /\ untold' = untold /\ proc[r].at = "store"
    BY DEF Store, StampStore, StoreNothing, draft
<1>1. CASE row.active
  <2>1. StoresMade
    BY <1>1 DEF StoresMade
  <2>2. \A q \in Requests : q # r => proc'[q].at = proc[q].at /\ proc'[q].late = proc[q].late
    BY <1>1, StampMoves DEF Alike
  <2>4. ~ WillMark(r) /\ proc'[r].at = "store_write"
    BY <1>0, <1>1, StampMoves DEF WillMark
  <2>3. AllTold' => AllTold
    BY <1>0, <2>2 DEF AllTold, WillMark
  <2> QED
    BY <1>0, <2>1, <2>3, QuietDrift
<1>2. CASE ~ row.active
    BY <1>0, <1>2, EndedMade, QuietDrift DEF Store, StoreNothing
<1> QED
    BY <1>1, <1>2

(* A publish stores what it has read, or says that it is stale. *)
LEMMA StoreDrift ==
    ASSUME TypeOK, DriftInv, NEW r \in Requests, StoreCommits(r)
    PROVE  DriftInv'
<1> DEFINE snapshot == [fields |-> proc[r].read, role |-> proc[r].role]
<1>1. /\ row' = [row EXCEPT !.spec = snapshot, !.drift = FALSE] /\ fields' = fields
      /\ untold' = (row'.spec # [fields |-> fields, role |-> row.role] /\ AllTold')
      /\ proc[r].at = "store_write"
    BY DEF StoreCommits, AllTold, draft
<1> HIDE DEF snapshot
<1>2. row'.exists = row.exists /\ row'.spec = snapshot /\ row'.role = row.role
    BY <1>1 DEF TypeOK, Rows
<1>3. MadeInv'
  <2>1. row.exists
    BY <1>1 DEF DriftInv, MadeInv
  <2> QED
    BY <1>2, <2>1 DEF MadeInv
<1>4. DriftShown'
    BY <1>1, <1>2 DEF DriftShown, AllTold
<1> QED
    BY <1>3, <1>4 DEF DriftInv

(* The first fields come after what was published without them. *)
LEMMA CreateManyDrift ==
    ASSUME TypeOK, DriftInv, NEW r \in Requests, CreateMany(r)
    PROVE  DriftInv'
<1>1. row' = row /\ untold' = (untold \/ row.spec # NoSpec) /\ StoresMade
    BY EndedMade DEF CreateMany
<1> QED
    BY <1>1 DEF DriftInv, MadeInv, StoresMade, DriftShown

(* A save that found its row, and one that did not. *)
LEMMA PatchDrift ==
    ASSUME TypeOK, DriftInv, NEW r \in Requests, PatchParams(r)
    PROVE  DriftInv'
<1>1. row' = row /\ untold' = untold /\ proc[r].at = "patch"
    BY DEF PatchParams
<1>2. CASE proc[r].live
  <2> DEFINE p == [Idle EXCEPT !.at = "touch"]
  <2>1. proc' = [proc EXCEPT ![r] = p] /\ p.at = "touch"
    BY <1>2 DEF PatchParams, Idle
  <2> HIDE DEF p
  <2>2. StoresMade /\ proc'[r].at = "touch"
    BY <2>1, MovedMade DEF TypeOK
  <2> QED
    BY <1>1, <2>2, TellingDrift DEF WillMark
<1>3. CASE ~ proc[r].live
  <2>1. fields' = fields /\ proc' = [proc EXCEPT ![r] = Idle]
    BY <1>3 DEF PatchParams
  <2>2. ~ WillMark(r) /\ Idle.at # "store_write"
    BY <1>1 DEF WillMark, Idle
  <2> QED
    BY <1>1, <2>1, <2>2, QuietMoveDrift
<1> QED
    BY <1>2, <1>3

(* A job that fails with an edit to tell of leaves it untold. *)
LEMMA FailDrift ==
    ASSUME TypeOK, DriftInv, NEW r \in Requests, JobFails(r)
    PROVE  DriftInv'
<1>1. /\ row' = row /\ fields' = fields /\ untold' = (untold \/ proc[r].at \in {"bump", "bump_write"})
      /\ proc[r].at \in Jobs /\ proc' = [proc EXCEPT ![r] = Idle]
    BY DEF JobFails, draft
<1>2. AllTold' => AllTold \/ untold'
    BY <1>1, MovedTold DEF WillMark, Jobs
<1>3. StoresMade
    BY <1>1, EndedMade
<1> QED
    BY <1>1, <1>2, <1>3, QuietDrift

(* A regeneration that starts tells of nothing and hides nothing. *)
LEMMA StartedDrift ==
    ASSUME TypeOK, DriftInv, NEW r \in Requests, Regenerate(r)
    PROVE  DriftInv'
<1>1. /\ row' = row /\ fields' = fields /\ untold' = untold /\ ~ WillMark(r)
      /\ proc'[r].at = "agent"
    BY IdleTold DEF Regenerate, draft, TypeOK, Idle
<1>2. \A q \in Requests : q # r => proc'[q].at = proc[q].at /\ proc'[q].late = proc[q].late
  <2> SUFFICES ASSUME NEW q \in Requests, q # r
               PROVE  proc'[q].at = proc[q].at /\ proc'[q].late = proc[q].late
    OBVIOUS
  <2>1. proc[q] \in Process
    BY Typed
  <2>2. proc'[q] = proc[q] \/ proc'[q] = [proc[q] EXCEPT !.alone = FALSE]
    BY DEF Regenerate
  <2> QED
    BY <2>1, <2>2, UnaloneFacts
<1>3. AllTold' => AllTold
    BY <1>1, <1>2 DEF AllTold, WillMark
<1>4. StoresMade
    BY <1>1, <1>2 DEF StoresMade
<1> QED
    BY <1>1, <1>3, <1>4, QuietDrift

(* The agent's run leaves rows alone. *)
LEMMA AgentDrift ==
    ASSUME TypeOK, DriftInv, NEW r \in Requests, RunAgent(r)
    PROVE  DriftInv'
<1>1. row' = row /\ fields' = fields /\ untold' = untold /\ ~ WillMark(r)
    BY DEF RunAgent, draft, WillMark
<1>2. PICK read \in FieldRows, marks \in SUBSET Vars :
          proc' = [proc EXCEPT ![r] =
              [proc[r] EXCEPT !.at = "apply", !.read = read, !.marks = marks]]
  <2> DEFINE label == "apply"
  <2>1. AgentAndUpload(r, label) /\ label \in Labels
    BY DEF RunAgent, Labels
  <2> HIDE DEF label
  <2>2. \E read \in FieldRows, marks \in SUBSET Vars :
            /\ marks \subseteq Has(read) /\ docx' = marks
            /\ proc' = [proc EXCEPT ![r] =
                   [proc[r] EXCEPT !.at = label, !.read = read, !.marks = marks]]
    BY <2>1, AgentMakes
  <2> QED
    BY <2>2 DEF label
<1>3. [proc[r] EXCEPT !.at = "apply", !.read = read, !.marks = marks].at # "store_write"
    BY DEF TypeOK, Process
<1> QED
    BY <1>1, <1>2, <1>3, QuietMoveDrift

(* A row just made has no snapshot. *)
LEMMA CreateDrift ==
    ASSUME TypeOK, DriftInv, NEW r \in Requests, Create(r)
    PROVE  DriftInv'
<1>1. ~ row.exists /\ row'.exists /\ row'.spec = row.spec
    BY DEF Create, TypeOK, Rows
<1>2. row'.spec = NoSpec
    BY <1>1 DEF DriftInv, MadeInv
<1> QED
    BY <1>1, <1>2 DEF DriftInv, MadeInv, DriftShown

(* What was extracted is applied, and is to be told of. *)
LEMMA AppliedDrift ==
    ASSUME TypeOK, DriftInv, NEW r \in Requests, DiffApply(r)
    PROVE  DriftInv'
<1>1. row' = row /\ proc'[r].at = "bump"
    BY DEF DiffApply, Applies, TypeOK, Idle
<1>2. \A q \in Requests : q # r => proc'[q].at = proc[q].at
    BY DEF DiffApply, Applies, TypeOK, Process
<1>3. StoresMade
    BY <1>1, <1>2 DEF StoresMade
<1> QED
    BY <1>1, <1>3, TellingDrift DEF WillMark

(* Every action keeps the pill right. *)
LEMMA DriftNext == TypeOK /\ DriftInv /\ [Next]_vars => DriftInv'
<1> SUFFICES ASSUME TypeOK, DriftInv, [Next]_vars PROVE DriftInv'
    OBVIOUS
<1>0. CASE UNCHANGED vars
    BY <1>0 DEF vars, draft, DriftInv, MadeInv, DriftShown, Found, WillMark
<1> SUFFICES ASSUME NEW r \in Requests, Arrives(r) \/ Step(r) PROVE DriftInv'
    BY <1>0 DEF Next
<1>1. proc[r] = Idle => ~ WillMark(r)
    BY IdleTold
<1>a. row \in Rows /\ proc[r] \in Process
    BY DEF TypeOK
<1>2. ASSUME NEW v \in Vars, NEW p \in Params, Patch(r, v, p) PROVE DriftInv'
  <2>1. [Idle EXCEPT !.at = "patch", !.var = v, !.val = p].at # "store_write"
    BY DEF Idle
  <2> QED
    BY <1>1, <1>2, <2>1, QuietMoveDrift DEF Patch, draft
<1>3. ASSUME NEW role \in Roles, Bundle(r, role) PROVE DriftInv'
  <2>1. [Idle EXCEPT !.role = role,
                     !.at = IF role = "part_of_packet" THEN "check" ELSE "update"].at
            # "store_write"
    BY DEF Idle
  <2> QED
    BY <1>1, <1>3, <2>1, QuietMoveDrift DEF Bundle, draft
<1>4. ASSUME NEW role \in Roles, Generate(r, role) PROVE DriftInv'
  <2>1. [Idle EXCEPT !.at = "create", !.role = role].at # "store_write"
    BY DEF Idle
  <2> QED
    BY <1>1, <1>4, <2>1, QuietMoveDrift DEF Generate, draft
<1>5. CASE Publish(r)
  <2>1. [Idle EXCEPT !.at = "list", !.role = row.role].at # "store_write"
    BY DEF Idle
  <2> QED
    BY <1>1, <1>5, <2>1, QuietMoveDrift DEF Publish, draft
<1>6. CASE Delete(r)
    BY <1>1, <1>6, SelectDrift DEF Delete, Stamped
<1>7. CASE Regenerate(r)
    BY <1>7, StartedDrift
<1>8. CASE PatchParams(r)
    BY <1>8, PatchDrift
<1>9. CASE Touch(r) \/ Bump(r)
    BY <1>9, SelectDrift DEF Touch, Bump, Stamped
<1>10. CASE ListAndValidate(r)
  <2>1. /\ Idle.at # "store_write" /\ ~ WillMark(r)
        /\ [proc[r] EXCEPT !.at = "store", !.read = fields].at # "store_write"
    BY <1>10, <1>a DEF Process, Idle, ListAndValidate, WillMark
  <2> QED
    BY <1>10, <2>1, QuietMoveDrift DEF ListAndValidate, draft
<1>11. CASE Store(r) \/ StoreCommits(r)
    BY <1>11, StampDrift, StoreDrift
<1>12. CASE CheckRole(r)
  <2>1. /\ Idle.at # "store_write" /\ ~ WillMark(r)
        /\ [proc[r] EXCEPT !.at = "update"].at # "store_write"
    BY <1>12, <1>a DEF Process, Idle, CheckRole, WillMark
  <2> QED
    BY <1>12, <2>1, QuietMoveDrift DEF CheckRole, draft
<1>13. CASE UpdateConfig(r)
  <2>1. ~ WillMark(r) /\ Idle.at # "store_write"
    BY <1>13 DEF UpdateConfig, WillMark, Idle
  <2>2. CASE Selects(r, "config_write")
    BY <2>1, <2>2, SelectDrift DEF Stamped
  <2>3. CASE Ends(r) /\ UNCHANGED <<row, draft, docx, untold>>
    BY <2>1, <2>3, QuietMoveDrift DEF draft
  <2> QED
    BY <1>13, <2>2, <2>3 DEF UpdateConfig
<1>19. CASE TouchCommits(r) \/ BumpCommits(r) \/ ConfigCommits(r) \/ DeleteCommits(r)
  <2> DEFINE config == [row EXCEPT !.role = proc[r].role]
             deleted == [row EXCEPT !.active = FALSE]
  <2>1. /\ config \in Rows /\ config.exists = row.exists /\ config.active = row.active
        /\ config.spec = row.spec
        /\ deleted \in Rows /\ deleted.exists = row.exists /\ ~ deleted.active
        /\ deleted.spec = row.spec
    BY <1>a DEF Rows, Process
  <2>2. Commits(r, row) \/ Commits(r, config) \/ Commits(r, deleted)
    BY <1>19 DEF TouchCommits, BumpCommits, ConfigCommits, DeleteCommits
  <2> HIDE DEF config, deleted
  <2> QED
    BY <1>a, <2>1, <2>2, CommitDrift
<1>14. CASE Create(r)
    BY <1>14, CreateDrift
<1>15. CASE CreateMany(r)
    BY <1>15, CreateManyDrift
<1>16. CASE RunAgent(r)
    BY <1>16, AgentDrift
<1>17. CASE DiffApply(r)
    BY <1>17, AppliedDrift
<1>18. CASE JobFails(r)
    BY <1>18, FailDrift
<1> QED
    BY <1>2, <1>3, <1>4, <1>5, <1>6, <1>7, <1>8, <1>9, <1>10, <1>11, <1>12, <1>13,
       <1>14, <1>15, <1>16, <1>17, <1>18, <1>19 DEF Arrives, Step

(* The pill says Live only if the draft is what was published, but for the *)
(* edits the code does not tell of (schemas.py has_unpublished_changes).   *)
THEOREM DriftShownCorrect == Spec => []DriftShown
<1>1. Init => DriftInv
    BY DEF Init, DriftInv, MadeInv, DriftShown, Idle
<1>2. DriftInv => DriftShown
    BY DEF DriftInv
<1> QED
    BY <1>1, <1>2, TypeCorrect, DriftNext, PTL DEF Spec
=============================================================================
