------------------------- MODULE StudioRuns_proofs -------------------------
(***************************************************************************)
(* Theorems about StudioRuns, for every choice of its constants.           *)
(***************************************************************************)
EXTENDS StudioRuns, WaitingLine_proofs, SequenceTheorems, TLAPS

USE StudioAssumption DEF Procs

(* What the label of a process says of its other fields: it has a task but  *)
(* when it is idle or drains, an op while it is to write, a snap once it    *)
(* has read, and a kind unless it serves a cancel or a dismissal.           *)
NoTaskYet == {"idle", "drain", "pop", "finally"}
Writing   == {"stage", "create", "unpark", "fetch", "flag", "store"}
WellFormed(s) ==
  /\ s.at \in NoTaskYet <=> s.task = NoTask
  /\ s.at \in Writing <=> s.op # "none"
  /\ s.at \in {"stage", "create"} => s.op \in {"PENDING", "QUEUED"}
  /\ s.op = "QUEUED" => s.at \in {"stage", "create"}
  /\ s.at \in {"unpark", "flag"} => s.op = "CANCELLED"
  /\ s.at \in {"flag", "store"} <=> s.snap.status # "NONE"
  /\ s.kind = "none" <=> s.at \in NoTaskYet \cup {"peek", "find", "delete", "clear"}
                         \/ s.op = "CANCELLED"
  /\ s.at \in {"stage", "upload", "fields", "discard"} => s.kind = "generate"
  /\ s.at \in {"check_paused", "kick_resume", "queued_resume", "work_resume"}
       => s.kind = "dry_run"
  /\ s.op \in {"AWAITING_INPUT", "RESUMING"} => s.kind = "dry_run"
  /\ s.at = "idle" => s.drop = NoTask

TypeInv == TypeOK /\ \A p \in Procs : WellFormed(proc[p])

(* The sets that processes and records are made of.                         *)
LEMMA NoRecordType == NoRecord \in Records
BY DEF NoRecord, Records

(* An idle process is a process. *)
LEMMA IdleType == Idle \in Process /\ WellFormed(Idle)
<1>1. Idle \in Process
  BY NoRecordType DEF Idle, Process, Labels
<1>2. WellFormed(Idle)
  BY DEF Idle, WellFormed, NoTaskYet, Writing, NoRecord
<1> QED
  BY <1>1, <1>2

(* A step that leaves its process in order leaves all in order.             *)
LEMMA BecomesType ==
  ASSUME TypeInv, NEW p \in Procs, NEW s, s \in Process, WellFormed(s), Becomes(p, s)
  PROVE  /\ proc' \in [Procs -> Process] /\ \A q \in Procs : WellFormed(proc'[q])
         /\ proc'[p] = s /\ \A q \in Procs : q # p => proc'[q] = proc[q]
BY DEF TypeInv, TypeOK, Becomes

(* What state.set_* writes is a record.                                     *)
LEMMA UpdatedType ==
  ASSUME NEW op \in Sets, NEW rec \in Records, rec.status # "NONE"
  PROVE  Updated(op, rec) \in Records
<1>1. /\ rec.paused \in BOOLEAN /\ rec.picks \in BOOLEAN /\ rec.kind \in Kinds
      /\ rec = [status |-> rec.status, kind |-> rec.kind, paused |-> rec.paused,
                picks |-> rec.picks]
  BY DEF Records, NoRecord
<1>2. /\ (rec.paused \/ op = "AWAITING_INPUT") \in BOOLEAN
      /\ (rec.picks \/ op = "RESUMING") \in BOOLEAN
  OBVIOUS
<1> QED
  BY <1>1, <1>2 DEF Updated, Sets, Records

(* After a write, a process is in order again.                              *)
LEMMA ContinuesType ==
  ASSUME TypeInv, NEW p \in Procs, At(p, "fetch") \/ At(p, "store")
  PROVE  Continues(p) \in Process /\ WellFormed(Continues(p))
<1>1. proc[p] \in Process /\ WellFormed(proc[p])
  BY DEF TypeInv, TypeOK
<1>2. CASE proc[p].op \in {"RUNNING", "PENDING", "RESUMING"}
  <2>1. PICK label \in {"work", "kick", "kick_resume"} :
          /\ Continues(p) = [proc[p] EXCEPT !.at = label, !.op = "none", !.snap = NoRecord]
          /\ label = "kick_resume" => proc[p].op = "RESUMING"
    BY <1>2 DEF Continues
  <2>2. Continues(p) \in Process
    BY <1>1, <2>1, NoRecordType DEF Process, Labels
  <2>3. WellFormed(Continues(p))
    BY <1>1, <1>2, <2>1 DEF WellFormed, Process, NoTaskYet, Writing, At, NoRecord
  <2> QED
    BY <2>2, <2>3
<1>3. CASE proc[p].op \in {"COMPLETED", "FAILED"}
  <2>1. Continues(p) = [Idle EXCEPT !.at = "drain", !.drop = proc[p].drop]
    BY <1>3 DEF Continues
  <2>2. Continues(p) \in Process
    BY <1>1, <2>1, NoRecordType DEF Process, Labels, Idle
  <2>3. WellFormed(Continues(p))
    BY <1>1, <2>1 DEF WellFormed, Idle, NoTaskYet, Writing, NoRecord
  <2> QED
    BY <2>2, <2>3
<1>4. CASE proc[p].op \notin {"RUNNING", "PENDING", "RESUMING", "COMPLETED", "FAILED"}
  BY <1>4, IdleType DEF Continues
<1> QED
  BY <1>2, <1>3, <1>4

(* So is a job that returns, and one that is left to run its finally clause.*)
LEMMA EndsType ==
  ASSUME TypeInv, NEW p \in Procs
  PROVE  Ends(p) \in Process /\ WellFormed(Ends(p))
<1>1. proc[p] \in Process /\ WellFormed(proc[p])
  BY DEF TypeInv, TypeOK
<1>2. CASE proc[p].drop # NoTask
  <2>1. Ends(p) = [Idle EXCEPT !.at = "finally", !.drop = proc[p].drop]
    BY <1>2 DEF Ends
  <2>2. Ends(p) \in Process
    BY <1>1, <2>1, NoRecordType DEF Process, Labels, Idle
  <2>3. WellFormed(Ends(p))
    BY <1>1, <2>1 DEF WellFormed, Idle, NoTaskYet, Writing, NoRecord
  <2> QED
    BY <2>2, <2>3
<1> QED
  BY <1>2, IdleType DEF Ends

(* A step of one process that keeps the types of the data keeps all types.  *)
LEMMA StepType ==
  ASSUME TypeInv, NEW p \in Procs, NEW s, s \in Process, WellFormed(s), Becomes(p, s),
         records' \in [Tasks -> Records], listed' \subseteq Tasks, flags' \subseteq Tasks,
         uploads' \subseteq Tasks, queue' \in Seq(Tasks),
         templates' \in [Tasks -> {"none", "bare", "full"}], issued' \subseteq Tasks,
         dismissed' \subseteq Tasks, expired' \subseteq Tasks, service' = service
  PROVE  TypeInv'
BY BecomesType DEF TypeInv, TypeOK

(* The types hold at first. *)
LEMMA TypeInit == Init => TypeInv
<1> SUFFICES ASSUME Init PROVE TypeInv
  OBVIOUS
<1>1. proc \in [Procs -> Process] /\ \A p \in Procs : WellFormed(proc[p])
  BY IdleType DEF Init
<1>2. records \in [Tasks -> Records] /\ queue \in Seq(Tasks)
  BY NoRecordType DEF Init
<1> QED
  BY <1>1, <1>2 DEF Init, TypeInv, TypeOK

(* Every step keeps the types, action by action.                            *)
LEMMA TypeNext == TypeInv /\ [Next]_vars => TypeInv'
<1> SUFFICES ASSUME TypeInv, [Next]_vars PROVE TypeInv'
  OBVIOUS
<1> USE DEF vars, keys, fixed
<1>0. CASE UNCHANGED vars
  BY <1>0 DEF TypeInv, TypeOK, InQueue
<1>t. /\ \A p \in Procs : proc[p] \in Process /\ WellFormed(proc[p])
      /\ records \in [Tasks -> Records] /\ queue \in Seq(Tasks)
      /\ listed \subseteq Tasks /\ flags \subseteq Tasks /\ uploads \subseteq Tasks
      /\ templates \in [Tasks -> {"none", "bare", "full"}]
      /\ issued \subseteq Tasks /\ dismissed \subseteq Tasks /\ expired \subseteq Tasks
  BY DEF TypeInv, TypeOK
<1>v. Visible \subseteq Tasks
  BY <1>t DEF Visible
<1>i. \A p \in Procs : proc[p].at \notin NoTaskYet => proc[p].task \in Tasks
  BY <1>t DEF WellFormed, Process
<1>l. /\ "idle" \in Labels /\ "count" \in Labels /\ "size" \in Labels /\ "stage" \in Labels
      /\ "create" \in Labels /\ "park" \in Labels /\ "kick" \in Labels /\ "kick_resume" \in Labels
      /\ "unpark" \in Labels /\ "fetch" \in Labels /\ "flag" \in Labels /\ "store" \in Labels
      /\ "find" \in Labels /\ "delete" \in Labels /\ "clear" \in Labels /\ "upload" \in Labels /\ "work" \in Labels
      /\ "work_resume" \in Labels /\ "fields" \in Labels /\ "discard" \in Labels /\ "check" \in Labels
      /\ "check_paused" \in Labels /\ "drain" \in Labels /\ "pop" \in Labels /\ "peek" \in Labels
      /\ "finally" \in Labels
      /\ "PENDING" \in Sets /\ "RUNNING" \in Sets /\ "RESUMING" \in Sets
      /\ "QUEUED" \in Sets /\ "AWAITING_INPUT" \in Sets /\ "COMPLETED" \in Sets
      /\ "FAILED" \in Sets /\ "CANCELLED" \in Sets
      /\ "dry_run" \in Kinds
  BY DEF Labels, InBroker, Sets, Active, Working, Terminal, Kinds

<1>1. ASSUME NEW p \in Procs, NEW t \in Tasks, NEW kind \in Kinds, Start(p, t, kind) PROVE TypeInv'
  <2> DEFINE o == proc[p]
  <2>0. o \in Process /\ WellFormed(o)
    BY <1>t
  <2>d. /\ records' \in [Tasks -> Records] /\ listed' \subseteq Tasks /\ flags' \subseteq Tasks
        /\ uploads' \subseteq Tasks /\ queue' \in Seq(Tasks)
        /\ templates' \in [Tasks -> {"none", "bare", "full"}] /\ issued' \subseteq Tasks
        /\ dismissed' \subseteq Tasks /\ expired' \subseteq Tasks /\ service' = service
    BY <1>1, <1>t, <1>v DEF Start
  <2>1. TypeInv'
    <3> DEFINE s == [Idle EXCEPT !.at = "count", !.task = t, !.kind = kind]
    <3>1. Becomes(p, s)
      BY <1>1 DEF Start
    <3>2. s \in Process
      BY <1>l, <2>0, NoRecordType DEF Process, Idle
    <3>3. WellFormed(s)
      BY <1>1, <1>t, <1>i, <2>0 DEF Start, WellFormed, NoTaskYet, Writing, Process, Idle, At, NoRecord, Kinds
    <3> HIDE DEF s
    <3> QED
      BY <2>d, <3>1, <3>2, <3>3, StepType
  <2> QED
    BY <2>1
<1>2. ASSUME NEW p \in Procs, CountActive(p) PROVE TypeInv'
  <2> DEFINE o == proc[p]
  <2>0. o \in Process /\ WellFormed(o)
    BY <1>t
  <2>d. /\ records' \in [Tasks -> Records] /\ listed' \subseteq Tasks /\ flags' \subseteq Tasks
        /\ uploads' \subseteq Tasks /\ queue' \in Seq(Tasks)
        /\ templates' \in [Tasks -> {"none", "bare", "full"}] /\ issued' \subseteq Tasks
        /\ dismissed' \subseteq Tasks /\ expired' \subseteq Tasks /\ service' = service
    BY <1>2, <1>t, <1>v DEF CountActive
  <2>1. CASE Cardinality(ActiveTasks) >= MaxConcurrent
    <3> DEFINE s == [o EXCEPT !.at = "size"]
    <3>1. Becomes(p, s)
      BY <2>1, <1>2 DEF CountActive, Moved
    <3>2. s \in Process
      BY <2>1, <1>t, <1>i, <1>l, <2>0, NoRecordType DEF Process, Idle
    <3>3. WellFormed(s)
      BY <2>1, <1>2, <1>t, <1>i, <2>0 DEF CountActive, WellFormed, NoTaskYet, Writing, Process, Idle, At, NoRecord, Kinds, Moved
    <3> HIDE DEF s
    <3> QED
      BY <2>d, <3>1, <3>2, <3>3, StepType
  <2>2. CASE ~ (Cardinality(ActiveTasks) >= MaxConcurrent)
    <3> DEFINE s == [o EXCEPT !.op = "PENDING", !.at = IF o.kind = "generate" THEN "stage" ELSE "create"]
    <3>1. Becomes(p, s)
      BY <2>2, <1>2 DEF CountActive, Settles
    <3>2. s \in Process
      BY <2>2, <1>t, <1>i, <1>l, <2>0, NoRecordType DEF Process, Idle
    <3>3. WellFormed(s)
      BY <2>2, <1>2, <1>t, <1>i, <2>0 DEF CountActive, WellFormed, NoTaskYet, Writing, Process, Idle, At, NoRecord, Kinds, Settles
    <3> HIDE DEF s
    <3> QED
      BY <2>d, <3>1, <3>2, <3>3, StepType
  <2> QED
    BY <2>1, <2>2
<1>3. ASSUME NEW p \in Procs, CheckQueueSize(p) PROVE TypeInv'
  <2> DEFINE o == proc[p]
  <2>0. o \in Process /\ WellFormed(o)
    BY <1>t
  <2>d. /\ records' \in [Tasks -> Records] /\ listed' \subseteq Tasks /\ flags' \subseteq Tasks
        /\ uploads' \subseteq Tasks /\ queue' \in Seq(Tasks)
        /\ templates' \in [Tasks -> {"none", "bare", "full"}] /\ issued' \subseteq Tasks
        /\ dismissed' \subseteq Tasks /\ expired' \subseteq Tasks /\ service' = service
    BY <1>3, <1>t, <1>v DEF CheckQueueSize
  <2>1. CASE Len(queue) >= MaxQueued
    <3> DEFINE s == Idle
    <3>1. Becomes(p, s)
      BY <2>1, <1>3 DEF CheckQueueSize
    <3> QED
      BY <2>d, <3>1, IdleType, StepType
  <2>2. CASE ~ (Len(queue) >= MaxQueued)
    <3> DEFINE s == [o EXCEPT !.op = "QUEUED", !.at = IF o.kind = "generate" THEN "stage" ELSE "create"]
    <3>1. Becomes(p, s)
      BY <2>2, <1>3 DEF CheckQueueSize, Settles
    <3>2. s \in Process
      BY <2>2, <1>t, <1>i, <1>l, <2>0, NoRecordType DEF Process, Idle
    <3>3. WellFormed(s)
      BY <2>2, <1>3, <1>t, <1>i, <2>0 DEF CheckQueueSize, WellFormed, NoTaskYet, Writing, Process, Idle, At, NoRecord, Kinds, Settles
    <3> HIDE DEF s
    <3> QED
      BY <2>d, <3>1, <3>2, <3>3, StepType
  <2> QED
    BY <2>1, <2>2
<1>4. ASSUME NEW p \in Procs, Stage(p) PROVE TypeInv'
  <2> DEFINE o == proc[p]
  <2>0. o \in Process /\ WellFormed(o)
    BY <1>t
  <2>d. /\ records' \in [Tasks -> Records] /\ listed' \subseteq Tasks /\ flags' \subseteq Tasks
        /\ uploads' \subseteq Tasks /\ queue' \in Seq(Tasks)
        /\ templates' \in [Tasks -> {"none", "bare", "full"}] /\ issued' \subseteq Tasks
        /\ dismissed' \subseteq Tasks /\ expired' \subseteq Tasks /\ service' = service
    BY <1>4, <1>t, <1>i DEF Stage, At, NoTaskYet
  <2>1. TypeInv'
    <3> DEFINE s == [o EXCEPT !.at = "create"]
    <3>1. Becomes(p, s)
      BY <1>4 DEF Stage, Moved
    <3>2. s \in Process
      BY <1>t, <1>i, <1>l, <2>0, NoRecordType DEF Process, Idle
    <3>3. WellFormed(s)
      BY <1>4, <1>t, <1>i, <2>0 DEF Stage, WellFormed, NoTaskYet, Writing, Process, Idle, At, NoRecord, Kinds, Moved
    <3> HIDE DEF s
    <3> QED
      BY <2>d, <3>1, <3>2, <3>3, StepType
  <2> QED
    BY <2>1
<1>5. ASSUME NEW p \in Procs, Create(p) PROVE TypeInv'
  <2> DEFINE o == proc[p]
  <2>0. o \in Process /\ WellFormed(o)
    BY <1>t
  <2>d. /\ records' \in [Tasks -> Records] /\ listed' \subseteq Tasks /\ flags' \subseteq Tasks
        /\ uploads' \subseteq Tasks /\ queue' \in Seq(Tasks)
        /\ templates' \in [Tasks -> {"none", "bare", "full"}] /\ issued' \subseteq Tasks
        /\ dismissed' \subseteq Tasks /\ expired' \subseteq Tasks /\ service' = service
    <3>1. [NoRecord EXCEPT !.status = o.op, !.kind = o.kind] \in Records
      BY <1>5, <2>0 DEF Create, At, WellFormed, Writing, NoTaskYet, NoRecord, Records, Process, Sets, Active
    <3> QED
      BY <1>5, <1>t, <1>i, <3>1 DEF Create, At, NoTaskYet
  <2>1. TypeInv'
    <3> DEFINE s == [o EXCEPT !.at = IF o.op = "QUEUED" THEN "park" ELSE "kick", !.op = "none"]
    <3>1. Becomes(p, s)
      BY <1>5 DEF Create
    <3>2. s \in Process
      BY <1>t, <1>i, <1>l, <2>0, NoRecordType DEF Process, Idle
    <3>3. WellFormed(s)
      BY <1>5, <1>t, <1>i, <2>0 DEF Create, WellFormed, NoTaskYet, Writing, Process, Idle, At, NoRecord, Kinds
    <3> HIDE DEF s
    <3> QED
      BY <2>d, <3>1, <3>2, <3>3, StepType
  <2> QED
    BY <2>1
<1>6. ASSUME NEW p \in Procs, Park(p) PROVE TypeInv'
  <2> DEFINE o == proc[p]
  <2>0. o \in Process /\ WellFormed(o)
    BY <1>t
  <2>d. /\ records' \in [Tasks -> Records] /\ listed' \subseteq Tasks /\ flags' \subseteq Tasks
        /\ uploads' \subseteq Tasks /\ queue' \in Seq(Tasks)
        /\ templates' \in [Tasks -> {"none", "bare", "full"}] /\ issued' \subseteq Tasks
        /\ dismissed' \subseteq Tasks /\ expired' \subseteq Tasks /\ service' = service
    BY <1>6, <1>t, <1>i, AppendProperties DEF Park, At, NoTaskYet
  <2>1. TypeInv'
    <3> DEFINE s == Idle
    <3>1. Becomes(p, s)
      BY <1>6 DEF Park
    <3> QED
      BY <2>d, <3>1, IdleType, StepType
  <2> QED
    BY <2>1
<1>7. ASSUME NEW p \in Procs, Kick(p) PROVE TypeInv'
  <2>1. PICK label \in InBroker :
          Kiq(p, label) /\ (label = "queued_resume" => At(p, "kick_resume"))
                        /\ (At(p, "kick") \/ At(p, "kick_resume"))
    BY <1>7 DEF Kick, InBroker
  <2>2. PICK j \in Jobs :
          proc' = [proc EXCEPT ![p] = Ends(p),
                               ![j] = [Idle EXCEPT !.at = label, !.task = proc[p].task,
                                                   !.kind = proc[p].kind]]
    BY <2>1 DEF Kiq
  <2> DEFINE s == [Idle EXCEPT !.at = label, !.task = proc[p].task, !.kind = proc[p].kind]
  <2>3. s \in Process
    BY <1>t, NoRecordType DEF Process, Labels, Idle
  <2>4. WellFormed(s)
    BY <1>t, <2>1 DEF WellFormed, NoTaskYet, Writing, Idle, NoRecord, InBroker, At
  <2> HIDE DEF s
  <2>5. Ends(p) \in Process /\ WellFormed(Ends(p))
    BY EndsType
  <2>6. proc' \in [Procs -> Process] /\ \A q \in Procs : WellFormed(proc'[q])
    BY <2>2, <2>3, <2>4, <2>5 DEF TypeInv, TypeOK, s
  <2> QED
    BY <1>7, <1>t, <2>6 DEF Kick, TypeInv, TypeOK
<1>8. ASSUME NEW p \in Procs, NEW t \in Tasks, SubmitInput(p, t) PROVE TypeInv'
  <2> DEFINE o == proc[p]
  <2>0. o \in Process /\ WellFormed(o)
    BY <1>t
  <2>d. /\ records' \in [Tasks -> Records] /\ listed' \subseteq Tasks /\ flags' \subseteq Tasks
        /\ uploads' \subseteq Tasks /\ queue' \in Seq(Tasks)
        /\ templates' \in [Tasks -> {"none", "bare", "full"}] /\ issued' \subseteq Tasks
        /\ dismissed' \subseteq Tasks /\ expired' \subseteq Tasks /\ service' = service
    BY <1>8, <1>t, <1>v DEF SubmitInput
  <2>1. TypeInv'
    <3> DEFINE s == [Idle EXCEPT !.at = "fetch", !.op = "RESUMING", !.task = t, !.kind = "dry_run"]
    <3>1. Becomes(p, s)
      BY <1>8 DEF SubmitInput
    <3>2. s \in Process
      BY <1>l, <2>0, NoRecordType DEF Process, Idle
    <3>3. WellFormed(s)
      BY <1>8, <1>t, <1>i, <2>0 DEF SubmitInput, WellFormed, NoTaskYet, Writing, Process, Idle, At, NoRecord, Kinds
    <3> HIDE DEF s
    <3> QED
      BY <2>d, <3>1, <3>2, <3>3, StepType
  <2> QED
    BY <2>1
<1>9. ASSUME NEW p \in Procs, NEW t \in Tasks, Cancel(p, t) PROVE TypeInv'
  <2> DEFINE o == proc[p]
  <2>0. o \in Process /\ WellFormed(o)
    BY <1>t
  <2>d. /\ records' \in [Tasks -> Records] /\ listed' \subseteq Tasks /\ flags' \subseteq Tasks
        /\ uploads' \subseteq Tasks /\ queue' \in Seq(Tasks)
        /\ templates' \in [Tasks -> {"none", "bare", "full"}] /\ issued' \subseteq Tasks
        /\ dismissed' \subseteq Tasks /\ expired' \subseteq Tasks /\ service' = service
    BY <1>9, <1>t, <1>v DEF Cancel
  <2>1. TypeInv'
    <3> DEFINE s == [Idle EXCEPT !.at = IF records[t].status = "QUEUED" THEN "unpark" ELSE "fetch", !.op = "CANCELLED", !.task = t]
    <3>1. Becomes(p, s)
      BY <1>9 DEF Cancel
    <3>2. s \in Process
      BY <1>l, <2>0, NoRecordType DEF Process, Idle
    <3>3. WellFormed(s)
      BY <1>9, <1>t, <1>i, <2>0 DEF Cancel, WellFormed, NoTaskYet, Writing, Process, Idle, At, NoRecord, Kinds
    <3> HIDE DEF s
    <3> QED
      BY <2>d, <3>1, <3>2, <3>3, StepType
  <2> QED
    BY <2>1
<1>10. ASSUME NEW p \in Procs, RemoveFromQueue(p) PROVE TypeInv'
  <2> DEFINE o == proc[p]
  <2>0. o \in Process /\ WellFormed(o)
    BY <1>t
  <2>d. /\ records' \in [Tasks -> Records] /\ listed' \subseteq Tasks /\ flags' \subseteq Tasks
        /\ uploads' \subseteq Tasks /\ queue' \in Seq(Tasks)
        /\ templates' \in [Tasks -> {"none", "bare", "full"}] /\ issued' \subseteq Tasks
        /\ dismissed' \subseteq Tasks /\ expired' \subseteq Tasks /\ service' = service
    BY <1>10, <1>t, WithoutType DEF RemoveFromQueue
  <2>1. TypeInv'
    <3> DEFINE s == [o EXCEPT !.at = "fetch"]
    <3>1. Becomes(p, s)
      BY <1>10 DEF RemoveFromQueue, Moved
    <3>2. s \in Process
      BY <1>t, <1>i, <1>l, <2>0, NoRecordType DEF Process, Idle
    <3>3. WellFormed(s)
      BY <1>10, <1>t, <1>i, <2>0 DEF RemoveFromQueue, WellFormed, NoTaskYet, Writing, Process, Idle, At, NoRecord, Kinds, Moved
    <3> HIDE DEF s
    <3> QED
      BY <2>d, <3>1, <3>2, <3>3, StepType
  <2> QED
    BY <2>1
<1>11. ASSUME NEW p \in Procs, NEW t \in Tasks, Dismiss(p, t) PROVE TypeInv'
  <2> DEFINE o == proc[p]
  <2>0. o \in Process /\ WellFormed(o)
    BY <1>t
  <2>d. /\ records' \in [Tasks -> Records] /\ listed' \subseteq Tasks /\ flags' \subseteq Tasks
        /\ uploads' \subseteq Tasks /\ queue' \in Seq(Tasks)
        /\ templates' \in [Tasks -> {"none", "bare", "full"}] /\ issued' \subseteq Tasks
        /\ dismissed' \subseteq Tasks /\ expired' \subseteq Tasks /\ service' = service
    BY <1>11, <1>t, <1>v DEF Dismiss
  <2>1. TypeInv'
    <3> DEFINE s == [Idle EXCEPT !.at = "find", !.task = t]
    <3>1. Becomes(p, s)
      BY <1>11 DEF Dismiss
    <3>2. s \in Process
      BY <1>l, <2>0, NoRecordType DEF Process, Idle
    <3>3. WellFormed(s)
      BY <1>11, <1>t, <1>i, <2>0 DEF Dismiss, WellFormed, NoTaskYet, Writing, Process, Idle, At, NoRecord, Kinds
    <3> HIDE DEF s
    <3> QED
      BY <2>d, <3>1, <3>2, <3>3, StepType
  <2> QED
    BY <2>1
<1>12. ASSUME NEW p \in Procs, FindForDelete(p) PROVE TypeInv'
  <2> DEFINE o == proc[p]
  <2>0. o \in Process /\ WellFormed(o)
    BY <1>t
  <2>d. /\ records' \in [Tasks -> Records] /\ listed' \subseteq Tasks /\ flags' \subseteq Tasks
        /\ uploads' \subseteq Tasks /\ queue' \in Seq(Tasks)
        /\ templates' \in [Tasks -> {"none", "bare", "full"}] /\ issued' \subseteq Tasks
        /\ dismissed' \subseteq Tasks /\ expired' \subseteq Tasks /\ service' = service
    BY <1>12, <1>t, <1>v DEF FindForDelete
  <2>1. CASE Exists(o.task)
    <3> DEFINE s == [o EXCEPT !.at = "delete"]
    <3>1. Becomes(p, s)
      BY <2>1, <1>12 DEF FindForDelete, Moved
    <3>2. s \in Process
      BY <2>1, <1>t, <1>i, <1>l, <2>0, NoRecordType DEF Process, Idle
    <3>3. WellFormed(s)
      BY <2>1, <1>12, <1>t, <1>i, <2>0 DEF FindForDelete, WellFormed, NoTaskYet, Writing, Process, Idle, At, NoRecord, Kinds, Moved
    <3> HIDE DEF s
    <3> QED
      BY <2>d, <3>1, <3>2, <3>3, StepType
  <2>2. CASE ~ Exists(o.task)
    <3> DEFINE s == Idle
    <3>1. Becomes(p, s)
      BY <2>2, <1>12 DEF FindForDelete
    <3> QED
      BY <2>d, <3>1, IdleType, StepType
  <2> QED
    BY <2>1, <2>2
<1>13. ASSUME NEW p \in Procs, Delete(p) PROVE TypeInv'
  <2> DEFINE o == proc[p]
  <2>0. o \in Process /\ WellFormed(o)
    BY <1>t
  <2>d. /\ records' \in [Tasks -> Records] /\ listed' \subseteq Tasks /\ flags' \subseteq Tasks
        /\ uploads' \subseteq Tasks /\ queue' \in Seq(Tasks)
        /\ templates' \in [Tasks -> {"none", "bare", "full"}] /\ issued' \subseteq Tasks
        /\ dismissed' \subseteq Tasks /\ expired' \subseteq Tasks /\ service' = service
    BY <1>13, <1>t, <1>i, WithoutType, NoRecordType DEF Delete, At, NoTaskYet
  <2>1. TypeInv'
    <3> DEFINE s == [o EXCEPT !.at = "clear"]
    <3>1. Becomes(p, s)
      BY <1>13 DEF Delete, Moved
    <3>2. s \in Process
      BY <1>t, <1>i, <1>l, <2>0, NoRecordType DEF Process, Idle
    <3>3. WellFormed(s)
      BY <1>13, <1>t, <1>i, <2>0 DEF Delete, WellFormed, NoTaskYet, Writing, Process, Idle, At, NoRecord, Kinds, Moved
    <3> HIDE DEF s
    <3> QED
      BY <2>d, <3>1, <3>2, <3>3, StepType
  <2> QED
    BY <2>1
<1>14. ASSUME NEW p \in Procs, SetCancelFlag(p) PROVE TypeInv'
  <2> DEFINE o == proc[p]
  <2>0. o \in Process /\ WellFormed(o)
    BY <1>t
  <2>d. /\ records' \in [Tasks -> Records] /\ listed' \subseteq Tasks /\ flags' \subseteq Tasks
        /\ uploads' \subseteq Tasks /\ queue' \in Seq(Tasks)
        /\ templates' \in [Tasks -> {"none", "bare", "full"}] /\ issued' \subseteq Tasks
        /\ dismissed' \subseteq Tasks /\ expired' \subseteq Tasks /\ service' = service
    BY <1>14, <1>t, <1>i DEF SetCancelFlag, At, NoTaskYet
  <2>1. TypeInv'
    <3> DEFINE s == [o EXCEPT !.at = "store"]
    <3>1. Becomes(p, s)
      BY <1>14 DEF SetCancelFlag, Moved
    <3>2. s \in Process
      BY <1>t, <1>i, <1>l, <2>0, NoRecordType DEF Process, Idle
    <3>3. WellFormed(s)
      BY <1>14, <1>t, <1>i, <2>0 DEF SetCancelFlag, WellFormed, NoTaskYet, Writing, Process, Idle, At, NoRecord, Kinds, Moved
    <3> HIDE DEF s
    <3> QED
      BY <2>d, <3>1, <3>2, <3>3, StepType
  <2> QED
    BY <2>1
<1>15. ASSUME NEW p \in Procs, BeginRun(p) PROVE TypeInv'
  <2> DEFINE o == proc[p]
  <2>0. o \in Process /\ WellFormed(o)
    BY <1>t
  <2>d. /\ records' \in [Tasks -> Records] /\ listed' \subseteq Tasks /\ flags' \subseteq Tasks
        /\ uploads' \subseteq Tasks /\ queue' \in Seq(Tasks)
        /\ templates' \in [Tasks -> {"none", "bare", "full"}] /\ issued' \subseteq Tasks
        /\ dismissed' \subseteq Tasks /\ expired' \subseteq Tasks /\ service' = service
    BY <1>15, <1>t, <1>v DEF BeginRun
  <2>1. CASE ~ Exists(o.task) \/ o.task \in flags
    <3> DEFINE s == Idle
    <3>1. Becomes(p, s)
      BY <2>1, <1>15 DEF BeginRun
    <3> QED
      BY <2>d, <3>1, IdleType, StepType
  <2>2. CASE ~ (~ Exists(o.task) \/ o.task \in flags) /\ o.kind = "generate"
    <3> DEFINE s == [o EXCEPT !.at = "upload"]
    <3>1. Becomes(p, s)
      BY <2>2, <1>15 DEF BeginRun, Moved
    <3>2. s \in Process
      BY <2>2, <1>t, <1>i, <1>l, <2>0, NoRecordType DEF Process, Idle
    <3>3. WellFormed(s)
      BY <2>2, <1>15, <1>t, <1>i, <2>0 DEF BeginRun, WellFormed, NoTaskYet, Writing, Process, Idle, At, NoRecord, Kinds, Moved
    <3> HIDE DEF s
    <3> QED
      BY <2>d, <3>1, <3>2, <3>3, StepType
  <2>3. CASE ~ (~ Exists(o.task) \/ o.task \in flags) /\ o.kind # "generate"
    <3> DEFINE s == [o EXCEPT !.at = "fetch", !.op = "RUNNING"]
    <3>1. Becomes(p, s)
      BY <2>3, <1>15 DEF BeginRun, Writes
    <3>2. s \in Process
      BY <2>3, <1>t, <1>i, <1>l, <2>0, NoRecordType DEF Process, Idle
    <3>3. WellFormed(s)
      BY <2>3, <1>15, <1>t, <1>i, <2>0 DEF BeginRun, WellFormed, NoTaskYet, Writing, Process, Idle, At, NoRecord, Kinds, Writes
    <3> HIDE DEF s
    <3> QED
      BY <2>d, <3>1, <3>2, <3>3, StepType
  <2> QED
    BY <2>1, <2>2, <2>3
<1>16. ASSUME NEW p \in Procs, FetchUpload(p) PROVE TypeInv'
  <2> DEFINE o == proc[p]
  <2>0. o \in Process /\ WellFormed(o)
    BY <1>t
  <2>d. /\ records' \in [Tasks -> Records] /\ listed' \subseteq Tasks /\ flags' \subseteq Tasks
        /\ uploads' \subseteq Tasks /\ queue' \in Seq(Tasks)
        /\ templates' \in [Tasks -> {"none", "bare", "full"}] /\ issued' \subseteq Tasks
        /\ dismissed' \subseteq Tasks /\ expired' \subseteq Tasks /\ service' = service
    BY <1>16, <1>t, <1>v DEF FetchUpload
  <2>1. TypeInv'
    <3> DEFINE s == [o EXCEPT !.at = "fetch", !.op = IF o.task \in uploads THEN "RUNNING" ELSE "FAILED"]
    <3>1. Becomes(p, s)
      BY <1>16 DEF FetchUpload, Writes
    <3>2. s \in Process
      BY <1>t, <1>i, <1>l, <2>0, NoRecordType DEF Process, Idle
    <3>3. WellFormed(s)
      BY <1>16, <1>t, <1>i, <2>0 DEF FetchUpload, WellFormed, NoTaskYet, Writing, Process, Idle, At, NoRecord, Kinds, Writes
    <3> HIDE DEF s
    <3> QED
      BY <2>d, <3>1, <3>2, <3>3, StepType
  <2> QED
    BY <2>1
<1>17. ASSUME NEW p \in Procs, Work(p) PROVE TypeInv'
  <2> DEFINE o == proc[p]
  <2>0. o \in Process /\ WellFormed(o)
    BY <1>t
  <2>d. /\ records' \in [Tasks -> Records] /\ listed' \subseteq Tasks /\ flags' \subseteq Tasks
        /\ uploads' \subseteq Tasks /\ queue' \in Seq(Tasks)
        /\ templates' \in [Tasks -> {"none", "bare", "full"}] /\ issued' \subseteq Tasks
        /\ dismissed' \subseteq Tasks /\ expired' \subseteq Tasks /\ service' = service
    BY <1>17, <1>t, <1>i DEF Work, At, NoTaskYet
  <2>1. CASE Raises(p)
    <3> DEFINE s == [o EXCEPT !.at = "fetch", !.op = "FAILED", !.drop = IF o.kind = "generate" THEN o.task ELSE NoTask]
    <3>1. Becomes(p, s)
      BY <2>1, <1>17 DEF Work, Raises, Writes
    <3>2. s \in Process
      BY <2>1, <1>t, <1>i, <1>l, <2>0, NoRecordType DEF Process, Idle
    <3>3. WellFormed(s)
      BY <2>1, <1>17, <1>t, <1>i, <2>0 DEF Work, WellFormed, NoTaskYet, Writing, Process, Idle, At, NoRecord, Kinds, Raises, Writes
    <3> HIDE DEF s
    <3> QED
      BY <2>d, <3>1, <3>2, <3>3, StepType
  <2>2. CASE o.kind = "generate" /\ Becomes(p, Moved(p, "fields"))
    <3> DEFINE s == [o EXCEPT !.at = "fields"]
    <3>1. Becomes(p, s)
      BY <2>2, <1>17 DEF Work, Moved
    <3>2. s \in Process
      BY <2>2, <1>t, <1>i, <1>l, <2>0, NoRecordType DEF Process, Idle
    <3>3. WellFormed(s)
      BY <2>2, <1>17, <1>t, <1>i, <2>0 DEF Work, WellFormed, NoTaskYet, Writing, Process, Idle, At, NoRecord, Kinds, Moved
    <3> HIDE DEF s
    <3> QED
      BY <2>d, <3>1, <3>2, <3>3, StepType
  <2>3. CASE o.kind # "generate" /\ Becomes(p, Moved(p, "check"))
    <3> DEFINE s == [o EXCEPT !.at = "check"]
    <3>1. Becomes(p, s)
      BY <2>3, <1>17 DEF Work, Moved
    <3>2. s \in Process
      BY <2>3, <1>t, <1>i, <1>l, <2>0, NoRecordType DEF Process, Idle
    <3>3. WellFormed(s)
      BY <2>3, <1>17, <1>t, <1>i, <2>0 DEF Work, WellFormed, NoTaskYet, Writing, Process, Idle, At, NoRecord, Kinds, Moved
    <3> HIDE DEF s
    <3> QED
      BY <2>d, <3>1, <3>2, <3>3, StepType
  <2>4. CASE o.kind = "dry_run" /\ Becomes(p, Moved(p, "check_paused"))
    <3> DEFINE s == [o EXCEPT !.at = "check_paused"]
    <3>1. Becomes(p, s)
      BY <2>4, <1>17 DEF Work, Moved
    <3>2. s \in Process
      BY <2>4, <1>t, <1>i, <1>l, <2>0, NoRecordType DEF Process, Idle
    <3>3. WellFormed(s)
      BY <2>4, <1>17, <1>t, <1>i, <2>0 DEF Work, WellFormed, NoTaskYet, Writing, Process, Idle, At, NoRecord, Kinds, Moved
    <3> HIDE DEF s
    <3> QED
      BY <2>d, <3>1, <3>2, <3>3, StepType
  <2> QED
    BY <2>1, <2>2, <2>3, <2>4, <1>17 DEF Work
<1>18. ASSUME NEW p \in Procs, InsertFields(p) PROVE TypeInv'
  <2> DEFINE o == proc[p]
  <2>0. o \in Process /\ WellFormed(o)
    BY <1>t
  <2>d. /\ records' \in [Tasks -> Records] /\ listed' \subseteq Tasks /\ flags' \subseteq Tasks
        /\ uploads' \subseteq Tasks /\ queue' \in Seq(Tasks)
        /\ templates' \in [Tasks -> {"none", "bare", "full"}] /\ issued' \subseteq Tasks
        /\ dismissed' \subseteq Tasks /\ expired' \subseteq Tasks /\ service' = service
    BY <1>18, <1>t, <1>i DEF InsertFields, At, NoTaskYet
  <2>1. CASE Raises(p)
    <3> DEFINE s == [o EXCEPT !.at = "fetch", !.op = "FAILED", !.drop = IF o.kind = "generate" THEN o.task ELSE NoTask]
    <3>1. Becomes(p, s)
      BY <2>1, <1>18 DEF InsertFields, Raises, Writes
    <3>2. s \in Process
      BY <2>1, <1>t, <1>i, <1>l, <2>0, NoRecordType DEF Process, Idle
    <3>3. WellFormed(s)
      BY <2>1, <1>18, <1>t, <1>i, <2>0 DEF InsertFields, WellFormed, NoTaskYet, Writing, Process, Idle, At, NoRecord, Kinds, Raises, Writes
    <3> HIDE DEF s
    <3> QED
      BY <2>d, <3>1, <3>2, <3>3, StepType
  <2>2. CASE Becomes(p, Moved(p, "discard"))
    <3> DEFINE s == [o EXCEPT !.at = "discard"]
    <3>1. Becomes(p, s)
      BY <2>2, <1>18 DEF InsertFields, Moved
    <3>2. s \in Process
      BY <2>2, <1>t, <1>i, <1>l, <2>0, NoRecordType DEF Process, Idle
    <3>3. WellFormed(s)
      BY <2>2, <1>18, <1>t, <1>i, <2>0 DEF InsertFields, WellFormed, NoTaskYet, Writing, Process, Idle, At, NoRecord, Kinds, Moved
    <3> HIDE DEF s
    <3> QED
      BY <2>d, <3>1, <3>2, <3>3, StepType
  <2> QED
    BY <2>1, <2>2, <1>18 DEF InsertFields
<1>19. ASSUME NEW p \in Procs, Discard(p) PROVE TypeInv'
  <2> DEFINE o == proc[p]
  <2>0. o \in Process /\ WellFormed(o)
    BY <1>t
  <2>d. /\ records' \in [Tasks -> Records] /\ listed' \subseteq Tasks /\ flags' \subseteq Tasks
        /\ uploads' \subseteq Tasks /\ queue' \in Seq(Tasks)
        /\ templates' \in [Tasks -> {"none", "bare", "full"}] /\ issued' \subseteq Tasks
        /\ dismissed' \subseteq Tasks /\ expired' \subseteq Tasks /\ service' = service
    BY <1>19, <1>t, <1>v DEF Discard
  <2>1. CASE At(p, "discard")
    <3> DEFINE s == [o EXCEPT !.at = "check"]
    <3>1. Becomes(p, s)
      BY <2>1, <1>19 DEF Discard, Moved, At
    <3>2. s \in Process
      BY <2>1, <1>t, <1>i, <1>l, <2>0, NoRecordType DEF Process, Idle
    <3>3. WellFormed(s)
      BY <2>1, <1>19, <1>t, <1>i, <2>0 DEF Discard, WellFormed, NoTaskYet, Writing, Process, Idle, At, NoRecord, Kinds, Moved, At
    <3> HIDE DEF s
    <3> QED
      BY <2>d, <3>1, <3>2, <3>3, StepType
  <2>2. CASE At(p, "finally")
    <3> DEFINE s == Idle
    <3>1. Becomes(p, s)
      BY <2>2, <1>19 DEF Discard, At
    <3> QED
      BY <2>d, <3>1, IdleType, StepType
  <2> QED
    BY <2>1, <2>2, <1>19 DEF Discard
<1>20. ASSUME NEW p \in Procs, Check(p) PROVE TypeInv'
  <2> DEFINE o == proc[p]
  <2>0. o \in Process /\ WellFormed(o)
    BY <1>t
  <2>d. /\ records' \in [Tasks -> Records] /\ listed' \subseteq Tasks /\ flags' \subseteq Tasks
        /\ uploads' \subseteq Tasks /\ queue' \in Seq(Tasks)
        /\ templates' \in [Tasks -> {"none", "bare", "full"}] /\ issued' \subseteq Tasks
        /\ dismissed' \subseteq Tasks /\ expired' \subseteq Tasks /\ service' = service
    BY <1>20, <1>t, <1>v DEF Check
  <2>1. CASE o.task \in flags
    <3> DEFINE s == [Idle EXCEPT !.at = "drain"]
    <3>1. Becomes(p, s)
      BY <2>1, <1>20 DEF Check
    <3>2. s \in Process
      BY <2>1, <1>l, <2>0, NoRecordType DEF Process, Idle
    <3>3. WellFormed(s)
      BY <2>1, <1>20, <1>t, <1>i, <2>0 DEF Check, WellFormed, NoTaskYet, Writing, Process, Idle, At, NoRecord, Kinds
    <3> HIDE DEF s
    <3> QED
      BY <2>d, <3>1, <3>2, <3>3, StepType
  <2>2. CASE o.task \notin flags
    <3> DEFINE s == [o EXCEPT !.at = "fetch", !.op = IF At(p, "check") THEN "COMPLETED" ELSE "AWAITING_INPUT"]
    <3>1. Becomes(p, s)
      BY <2>2, <1>20 DEF Check, Writes
    <3>2. s \in Process
      BY <2>2, <1>t, <1>i, <1>l, <2>0, NoRecordType DEF Process, Idle
    <3>3. WellFormed(s)
      BY <2>2, <1>20, <1>t, <1>i, <2>0 DEF Check, WellFormed, NoTaskYet, Writing, Process, Idle, At, NoRecord, Kinds, Writes
    <3> HIDE DEF s
    <3> QED
      BY <2>d, <3>1, <3>2, <3>3, StepType
  <2> QED
    BY <2>1, <2>2
<1>21. ASSUME NEW p \in Procs, BeginResume(p) PROVE TypeInv'
  <2> DEFINE o == proc[p]
  <2>0. o \in Process /\ WellFormed(o)
    BY <1>t
  <2>d. /\ records' \in [Tasks -> Records] /\ listed' \subseteq Tasks /\ flags' \subseteq Tasks
        /\ uploads' \subseteq Tasks /\ queue' \in Seq(Tasks)
        /\ templates' \in [Tasks -> {"none", "bare", "full"}] /\ issued' \subseteq Tasks
        /\ dismissed' \subseteq Tasks /\ expired' \subseteq Tasks /\ service' = service
    BY <1>21, <1>t, <1>v DEF BeginResume
  <2>1. CASE records[o.task].status = "NONE" \/ o.task \in flags
    <3> DEFINE s == Idle
    <3>1. Becomes(p, s)
      BY <2>1, <1>21 DEF BeginResume
    <3> QED
      BY <2>d, <3>1, IdleType, StepType
  <2>2. CASE ~ (records[o.task].status = "NONE" \/ o.task \in flags) /\ records[o.task].picks /\ records[o.task].paused
    <3> DEFINE s == [o EXCEPT !.at = "work_resume"]
    <3>1. Becomes(p, s)
      BY <2>2, <1>21 DEF BeginResume, Moved
    <3>2. s \in Process
      BY <2>2, <1>t, <1>i, <1>l, <2>0, NoRecordType DEF Process, Idle
    <3>3. WellFormed(s)
      BY <2>2, <1>21, <1>t, <1>i, <2>0 DEF BeginResume, WellFormed, NoTaskYet, Writing, Process, Idle, At, NoRecord, Kinds, Moved
    <3> HIDE DEF s
    <3> QED
      BY <2>d, <3>1, <3>2, <3>3, StepType
  <2>3. CASE ~ (records[o.task].status = "NONE" \/ o.task \in flags) /\ ~ (records[o.task].picks /\ records[o.task].paused)
    <3> DEFINE s == [o EXCEPT !.at = "fetch", !.op = "FAILED"]
    <3>1. Becomes(p, s)
      BY <2>3, <1>21 DEF BeginResume, Writes
    <3>2. s \in Process
      BY <2>3, <1>t, <1>i, <1>l, <2>0, NoRecordType DEF Process, Idle
    <3>3. WellFormed(s)
      BY <2>3, <1>21, <1>t, <1>i, <2>0 DEF BeginResume, WellFormed, NoTaskYet, Writing, Process, Idle, At, NoRecord, Kinds, Writes
    <3> HIDE DEF s
    <3> QED
      BY <2>d, <3>1, <3>2, <3>3, StepType
  <2> QED
    BY <2>1, <2>2, <2>3
<1>22. ASSUME NEW p \in Procs, DrainCount(p) PROVE TypeInv'
  <2> DEFINE o == proc[p]
  <2>0. o \in Process /\ WellFormed(o)
    BY <1>t
  <2>d. /\ records' \in [Tasks -> Records] /\ listed' \subseteq Tasks /\ flags' \subseteq Tasks
        /\ uploads' \subseteq Tasks /\ queue' \in Seq(Tasks)
        /\ templates' \in [Tasks -> {"none", "bare", "full"}] /\ issued' \subseteq Tasks
        /\ dismissed' \subseteq Tasks /\ expired' \subseteq Tasks /\ service' = service
    BY <1>22, <1>t, <1>v DEF DrainCount
  <2>1. CASE Cardinality(ActiveTasks) >= MaxConcurrent
    BY <1>22, <2>1, <2>d, EndsType, StepType DEF DrainCount
  <2>2. CASE ~ (Cardinality(ActiveTasks) >= MaxConcurrent)
    <3> DEFINE s == [o EXCEPT !.at = "pop"]
    <3>1. Becomes(p, s)
      BY <2>2, <1>22 DEF DrainCount, Moved
    <3>h. queue # <<>> => Head(queue) \in Tasks
      BY <1>t
    <3>2. s \in Process
      BY <2>2, <3>h, <1>l, <2>0 DEF Process
    <3>3. WellFormed(s)
      BY <2>2, <3>h, <1>22, <1>t, <1>i, <2>0 DEF DrainCount, WellFormed, NoTaskYet, Writing, Process, Records, At, Exists, NoRecord, Kinds, Moved
    <3> HIDE DEF s
    <3> QED
      BY <2>d, <3>1, <3>2, <3>3, StepType
  <2> QED
    BY <2>1, <2>2
<1>23. ASSUME NEW p \in Procs, DrainPop(p) PROVE TypeInv'
  <2> DEFINE o == proc[p]
  <2>0. o \in Process /\ WellFormed(o)
    BY <1>t
  <2>d. /\ records' \in [Tasks -> Records] /\ listed' \subseteq Tasks /\ flags' \subseteq Tasks
        /\ uploads' \subseteq Tasks /\ queue' \in Seq(Tasks)
        /\ templates' \in [Tasks -> {"none", "bare", "full"}] /\ issued' \subseteq Tasks
        /\ dismissed' \subseteq Tasks /\ expired' \subseteq Tasks /\ service' = service
    <3>1. queue' \in Seq(Tasks)
      <4>1. CASE queue = <<>>
        BY <1>23, <1>t, <4>1 DEF DrainPop
      <4>2. CASE queue # <<>>
        <5>1. queue' = Tail(queue)
          BY <1>23, <4>2 DEF DrainPop
        <5> QED
          BY <5>1, <4>2, <1>t, HeadTailProperties
      <4> QED
        BY <4>1, <4>2
    <3>2. UNCHANGED <<records, listed, flags, uploads, templates, issued, dismissed, expired, service>>
      BY <1>23 DEF DrainPop, fixed
    <3> QED
      BY <3>1, <3>2, <1>t
  <2>1. CASE queue = <<>>
    BY <1>23, <2>1, <2>d, EndsType, StepType DEF DrainPop
  <2>2. CASE queue # <<>>
    <3> DEFINE s == [o EXCEPT !.at = "peek", !.task = Head(queue)]
    <3>1. Becomes(p, s)
      BY <2>2, <1>23 DEF DrainPop
    <3>h. queue # <<>> => Head(queue) \in Tasks
      BY <1>t
    <3>2. s \in Process
      BY <2>2, <3>h, <1>l, <2>0 DEF Process
    <3>3. WellFormed(s)
      BY <2>2, <3>h, <1>23, <1>t, <1>i, <2>0 DEF DrainPop, WellFormed, NoTaskYet, Writing, Process, Records, At, Exists, NoRecord, Kinds
    <3> HIDE DEF s
    <3> QED
      BY <2>d, <3>1, <3>2, <3>3, StepType
  <2> QED
    BY <2>1, <2>2
<1>24. ASSUME NEW p \in Procs, DrainPeek(p) PROVE TypeInv'
  <2> DEFINE o == proc[p]
  <2>0. o \in Process /\ WellFormed(o)
    BY <1>t
  <2>d. /\ records' \in [Tasks -> Records] /\ listed' \subseteq Tasks /\ flags' \subseteq Tasks
        /\ uploads' \subseteq Tasks /\ queue' \in Seq(Tasks)
        /\ templates' \in [Tasks -> {"none", "bare", "full"}] /\ issued' \subseteq Tasks
        /\ dismissed' \subseteq Tasks /\ expired' \subseteq Tasks /\ service' = service
    BY <1>24, <1>t, <1>v DEF DrainPeek
  <2>1. CASE records[o.task].status = "NONE"
    BY <1>24, <2>1, <2>d, EndsType, StepType DEF DrainPeek
  <2>k. records[o.task].kind \in Kinds \cup {"none"}
    BY <1>24, <1>t, <1>i DEF DrainPeek, At, NoTaskYet, Records, NoRecord
  <2>2. CASE records[o.task].status # "NONE"
    <3> DEFINE s == [o EXCEPT !.at = "fetch", !.op = "PENDING", !.kind = records[o.task].kind]
    <3>1. Becomes(p, s)
      BY <2>2, <1>24 DEF DrainPeek, Writes
    <3>h. queue # <<>> => Head(queue) \in Tasks
      BY <1>t
    <3>2. s \in Process
      BY <2>2, <3>h, <1>l, <2>0, <2>k DEF Process
    <3>3. WellFormed(s)
      BY <2>2, <3>h, <1>24, <1>t, <1>i, <2>0 DEF DrainPeek, WellFormed, NoTaskYet, Writing, Process, Records, At, Exists, NoRecord, Kinds, Writes
    <3> HIDE DEF s
    <3> QED
      BY <2>d, <3>1, <3>2, <3>3, StepType
  <2> QED
    BY <2>1, <2>2
<1>25. ASSUME NEW p \in Procs, Fetch(p) PROVE TypeInv'
  <2> DEFINE o == proc[p]
             rec == records[o.task]
  <2>0. o \in Process /\ WellFormed(o) /\ o.at = "fetch" /\ o.task \in Tasks /\ rec \in Records
    BY <1>25, <1>t, <1>i DEF Fetch, At, NoTaskYet
  <2>d. UNCHANGED <<records, listed, flags, uploads, queue, templates, issued, dismissed, expired, service>>
    BY <1>25 DEF Fetch
  <2>1. CASE rec.status = "NONE"
    <3>1. Becomes(p, Continues(p))
      BY <1>25, <2>1 DEF Fetch
    <3> QED
      BY <1>25, <1>t, <2>d, <3>1, ContinuesType, StepType DEF Fetch
  <2>2. CASE rec.status # "NONE"
    <3> DEFINE s == [o EXCEPT !.at = IF o.op = "CANCELLED" THEN "flag" ELSE "store", !.snap = rec]
    <3>1. Becomes(p, s)
      BY <1>25, <2>2 DEF Fetch
    <3>2. s \in Process
      BY <2>0 DEF Process, Labels
    <3>3. WellFormed(s)
      BY <2>0, <2>2 DEF WellFormed, NoTaskYet, Writing, Process
    <3> HIDE DEF s
    <3> QED
      BY <1>t, <2>d, <3>1, <3>2, <3>3, StepType
  <2> QED
    BY <2>1, <2>2
<1>26. ASSUME NEW p \in Procs, Store(p) PROVE TypeInv'
  <2> DEFINE o == proc[p]
  <2>0. o \in Process /\ WellFormed(o) /\ o.at = "store" /\ o.task \in Tasks
    BY <1>26, <1>t, <1>i DEF Store, At, NoTaskYet
  <2>1. Updated(o.op, o.snap) \in Records
    BY <2>0, UpdatedType DEF WellFormed, Writing, Process
  <2>2. records' \in [Tasks -> Records] /\ listed' \subseteq Tasks
    BY <1>26, <1>t, <2>0, <2>1 DEF Store
  <2> QED
    BY <1>26, <1>t, <2>2, ContinuesType, StepType DEF Store
<1>27. ASSUME NEW p \in Procs, Clear(p) PROVE TypeInv'
  <2> DEFINE o == proc[p]
  <2>0. o \in Process /\ WellFormed(o)
    BY <1>t
  <2>d. /\ records' \in [Tasks -> Records] /\ listed' \subseteq Tasks /\ flags' \subseteq Tasks
        /\ uploads' \subseteq Tasks /\ queue' \in Seq(Tasks)
        /\ templates' \in [Tasks -> {"none", "bare", "full"}] /\ issued' \subseteq Tasks
        /\ dismissed' \subseteq Tasks /\ expired' \subseteq Tasks /\ service' = service
    BY <1>27, <1>t, <1>i, WithoutType, NoRecordType DEF Clear, At, NoTaskYet
  <2>1. TypeInv'
    <3> DEFINE s == Idle
    <3>1. Becomes(p, s)
      BY <1>27 DEF Clear
    <3> QED
      BY <2>d, <3>1, IdleType, StepType
  <2> QED
    BY <2>1
<1>28. ASSUME NEW t \in Tasks, Expire(t) PROVE TypeInv'
  BY <1>28 DEF Expire, TypeInv, TypeOK
<1> QED
  BY <1>0, <1>1, <1>2, <1>3, <1>4, <1>5, <1>6, <1>7, <1>8, <1>9, <1>10, <1>11, <1>12, <1>13, <1>14, <1>15, <1>16, <1>17, <1>18, <1>19, <1>20, <1>21, <1>22, <1>23, <1>24, <1>25, <1>26, <1>27, <1>28 DEF Next, Call, Serve, Run, Share

(* The values of all variables are of their types.                          *)
THEOREM TypeCorrect == Spec => []TypeOK
<1>1. Init => TypeInv
  BY TypeInit
<1>2. TypeInv /\ [Next]_vars => TypeInv'
  BY TypeNext
<1>3. TypeInv => TypeOK
  BY DEF TypeInv
<1> QED
  BY <1>1, <1>2, <1>3, PTL DEF Spec

-----------------------------------------------------------------------------
(* Roles.  The token of a task goes from its start through the queue and a  *)
(* drain to the job of its first run, which ends with it or pauses.  Only   *)
(* cancels and dismissals are by-standers of it.                            *)
Starting == {"count", "size", "stage", "create"}
Token(s) ==
  \/ s.at \in Starting \cup {"park", "peek", "kick", "queued_run", "upload", "work",
                             "fields", "discard", "check_paused"}
  \/ s.op \in {"PENDING", "RUNNING", "AWAITING_INPUT"}
Bystander(s) == s.op = "CANCELLED" \/ s.at \in {"find", "delete", "clear"}
NotYet(rec) ==
  rec.status \in {"NONE", "QUEUED", "PENDING", "RUNNING", "CANCELLED"} /\ ~ rec.paused

NewInv ==
  \A t \in Tasks \ issued :
    /\ records[t] = NoRecord /\ ~ InQueue(t)
    /\ \A q \in Procs : proc[q].task # t /\ proc[q].drop # t

StartInv ==
  \A p \in Procs :
    proc[p].at \in Starting =>
      /\ records[proc[p].task] = NoRecord
      /\ \A q \in Procs : q # p => proc[q].task # proc[p].task

LineInv ==
  /\ \A i, k \in DOMAIN queue : queue[i] = queue[k] => i = k
  /\ \A t \in Tasks :
       InQueue(t) =>
         /\ NotYet(records[t])
         /\ \A q \in Procs : /\ proc[q].drop # t
                             /\ proc[q].task = t => Bystander(proc[q]) /\ ~ proc[q].snap.paused

TokenInv ==
  \A p \in Procs :
    Token(proc[p]) =>
      /\ NotYet(records[proc[p].task]) /\ ~ InQueue(proc[p].task)
      /\ ~ proc[p].snap.paused
      /\ \A q \in Procs :
           /\ proc[q].drop # proc[p].task
           /\ q # p /\ proc[q].task = proc[p].task
                => Bystander(proc[q]) /\ ~ proc[q].snap.paused

Kinded(t, k) ==
  /\ records[t].kind \in {k, "none"}
  /\ \A q \in Procs : proc[q].task = t => /\ proc[q].kind \in {k, "none"}
                                          /\ proc[q].snap.kind \in {k, "none"}
KindInv == \A t \in Tasks : \E k \in Kinds : Kinded(t, k)

Early(s) ==
  \/ s.at \in {"create", "park", "peek", "kick", "queued_run", "upload"}
  \/ s.op \in {"PENDING", "RUNNING"} /\ s.at # "stage"
Generates(t) ==
  \/ records[t].kind = "generate"
  \/ \E q \in Procs : proc[q].task = t /\ "generate" \in {proc[q].kind, proc[q].snap.kind}
Lost == dismissed \cup expired
UploadInv ==
  \A t \in Tasks \ Lost :
    /\ Generates(t)
    /\ \/ InQueue(t) \/ records[t].status \in {"QUEUED", "PENDING"}
       \/ \E p \in Procs : proc[p].task = t /\ Early(proc[p])
    => t \in uploads

BegunInv ==
  \A p \in Procs :
    /\ proc[p].at \in {"work", "fields", "discard"}
         => records[proc[p].task].status \notin {"QUEUED", "PENDING"}
    /\ proc[p].drop # NoTask
         => records[proc[p].drop].status \notin {"QUEUED", "PENDING"}

TemplateInv ==
  /\ CompletedHasTemplate
  /\ \A p \in Procs :
       proc[p].kind = "generate" /\ (proc[p].at \in {"discard", "check"} \/ proc[p].op = "COMPLETED")
         => templates[proc[p].task] = "full"

Free(t) == t \notin flags \cup dismissed
PauseInv ==
  \A t \in Tasks :
    /\ records[t].status = "AWAITING_INPUT" => records[t].paused /\ records[t].kind = "dry_run"
    /\ Free(t) => \A p \in Procs : proc[p].task = t =>
         /\ ~ (proc[p].at = "store" /\ proc[p].op = "CANCELLED")
         /\ proc[p].at = "store" /\ records[t].paused => proc[p].snap.paused
         /\ proc[p].snap.paused => records[t].paused

Resumes(s)  == s.op = "RESUMING" \/ s.at \in {"kick_resume", "queued_resume"}
Finishes(s) == \/ s.at \in {"kick_resume", "queued_resume", "work_resume", "check"}
               \/ s.op \in {"COMPLETED", "FAILED"}
ResumeInv ==
  \A t \in Tasks : Free(t) => \A p \in Procs : proc[p].task = t =>
    /\ Resumes(proc[p]) => records[t].paused
    /\ Finishes(proc[p]) =>
         /\ records[t].paused => records[t].picks
         /\ proc[p].at = "store" /\ proc[p].snap.paused => proc[p].snap.picks

RunInv == /\ NewInv /\ StartInv /\ LineInv /\ TokenInv /\ KindInv
          /\ UploadInv /\ BegunInv /\ TemplateInv /\ PauseInv /\ ResumeInv

-----------------------------------------------------------------------------
(* What a step of one process on its task must respect to keep each part of *)
(* RunInv.  o and n below are the process before and after.                 *)
StepOn(p) ==
  /\ \A q \in Procs : q # p => proc'[q] = proc[q]
  /\ proc'[p].task \in {proc[p].task, NoTask}
  /\ \A t \in Tasks : t # proc[p].task => records'[t] = records[t]

(* Nothing is known of an id before it is handed out.                       *)
LEMMA StepNew ==
  ASSUME TypeInv, NewInv, NEW p \in Procs, StepOn(p), issued' = issued,
         proc'[p].drop \in {proc[p].drop, proc[p].task, NoTask},
         \A t \in Tasks : InQueue(t)' => InQueue(t) \/ t = proc[p].task
  PROVE  NewInv'
BY DEF NewInv, StepOn, TypeInv, TypeOK

(* A task that is being started is known to its request alone.              *)
LEMMA StepStart ==
  ASSUME TypeInv, StartInv, NEW p \in Procs, StepOn(p),
         proc'[p].at \in Starting =>
           proc[p].at \in Starting /\ records'[proc[p].task] = records[proc[p].task],
         TypeInv'
  PROVE  StartInv'
<1> SUFFICES ASSUME NEW r \in Procs, proc'[r].at \in Starting
             PROVE  /\ records'[proc'[r].task] = NoRecord
                    /\ \A q \in Procs : q # r => proc'[q].task # proc'[r].task
  BY DEF StartInv
<1>1. proc'[r].task \in Tasks
  BY DEF TypeInv, TypeOK, WellFormed, NoTaskYet, Starting, Process
<1>2. proc[r].at \in Starting /\ proc[r].task = proc'[r].task
  BY <1>1 DEF StepOn
<1>3. /\ records[proc[r].task] = NoRecord
      /\ \A q \in Procs : q # r => proc[q].task # proc[r].task
  BY <1>2 DEF StartInv
<1>4. \A q \in Procs : q # r => proc'[q].task # proc'[r].task
  BY <1>1, <1>2, <1>3 DEF StepOn
<1>5. records'[proc'[r].task] = NoRecord
  BY <1>1, <1>2, <1>3 DEF StepOn
<1> QED
  BY <1>4, <1>5

(* Only by-standers step on a task that waits in the queue, and its holder  *)
(* parks it there when it leaves it.                                        *)
LEMMA StepLine ==
  ASSUME TypeInv, LineInv, TokenInv, NEW p \in Procs, StepOn(p), NoRepeat(queue'),
         \A t \in Tasks : InQueue(t)' =>
           \/ InQueue(t)
           \/ t = proc[p].task /\ Token(proc[p]) /\ proc'[p] = Idle,
         \/ proc'[p].drop \in {proc[p].drop, NoTask}
         \/ proc'[p].drop = proc[p].task /\ ~ Bystander(proc[p]),
         Bystander(proc[p]) /\ proc'[p].task # NoTask =>
           /\ Bystander(proc'[p])
           /\ proc'[p].snap.paused => proc[p].snap.paused \/ records[proc[p].task].paused,
         proc[p].task # NoTask /\ NotYet(records[proc[p].task]) /\ ~ proc[p].snap.paused
           /\ (Bystander(proc[p]) \/ proc'[p] = Idle) => NotYet(records'[proc[p].task])
  PROVE  LineInv'
<1> SUFFICES ASSUME NEW t \in Tasks, InQueue(t)'
             PROVE  /\ NotYet(records'[t])
                    /\ \A q \in Procs :
                         /\ proc'[q].drop # t
                         /\ proc'[q].task = t => Bystander(proc'[q]) /\ ~ proc'[q].snap.paused
  BY DEF LineInv, NoRepeat
<1>1. CASE InQueue(t)
  <2>2. /\ NotYet(records[t])
        /\ \A q \in Procs :
             /\ proc[q].drop # t
             /\ proc[q].task = t => Bystander(proc[q]) /\ ~ proc[q].snap.paused
    BY <1>1 DEF LineInv
  <2>3. NotYet(records'[t])
    BY <2>2 DEF StepOn
  <2>4. ASSUME NEW q \in Procs, q # p
        PROVE  /\ proc'[q].drop # t
               /\ proc'[q].task = t => Bystander(proc'[q]) /\ ~ proc'[q].snap.paused
    BY <2>2, <2>4 DEF StepOn
  <2>5. proc'[p].drop # t
    BY <2>2
  <2>6. proc'[p].task = t => Bystander(proc'[p]) /\ ~ proc'[p].snap.paused
    BY <2>2 DEF StepOn, NotYet
  <2> QED
    BY <2>3, <2>4, <2>5, <2>6
<1>2. CASE ~ InQueue(t)
  <2>1. t = proc[p].task /\ Token(proc[p]) /\ proc'[p] = Idle
    BY <1>2
  <2>2. /\ NotYet(records[t]) /\ ~ proc[p].snap.paused
        /\ \A q \in Procs :
             /\ proc[q].drop # t
             /\ q # p /\ proc[q].task = t => Bystander(proc[q]) /\ ~ proc[q].snap.paused
    BY <2>1 DEF TokenInv
  <2>3. NotYet(records'[t])
    BY <2>1, <2>2
  <2>4. proc'[p].drop # t /\ proc'[p].task # t
    BY <2>1 DEF Idle
  <2>5. ASSUME NEW q \in Procs, q # p
        PROVE  /\ proc'[q].drop # t
               /\ proc'[q].task = t => Bystander(proc'[q]) /\ ~ proc'[q].snap.paused
    BY <2>2, <2>5 DEF StepOn
  <2> QED
    BY <2>3, <2>4, <2>5
<1> QED
  BY <1>1, <1>2

(* Nobody but its holder and by-standers steps on a task with a token, and  *)
(* a token is neither made nor doubled.                                     *)
LEMMA StepToken ==
  ASSUME TypeInv, TypeInv', TokenInv, NEW p \in Procs, StepOn(p),
         \A t \in Tasks : InQueue(t)' =>
           InQueue(t) \/ (t = proc[p].task /\ Token(proc[p]) /\ ~ Token(proc'[p])),
         \/ proc'[p].drop \in {proc[p].drop, NoTask}
         \/ proc'[p].drop = proc[p].task /\ Token(proc[p]) /\ ~ Token(proc'[p]),
         Token(proc'[p]) =>
           Token(proc[p]) /\ NotYet(records'[proc[p].task]) /\ ~ proc'[p].snap.paused,
         Bystander(proc[p]) /\ proc'[p].task # NoTask =>
           /\ Bystander(proc'[p])
           /\ proc'[p].snap.paused => proc[p].snap.paused \/ records[proc[p].task].paused,
         Bystander(proc[p]) /\ NotYet(records[proc[p].task]) /\ ~ proc[p].snap.paused =>
           NotYet(records'[proc[p].task])
  PROVE  TokenInv'
<1> SUFFICES ASSUME NEW r \in Procs, Token(proc'[r])
             PROVE  /\ NotYet(records'[proc'[r].task])
                    /\ \A i \in DOMAIN queue' : queue'[i] # proc'[r].task
                    /\ ~ proc'[r].snap.paused
                    /\ \A q \in Procs :
                         /\ proc'[q].drop # proc'[r].task
                         /\ q # r /\ proc'[q].task = proc'[r].task
                              => Bystander(proc'[q]) /\ ~ proc'[q].snap.paused
  BY DEF TokenInv, InQueue
<1> DEFINE t == proc'[r].task
<1>1. t \in Tasks
  BY DEF TypeInv, TypeOK, WellFormed, NoTaskYet, Starting, Token, Process, Writing
<1>2. Token(proc[r]) /\ proc[r].task = t
  BY <1>1 DEF StepOn
<1>3. /\ NotYet(records[t]) /\ ~ InQueue(t) /\ ~ proc[r].snap.paused
      /\ \A q \in Procs :
           /\ proc[q].drop # t
           /\ q # r /\ proc[q].task = t => Bystander(proc[q]) /\ ~ proc[q].snap.paused
  BY <1>2 DEF TokenInv
<1> HIDE DEF t
<1>4. r # p /\ proc[p].task = t => Bystander(proc[p]) /\ ~ proc[p].snap.paused /\ ~ Token(proc[p])
  BY <1>3 DEF TypeInv, TypeOK, WellFormed, Writing, Bystander, Token, Starting
<1>5. NotYet(records'[t])
  BY <1>1, <1>2, <1>3, <1>4 DEF StepOn, t
<1>6. \A i \in DOMAIN queue' : queue'[i] # t
  BY <1>1, <1>2, <1>3, <1>4 DEF InQueue
<1>7. ~ proc'[r].snap.paused
  BY <1>3 DEF StepOn
<1>8. ASSUME NEW q \in Procs PROVE proc'[q].drop # t
  BY <1>1, <1>2, <1>3, <1>4 DEF StepOn
<1>9. ASSUME NEW q \in Procs, q # r, proc'[q].task = t
      PROVE  Bystander(proc'[q]) /\ ~ proc'[q].snap.paused
  <2>1. CASE q # p
    BY <1>3, <1>9, <2>1 DEF StepOn
  <2>2. CASE q = p
    BY <1>1, <1>3, <1>4, <1>9, <2>2 DEF StepOn, NotYet
  <2> QED
    BY <2>1, <2>2
<1> QED
  BY <1>5, <1>6, <1>7, <1>8, <1>9 DEF t

(* The kind of a task never changes.                                        *)
LEMMA StepKind ==
  ASSUME TypeInv, KindInv, NEW p \in Procs, StepOn(p),
         proc[p].task # NoTask =>
           records'[proc[p].task].kind \in {records[proc[p].task].kind, proc[p].kind,
                                            proc[p].snap.kind, "none"},
         proc'[p].task # NoTask =>
           /\ proc'[p].kind \in {proc[p].kind, records[proc[p].task].kind, "none"}
           /\ proc'[p].snap.kind \in {proc[p].snap.kind, records[proc[p].task].kind, "none"}
  PROVE  KindInv'
<1> SUFFICES ASSUME NEW t \in Tasks PROVE \E k \in Kinds : Kinded(t, k)'
  BY DEF KindInv
<1>1. PICK k \in Kinds : Kinded(t, k)
  BY DEF KindInv
<1>2. t # NoTask
  OBVIOUS
<1>3. records'[t].kind \in {k, "none"}
  BY <1>1, <1>2 DEF Kinded, StepOn
<1>4. ASSUME NEW q \in Procs, proc'[q].task = t
      PROVE  proc'[q].kind \in {k, "none"} /\ proc'[q].snap.kind \in {k, "none"}
  BY <1>1, <1>2, <1>4 DEF Kinded, StepOn
<1> QED
  BY <1>3, <1>4 DEF Kinded

(* What carries the upload of a task to its job: nothing begins to wait for *)
(* an upload that is gone, and no upload is taken from what waits for it.   *)
Waits(t) == \/ InQueue(t) \/ records[t].status \in {"QUEUED", "PENDING"}
            \/ \E p \in Procs : proc[p].task = t /\ Early(proc[p])
(* A step that loses no upload a task waits for keeps the invariant. *)
LEMMA StepUpload ==
  ASSUME TypeInv, UploadInv, NEW p \in Procs, StepOn(p), Lost \subseteq Lost',
         \A t \in Tasks : InQueue(t)' => Waits(t),
         \A t \in Tasks : Waits(t) /\ t \in uploads => t \in uploads' \cup Lost',
         proc[p].task # NoTask =>
           /\ records'[proc[p].task].status \in {"QUEUED", "PENDING"} => Waits(proc[p].task)
           /\ records'[proc[p].task].kind = "generate" => Generates(proc[p].task),
         proc'[p].task # NoTask =>
           /\ Early(proc'[p]) => \/ Early(proc[p]) \/ proc[p].task \in uploads'
                                 \/ ~ Generates(proc[p].task)
           /\ "generate" \in {proc'[p].kind, proc'[p].snap.kind} => Generates(proc[p].task)
  PROVE  UploadInv'
<1> SUFFICES ASSUME NEW t \in Tasks \ Lost', Generates(t)',
                    \/ InQueue(t)' \/ records'[t].status \in {"QUEUED", "PENDING"}
                    \/ \E q \in Procs : proc'[q].task = t /\ Early(proc'[q])
             PROVE  t \in uploads'
  BY DEF UploadInv
<1>1. t # NoTask /\ t \in Tasks \ Lost
  OBVIOUS
<1>2. Generates(t)
  BY <1>1 DEF Generates, StepOn
<1>3. Waits(t) \/ t \in uploads'
  <2>1. CASE InQueue(t)'
    BY <2>1
  <2>2. CASE records'[t].status \in {"QUEUED", "PENDING"}
    BY <1>1, <2>2 DEF StepOn, Waits
  <2>3. CASE \E q \in Procs : proc'[q].task = t /\ Early(proc'[q])
    BY <1>1, <1>2, <2>3 DEF StepOn, Waits
  <2> QED
    BY <2>1, <2>2, <2>3
<1> QED
  BY <1>1, <1>2, <1>3 DEF UploadInv, Waits

(* A task that was begun does not wait again.                               *)
Begun(s) == s.at \in {"work", "fields", "discard"}
(* A step that makes no begun task wait again keeps the invariant. *)
LEMMA StepBegun ==
  ASSUME TypeInv, BegunInv, NEW p \in Procs, StepOn(p),
         Begun(proc'[p]) => records'[proc[p].task].status \notin {"QUEUED", "PENDING"},
         proc'[p].drop # NoTask /\ proc'[p].drop # proc[p].drop =>
           proc'[p].drop \in Tasks /\ records'[proc'[p].drop].status \notin {"QUEUED", "PENDING"},
         proc[p].task # NoTask /\ records'[proc[p].task].status \in {"QUEUED", "PENDING"} =>
           \/ records[proc[p].task].status \in {"QUEUED", "PENDING"}
           \/ /\ \A q \in Procs : q # p /\ proc[q].task = proc[p].task => ~ Begun(proc[q])
              /\ \A q \in Procs : proc[q].drop # proc[p].task,
         TypeInv'
  PROVE  BegunInv'
<1> SUFFICES ASSUME NEW q \in Procs
             PROVE  /\ Begun(proc'[q]) => records'[proc'[q].task].status \notin {"QUEUED", "PENDING"}
                    /\ proc'[q].drop # NoTask
                         => records'[proc'[q].drop].status \notin {"QUEUED", "PENDING"}
  BY DEF BegunInv, Begun
<1>1. /\ Begun(proc[q]) => /\ proc[q].task \in Tasks
                          /\ records[proc[q].task].status \notin {"QUEUED", "PENDING"}
      /\ Begun(proc'[q]) => proc'[q].task \in Tasks
      /\ proc[q].drop # NoTask => /\ proc[q].drop \in Tasks
                                  /\ records[proc[q].drop].status \notin {"QUEUED", "PENDING"}
  BY DEF BegunInv, Begun, TypeInv, TypeOK, WellFormed, NoTaskYet, Process
<1>2. CASE q # p
  <2>1. proc'[q] = proc[q]
    BY <1>2 DEF StepOn
  <2>2. \A t \in Tasks : t = proc[p].task \/ records'[t] = records[t]
    BY DEF StepOn
  <2> QED
    BY <1>1, <1>2, <2>1, <2>2
<1>3. CASE q = p
  <2>1. \A t \in Tasks : t = proc[p].task \/ records'[t] = records[t]
    BY DEF StepOn
  <2>2. Begun(proc'[p]) => proc'[p].task = proc[p].task
    BY <1>1, <1>3 DEF StepOn
  <2> QED
    BY <1>1, <1>3, <2>1, <2>2
<1> QED
  BY <1>2, <1>3

(* A template is complete before its task is, and is not touched after.     *)
Filled(s) == s.kind = "generate" /\ (s.at \in {"discard", "check"} \/ s.op = "COMPLETED")
(* A step that empties no template of a completed task keeps the invariant. *)
LEMMA StepTemplate ==
  ASSUME TypeInv, TemplateInv, NEW p \in Procs, StepOn(p),
         \A t \in Tasks : t # proc[p].task => templates'[t] = templates[t],
         Filled(proc'[p]) => templates'[proc[p].task] = "full",
         proc[p].task # NoTask =>
           /\ records'[proc[p].task].kind = "generate"
              /\ records'[proc[p].task].status = "COMPLETED"
                => templates'[proc[p].task] = "full"
           /\ \/ templates'[proc[p].task] \in {templates[proc[p].task], "full"}
              \/ \A q \in Procs : q # p /\ proc[q].task = proc[p].task => ~ Filled(proc[q]),
         TypeInv'
  PROVE  TemplateInv'
<1>1. CompletedHasTemplate'
  BY DEF TemplateInv, CompletedHasTemplate, StepOn
<1>2. ASSUME NEW q \in Procs, Filled(proc'[q]) PROVE templates'[proc'[q].task] = "full"
  <2>1. proc'[q].task \in Tasks
    BY <1>2 DEF Filled, TypeInv, TypeOK, WellFormed, NoTaskYet, Writing, Process
  <2>2. Filled(proc[q]) => templates[proc[q].task] = "full"
    BY DEF TemplateInv, Filled
  <2>3. CASE q # p
    <3>1. proc'[q] = proc[q] /\ Filled(proc[q])
      BY <1>2, <2>3 DEF StepOn
    <3> QED
      BY <1>2, <2>1, <2>2, <2>3, <3>1
  <2>4. CASE q = p
    BY <1>2, <2>1, <2>4 DEF StepOn
  <2> QED
    BY <2>3, <2>4
<1> QED
  BY <1>1, <1>2 DEF TemplateInv, Filled

(* A pause is not undone by a copy of the record that is older, but for one *)
(* of a cancel, whose flag is up by then.                                   *)
LEMMA StepPause ==
  ASSUME TypeInv, PauseInv, NEW p \in Procs, StepOn(p),
         \A t \in Tasks : Free(t)' => Free(t),
         \A t \in Tasks : t = proc[p].task =>
           /\ records'[t].status = "AWAITING_INPUT" =>
                records'[t].paused /\ records'[t].kind = "dry_run"
           /\ Free(t)' =>
                /\ records[t].paused => records'[t].paused
                /\ records'[t].paused =>
                     \/ records[t].paused
                     \/ \A q \in Procs : q # p /\ proc[q].task = t /\ proc[q].at = "store"
                          => proc[q].snap.paused \/ Bystander(proc[q]),
         \A t \in Tasks : t = proc'[p].task /\ Free(t)' =>
           /\ ~ (proc'[p].at = "store" /\ proc'[p].op = "CANCELLED")
           /\ proc'[p].at = "store" /\ records'[t].paused => proc'[p].snap.paused
           /\ proc'[p].snap.paused => records'[t].paused
  PROVE  PauseInv'
<1> SUFFICES ASSUME NEW t \in Tasks
             PROVE  /\ records'[t].status = "AWAITING_INPUT" =>
                         records'[t].paused /\ records'[t].kind = "dry_run"
                    /\ Free(t)' => \A q \in Procs : proc'[q].task = t =>
                         /\ ~ (proc'[q].at = "store" /\ proc'[q].op = "CANCELLED")
                         /\ proc'[q].at = "store" /\ records'[t].paused => proc'[q].snap.paused
                         /\ proc'[q].snap.paused => records'[t].paused
  BY DEF PauseInv
<1>1. records'[t].status = "AWAITING_INPUT" => records'[t].paused /\ records'[t].kind = "dry_run"
  BY DEF PauseInv, StepOn
<1>2. ASSUME NEW q \in Procs, Free(t)', proc'[q].task = t
      PROVE  /\ ~ (proc'[q].at = "store" /\ proc'[q].op = "CANCELLED")
             /\ proc'[q].at = "store" /\ records'[t].paused => proc'[q].snap.paused
             /\ proc'[q].snap.paused => records'[t].paused
  <2>1. CASE q = p
    BY <1>2, <2>1
  <2>2. CASE q # p
    <3>1. proc'[q] = proc[q] /\ Free(t)
      BY <1>2, <2>2 DEF StepOn
    <3>2. /\ ~ (proc[q].at = "store" /\ proc[q].op = "CANCELLED")
          /\ proc[q].at = "store" /\ records[t].paused => proc[q].snap.paused
          /\ proc[q].snap.paused => records[t].paused
      BY <1>2, <3>1 DEF PauseInv
    <3>3. CASE t # proc[p].task
      <4>1. records'[t] = records[t]
        BY <3>3 DEF StepOn
      <4> QED
        BY <3>1, <3>2, <4>1
    <3>4. CASE t = proc[p].task
      <4>1. ~ (proc[q].at = "store" /\ Bystander(proc[q]))
        BY <3>2 DEF Bystander
      <4> QED
        BY <1>2, <2>2, <3>1, <3>2, <3>4, <4>1
    <3> QED
      BY <3>3, <3>4
  <2> QED
    BY <2>1, <2>2
<1> QED
  BY <1>1, <1>2

(* Nor are the picks, once a resume is under way.                           *)
LEMMA StepResume ==
  ASSUME TypeInv, ResumeInv, NEW p \in Procs, StepOn(p),
         \A t \in Tasks : Free(t)' => Free(t),
         \A t \in Tasks : t = proc[p].task /\ Free(t)' =>
           /\ records[t].paused => records'[t].paused
           /\ records'[t].paused /\ ~ records'[t].picks =>
                \/ records[t].paused /\ ~ records[t].picks
                \/ \A q \in Procs : q # p /\ proc[q].task = t => ~ Finishes(proc[q]),
         \A t \in Tasks : t = proc'[p].task /\ Free(t)' =>
           /\ Resumes(proc'[p]) => records'[t].paused
           /\ Finishes(proc'[p]) =>
                /\ records'[t].paused => records'[t].picks
                /\ proc'[p].at = "store" /\ proc'[p].snap.paused => proc'[p].snap.picks
  PROVE  ResumeInv'
<1> SUFFICES ASSUME NEW t \in Tasks, Free(t)', NEW q \in Procs, proc'[q].task = t
             PROVE  /\ Resumes(proc'[q]) => records'[t].paused
                    /\ Finishes(proc'[q]) =>
                         /\ records'[t].paused => records'[t].picks
                         /\ proc'[q].at = "store" /\ proc'[q].snap.paused => proc'[q].snap.picks
  BY DEF ResumeInv
<1>1. CASE q = p
  BY <1>1
<1>2. CASE q # p
  <2>1. proc'[q] = proc[q] /\ Free(t)
    BY <1>2 DEF StepOn
  <2>2. /\ Resumes(proc[q]) => records[t].paused
        /\ Finishes(proc[q]) =>
             /\ records[t].paused => records[t].picks
             /\ proc[q].at = "store" /\ proc[q].snap.paused => proc[q].snap.picks
    BY <2>1 DEF ResumeInv
  <2>3. CASE t # proc[p].task
    <3>1. records'[t] = records[t]
      BY <2>3 DEF StepOn
    <3> QED
      BY <2>1, <2>2, <3>1
  <2>4. CASE t = proc[p].task
    <3>1. records[t].paused /\ ~ records[t].picks => ~ Finishes(proc[q])
      BY <2>2
    <3> QED
      BY <1>2, <2>1, <2>2, <2>4, <3>1
  <2> QED
    BY <2>3, <2>4
<1> QED
  BY <1>1, <1>2

-----------------------------------------------------------------------------
(* Most steps leave the records alone and give their process no new role.   *)
Calm(p) ==
  LET o == proc[p]
      n == proc'[p]
  IN  /\ records' = records
      /\ \A q \in Procs : q # p => proc'[q] = proc[q]
      /\ n.task \in {o.task, NoTask}
      /\ \/ n.drop \in {o.drop, NoTask}
         \/ n.drop = o.task /\ Token(o) /\ ~ Token(n) /\ Begun(o)
      /\ n.task # NoTask =>
           /\ n.kind \in {o.kind, records[o.task].kind, "none"} /\ n.snap \in {o.snap, NoRecord}
           /\ n.at \in Starting => o.at \in Starting
           /\ Token(n) => Token(o)
           /\ Bystander(o) => Bystander(n)
           /\ Early(n) => \/ Early(o) \/ o.task \in uploads'
                          \/ o.at \in Starting /\ o.kind # "generate"
           /\ Begun(n) => Begun(o) \/ ~ Exists(o.task)
           /\ Filled(n) => Filled(o) \/ templates'[o.task] = "full"
           /\ n.at = "store" => \/ o.at = "store" /\ n.snap = o.snap /\ n.op = o.op
                                \/ o.task \in flags'
           /\ Resumes(n) => Resumes(o)
           /\ Finishes(n) => \/ Finishes(o)
                             \/ n.at # "store" /\ (Token(o) \/ ~ records[o.task].paused)

(* What else it may do: park its task, take ids out of the queue, drop an   *)
(* upload that nothing waits for, fill its template, raise flags.           *)
Around(p) ==
  /\ NoRepeat(queue')
  /\ \A t \in Tasks : InQueue(t)' =>
       \/ InQueue(t)
       \/ t = proc[p].task /\ proc[p].at = "park" /\ proc'[p] = Idle
  /\ \A t \in Tasks : Waits(t) /\ t \in uploads => t \in uploads' \cup Lost'
  /\ \A t \in Tasks : templates'[t] # templates[t] =>
       /\ t = proc[p].task
       /\ templates'[t] = "full" \/ (Token(proc[p]) /\ ~ Filled(proc'[p]))
  /\ dismissed \subseteq dismissed' /\ expired' = expired
  /\ \A t \in flags : t \in flags' \cup dismissed'

(* A copy of a record that is gone says nothing.                            *)
LEMMA NoneIsNoRecord ==
  ASSUME NEW rec \in Records, rec.status = "NONE"
  PROVE  rec = NoRecord
BY DEF Records, Active, Working, Terminal

(* The roles exclude each other.                                            *)
LEMMA Roles ==
  ASSUME NEW s \in Process, WellFormed(s)
  PROVE  /\ Bystander(s) => ~ Token(s) /\ ~ Early(s) /\ ~ Begun(s) /\ ~ Filled(s)
                            /\ ~ Finishes(s) /\ ~ Resumes(s)
         /\ Early(s) => Token(s)
         /\ Token(s) \/ Bystander(s) \/ Begun(s) \/ Filled(s) \/ Resumes(s) \/ Finishes(s)
              => s.task \in Tasks
BY DEF Bystander, Token, Early, Begun, Filled, Finishes, Resumes, WellFormed, Writing, Starting,
       NoTaskYet, Process

(* A calm step that issues no id keeps the invariant. *)
LEMMA CalmKeeps ==
  ASSUME TypeInv, TypeInv', RunInv, NEW p \in Procs, Calm(p), Around(p)
  PROVE  /\ issued' = issued => NewInv'
         /\ NewInv' => RunInv'
<1> DEFINE o == proc[p]
           n == proc'[p]
<1>0. StepOn(p)
  BY DEF StepOn, Calm
<1>r. NewInv /\ StartInv /\ LineInv /\ TokenInv /\ KindInv /\ UploadInv /\ BegunInv /\ TemplateInv
      /\ PauseInv /\ ResumeInv
  BY DEF RunInv
<1>t. /\ o.task \in Tasks \cup {NoTask} /\ n.task \in Tasks \cup {NoTask}
      /\ o.drop \in Tasks \cup {NoTask} /\ n.drop \in Tasks \cup {NoTask}
      /\ WellFormed(o) /\ WellFormed(n) /\ o.snap \in Records /\ o \in Process /\ n \in Process
  BY DEF TypeInv, TypeOK, Process
<1>f. ~ NoRecord.paused /\ NoRecord.kind = "none" /\ NoRecord.status = "NONE"
  BY DEF NoRecord
<1>p. o.at = "park" => Token(o) /\ Early(o)
  BY DEF Token, Early
<1>q. \A t \in Tasks : InQueue(t)' =>
        InQueue(t) \/ (t = o.task /\ Token(o) /\ Early(o) /\ n = Idle /\ ~ Token(n))
  <2>1. n = Idle => ~ Token(n)
    BY DEF Idle, Token, Starting
  <2> QED
    BY <1>p, <2>1 DEF Around
<1>1. ASSUME issued' = issued PROVE NewInv'
  <2>1. n.drop \in {o.drop, o.task, NoTask}
    BY DEF Calm
  <2> QED
    BY <1>0, <1>1, <1>q, <1>r, <2>1, StepNew
<1>2. StartInv'
  BY <1>0, <1>t, <1>r, StepStart DEF Calm, WellFormed, NoTaskYet, Starting
<1>3. LineInv'
  <2>1. \/ n.drop \in {o.drop, NoTask}
        \/ n.drop = o.task /\ ~ Bystander(o)
    BY <1>t, Roles DEF Calm
  <2>2. Bystander(o) /\ n.task # NoTask =>
          Bystander(n) /\ (n.snap.paused => o.snap.paused \/ records[o.task].paused)
    BY <1>f DEF Calm
  <2>3. NotYet(records[o.task]) => NotYet(records'[o.task])
    BY DEF Calm
  <2>4. NoRepeat(queue')
    BY DEF Around
  <2> QED
    BY <1>0, <1>r, <1>q, <2>1, <2>2, <2>3, <2>4, StepLine
<1>4. TokenInv'
  <2>1. Token(n) => n.task # NoTask
    BY <1>t, Roles
  <2>2. Token(n) => Token(o) /\ NotYet(records'[o.task]) /\ ~ n.snap.paused
    BY <1>r, <1>f, <2>1 DEF TokenInv, Calm
  <2>3. Bystander(o) /\ n.task # NoTask =>
          Bystander(n) /\ (n.snap.paused => o.snap.paused \/ records[o.task].paused)
    BY <1>f DEF Calm
  <2>4. \/ n.drop \in {o.drop, NoTask}
        \/ n.drop = o.task /\ Token(o) /\ ~ Token(n)
    BY DEF Calm
  <2>5. \A t \in Tasks : InQueue(t)' => InQueue(t) \/ (t = o.task /\ Token(o) /\ ~ Token(n))
    BY <1>q
  <2>6. NotYet(records[o.task]) => NotYet(records'[o.task])
    BY DEF Calm
  <2> QED
    BY <1>0, <1>r, <2>2, <2>3, <2>4, <2>5, <2>6, StepToken
<1>5. KindInv'
  BY <1>0, <1>r, <1>f, StepKind DEF Calm
<1>6. UploadInv'
  <2>1. \A t \in Tasks : InQueue(t)' => Waits(t)
    BY <1>q DEF Waits
  <2>2. o.task # NoTask =>
          /\ records'[o.task].status \in {"QUEUED", "PENDING"} => Waits(o.task)
          /\ records'[o.task].kind = "generate" => Generates(o.task)
    BY DEF Calm, Waits, Generates
  <2>3. n.task # NoTask /\ "generate" \in {n.kind, n.snap.kind} => Generates(o.task)
    BY <1>f DEF Calm, Generates
  <2>4. o.at \in Starting /\ o.kind # "generate" => ~ Generates(o.task)
    <3>1. o.at \in Starting => o.snap = NoRecord /\ o.task # NoTask
      BY <1>t, NoneIsNoRecord DEF WellFormed, Starting, NoTaskYet
    <3> QED
      BY <1>r, <1>f, <3>1 DEF StartInv, Generates
  <2>5. n.task # NoTask /\ Early(n) =>
          Early(o) \/ o.task \in uploads' \/ ~ Generates(o.task)
    BY <2>4 DEF Calm
  <2>6. /\ Lost \subseteq Lost'
        /\ \A t \in Tasks : Waits(t) /\ t \in uploads => t \in uploads' \cup Lost'
    BY DEF Around, Lost
  <2> QED
    BY <1>0, <1>r, <2>1, <2>2, <2>3, <2>5, <2>6, StepUpload
<1>7. BegunInv'
  <2>1. Begun(n) => n.task # NoTask
    BY <1>t, Roles
  <2>2. Begun(n) => records'[o.task].status \notin {"QUEUED", "PENDING"}
    BY <1>r, <2>1 DEF BegunInv, Begun, Calm, Exists
  <2>3. n.drop # NoTask /\ n.drop # o.drop =>
          n.drop \in Tasks /\ records'[n.drop].status \notin {"QUEUED", "PENDING"}
    BY <1>r, <1>t DEF BegunInv, Begun, Calm
  <2> QED
    BY <1>0, <1>r, <2>2, <2>3, StepBegun DEF Calm
<1>8. TemplateInv'
  <2>1. Filled(n) => n.task # NoTask
    BY <1>t, Roles
  <2>2. o.task # NoTask /\ Token(o) =>
          /\ records[o.task].status # "COMPLETED"
          /\ \A q \in Procs : q # p /\ proc[q].task = o.task => ~ Filled(proc[q])
    BY <1>r, Roles DEF TokenInv, NotYet, TypeInv, TypeOK
  <2>3. Filled(n) => templates'[o.task] = "full"
    <3>1. ASSUME Filled(n), o.task \in Tasks PROVE templates'[o.task] = "full"
      <4>1. Filled(o) \/ templates'[o.task] = "full"
        BY <2>1, <3>1 DEF Calm
      <4>2. Filled(o) => templates[o.task] = "full"
        BY <1>r DEF TemplateInv, Filled
      <4>3. templates'[o.task] = templates[o.task] \/ templates'[o.task] = "full"
        BY <3>1 DEF Around
      <4> QED
        BY <4>1, <4>2, <4>3
    <3> QED
      BY <1>t, <2>1, <3>1 DEF Calm
  <2>4. o.task # NoTask =>
          /\ records'[o.task].kind = "generate" /\ records'[o.task].status = "COMPLETED"
               => templates'[o.task] = "full"
          /\ \/ templates'[o.task] \in {templates[o.task], "full"}
             \/ \A q \in Procs : q # p /\ proc[q].task = o.task => ~ Filled(proc[q])
    <3>1. o.task \in Tasks =>
            \/ templates'[o.task] \in {templates[o.task], "full"}
            \/ Token(o)
      BY DEF Around
    <3>2. o.task \in Tasks /\ records[o.task].kind = "generate" /\ records[o.task].status = "COMPLETED"
            => templates[o.task] = "full"
      BY <1>r DEF TemplateInv, CompletedHasTemplate
    <3>3. records' = records
      BY DEF Calm
    <3> QED
      BY <1>t, <2>2, <3>1, <3>2, <3>3
  <2>5. \A t \in Tasks : t # o.task => templates'[t] = templates[t]
    BY DEF Around
  <2> QED
    BY <1>0, <1>r, <2>3, <2>4, <2>5, StepTemplate
<1>9. \A t \in Tasks : Free(t)' => Free(t)
  BY DEF Free, Around
<1>10. PauseInv'
  <2>1. \A t \in Tasks : t = o.task =>
          /\ records'[t].status = "AWAITING_INPUT" => records'[t].paused /\ records'[t].kind = "dry_run"
          /\ records'[t] = records[t]
    BY <1>r DEF PauseInv, Calm
  <2>2. ASSUME NEW t \in Tasks, t = n.task, Free(t)'
        PROVE  /\ ~ (n.at = "store" /\ n.op = "CANCELLED")
               /\ n.at = "store" /\ records'[t].paused => n.snap.paused
               /\ n.snap.paused => records'[t].paused
    <3>1. o.task = t /\ Free(t) /\ n.task # NoTask /\ t \notin flags'
      BY <1>9, <2>2 DEF Calm, Free
    <3>2. n.at = "store" => o.at = "store" /\ n.snap = o.snap /\ n.op = o.op
      BY <3>1 DEF Calm
    <3>3. n.snap \in {o.snap, NoRecord} /\ records'[t] = records[t]
      BY <3>1 DEF Calm
    <3>4. /\ ~ (o.at = "store" /\ o.op = "CANCELLED")
          /\ o.at = "store" /\ records[t].paused => o.snap.paused
          /\ o.snap.paused => records[t].paused
      BY <1>r, <3>1 DEF PauseInv
    <3> QED
      BY <1>f, <3>2, <3>3, <3>4
  <2> QED
    BY <1>0, <1>9, <1>r, <2>1, <2>2, StepPause
<1>11. ResumeInv'
  <2>1. ASSUME NEW t \in Tasks, t = n.task, Free(t)'
        PROVE  /\ Resumes(n) => records'[t].paused
               /\ Finishes(n) =>
                    /\ records'[t].paused => records'[t].picks
                    /\ n.at = "store" /\ n.snap.paused => n.snap.picks
    <3>1. o.task = t /\ Free(t) /\ n.task # NoTask /\ t \notin flags'
      BY <1>9, <2>1 DEF Calm, Free
    <3>2. Token(o) => ~ records[t].paused
      BY <1>r, <3>1 DEF TokenInv, NotYet
    <3>3. n.at = "store" => o.at = "store" /\ n.snap = o.snap
      BY <3>1 DEF Calm
    <3>4. /\ Resumes(n) => Resumes(o)
          /\ Finishes(n) => Finishes(o) \/ (n.at # "store" /\ ~ records[t].paused)
          /\ records'[t] = records[t]
      BY <3>1, <3>2 DEF Calm
    <3>5. /\ Resumes(o) => records[t].paused
          /\ Finishes(o) =>
               /\ records[t].paused => records[t].picks
               /\ o.at = "store" /\ o.snap.paused => o.snap.picks
      BY <1>r, <3>1 DEF ResumeInv
    <3> QED
      BY <3>3, <3>4, <3>5
  <2>2. \A t \in Tasks : t = o.task => records'[t] = records[t]
    BY DEF Calm
  <2> QED
    BY <1>0, <1>9, <1>r, <2>1, <2>2, StepResume
<1> QED
  BY <1>1, <1>2, <1>3, <1>4, <1>5, <1>6, <1>7, <1>8, <1>10, <1>11 DEF RunInv

-----------------------------------------------------------------------------
(* No run has begun at first. *)
LEMMA RunInit == Init => RunInv
<1> SUFFICES ASSUME Init PROVE RunInv
  OBVIOUS
<1>1. /\ records = [t \in Tasks |-> NoRecord] /\ proc = [p \in Procs |-> Idle] /\ queue = <<>>
      /\ templates = [t \in Tasks |-> "none"]
      /\ Idle.at = "idle" /\ Idle.task = NoTask /\ Idle.op = "none" /\ Idle.drop = NoTask
      /\ Idle.kind = "none" /\ Idle.snap = NoRecord
      /\ NoRecord.status = "NONE" /\ NoRecord.kind = "none" /\ ~ NoRecord.paused
  BY DEF Init, Idle, NoRecord
<1>2. \A t \in Tasks : ~ InQueue(t)
  BY <1>1 DEF InQueue
<1>3. NewInv /\ StartInv /\ LineInv
  BY <1>1, <1>2 DEF NewInv, StartInv, LineInv, Starting
<1>4. TokenInv /\ BegunInv
  BY <1>1 DEF TokenInv, Token, Starting, BegunInv
<1>5. KindInv
  BY <1>1 DEF KindInv, Kinded, Kinds
<1>6. UploadInv
  BY <1>1, <1>2 DEF UploadInv, Early, Generates
<1>7. TemplateInv
  BY <1>1 DEF TemplateInv, CompletedHasTemplate
<1>8. PauseInv /\ ResumeInv
  BY <1>1 DEF PauseInv, ResumeInv
<1> QED
  BY <1>3, <1>4, <1>5, <1>6, <1>7, <1>8 DEF RunInv

(* The steps that are calm.                                                 *)

(* Most actions are calm. *)
LEMMA CalmActions ==
  ASSUME TypeInv, NEW p \in Procs,
         \/ CountActive(p) \/ CheckQueueSize(p) \/ Stage(p) \/ RemoveFromQueue(p) \/ Park(p)
         \/ FindForDelete(p) \/ BeginRun(p) \/ FetchUpload(p) \/ Check(p) \/ BeginResume(p)
         \/ DrainCount(p) \/ DrainPeek(p) \/ Discard(p) \/ Work(p) \/ InsertFields(p)
         \/ SetCancelFlag(p) \/ Clear(p)
  PROVE  Calm(p)
<1> DEFINE o == proc[p]
<1>t. /\ o \in Process /\ WellFormed(o) /\ proc \in [Procs -> Process]
      /\ templates \in [Tasks -> {"none", "bare", "full"}]
  BY DEF TypeInv, TypeOK
<1>i. /\ Idle.at = "idle" /\ Idle.task = NoTask /\ Idle.op = "none" /\ Idle.drop = NoTask
      /\ Idle.kind = "none" /\ Idle.snap = NoRecord
  BY DEF Idle
<1>b. ASSUME NEW s, Becomes(p, s)
      PROVE  proc'[p] = s /\ \A q \in Procs : q # p => proc'[q] = proc[q]
  BY <1>t, <1>b DEF Becomes
<1>e. Ends(p).task = NoTask /\ Ends(p).drop \in {o.drop, NoTask}
  BY DEF Ends, Idle
<1> USE DEF keys

<1>1. CASE CountActive(p)
  <2>1. CASE Cardinality(ActiveTasks) >= MaxConcurrent
    <3> DEFINE s == [o EXCEPT !.at = "size"]
    <3>1. Becomes(p, s) /\ records' = records
      BY <1>1, <2>1 DEF CountActive, Moved, Settles
    <3>2. proc'[p] = s /\ \A q \in Procs : q # p => proc'[q] = proc[q]
      BY <1>b, <3>1
    <3> QED
      BY <1>t, <1>1, <2>1, <3>1, <3>2 DEF CountActive, At, Calm, Token, Bystander, Starting, Early, Begun, Filled, Resumes, Finishes, WellFormed, NoTaskYet, Writing, Process
  <2>2. CASE ~ (Cardinality(ActiveTasks) >= MaxConcurrent)
    <3> DEFINE s == [o EXCEPT !.op = "PENDING", !.at = IF o.kind = "generate" THEN "stage" ELSE "create"]
    <3>1. Becomes(p, s) /\ records' = records
      BY <1>1, <2>2 DEF CountActive, Moved, Settles
    <3>2. proc'[p] = s /\ \A q \in Procs : q # p => proc'[q] = proc[q]
      BY <1>b, <3>1
    <3> QED
      BY <1>t, <1>1, <2>2, <3>1, <3>2 DEF CountActive, At, Calm, Token, Bystander, Starting, Early, Begun, Filled, Resumes, Finishes, WellFormed, NoTaskYet, Writing, Process
  <2> QED
    BY <2>1, <2>2
<1>2. CASE CheckQueueSize(p)
  <2>1. CASE Len(queue) >= MaxQueued
    <3> DEFINE s == Idle
    <3>1. Becomes(p, s) /\ records' = records
      BY <1>2, <2>1 DEF CheckQueueSize, Settles
    <3>2. proc'[p] = s /\ \A q \in Procs : q # p => proc'[q] = proc[q]
      BY <1>b, <3>1
    <3> QED
      BY <1>i, <3>1, <3>2 DEF Calm, Idle
  <2>2. CASE ~ (Len(queue) >= MaxQueued)
    <3> DEFINE s == [o EXCEPT !.op = "QUEUED", !.at = IF o.kind = "generate" THEN "stage" ELSE "create"]
    <3>1. Becomes(p, s) /\ records' = records
      BY <1>2, <2>2 DEF CheckQueueSize, Settles
    <3>2. proc'[p] = s /\ \A q \in Procs : q # p => proc'[q] = proc[q]
      BY <1>b, <3>1
    <3> QED
      BY <1>t, <1>2, <2>2, <3>1, <3>2 DEF CheckQueueSize, At, Calm, Token, Bystander, Starting, Early, Begun, Filled, Resumes, Finishes, WellFormed, NoTaskYet, Writing, Process
  <2> QED
    BY <2>1, <2>2
<1>3. CASE Stage(p)
  <2>1. Calm(p)
    <3> DEFINE s == [o EXCEPT !.at = "create"]
    <3>1. Becomes(p, s) /\ records' = records
      BY <1>3 DEF Stage, Moved
    <3>2. proc'[p] = s /\ \A q \in Procs : q # p => proc'[q] = proc[q]
      BY <1>b, <3>1
    <3> QED
      BY <1>t, <1>3, <3>1, <3>2 DEF Stage, At, Calm, Token, Bystander, Starting, Early, Begun, Filled, Resumes, Finishes, WellFormed, NoTaskYet, Writing, Process
  <2> QED
    BY <2>1
<1>4. CASE RemoveFromQueue(p)
  <2>1. Calm(p)
    <3> DEFINE s == [o EXCEPT !.at = "fetch"]
    <3>1. Becomes(p, s) /\ records' = records
      BY <1>4 DEF RemoveFromQueue, Moved
    <3>2. proc'[p] = s /\ \A q \in Procs : q # p => proc'[q] = proc[q]
      BY <1>b, <3>1
    <3> QED
      BY <1>t, <1>4, <3>1, <3>2 DEF RemoveFromQueue, At, Calm, Token, Bystander, Starting, Early, Begun, Filled, Resumes, Finishes, WellFormed, NoTaskYet, Writing, Process
  <2> QED
    BY <2>1
<1>5. CASE Park(p)
  <2>1. Calm(p)
    <3> DEFINE s == Idle
    <3>1. Becomes(p, s) /\ records' = records
      BY <1>5 DEF Park
    <3>2. proc'[p] = s /\ \A q \in Procs : q # p => proc'[q] = proc[q]
      BY <1>b, <3>1
    <3> QED
      BY <1>i, <3>1, <3>2 DEF Calm, Idle
  <2> QED
    BY <2>1
<1>6. CASE FindForDelete(p)
  <2>1. CASE Exists(o.task)
    <3> DEFINE s == [o EXCEPT !.at = "delete"]
    <3>1. Becomes(p, s) /\ records' = records
      BY <1>6, <2>1 DEF FindForDelete, Moved
    <3>2. proc'[p] = s /\ \A q \in Procs : q # p => proc'[q] = proc[q]
      BY <1>b, <3>1
    <3> QED
      BY <1>t, <1>6, <2>1, <3>1, <3>2 DEF FindForDelete, At, Calm, Token, Bystander, Starting, Early, Begun, Filled, Resumes, Finishes, WellFormed, NoTaskYet, Writing, Process
  <2>2. CASE ~ Exists(o.task)
    <3> DEFINE s == Idle
    <3>1. Becomes(p, s) /\ records' = records
      BY <1>6, <2>2 DEF FindForDelete, Moved
    <3>2. proc'[p] = s /\ \A q \in Procs : q # p => proc'[q] = proc[q]
      BY <1>b, <3>1
    <3> QED
      BY <1>i, <3>1, <3>2 DEF Calm, Idle
  <2> QED
    BY <2>1, <2>2
<1>7. CASE BeginRun(p)
  <2>1. CASE ~ Exists(o.task) \/ o.task \in flags
    <3> DEFINE s == Idle
    <3>1. Becomes(p, s) /\ records' = records
      BY <1>7, <2>1 DEF BeginRun, Moved, Writes
    <3>2. proc'[p] = s /\ \A q \in Procs : q # p => proc'[q] = proc[q]
      BY <1>b, <3>1
    <3> QED
      BY <1>i, <3>1, <3>2 DEF Calm, Idle
  <2>2. CASE ~ (~ Exists(o.task) \/ o.task \in flags) /\ o.kind = "generate"
    <3> DEFINE s == [o EXCEPT !.at = "upload"]
    <3>1. Becomes(p, s) /\ records' = records
      BY <1>7, <2>2 DEF BeginRun, Moved, Writes
    <3>2. proc'[p] = s /\ \A q \in Procs : q # p => proc'[q] = proc[q]
      BY <1>b, <3>1
    <3> QED
      BY <1>t, <1>7, <2>2, <3>1, <3>2 DEF BeginRun, At, Calm, Token, Bystander, Starting, Early, Begun, Filled, Resumes, Finishes, WellFormed, NoTaskYet, Writing, Process
  <2>3. CASE ~ (~ Exists(o.task) \/ o.task \in flags) /\ o.kind # "generate"
    <3> DEFINE s == [o EXCEPT !.at = "fetch", !.op = "RUNNING"]
    <3>1. Becomes(p, s) /\ records' = records
      BY <1>7, <2>3 DEF BeginRun, Moved, Writes
    <3>2. proc'[p] = s /\ \A q \in Procs : q # p => proc'[q] = proc[q]
      BY <1>b, <3>1
    <3> QED
      BY <1>t, <1>7, <2>3, <3>1, <3>2 DEF BeginRun, At, Calm, Token, Bystander, Starting, Early, Begun, Filled, Resumes, Finishes, WellFormed, NoTaskYet, Writing, Process
  <2> QED
    BY <2>1, <2>2, <2>3
<1>8. CASE FetchUpload(p)
  <2>1. Calm(p)
    <3> DEFINE s == [o EXCEPT !.at = "fetch", !.op = IF o.task \in uploads THEN "RUNNING" ELSE "FAILED"]
    <3>1. Becomes(p, s) /\ records' = records
      BY <1>8 DEF FetchUpload, Writes
    <3>2. proc'[p] = s /\ \A q \in Procs : q # p => proc'[q] = proc[q]
      BY <1>b, <3>1
    <3> QED
      BY <1>t, <1>8, <3>1, <3>2 DEF FetchUpload, At, Calm, Token, Bystander, Starting, Early, Begun, Filled, Resumes, Finishes, WellFormed, NoTaskYet, Writing, Process
  <2> QED
    BY <2>1
<1>9. CASE Check(p)
  <2>1. CASE o.task \in flags
    <3> DEFINE s == [Idle EXCEPT !.at = "drain"]
    <3>1. Becomes(p, s) /\ records' = records
      BY <1>9, <2>1 DEF Check, Writes
    <3>2. proc'[p] = s /\ \A q \in Procs : q # p => proc'[q] = proc[q]
      BY <1>b, <3>1
    <3> QED
      BY <1>i, <3>1, <3>2 DEF Calm, Idle
  <2>2. CASE o.task \notin flags
    <3> DEFINE s == [o EXCEPT !.at = "fetch", !.op = IF At(p, "check") THEN "COMPLETED" ELSE "AWAITING_INPUT"]
    <3>1. Becomes(p, s) /\ records' = records
      BY <1>9, <2>2 DEF Check, Writes
    <3>2. proc'[p] = s /\ \A q \in Procs : q # p => proc'[q] = proc[q]
      BY <1>b, <3>1
    <3> QED
      BY <1>t, <1>9, <2>2, <3>1, <3>2 DEF Check, At, Calm, Token, Bystander, Starting, Early, Begun, Filled, Resumes, Finishes, WellFormed, NoTaskYet, Writing, Process
  <2> QED
    BY <2>1, <2>2
<1>10. CASE BeginResume(p)
  <2>1. CASE records[o.task].status = "NONE" \/ o.task \in flags
    <3> DEFINE s == Idle
    <3>1. Becomes(p, s) /\ records' = records
      BY <1>10, <2>1 DEF BeginResume, Moved, Writes
    <3>2. proc'[p] = s /\ \A q \in Procs : q # p => proc'[q] = proc[q]
      BY <1>b, <3>1
    <3> QED
      BY <1>i, <3>1, <3>2 DEF Calm, Idle
  <2>2. CASE ~ (records[o.task].status = "NONE" \/ o.task \in flags) /\ records[o.task].picks /\ records[o.task].paused
    <3> DEFINE s == [o EXCEPT !.at = "work_resume"]
    <3>1. Becomes(p, s) /\ records' = records
      BY <1>10, <2>2 DEF BeginResume, Moved, Writes
    <3>2. proc'[p] = s /\ \A q \in Procs : q # p => proc'[q] = proc[q]
      BY <1>b, <3>1
    <3> QED
      BY <1>t, <1>10, <2>2, <3>1, <3>2 DEF BeginResume, At, Calm, Token, Bystander, Starting, Early, Begun, Filled, Resumes, Finishes, WellFormed, NoTaskYet, Writing, Process
  <2>3. CASE ~ (records[o.task].status = "NONE" \/ o.task \in flags) /\ ~ (records[o.task].picks /\ records[o.task].paused)
    <3> DEFINE s == [o EXCEPT !.at = "fetch", !.op = "FAILED"]
    <3>1. Becomes(p, s) /\ records' = records
      BY <1>10, <2>3 DEF BeginResume, Moved, Writes
    <3>2. proc'[p] = s /\ \A q \in Procs : q # p => proc'[q] = proc[q]
      BY <1>b, <3>1
    <3> QED
      BY <1>t, <1>10, <2>3, <3>1, <3>2 DEF BeginResume, At, Calm, Token, Bystander, Starting, Early, Begun, Filled, Resumes, Finishes, WellFormed, NoTaskYet, Writing, Process
  <2> QED
    BY <2>1, <2>2, <2>3
<1>11. CASE DrainCount(p)
  <2>1. CASE Cardinality(ActiveTasks) >= MaxConcurrent
    <3> DEFINE s == Ends(p)
    <3>1. Becomes(p, s) /\ records' = records
      BY <1>11, <2>1 DEF DrainCount, Moved
    <3>2. proc'[p] = s /\ \A q \in Procs : q # p => proc'[q] = proc[q]
      BY <1>b, <3>1
    <3> QED
      BY <1>e, <3>1, <3>2 DEF Calm
  <2>2. CASE ~ (Cardinality(ActiveTasks) >= MaxConcurrent)
    <3> DEFINE s == [o EXCEPT !.at = "pop"]
    <3>1. Becomes(p, s) /\ records' = records
      BY <1>11, <2>2 DEF DrainCount, Moved
    <3>2. proc'[p] = s /\ \A q \in Procs : q # p => proc'[q] = proc[q]
      BY <1>b, <3>1
    <3> QED
      BY <1>t, <1>11, <2>2, <3>1, <3>2 DEF DrainCount, At, Calm, Token, Bystander, Starting, Early, Begun, Filled, Resumes, Finishes, WellFormed, NoTaskYet, Writing, Process
  <2> QED
    BY <2>1, <2>2
<1>12. CASE DrainPeek(p)
  <2>1. CASE records[o.task].status = "NONE"
    <3> DEFINE s == Ends(p)
    <3>1. Becomes(p, s) /\ records' = records
      BY <1>12, <2>1 DEF DrainPeek, Writes
    <3>2. proc'[p] = s /\ \A q \in Procs : q # p => proc'[q] = proc[q]
      BY <1>b, <3>1
    <3> QED
      BY <1>e, <3>1, <3>2 DEF Calm
  <2>2. CASE records[o.task].status # "NONE"
    <3> DEFINE s == [o EXCEPT !.at = "fetch", !.op = "PENDING", !.kind = records[o.task].kind]
    <3>1. Becomes(p, s) /\ records' = records
      BY <1>12, <2>2 DEF DrainPeek, Writes
    <3>2. proc'[p] = s /\ \A q \in Procs : q # p => proc'[q] = proc[q]
      BY <1>b, <3>1
    <3> QED
      BY <1>t, <1>12, <2>2, <3>1, <3>2 DEF DrainPeek, At, Calm, Token, Bystander, Starting, Early, Begun, Filled, Resumes, Finishes, WellFormed, NoTaskYet, Writing, Process
  <2> QED
    BY <2>1, <2>2
<1>13. CASE Discard(p)
  <2>1. CASE At(p, "discard")
    <3> DEFINE s == [o EXCEPT !.at = "check"]
    <3>1. Becomes(p, s) /\ records' = records
      BY <1>13, <2>1 DEF Discard, Moved, At
    <3>2. proc'[p] = s /\ \A q \in Procs : q # p => proc'[q] = proc[q]
      BY <1>b, <3>1
    <3> QED
      BY <1>t, <1>13, <2>1, <3>1, <3>2 DEF Discard, At, Calm, Token, Bystander, Starting, Early, Begun, Filled, Resumes, Finishes, WellFormed, NoTaskYet, Writing, Process
  <2>2. CASE At(p, "finally")
    <3> DEFINE s == Idle
    <3>1. Becomes(p, s) /\ records' = records
      BY <1>13, <2>2 DEF Discard, Moved, At
    <3>2. proc'[p] = s /\ \A q \in Procs : q # p => proc'[q] = proc[q]
      BY <1>b, <3>1
    <3> QED
      BY <1>i, <3>1, <3>2 DEF Calm, Idle
  <2> QED
    BY <1>13, <2>1, <2>2 DEF Discard
<1>14. CASE Work(p)
  <2>1. CASE Raises(p)
    <3> DEFINE s == [o EXCEPT !.at = "fetch", !.op = "FAILED", !.drop = IF o.kind = "generate" THEN o.task ELSE NoTask]
    <3>1. Becomes(p, s) /\ records' = records
      BY <1>14, <2>1 DEF Work, Moved, Raises, Writes, At
    <3>2. proc'[p] = s /\ \A q \in Procs : q # p => proc'[q] = proc[q]
      BY <1>b, <3>1
    <3> QED
      BY <1>t, <1>14, <2>1, <3>1, <3>2 DEF Work, At, Calm, Token, Bystander, Starting, Early, Begun, Filled, Resumes, Finishes, WellFormed, NoTaskYet, Writing, Process
  <2>2. CASE o.kind = "generate" /\ Becomes(p, Moved(p, "fields"))
    <3> DEFINE s == [o EXCEPT !.at = "fields"]
    <3>1. Becomes(p, s) /\ records' = records
      BY <1>14, <2>2 DEF Work, Moved, Raises, Writes, At
    <3>2. proc'[p] = s /\ \A q \in Procs : q # p => proc'[q] = proc[q]
      BY <1>b, <3>1
    <3> QED
      BY <1>t, <1>14, <2>2, <3>1, <3>2 DEF Work, At, Calm, Token, Bystander, Starting, Early, Begun, Filled, Resumes, Finishes, WellFormed, NoTaskYet, Writing, Process
  <2>3. CASE o.kind # "generate" /\ Becomes(p, Moved(p, "check"))
    <3> DEFINE s == [o EXCEPT !.at = "check"]
    <3>1. Becomes(p, s) /\ records' = records
      BY <1>14, <2>3 DEF Work, Moved, Raises, Writes, At
    <3>2. proc'[p] = s /\ \A q \in Procs : q # p => proc'[q] = proc[q]
      BY <1>b, <3>1
    <3> QED
      BY <1>t, <1>14, <2>3, <3>1, <3>2 DEF Work, At, Calm, Token, Bystander, Starting, Early, Begun, Filled, Resumes, Finishes, WellFormed, NoTaskYet, Writing, Process
  <2>4. CASE o.kind = "dry_run" /\ At(p, "work") /\ Becomes(p, Moved(p, "check_paused"))
    <3> DEFINE s == [o EXCEPT !.at = "check_paused"]
    <3>1. Becomes(p, s) /\ records' = records
      BY <1>14, <2>4 DEF Work, Moved, Raises, Writes, At
    <3>2. proc'[p] = s /\ \A q \in Procs : q # p => proc'[q] = proc[q]
      BY <1>b, <3>1
    <3> QED
      BY <1>t, <1>14, <2>4, <3>1, <3>2 DEF Work, At, Calm, Token, Bystander, Starting, Early, Begun, Filled, Resumes, Finishes, WellFormed, NoTaskYet, Writing, Process
  <2> QED
    BY <1>14, <2>1, <2>2, <2>3, <2>4 DEF Work
<1>15. CASE InsertFields(p)
  <2>1. CASE Raises(p)
    <3> DEFINE s == [o EXCEPT !.at = "fetch", !.op = "FAILED", !.drop = IF o.kind = "generate" THEN o.task ELSE NoTask]
    <3>1. Becomes(p, s) /\ records' = records
      BY <1>15, <2>1 DEF InsertFields, Moved, Raises, Writes, At
    <3>2. proc'[p] = s /\ \A q \in Procs : q # p => proc'[q] = proc[q]
      BY <1>b, <3>1
    <3> QED
      BY <1>t, <1>15, <2>1, <3>1, <3>2 DEF InsertFields, At, Calm, Token, Bystander, Starting, Early, Begun, Filled, Resumes, Finishes, WellFormed, NoTaskYet, Writing, Process
  <2>2. CASE templates' = [templates EXCEPT ![o.task] = "full"] /\ Becomes(p, Moved(p, "discard"))
    <3> DEFINE s == [o EXCEPT !.at = "discard"]
    <3>1. Becomes(p, s) /\ records' = records
      BY <1>15, <2>2 DEF InsertFields, Moved, Raises, Writes, At
    <3>2. proc'[p] = s /\ \A q \in Procs : q # p => proc'[q] = proc[q]
      BY <1>b, <3>1
    <3> QED
      BY <1>t, <1>15, <2>2, <3>1, <3>2 DEF InsertFields, At, Calm, Token, Bystander, Starting, Early, Begun, Filled, Resumes, Finishes, WellFormed, NoTaskYet, Writing, Process
  <2> QED
    BY <1>15, <2>1, <2>2 DEF InsertFields
<1>16. CASE SetCancelFlag(p)
  <2>1. Calm(p)
    <3> DEFINE s == [o EXCEPT !.at = "store"]
    <3>1. Becomes(p, s) /\ records' = records
      BY <1>16 DEF SetCancelFlag, Moved
    <3>2. proc'[p] = s /\ \A q \in Procs : q # p => proc'[q] = proc[q]
      BY <1>b, <3>1
    <3> QED
      BY <1>t, <1>16, <3>1, <3>2 DEF SetCancelFlag, At, Calm, Token, Bystander, Starting, Early, Begun, Filled, Resumes, Finishes, WellFormed, NoTaskYet, Writing, Process
  <2> QED
    BY <2>1
<1>17. CASE Clear(p)
  <2>1. Becomes(p, Idle) /\ records' = records
    BY <1>17 DEF Clear
  <2>2. proc'[p] = Idle /\ \A q \in Procs : q # p => proc'[q] = proc[q]
    BY <1>b, <2>1
  <2> QED
    BY <1>i, <2>1, <2>2 DEF Calm
<1> QED
  BY <1>1, <1>2, <1>3, <1>4, <1>5, <1>6, <1>7, <1>8, <1>9, <1>10, <1>11, <1>12, <1>13, <1>14, <1>15, <1>16, <1>17

(* A waiting line that loses ids has none twice.                            *)
LEMMA LineKeeps ==
  ASSUME TypeInv, LineInv
  PROVE  /\ NoRepeat(queue) /\ queue \in Seq(Tasks)
         /\ \A t \in Tasks : Occurs(queue, t) <=> InQueue(t)
         /\ \A t \in Tasks : Occurs(queue', t) <=> InQueue(t)'
BY DEF LineInv, NoRepeat, Occurs, InQueue, TypeInv, TypeOK

(* So they keep the invariant. *)
LEMMA KeepCalm ==
  ASSUME TypeInv, TypeInv', RunInv, NEW p \in Procs,
         \/ CountActive(p) \/ Stage(p) \/ RemoveFromQueue(p) \/ Park(p)
         \/ FindForDelete(p) \/ BeginRun(p) \/ FetchUpload(p) \/ Check(p) \/ BeginResume(p)
         \/ DrainCount(p) \/ DrainPeek(p) \/ Discard(p) \/ Work(p) \/ InsertFields(p)
         \/ SetCancelFlag(p) \/ Clear(p)
  PROVE  RunInv'
<1> USE DEF keys, fixed
<1>0. Calm(p) /\ issued' = issued
  BY CalmActions DEF CountActive, Stage, RemoveFromQueue, Park, FindForDelete, BeginRun,
     FetchUpload, Check, BeginResume, DrainCount, DrainPeek, Discard, Work, InsertFields,
     SetCancelFlag, Clear
<1>r. LineInv /\ TokenInv /\ BegunInv
  BY DEF RunInv
<1>t. /\ \A q \in Procs : proc[q] \in Process /\ WellFormed(proc[q])
      /\ templates \in [Tasks -> {"none", "bare", "full"}]
  BY DEF TypeInv, TypeOK
<1>l. /\ NoRepeat(queue) /\ queue \in Seq(Tasks)
      /\ \A t \in Tasks : Occurs(queue, t) <=> InQueue(t)
      /\ \A t \in Tasks : Occurs(queue', t) <=> InQueue(t)'
  BY <1>r, LineKeeps
<1>s. queue' = queue => NoRepeat(queue') /\ \A t \in Tasks : InQueue(t)' => InQueue(t)
  BY <1>l
<1>1. CASE RemoveFromQueue(p)
  <2>1. NoRepeat(queue') /\ \A t \in Tasks : InQueue(t)' => InQueue(t)
    BY <1>1, <1>l, WithoutLine DEF RemoveFromQueue
  <2>2. Around(p)
    BY <1>1, <2>1 DEF RemoveFromQueue, Around
  <2> QED
    BY <1>0, <2>2, CalmKeeps
<1>2. CASE Park(p)
  <2>1. proc[p].at = "park" /\ Token(proc[p]) /\ proc[p].task \in Tasks /\ proc'[p] = Idle
    BY <1>2, <1>t, Roles DEF Park, At, Token, Becomes, TypeInv, TypeOK
  <2>2. ~ InQueue(proc[p].task)
    BY <1>r, <2>1 DEF TokenInv
  <2>3. NoRepeat(queue') /\ \A t \in Tasks : InQueue(t)' => InQueue(t) \/ t = proc[p].task
    BY <1>2, <1>l, <2>1, <2>2, AppendLine DEF Park
  <2>4. Around(p)
    BY <1>2, <2>1, <2>3 DEF Park, Around
  <2> QED
    BY <1>0, <2>4, CalmKeeps
<1>3. CASE Discard(p)
  <2>1. CASE At(p, "discard")
    <3>1. /\ Token(proc[p]) /\ Begun(proc[p]) /\ proc[p].task \in Tasks /\ ~ Early(proc[p])
          /\ uploads' = uploads \ {proc[p].task}
      BY <1>3, <1>t, <2>1, Roles DEF Discard, At, Token, Begun, Early, WellFormed, Writing
    <3>2. ~ InQueue(proc[p].task) /\ records[proc[p].task].status \notin {"QUEUED", "PENDING"}
      BY <1>r, <3>1 DEF TokenInv, BegunInv, Begun
    <3>3. \A q \in Procs : proc[q].task = proc[p].task => ~ Early(proc[q])
      BY <1>r, <1>t, <3>1, Roles DEF TokenInv
    <3>4. ~ Waits(proc[p].task)
      BY <3>2, <3>3 DEF Waits
    <3>5. Around(p)
      BY <1>3, <1>s, <3>1, <3>4 DEF Discard, Around
    <3> QED
      BY <1>0, <3>5, CalmKeeps
  <2>2. CASE At(p, "finally")
    <3>1. uploads' = uploads \ {proc[p].drop} /\ proc[p].drop \in Tasks \cup {NoTask}
      BY <1>3, <1>t, <2>2 DEF Discard, At, Process
    <3>2. ASSUME proc[p].drop \in Tasks PROVE ~ Waits(proc[p].drop)
      <4>1. ~ InQueue(proc[p].drop) /\ records[proc[p].drop].status \notin {"QUEUED", "PENDING"}
        BY <1>r, <3>2 DEF LineInv, BegunInv
      <4>2. \A q \in Procs : Early(proc[q]) => proc[p].drop # proc[q].task
        BY <1>r, <1>t, Roles DEF TokenInv
      <4> QED
        BY <4>1, <4>2 DEF Waits
    <3>3. Around(p)
      BY <1>3, <1>s, <3>1, <3>2 DEF Discard, Around
    <3> QED
      BY <1>0, <3>3, CalmKeeps
  <2> QED
    BY <1>3, <2>1, <2>2 DEF Discard
<1>4. CASE Work(p)
  <2>1. CASE templates' = templates
    <3>1. Around(p)
      BY <1>4, <1>s, <2>1 DEF Work, Around
    <3> QED
      BY <1>0, <3>1, CalmKeeps
  <2>2. CASE templates' # templates
    <3>1. /\ proc[p].kind = "generate" /\ templates' = [templates EXCEPT ![proc[p].task] = "bare"]
          /\ Becomes(p, Moved(p, "fields"))
      BY <1>4, <2>2 DEF Work
    <3>2. /\ Token(proc[p])
          /\ proc'[p] = [proc[p] EXCEPT !.at = "fields"] /\ proc[p].op = "none"
      BY <1>4, <1>t, <3>1 DEF Work, At, Token, Moved, Becomes, TypeInv, TypeOK, WellFormed, Writing
    <3>3. ~ Filled(proc'[p])
      BY <1>t, <3>2 DEF Filled, Process
    <3>4. Around(p)
      BY <1>4, <1>t, <1>s, <3>1, <3>2, <3>3 DEF Work, Around
    <3> QED
      BY <1>0, <3>4, CalmKeeps
  <2> QED
    BY <2>1, <2>2
<1>5. CASE InsertFields(p)
  <2>1. Around(p)
    BY <1>5, <1>t, <1>s DEF InsertFields, Around
  <2> QED
    BY <1>0, <2>1, CalmKeeps
<1>6. CASE SetCancelFlag(p)
  <2>1. Around(p)
    BY <1>6, <1>s DEF SetCancelFlag, Around
  <2> QED
    BY <1>0, <2>1, CalmKeeps
<1>8. CASE Clear(p)
  <2>1. NoRepeat(queue') /\ \A t \in Tasks : InQueue(t)' => InQueue(t)
    BY <1>8, <1>l, WithoutLine DEF Clear
  <2>2. Around(p)
    BY <1>8, <2>1 DEF Clear, Around, Lost
  <2> QED
    BY <1>0, <2>2, CalmKeeps
<1>7. CASE \/ CountActive(p) \/ Stage(p) \/ FindForDelete(p) \/ BeginRun(p) \/ FetchUpload(p)
           \/ Check(p) \/ BeginResume(p) \/ DrainCount(p) \/ DrainPeek(p)
  <2>1. Around(p)
    BY <1>7, <1>s DEF CountActive, Stage, FindForDelete, BeginRun, FetchUpload, Check,
       BeginResume, DrainCount, DrainPeek, Around
  <2> QED
    BY <1>0, <2>1, CalmKeeps
<1> QED
  BY <1>1, <1>2, <1>3, <1>4, <1>5, <1>6, <1>7, <1>8

(* A start that is refused gives its id back; nobody else has seen it.      *)
LEMMA KeepCheckQueueSize ==
  ASSUME TypeInv, TypeInv', RunInv, NEW p \in Procs, CheckQueueSize(p)
  PROVE  RunInv'
<1> DEFINE o == proc[p]
<1> USE DEF keys, fixed
<1>0. Calm(p)
  BY CalmActions
<1>r. NewInv /\ StartInv /\ LineInv /\ TokenInv
  BY DEF RunInv
<1>1. Around(p)
  <2>1. NoRepeat(queue') /\ \A t \in Tasks : InQueue(t)' => InQueue(t)
    BY <1>r, LineKeeps DEF CheckQueueSize
  <2> QED
    BY <2>1 DEF CheckQueueSize, Around
<1>2. CASE issued' = issued
  BY <1>0, <1>1, <1>2, CalmKeeps
<1>3. CASE issued' # issued
  <2>1. issued' = issued \ {o.task} /\ proc' = [proc EXCEPT ![p] = Idle] /\ o.at = "size"
    BY <1>3 DEF CheckQueueSize, Becomes, At
  <2>2. o.at \in Starting /\ Token(o) /\ queue' = queue /\ records' = records
    BY <2>1 DEF Starting, Token, CheckQueueSize
  <2>3. /\ records[o.task] = NoRecord /\ ~ InQueue(o.task)
        /\ \A q \in Procs : /\ q # p => proc[q].task # o.task
                            /\ proc[q].drop # o.task
    BY <1>r, <2>2 DEF StartInv, TokenInv
  <2>4. Idle.task = NoTask /\ Idle.drop = NoTask
    BY DEF Idle
  <2>5. ASSUME NEW t \in Tasks \ issued', NEW q \in Procs
        PROVE  proc'[q].task # t /\ proc'[q].drop # t
    BY <1>r, <2>1, <2>3, <2>4 DEF NewInv, TypeInv, TypeOK
  <2>6. ASSUME NEW t \in Tasks \ issued' PROVE records'[t] = NoRecord /\ ~ InQueue(t)'
    BY <1>r, <2>1, <2>2, <2>3 DEF NewInv, InQueue
  <2>7. NewInv'
    BY <2>5, <2>6 DEF NewInv
  <2> QED
    BY <1>0, <1>1, <2>7, CalmKeeps
<1> QED
  BY <1>2, <1>3

-----------------------------------------------------------------------------
(* The steps that write or read a record.                                   *)

(* What the parts say of one process and its task.                          *)
LEMMA OwnFacts ==
  ASSUME TypeInv, RunInv, NEW p \in Procs, proc[p].task # NoTask
  PROVE  /\ proc[p].task \in Tasks /\ proc[p].task \in issued
         /\ Token(proc[p]) =>
              /\ NotYet(records[proc[p].task]) /\ ~ InQueue(proc[p].task)
              /\ ~ proc[p].snap.paused
              /\ \A q \in Procs : proc[q].drop # proc[p].task
              /\ \A q \in Procs : q # p /\ proc[q].task = proc[p].task =>
                   /\ ~ Begun(proc[q]) /\ ~ Filled(proc[q]) /\ ~ Finishes(proc[q])
                   /\ Bystander(proc[q])
         /\ proc[p].at \in Starting =>
              /\ records[proc[p].task] = NoRecord
              /\ \A q \in Procs : q # p => proc[q].task # proc[p].task
         /\ proc[p].kind # "none" /\ proc[p].snap.status # "NONE" => proc[p].kind = proc[p].snap.kind
         /\ Free(proc[p].task) =>
              /\ ~ (proc[p].at = "store" /\ proc[p].op = "CANCELLED")
              /\ proc[p].at = "store" /\ records[proc[p].task].paused => proc[p].snap.paused
              /\ proc[p].snap.paused => records[proc[p].task].paused
              /\ Resumes(proc[p]) => records[proc[p].task].paused
              /\ Finishes(proc[p]) =>
                   /\ records[proc[p].task].paused => records[proc[p].task].picks
                   /\ proc[p].at = "store" /\ proc[p].snap.paused => proc[p].snap.picks
<1> DEFINE o == proc[p]
<1>r. NewInv /\ StartInv /\ TokenInv /\ KindInv /\ PauseInv /\ ResumeInv
  BY DEF RunInv
<1>t. /\ \A q \in Procs : proc[q] \in Process /\ WellFormed(proc[q])
  BY DEF TypeInv, TypeOK
<1>1. o.task \in Tasks /\ o.task \in issued
  BY <1>t, <1>r DEF Process, NewInv
<1>2. ASSUME Token(o)
      PROVE  /\ NotYet(records[o.task]) /\ ~ InQueue(o.task) /\ ~ o.snap.paused
             /\ \A q \in Procs : proc[q].drop # o.task
             /\ \A q \in Procs : q # p /\ proc[q].task = o.task =>
                  /\ ~ Begun(proc[q]) /\ ~ Filled(proc[q]) /\ ~ Finishes(proc[q])
                  /\ Bystander(proc[q])
  BY <1>r, <1>t, <1>2, Roles DEF TokenInv
<1>3. ASSUME o.at \in Starting
      PROVE  records[o.task] = NoRecord /\ \A q \in Procs : q # p => proc[q].task # o.task
  BY <1>r, <1>3 DEF StartInv
<1>4. ASSUME o.kind # "none", o.snap.status # "NONE" PROVE o.kind = o.snap.kind
  <2>1. PICK k \in Kinds : Kinded(o.task, k)
    BY <1>r, <1>1 DEF KindInv
  <2>2. o.snap.kind # "none"
    BY <1>t, <1>4 DEF Process, Records, NoRecord, Kinds
  <2> QED
    BY <1>4, <2>1, <2>2 DEF Kinded
<1>5. ASSUME Free(o.task)
      PROVE  /\ ~ (o.at = "store" /\ o.op = "CANCELLED")
             /\ o.at = "store" /\ records[o.task].paused => o.snap.paused
             /\ o.snap.paused => records[o.task].paused
             /\ Resumes(o) => records[o.task].paused
             /\ Finishes(o) =>
                  /\ records[o.task].paused => records[o.task].picks
                  /\ o.at = "store" /\ o.snap.paused => o.snap.picks
  BY <1>r, <1>1, <1>5 DEF PauseInv, ResumeInv
<1> QED
  BY <1>1, <1>2, <1>3, <1>4, <1>5

(* The creation of a record keeps the invariant. *)
LEMMA KeepCreate ==
  ASSUME TypeInv, TypeInv', RunInv, NEW p \in Procs, Create(p)
  PROVE  RunInv'
<1> DEFINE o == proc[p]
           n == [o EXCEPT !.at = IF o.op = "QUEUED" THEN "park" ELSE "kick", !.op = "none"]
<1> USE DEF keys, fixed
<1>r. NewInv /\ StartInv /\ LineInv /\ TokenInv /\ KindInv /\ UploadInv /\ BegunInv /\ TemplateInv
      /\ PauseInv /\ ResumeInv
  BY DEF RunInv
<1>f. NoRecord = [status |-> "NONE", kind |-> "none", paused |-> FALSE, picks |-> FALSE]
  BY DEF NoRecord
<1>1. o \in Process /\ WellFormed(o) /\ records \in [Tasks -> Records] /\ o.at = "create"
  BY DEF TypeInv, TypeOK, Create, At
<1>2. /\ o.op \in {"PENDING", "QUEUED"} /\ o.task \in Tasks /\ o.task # NoTask /\ o.snap.status = "NONE"
      /\ o.kind # "none" /\ o.snap \in Records
  BY <1>1 DEF WellFormed, NoTaskYet, Process
<1>3. o.snap = NoRecord
  BY <1>2, NoneIsNoRecord
<1>4. proc'[p] = n /\ \A q \in Procs : q # p => proc'[q] = proc[q]
  BY DEF Create, Becomes, TypeInv, TypeOK
<1>5. /\ n.at \in {"park", "kick"} /\ n.op = "none" /\ n.task = o.task /\ n.kind = o.kind
      /\ n.snap = NoRecord /\ n.drop = o.drop
  BY <1>1, <1>3 DEF Process
<1> HIDE DEF n
<1>6. /\ records'[o.task] = [status |-> o.op, kind |-> o.kind, paused |-> FALSE, picks |-> FALSE]
      /\ \A t \in Tasks : t # o.task => records'[t] = records[t]
  BY <1>1, <1>2, <1>f DEF Create
<1>7. StepOn(p)
  BY <1>4, <1>5, <1>6 DEF StepOn
<1>8. Token(o) /\ Early(o) /\ ~ Bystander(o) /\ o.at \in Starting
  BY <1>1, Roles DEF Token, Early, Starting
<1>9. /\ records[o.task] = NoRecord
      /\ \A q \in Procs : q # p => proc[q].task # o.task
      /\ \A q \in Procs : proc[q].drop # o.task
  BY <1>2, <1>8, OwnFacts
<1>10. /\ n.at \notin Starting /\ ~ Begun(n) /\ ~ Filled(n) /\ ~ Finishes(n) /\ ~ Resumes(n)
       /\ n # Idle
  BY <1>5 DEF Starting, Begun, Filled, Finishes, Resumes, Idle
<1>11. NotYet(records'[o.task])
  BY <1>2, <1>6 DEF NotYet
<1>12. /\ queue' = queue /\ uploads' = uploads /\ flags' = flags /\ dismissed' = dismissed /\ expired' = expired
       /\ templates' = templates /\ issued' = issued
       /\ \A t \in Tasks : /\ InQueue(t)' <=> InQueue(t)
                           /\ Free(t)' <=> Free(t)
  BY DEF Create, InQueue, Free
<1>n1. NewInv'
  BY <1>4, <1>5, <1>7, <1>12, <1>r, StepNew
<1>n2. StartInv'
  BY <1>4, <1>7, <1>10, <1>r, StepStart
<1>n3. LineInv'
  <2>1. NoRepeat(queue')
    BY <1>r, <1>12, LineKeeps
  <2> QED
    BY <1>4, <1>5, <1>7, <1>8, <1>11, <1>12, <1>r, <2>1, StepLine
<1>n4. TokenInv'
  BY <1>4, <1>5, <1>f, <1>7, <1>8, <1>11, <1>12, <1>r, StepToken
<1>n5. KindInv'
  BY <1>4, <1>5, <1>6, <1>f, <1>7, <1>r, StepKind
<1>n6. UploadInv'
  <2>1. Waits(o.task) /\ \A t \in Tasks : InQueue(t)' => Waits(t)
    BY <1>8, <1>12 DEF Waits
  <2>2. records'[o.task].kind = "generate" => Generates(o.task)
    BY <1>6 DEF Generates
  <2>3. "generate" \in {n.kind, n.snap.kind} => Generates(o.task)
    BY <1>5, <1>f DEF Generates
  <2> QED
    BY <1>4, <1>7, <1>8, <1>12, <1>r, <2>1, <2>2, <2>3, StepUpload DEF Lost
<1>n7. BegunInv'
  BY <1>4, <1>5, <1>7, <1>9, <1>10, <1>r, StepBegun
<1>n8. TemplateInv'
  BY <1>2, <1>4, <1>6, <1>7, <1>10, <1>12, <1>r, StepTemplate
<1>n9. PauseInv'
  <2>1. \A t \in Tasks : t = o.task =>
          /\ records'[t].status \in {"PENDING", "QUEUED"} /\ ~ records'[t].paused
          /\ ~ records[t].paused
    BY <1>2, <1>6, <1>9, <1>f
  <2>2. n.at # "store" /\ ~ n.snap.paused
    BY <1>5, <1>f
  <2> QED
    BY <1>4, <1>7, <1>12, <1>r, <2>1, <2>2, StepPause
<1>n10. ResumeInv'
  <2>1. \A t \in Tasks : t = o.task => ~ records'[t].paused /\ ~ records[t].paused
    BY <1>6, <1>9, <1>f
  <2> QED
    BY <1>4, <1>7, <1>10, <1>12, <1>r, <2>1, StepResume
<1> QED
  BY <1>n1, <1>n2, <1>n3, <1>n4, <1>n5, <1>n6, <1>n7, <1>n8, <1>n9, <1>n10 DEF RunInv

(* So does its deletion. *)
LEMMA KeepDelete ==
  ASSUME TypeInv, TypeInv', RunInv, NEW p \in Procs, Delete(p)
  PROVE  RunInv'
<1> DEFINE o == proc[p]
           n == [o EXCEPT !.at = "clear"]
<1>r. NewInv /\ StartInv /\ LineInv /\ TokenInv /\ KindInv /\ UploadInv /\ BegunInv /\ TemplateInv
      /\ PauseInv /\ ResumeInv
  BY DEF RunInv
<1>f. ~ NoRecord.paused /\ NoRecord.kind = "none" /\ NoRecord.status = "NONE"
  BY DEF NoRecord
<1>1. o \in Process /\ WellFormed(o) /\ records \in [Tasks -> Records] /\ o.at = "delete"
  BY DEF TypeInv, TypeOK, Delete, At
<1>2. o.task \in Tasks /\ o.task # NoTask /\ o.op = "none"
  BY <1>1 DEF WellFormed, NoTaskYet, Writing, Process
<1>3. o.snap = NoRecord
  BY <1>1, NoneIsNoRecord DEF WellFormed, Process
<1>4. proc'[p] = n /\ \A q \in Procs : q # p => proc'[q] = proc[q]
  BY DEF Delete, Becomes, Moved, TypeInv, TypeOK
<1>5. /\ n.at = "clear" /\ n.op = "none" /\ n.task = o.task /\ n.kind = o.kind
      /\ n.snap = NoRecord /\ n.drop = o.drop
  BY <1>1, <1>2, <1>3 DEF Process
<1> HIDE DEF n
<1>6. /\ records'[o.task] = NoRecord
      /\ \A t \in Tasks : t # o.task => records'[t] = records[t]
  BY <1>1, <1>2 DEF Delete
<1>7. StepOn(p)
  BY <1>4, <1>5, <1>6 DEF StepOn
<1>10. /\ n.at \notin Starting /\ ~ Token(n) /\ ~ Begun(n) /\ ~ Filled(n) /\ ~ Early(n)
       /\ ~ Finishes(n) /\ ~ Resumes(n) /\ Bystander(n) /\ n # Idle
  BY <1>5 DEF Starting, Begun, Filled, Token, Early, Finishes, Resumes, Bystander, Idle
<1>11. NotYet(records'[o.task])
  BY <1>6, <1>f DEF NotYet
<1>12. NoRepeat(queue') /\ \A t \in Tasks : InQueue(t)' => InQueue(t)
  BY <1>r, LineKeeps DEF Delete, InQueue
<1>13. /\ templates' = templates /\ issued' = issued /\ uploads' = uploads
       /\ dismissed' = dismissed \cup {o.task} /\ expired' = expired /\ flags' = flags
  BY DEF Delete
<1>14. \A t \in Tasks : /\ t = o.task => ~ Free(t)'
                        /\ Free(t)' => Free(t)
  BY <1>13 DEF Free
<1>n1. NewInv'
  BY <1>4, <1>5, <1>7, <1>12, <1>13, <1>r, StepNew
<1>n2. StartInv'
  BY <1>4, <1>7, <1>10, <1>r, StepStart
<1>n3. LineInv'
  BY <1>4, <1>5, <1>f, <1>7, <1>10, <1>11, <1>12, <1>r, StepLine
<1>n4. TokenInv'
  BY <1>4, <1>5, <1>f, <1>7, <1>10, <1>11, <1>12, <1>r, StepToken
<1>n5. KindInv'
  BY <1>4, <1>5, <1>6, <1>f, <1>7, <1>r, StepKind
<1>n6. UploadInv'
  <2>1. \A t \in Tasks : InQueue(t)' => Waits(t)
    BY <1>12 DEF Waits
  <2>2. /\ Lost \subseteq Lost'
        /\ \A t \in Tasks : t \in uploads => t \in uploads'
    BY <1>13 DEF Lost
  <2>3. "generate" \in {n.kind, n.snap.kind} => Generates(o.task)
    BY <1>2, <1>5, <1>f DEF Generates
  <2> QED
    BY <1>4, <1>f, <1>6, <1>7, <1>10, <1>r, <2>1, <2>2, <2>3, StepUpload
<1>n7. BegunInv'
  BY <1>4, <1>5, <1>6, <1>f, <1>7, <1>10, <1>r, StepBegun
<1>n8. TemplateInv'
  BY <1>4, <1>6, <1>f, <1>7, <1>10, <1>13, <1>r, StepTemplate
<1>n9. PauseInv'
  BY <1>4, <1>5, <1>6, <1>f, <1>7, <1>14, <1>r, StepPause
<1>n10. ResumeInv'
  BY <1>4, <1>5, <1>6, <1>f, <1>7, <1>14, <1>r, StepResume
<1> QED
  BY <1>n1, <1>n2, <1>n3, <1>n4, <1>n5, <1>n6, <1>n7, <1>n8, <1>n9, <1>n10 DEF RunInv

(* An upload that its TTL took is not waited for any more. *)
LEMMA KeepExpire ==
  ASSUME RunInv, NEW t \in Tasks, Expire(t)
  PROVE  RunInv'
<1>1. UNCHANGED <<records, listed, flags, queue, templates, proc, issued, service, dismissed>>
  BY DEF Expire
<1>2. UploadInv'
  BY <1>1 DEF Expire, RunInv, UploadInv, Generates, InQueue, Lost
<1> QED
  BY <1>1, <1>2 DEF RunInv, NewInv, StartInv, LineInv, TokenInv, KindInv, Kinded, BegunInv,
     TemplateInv, CompletedHasTemplate, PauseInv, ResumeInv, InQueue, Free

(* So does the write that ends a read and a write. *)
LEMMA KeepStore ==
  ASSUME TypeInv, TypeInv', RunInv, NEW p \in Procs, Store(p)
  PROVE  RunInv'
<1> DEFINE o == proc[p]
           n == Continues(p)
           was == records[o.task]
           rec == Updated(o.op, o.snap)
<1> USE DEF keys, fixed
<1>r. NewInv /\ StartInv /\ LineInv /\ TokenInv /\ KindInv /\ UploadInv /\ BegunInv /\ TemplateInv
      /\ PauseInv /\ ResumeInv
  BY DEF RunInv
<1>f. ~ NoRecord.paused /\ NoRecord.kind = "none" /\ NoRecord.status = "NONE"
  BY DEF NoRecord
<1>i. /\ Idle.at = "idle" /\ Idle.task = NoTask /\ Idle.op = "none" /\ Idle.drop = NoTask
      /\ Idle.kind = "none" /\ Idle.snap = NoRecord
  BY DEF Idle
<1>1. /\ o \in Process /\ WellFormed(o) /\ records \in [Tasks -> Records] /\ o.at = "store"
      /\ records' = [records EXCEPT ![o.task] = rec]
  BY DEF TypeInv, TypeOK, Store, At
<1>2. /\ o.task \in Tasks /\ o.task # NoTask /\ o.snap.status # "NONE" /\ o.snap \in Records
      /\ o.op \in Sets /\ o.op # "QUEUED"
      /\ o.op # "CANCELLED" => o.kind # "none" /\ o.kind = o.snap.kind
  <2>1. /\ o.task \in Tasks /\ o.task # NoTask /\ o.snap.status # "NONE" /\ o.snap \in Records
        /\ o.op \in Sets /\ o.op # "QUEUED"
        /\ o.op # "CANCELLED" => o.kind # "none"
    BY <1>1 DEF WellFormed, NoTaskYet, Process, Writing
  <2> QED
    BY <2>1, OwnFacts
<1>3. /\ o.snap.paused \in BOOLEAN /\ o.snap.picks \in BOOLEAN /\ o.snap.kind \in Kinds
      /\ o.snap = [status |-> o.snap.status, kind |-> o.snap.kind, paused |-> o.snap.paused,
                   picks |-> o.snap.picks]
  BY <1>2 DEF Records, NoRecord
<1>4. proc'[p] = n /\ \A q \in Procs : q # p => proc'[q] = proc[q]
  BY DEF Store, Becomes, TypeInv, TypeOK
<1>5. /\ rec.status = o.op /\ rec.kind = o.snap.kind
      /\ rec.paused <=> o.snap.paused \/ o.op = "AWAITING_INPUT"
      /\ rec.picks <=> o.snap.picks \/ o.op = "RESUMING"
  BY <1>3 DEF Updated
<1>6. records'[o.task] = rec /\ \A t \in Tasks : t # o.task => records'[t] = records[t]
  BY <1>1, <1>2
<1>7. /\ n.at \in {"work", "kick", "kick_resume", "drain", "idle"} /\ n.op = "none"
      /\ n.task \in {o.task, NoTask} /\ n.kind \in {o.kind, "none"} /\ n.snap = NoRecord
      /\ n.drop \in {o.drop, NoTask}
      /\ n.at = "work" => o.op = "RUNNING"
      /\ n.at = "kick" => o.op = "PENDING"
      /\ n.at = "kick_resume" => o.op = "RESUMING"
      /\ n.at \in {"drain", "idle"} => n.task = NoTask
      /\ o.op = "CANCELLED" => n.task = NoTask
  BY <1>1, <1>i DEF Continues, Process
<1> HIDE DEF rec, n
<1>8. StepOn(p)
  BY <1>4, <1>6, <1>7 DEF StepOn
<1>9. /\ Token(o) <=> o.op \in {"PENDING", "RUNNING", "AWAITING_INPUT"}
      /\ Bystander(o) <=> o.op = "CANCELLED"
      /\ Early(o) <=> o.op \in {"PENDING", "RUNNING"}
      /\ Resumes(o) <=> o.op = "RESUMING"
      /\ Finishes(o) <=> o.op \in {"COMPLETED", "FAILED"}
  BY <1>1 DEF Token, Bystander, Early, Starting, Resumes, Finishes
<1>10. /\ Token(o) =>
            /\ NotYet(was) /\ ~ InQueue(o.task) /\ ~ o.snap.paused
            /\ \A q \in Procs : proc[q].drop # o.task
            /\ \A q \in Procs : q # p /\ proc[q].task = o.task =>
                 ~ Begun(proc[q]) /\ ~ Finishes(proc[q]) /\ Bystander(proc[q])
       /\ Free(o.task) =>
            /\ ~ (o.op = "CANCELLED")
            /\ was.paused => o.snap.paused
            /\ o.snap.paused => was.paused
            /\ Resumes(o) => was.paused
            /\ Finishes(o) => (was.paused => was.picks) /\ (o.snap.paused => o.snap.picks)
  BY <1>1, <1>2, OwnFacts
<1>11. /\ ~ Early(n) \/ n.at = "kick"
       /\ Token(n) <=> n.at \in {"work", "kick"}
       /\ Begun(n) <=> n.at = "work"
       /\ Finishes(n) <=> n.at = "kick_resume"
       /\ Resumes(n) <=> n.at = "kick_resume"
  BY <1>7 DEF Starting, Begun, Filled, Finishes, Resumes, Token, Early
<1>12. /\ queue' = queue /\ uploads' = uploads /\ flags' = flags /\ dismissed' = dismissed /\ expired' = expired
       /\ templates' = templates /\ issued' = issued /\ NoRepeat(queue')
       /\ \A t \in Tasks : /\ InQueue(t)' <=> InQueue(t)
                           /\ Free(t)' <=> Free(t)
  BY <1>r, LineKeeps DEF Store, InQueue, Free
<1>13. n.at \notin Starting /\ ~ Filled(n)
  BY <1>7 DEF Starting, Filled
<1>n1. NewInv'
  BY <1>4, <1>7, <1>8, <1>12, <1>r, StepNew
<1>n2. StartInv'
  BY <1>4, <1>8, <1>13, <1>r, StepStart
<1>14. Bystander(o) /\ ~ o.snap.paused => NotYet(rec)
  BY <1>5, <1>9 DEF NotYet
<1>n3. LineInv'
  <2>2. Bystander(o) => n.task = NoTask
    BY <1>7, <1>9
  <2>5. ASSUME NEW t \in Tasks, InQueue(t)'
        PROVE  /\ NotYet(records'[t])
               /\ \A q \in Procs :
                    /\ proc'[q].drop # t
                    /\ proc'[q].task = t => Bystander(proc'[q]) /\ ~ proc'[q].snap.paused
    <3>1. /\ NotYet(records[t])
          /\ \A q \in Procs :
               /\ proc[q].drop # t
               /\ proc[q].task = t => Bystander(proc[q]) /\ ~ proc[q].snap.paused
      BY <1>r, <1>12, <2>5 DEF LineInv
    <3>2. NotYet(records'[t])
      BY <1>6, <1>14, <3>1
    <3>3. ASSUME NEW q \in Procs
          PROVE  /\ proc'[q].drop # t
                 /\ proc'[q].task = t => Bystander(proc'[q]) /\ ~ proc'[q].snap.paused
      <4>1. CASE q # p
        BY <1>4, <3>1, <4>1
      <4>2. CASE q = p
        BY <1>4, <1>7, <2>2, <3>1, <4>2
      <4> QED
        BY <4>1, <4>2
    <3> QED
      BY <3>2, <3>3
  <2> QED
    BY <1>12, <2>5 DEF LineInv, NoRepeat
<1>n4. TokenInv'
  <2>1. Token(n) => Token(o) /\ NotYet(rec) /\ ~ n.snap.paused
    BY <1>5, <1>7, <1>f, <1>9, <1>10, <1>11 DEF NotYet
  <2>2. Bystander(o) => n.task = NoTask
    BY <1>7, <1>9
  <2> QED
    BY <1>4, <1>6, <1>7, <1>8, <1>12, <1>14, <1>r, <2>1, <2>2, StepToken
<1>n5. KindInv'
  BY <1>4, <1>5, <1>6, <1>7, <1>f, <1>8, <1>r, StepKind
<1>n6. UploadInv'
  <2>1. \A t \in Tasks : InQueue(t)' => Waits(t)
    BY <1>12 DEF Waits
  <2>2. rec.status \in {"QUEUED", "PENDING"} => Waits(o.task)
    BY <1>2, <1>5, <1>9 DEF Waits
  <2>3. rec.kind = "generate" => Generates(o.task)
    BY <1>5 DEF Generates
  <2>4. Early(n) => Early(o)
    BY <1>7, <1>9, <1>11
  <2>5. "generate" \in {n.kind, n.snap.kind} => Generates(o.task)
    BY <1>7, <1>f DEF Generates
  <2> QED
    BY <1>4, <1>6, <1>8, <1>12, <1>r, <2>1, <2>2, <2>3, <2>4, <2>5, StepUpload DEF Lost
<1>n7. BegunInv'
  <2>1. Begun(n) => rec.status \notin {"QUEUED", "PENDING"}
    BY <1>5, <1>7, <1>11
  <2>2. rec.status \in {"QUEUED", "PENDING"} =>
          /\ \A q \in Procs : q # p /\ proc[q].task = o.task => ~ Begun(proc[q])
          /\ \A q \in Procs : proc[q].drop # o.task
    BY <1>2, <1>5, <1>9, <1>10
  <2> QED
    BY <1>4, <1>6, <1>7, <1>8, <1>r, <2>1, <2>2, StepBegun
<1>n8. TemplateInv'
  <2>1. ASSUME rec.kind = "generate", rec.status = "COMPLETED" PROVE templates[o.task] = "full"
    <3>1. o.op = "COMPLETED" /\ o.kind = "generate"
      BY <1>2, <1>5, <2>1
    <3> QED
      BY <1>r, <3>1 DEF TemplateInv
  <2> QED
    BY <1>4, <1>6, <1>8, <1>12, <1>13, <1>r, <2>1, StepTemplate
<1>n9. PauseInv'
  <2>1. rec.status = "AWAITING_INPUT" => rec.paused /\ rec.kind = "dry_run"
    <3>1. o.op = "AWAITING_INPUT" => o.kind = "dry_run"
      BY <1>1 DEF WellFormed
    <3> QED
      BY <1>2, <1>5, <3>1
  <2>2. Free(o.task) =>
          /\ was.paused => rec.paused
          /\ rec.paused => \/ was.paused
                           \/ \A q \in Procs : q # p /\ proc[q].task = o.task => Bystander(proc[q])
    BY <1>5, <1>9, <1>10
  <2>3. n.at # "store" /\ ~ n.snap.paused
    BY <1>7, <1>f
  <2> QED
    BY <1>4, <1>6, <1>8, <1>12, <1>r, <2>1, <2>2, <2>3, StepPause
<1>n10. ResumeInv'
  <2>1. Free(o.task) =>
          /\ was.paused => rec.paused
          /\ rec.paused /\ ~ rec.picks =>
               \/ was.paused /\ ~ was.picks
               \/ \A q \in Procs : q # p /\ proc[q].task = o.task => ~ Finishes(proc[q])
    <3>1. ASSUME Free(o.task), rec.paused, ~ rec.picks
          PROVE  \A q \in Procs : q # p /\ proc[q].task = o.task => ~ Finishes(proc[q])
      <4>1. o.op = "AWAITING_INPUT" \/ (o.snap.paused /\ ~ o.snap.picks /\ o.op # "RESUMING")
        BY <1>5, <3>1
      <4>2. o.snap.paused => ~ Token(o)
        BY <1>10
      <4>3. o.snap.paused /\ ~ o.snap.picks => ~ Finishes(o) /\ o.op # "CANCELLED"
        BY <1>10, <3>1
      <4>4. o.op \in {"PENDING", "RUNNING", "RESUMING", "AWAITING_INPUT", "COMPLETED", "FAILED", "CANCELLED"}
        BY <1>2 DEF Sets, Active, Working, Terminal
      <4>5. o.op = "AWAITING_INPUT"
        BY <1>9, <4>1, <4>2, <4>3, <4>4
      <4> QED
        BY <1>9, <1>10, <4>5
    <3> QED
      BY <1>5, <1>10, <3>1
  <2>2. Free(o.task) /\ n.at = "kick_resume" => rec.paused /\ rec.picks
    BY <1>5, <1>7, <1>9, <1>10
  <2>3. n.task # NoTask => n.task = o.task
    BY <1>7
  <2>4. n.at # "store"
    BY <1>7
  <2>5. \A t \in Tasks : t = n.task /\ Free(t)' =>
          /\ Resumes(n) => records'[t].paused
          /\ Finishes(n) =>
               /\ records'[t].paused => records'[t].picks
               /\ n.at = "store" /\ n.snap.paused => n.snap.picks
    BY <1>6, <1>11, <1>12, <2>2, <2>3, <2>4
  <2> QED
    BY <1>4, <1>6, <1>8, <1>12, <1>r, <2>1, <2>5, StepResume
<1> QED
  BY <1>n1, <1>n2, <1>n3, <1>n4, <1>n5, <1>n6, <1>n7, <1>n8, <1>n9, <1>n10 DEF RunInv

(* So does the read that begins it. *)
LEMMA KeepFetch ==
  ASSUME TypeInv, TypeInv', RunInv, NEW p \in Procs, Fetch(p)
  PROVE  RunInv'
<1> DEFINE o == proc[p]
           rec == records[o.task]
<1> USE DEF keys, fixed
<1>r. NewInv /\ StartInv /\ LineInv /\ TokenInv /\ KindInv /\ UploadInv /\ BegunInv /\ TemplateInv
      /\ PauseInv /\ ResumeInv
  BY DEF RunInv
<1>f. ~ NoRecord.paused /\ NoRecord.kind = "none" /\ NoRecord.status = "NONE"
  BY DEF NoRecord
<1>i. /\ Idle.at = "idle" /\ Idle.task = NoTask /\ Idle.op = "none" /\ Idle.drop = NoTask
      /\ Idle.kind = "none" /\ Idle.snap = NoRecord
  BY DEF Idle
<1>1. /\ o \in Process /\ WellFormed(o) /\ records \in [Tasks -> Records] /\ o.at = "fetch"
      /\ proc \in [Procs -> Process] /\ o.snap \in Records
  BY DEF TypeInv, TypeOK, Fetch, At, Process
<1>2. o.task \in Tasks /\ o.task # NoTask /\ o.snap = NoRecord /\ rec \in Records
  <2>1. o.snap.status = "NONE"
    BY <1>1 DEF WellFormed
  <2> QED
    BY <1>1, <2>1, NoneIsNoRecord DEF WellFormed, NoTaskYet, Process
<1>3. /\ records' = records /\ queue' = queue /\ uploads' = uploads /\ flags' = flags
      /\ dismissed' = dismissed /\ expired' = expired /\ templates' = templates /\ issued' = issued /\ NoRepeat(queue')
      /\ \A t \in Tasks : /\ InQueue(t)' <=> InQueue(t)
                          /\ Free(t)' <=> Free(t)
  BY <1>r, LineKeeps DEF Fetch, InQueue, Free
<1>9. /\ Token(o) <=> o.op \in {"PENDING", "RUNNING", "AWAITING_INPUT"}
      /\ Bystander(o) <=> o.op = "CANCELLED"
      /\ Early(o) <=> o.op \in {"PENDING", "RUNNING"}
      /\ Resumes(o) <=> o.op = "RESUMING"
      /\ Finishes(o) <=> o.op \in {"COMPLETED", "FAILED"}
      /\ Filled(o) <=> o.kind = "generate" /\ o.op = "COMPLETED"
  BY <1>1 DEF Token, Bystander, Early, Starting, Resumes, Finishes, Filled
<1>4. CASE rec.status = "NONE"
  <2> DEFINE n == Continues(p)
  <2>1. proc'[p] = n /\ \A q \in Procs : q # p => proc'[q] = proc[q]
    BY <1>1, <1>4 DEF Fetch, Becomes
  <2>2. /\ n.at \in {"work", "kick", "kick_resume", "drain", "idle"} /\ n.op = "none"
        /\ n.task \in {o.task, NoTask} /\ n.kind \in {o.kind, "none"} /\ n.snap = NoRecord
        /\ n.drop \in {o.drop, NoTask}
        /\ n.at = "work" => o.op = "RUNNING"
        /\ n.at = "kick" => o.op = "PENDING"
        /\ n.at = "kick_resume" => o.op = "RESUMING"
        /\ o.op = "CANCELLED" => n.task = NoTask
    BY <1>1, <1>i DEF Continues, Process
  <2> HIDE DEF n
  <2>3. ~ rec.paused /\ ~ Exists(o.task)
    BY <1>2, <1>4, <1>f, NoneIsNoRecord DEF Exists
  <2>4. /\ n.at \notin Starting /\ ~ Filled(n)
        /\ Token(n) => Token(o)
        /\ Early(n) => Early(o)
        /\ Resumes(n) => Resumes(o)
    BY <1>9, <2>2 DEF Starting, Begun, Filled, Finishes, Resumes, Token, Early
  <2>5. Calm(p)
    BY <1>3, <1>9, <2>1, <2>2, <2>3, <2>4 DEF Calm
  <2>6. Around(p)
    BY <1>3 DEF Around
  <2> QED
    BY <1>3, <2>5, <2>6, CalmKeeps
<1>5. CASE rec.status # "NONE"
  <2> DEFINE n == [o EXCEPT !.at = IF o.op = "CANCELLED" THEN "flag" ELSE "store", !.snap = rec]
  <2>1. proc'[p] = n /\ \A q \in Procs : q # p => proc'[q] = proc[q]
    BY <1>1, <1>5 DEF Fetch, Becomes
  <2>2. /\ n.at = IF o.op = "CANCELLED" THEN "flag" ELSE "store"
        /\ n.op = o.op /\ n.task = o.task /\ n.kind = o.kind /\ n.snap = rec /\ n.drop = o.drop
    BY <1>1 DEF Process
  <2> HIDE DEF n
  <2>3. /\ n.at \notin Starting /\ ~ Begun(n)
        /\ Token(n) <=> Token(o)
        /\ Bystander(n) <=> Bystander(o)
        /\ Early(n) <=> Early(o)
        /\ Resumes(n) <=> Resumes(o)
        /\ Finishes(n) <=> Finishes(o)
        /\ Filled(n) <=> Filled(o)
    BY <1>9, <2>2 DEF Starting, Begun, Filled, Finishes, Resumes, Token, Early, Bystander
  <2>4. StepOn(p)
    BY <1>3, <2>1, <2>2 DEF StepOn
  <2>5. /\ Token(o) => NotYet(rec)
        /\ Free(o.task) => /\ Resumes(o) => rec.paused
                           /\ Finishes(o) => (rec.paused => rec.picks)
    BY <1>2, OwnFacts
  <2>n1. NewInv'
    BY <1>3, <2>1, <2>2, <2>4, <1>r, StepNew
  <2>n2. StartInv'
    BY <2>1, <2>3, <2>4, <1>r, StepStart
  <2>n3. LineInv'
    <3>1. n # Idle
      BY <1>2, <1>i, <2>2
    <3> QED
      BY <1>3, <2>1, <2>2, <2>3, <2>4, <1>r, <3>1, StepLine
  <2>n4. TokenInv'
    <3>1. Token(n) => Token(o) /\ NotYet(rec) /\ ~ n.snap.paused
      BY <2>2, <2>3, <2>5 DEF NotYet
    <3> QED
      BY <1>3, <2>1, <2>2, <2>3, <2>4, <1>r, <3>1, StepToken
  <2>n5. KindInv'
    BY <1>3, <2>1, <2>2, <2>4, <1>r, StepKind
  <2>n6. UploadInv'
    <3>1. \A t \in Tasks : InQueue(t)' => Waits(t)
      BY <1>3 DEF Waits
    <3>2. /\ rec.status \in {"QUEUED", "PENDING"} => Waits(o.task)
          /\ rec.kind = "generate" => Generates(o.task)
          /\ "generate" \in {n.kind, n.snap.kind} => Generates(o.task)
      BY <2>2 DEF Waits, Generates
    <3> QED
      BY <1>3, <2>1, <2>3, <2>4, <1>r, <3>1, <3>2, StepUpload DEF Lost
  <2>n7. BegunInv'
    BY <1>3, <2>1, <2>2, <2>3, <2>4, <1>r, StepBegun
  <2>n8. TemplateInv'
    <3>1. Filled(n) => templates[o.task] = "full"
      BY <1>r, <2>3 DEF TemplateInv, Filled
    <3>2. rec.kind = "generate" /\ rec.status = "COMPLETED" => templates[o.task] = "full"
      BY <1>r, <1>2 DEF TemplateInv, CompletedHasTemplate
    <3> QED
      BY <1>3, <2>1, <2>4, <1>r, <3>1, <3>2, StepTemplate
  <2>n9. PauseInv'
    <3>1. rec.status = "AWAITING_INPUT" => rec.paused /\ rec.kind = "dry_run"
      BY <1>2, <1>r DEF PauseInv
    <3>2. /\ ~ (n.at = "store" /\ n.op = "CANCELLED")
          /\ n.snap = rec /\ n.task = o.task
      BY <2>2
    <3> QED
      BY <1>3, <2>1, <2>4, <1>r, <3>1, <3>2, StepPause
  <2>n10. ResumeInv'
    <3>1. Free(o.task) => /\ Resumes(n) => rec.paused
                          /\ Finishes(n) => (rec.paused => rec.picks)
      BY <2>3, <2>5
    <3>2. n.snap = rec /\ n.task = o.task
      BY <2>2
    <3> QED
      BY <1>3, <2>1, <2>4, <1>r, <3>1, <3>2, StepResume
  <2> QED
    BY <2>n1, <2>n2, <2>n3, <2>n4, <2>n5, <2>n6, <2>n7, <2>n8, <2>n9, <2>n10 DEF RunInv
<1> QED
  BY <1>4, <1>5

-----------------------------------------------------------------------------
(* The steps that give a process a task.                                    *)

(* What one that comes to a task must find, or be, to keep each part: n is  *)
(* the process after the step.                                              *)
Enters(p, t) ==
  LET o == proc[p]
      n == proc'[p]
  IN  /\ records' = records /\ uploads' = uploads /\ flags' = flags /\ dismissed' = dismissed /\ expired' = expired
      /\ templates' = templates /\ t \in issued' /\ issued \subseteq issued'
      /\ \A q \in Procs : q # p => proc'[q] = proc[q]
      /\ NoRepeat(queue') /\ \A u \in Tasks : InQueue(u)' => InQueue(u)
      /\ o.task = NoTask /\ n.task = t
      /\ n.snap = NoRecord /\ n.at # "store" /\ n.drop \in {o.drop, NoTask}
      /\ ~ Begun(n) /\ ~ Filled(n) /\ ~ Finishes(n)
      /\ \E k \in Kinds : n.kind \in {k, "none"} /\ Kinded(t, k)
      /\ InQueue(t)' => Bystander(n)
      /\ \A q \in Procs : q # p /\ proc[q].task = t =>
           /\ proc[q].at \notin Starting
           /\ Token(proc[q]) => Bystander(n)
      /\ n.at \in Starting =>
           records[t] = NoRecord /\ \A q \in Procs : q # p => proc[q].task # t
      /\ Token(n) =>
           /\ NotYet(records[t]) /\ ~ InQueue(t)'
           /\ \A q \in Procs :
                /\ proc[q].drop # t
                /\ q # p /\ proc[q].task = t => Bystander(proc[q]) /\ ~ proc[q].snap.paused
      /\ Early(n) => Waits(t)
      /\ n.kind = "generate" => ~ Waits(t) /\ ~ Early(n)
      /\ Resumes(n) => records[t].paused

(* A request or job that begins keeps the invariant. *)
LEMMA EnterKeeps ==
  ASSUME TypeInv, TypeInv', RunInv, NEW p \in Procs, NEW t \in Tasks, Enters(p, t)
  PROVE  RunInv'
<1> DEFINE o == proc[p]
           n == proc'[p]
<1>r. NewInv /\ StartInv /\ LineInv /\ TokenInv /\ KindInv /\ UploadInv /\ BegunInv /\ TemplateInv
      /\ PauseInv /\ ResumeInv
  BY DEF RunInv
<1>f. ~ NoRecord.paused /\ NoRecord.kind = "none" /\ NoRecord.status = "NONE"
  BY DEF NoRecord
<1>0. /\ records' = records /\ uploads' = uploads /\ flags' = flags /\ dismissed' = dismissed /\ expired' = expired
      /\ templates' = templates /\ t \in issued' /\ issued \subseteq issued'
      /\ \A q \in Procs : q # p => proc'[q] = proc[q]
      /\ NoRepeat(queue') /\ \A u \in Tasks : InQueue(u)' => InQueue(u)
      /\ \A u \in Tasks : Free(u)' => Free(u)
      /\ o.task = NoTask /\ n.task = t
      /\ n.snap = NoRecord /\ n.at # "store" /\ n.drop \in {o.drop, NoTask}
      /\ ~ Begun(n) /\ ~ Filled(n) /\ ~ Finishes(n)
  BY DEF Enters, Free
<1>1. t # NoTask
  OBVIOUS
<1>p. \A q \in Procs : proc'[q].task \in Tasks =>
        \/ q # p /\ proc'[q] = proc[q]
        \/ q = p /\ proc'[q].task = t
  BY <1>0
<1>d. \A q \in Procs : proc'[q].drop # NoTask => proc'[q].drop = proc[q].drop
  BY <1>0
<1>n1. NewInv'
  <2>1. ASSUME NEW u \in Tasks \ issued'
        PROVE  records'[u] = NoRecord /\ ~ InQueue(u)'
               /\ \A q \in Procs : proc'[q].task # u /\ proc'[q].drop # u
    <3>1. u # t /\ u \in Tasks \ issued
      BY <1>0, <2>1
    <3> QED
      BY <1>r, <1>0, <1>p, <1>d, <3>1 DEF NewInv
  <2> QED
    BY <2>1 DEF NewInv
<1>n2. StartInv'
  <2> SUFFICES ASSUME NEW r \in Procs, proc'[r].at \in Starting
               PROVE  /\ records'[proc'[r].task] = NoRecord
                      /\ \A q \in Procs : q # r => proc'[q].task # proc'[r].task
    BY DEF StartInv
  <2>1. proc'[r].task \in Tasks
    BY DEF TypeInv, TypeOK, WellFormed, NoTaskYet, Starting, Process
  <2>2. CASE r = p
    BY <1>0, <2>2 DEF Enters
  <2>3. CASE r # p
    <3>1. proc'[r] = proc[r] /\ proc[r].task # t
      BY <1>0, <2>3 DEF Enters
    <3>2. records[proc[r].task] = NoRecord /\ \A q \in Procs : q # r => proc[q].task # proc[r].task
      BY <1>r, <3>1 DEF StartInv
    <3> QED
      BY <1>0, <2>1, <2>3, <3>1, <3>2
  <2> QED
    BY <2>2, <2>3
<1>n3. LineInv'
  <2>1. ASSUME NEW u \in Tasks, InQueue(u)'
        PROVE  /\ NotYet(records'[u])
               /\ \A q \in Procs :
                    /\ proc'[q].drop # u
                    /\ proc'[q].task = u => Bystander(proc'[q]) /\ ~ proc'[q].snap.paused
    <3>1. /\ NotYet(records[u])
          /\ \A q \in Procs :
               /\ proc[q].drop # u
               /\ proc[q].task = u => Bystander(proc[q]) /\ ~ proc[q].snap.paused
      BY <1>r, <1>0, <2>1 DEF LineInv
    <3>2. n.task = u => Bystander(n) /\ ~ n.snap.paused
      <4>1. u = t => Bystander(n)
        BY <2>1 DEF Enters
      <4> QED
        BY <1>0, <1>f, <4>1
    <3> QED
      BY <1>0, <1>p, <1>d, <3>1, <3>2
  <2> QED
    BY <1>0, <2>1 DEF LineInv, NoRepeat
<1>n4. TokenInv'
  <2> SUFFICES ASSUME NEW r \in Procs, Token(proc'[r])
               PROVE  /\ NotYet(records'[proc'[r].task])
                      /\ \A i \in DOMAIN queue' : queue'[i] # proc'[r].task
                      /\ ~ proc'[r].snap.paused
                      /\ \A q \in Procs :
                           /\ proc'[q].drop # proc'[r].task
                           /\ q # r /\ proc'[q].task = proc'[r].task
                                => Bystander(proc'[q]) /\ ~ proc'[q].snap.paused
    BY DEF TokenInv, InQueue
  <2>1. proc'[r].task \in Tasks
    BY Roles DEF TypeInv, TypeOK
  <2>2. CASE r = p
    <3>1. /\ NotYet(records[t])
          /\ \A q \in Procs :
               /\ proc[q].drop # t
               /\ q # p /\ proc[q].task = t => Bystander(proc[q]) /\ ~ proc[q].snap.paused
      BY <2>2 DEF Enters
    <3>2. \A i \in DOMAIN queue' : queue'[i] # t
      BY <2>2 DEF Enters, InQueue
    <3> QED
      BY <1>0, <1>1, <1>d, <1>f, <2>2, <3>1, <3>2
  <2>3. CASE r # p
    <3>1. proc'[r] = proc[r]
      BY <1>0, <2>3
    <3>2. /\ NotYet(records[proc[r].task]) /\ ~ InQueue(proc[r].task)
          /\ ~ proc[r].snap.paused
          /\ \A q \in Procs :
               /\ proc[q].drop # proc[r].task
               /\ q # r /\ proc[q].task = proc[r].task
                    => Bystander(proc[q]) /\ ~ proc[q].snap.paused
      BY <1>r, <3>1 DEF TokenInv
    <3>3. \A u \in Tasks : u = proc[r].task => \A i \in DOMAIN queue' : queue'[i] # u
      BY <1>0, <3>2 DEF InQueue
    <3>4. proc[r].task = t => Bystander(n)
      BY <2>3, <3>1 DEF Enters
    <3> QED
      BY <1>0, <1>d, <1>f, <2>1, <2>3, <3>1, <3>2, <3>3, <3>4
  <2> QED
    BY <2>2, <2>3
<1>n5. KindInv'
  <2> SUFFICES ASSUME NEW u \in Tasks PROVE \E k \in Kinds : Kinded(u, k)'
    BY DEF KindInv
  <2>1. PICK k \in Kinds : Kinded(u, k) /\ (u = t => n.kind \in {k, "none"})
    BY <1>r DEF KindInv, Enters
  <2> QED
    BY <1>0, <1>f, <1>p, <2>1 DEF Kinded
<1>n6. UploadInv'
  <2> SUFFICES ASSUME NEW u \in Tasks \ Lost', Generates(u)',
                      \/ InQueue(u)' \/ records'[u].status \in {"QUEUED", "PENDING"}
                      \/ \E q \in Procs : proc'[q].task = u /\ Early(proc'[q])
               PROVE  u \in uploads'
    BY DEF UploadInv
  <2>1. /\ Early(n) => Waits(t)
        /\ n.kind = "generate" => ~ Waits(t) /\ ~ Early(n)
    BY DEF Enters
  <2>2. Waits(u)
    <3>1. CASE InQueue(u)'
      BY <1>0, <3>1 DEF Waits
    <3>2. CASE records'[u].status \in {"QUEUED", "PENDING"}
      BY <1>0, <3>2 DEF Waits
    <3>3. CASE \E q \in Procs : proc'[q].task = u /\ Early(proc'[q])
      BY <1>0, <1>p, <2>1, <3>3 DEF Waits
    <3> QED
      BY <3>1, <3>2, <3>3
  <2>3. Generates(u)
    BY <1>0, <1>f, <1>p, <2>1, <2>2 DEF Generates
  <2> QED
    BY <1>r, <1>0, <2>2, <2>3 DEF UploadInv, Waits, Lost
<1>n7. BegunInv'
  BY <1>r, <1>0, <1>d DEF BegunInv, Begun
<1>n8. TemplateInv'
  BY <1>r, <1>0 DEF TemplateInv, CompletedHasTemplate, Filled
<1>n9. PauseInv'
  BY <1>r, <1>0, <1>f DEF PauseInv
<1>n10. ResumeInv'
  <2>1. Resumes(n) => records[t].paused
    BY DEF Enters
  <2> QED
    BY <1>r, <1>0, <2>1 DEF ResumeInv
<1> QED
  BY <1>n1, <1>n2, <1>n3, <1>n4, <1>n5, <1>n6, <1>n7, <1>n8, <1>n9, <1>n10 DEF RunInv

(* A record has the kind of its task.                                       *)
LEMMA RecordKind ==
  ASSUME TypeInv, RunInv, NEW t \in Tasks
  PROVE  /\ \E k \in Kinds : Kinded(t, k)
         /\ t \notin issued => \A k \in Kinds : Kinded(t, k)
         /\ \A k \in Kinds : records[t].status # "NONE" /\ Kinded(t, k) => k = records[t].kind
<1>1. \E k \in Kinds : Kinded(t, k)
  BY DEF RunInv, KindInv
<1>2. ASSUME t \notin issued, NEW k \in Kinds PROVE Kinded(t, k)
  BY <1>2 DEF RunInv, NewInv, Kinded, NoRecord
<1>3. ASSUME records[t].status # "NONE", NEW k \in Kinds, Kinded(t, k) PROVE k = records[t].kind
  <2>1. records[t] \in Records
    BY DEF TypeInv, TypeOK
  <2>2. records[t].kind \in Kinds
    BY <1>3, <2>1 DEF Records, NoRecord
  <2> QED
    BY <1>3, <2>2 DEF Kinded, Kinds
<1> QED
  BY <1>1, <1>2, <1>3

(* What a request that finds a record, and nothing of a start, comes upon.  *)
LEMMA FoundFacts ==
  ASSUME TypeInv, RunInv, NEW t \in Tasks, records[t].status # "NONE"
  PROVE  /\ t \in issued
         /\ \A q \in Procs : proc[q].task = t => proc[q].at \notin Starting
         /\ records[t].status \notin {"NONE", "QUEUED", "PENDING", "RUNNING", "CANCELLED"} =>
              /\ ~ InQueue(t)
              /\ \A q \in Procs : proc[q].task = t => ~ Token(proc[q])
BY DEF RunInv, NewInv, StartInv, LineInv, TokenInv, NotYet, NoRecord

(* So do the requests that begin with a call of their own. *)
LEMMA KeepCall ==
  ASSUME TypeInv, TypeInv', RunInv, NEW p \in Procs, NEW t \in Tasks,
         \/ \E kind \in Kinds : Start(p, t, kind)
         \/ SubmitInput(p, t) \/ Cancel(p, t) \/ Dismiss(p, t)
  PROVE  RunInv'
<1> USE DEF keys, fixed
<1>i. /\ Idle.at = "idle" /\ Idle.task = NoTask /\ Idle.op = "none" /\ Idle.drop = NoTask
      /\ Idle.kind = "none" /\ Idle.snap = NoRecord
      /\ Idle = [at |-> "idle", task |-> NoTask, kind |-> "none", op |-> "none",
                 snap |-> NoRecord, drop |-> NoTask]
  BY DEF Idle
<1>t. proc \in [Procs -> Process] /\ records \in [Tasks -> Records] /\ WellFormed(proc[p])
  BY DEF TypeInv, TypeOK
<1>q. LineInv /\ queue \in Seq(Tasks)
  BY DEF RunInv, TypeInv, TypeOK
<1>k. \E k \in Kinds : Kinded(t, k)
  BY RecordKind
<1>a. /\ records' = records /\ uploads' = uploads /\ flags' = flags /\ dismissed' = dismissed /\ expired' = expired
      /\ templates' = templates /\ queue' = queue /\ issued \subseteq issued'
      /\ NoRepeat(queue') /\ \A u \in Tasks : InQueue(u)' <=> InQueue(u)
      /\ proc[p].at = "idle" /\ proc[p].task = NoTask
  <2>1. proc[p].at = "idle" => proc[p].task = NoTask
    BY <1>t DEF WellFormed, NoTaskYet
  <2> QED
    BY <2>1, <1>q, LineKeeps DEF Start, SubmitInput, Cancel, Dismiss, At, InQueue
<1>b. ASSUME NEW s, Becomes(p, s)
      PROVE  proc'[p] = s /\ \A q \in Procs : q # p => proc'[q] = proc[q]
  BY <1>t, <1>b DEF Becomes
<1>1. ASSUME NEW kind \in Kinds, Start(p, t, kind) PROVE RunInv'
  <2> DEFINE n == [Idle EXCEPT !.at = "count", !.task = t, !.kind = kind]
  <2>1. proc'[p] = n /\ \A q \in Procs : q # p => proc'[q] = proc[q]
    BY <1>b, <1>1 DEF Start
  <2>2. /\ n.at = "count" /\ n.task = t /\ n.kind = kind /\ n.op = "none" /\ n.snap = NoRecord
        /\ n.drop = NoTask
    BY <1>i
  <2> HIDE DEF n
  <2>3. /\ t \notin issued /\ t \in issued'
        /\ records[t] = NoRecord /\ ~ InQueue(t)
        /\ \A q \in Procs : proc[q].task # t /\ proc[q].drop # t
    BY <1>1 DEF Start, RunInv, NewInv
  <2>4. n.at \in Starting /\ ~ Begun(n) /\ ~ Filled(n) /\ ~ Finishes(n) /\ ~ Resumes(n) /\ ~ Early(n)
    BY <2>2 DEF Starting, Begun, Filled, Finishes, Resumes, Early
  <2>5. NotYet(records[t]) /\ ~ Waits(t)
    BY <2>3 DEF NotYet, NoRecord, Waits
  <2>6. Kinded(t, kind)
    BY <2>3, RecordKind
  <2>7. Enters(p, t)
    BY <1>a, <2>1, <2>2, <2>3, <2>4, <2>5, <2>6 DEF Enters
  <2> QED
    BY <2>7, EnterKeeps
<1>2. CASE SubmitInput(p, t)
  <2> DEFINE n == [Idle EXCEPT !.at = "fetch", !.op = "RESUMING", !.task = t, !.kind = "dry_run"]
  <2>1. proc'[p] = n /\ \A q \in Procs : q # p => proc'[q] = proc[q]
    BY <1>b, <1>2 DEF SubmitInput
  <2>2. /\ n.at = "fetch" /\ n.task = t /\ n.kind = "dry_run" /\ n.op = "RESUMING"
        /\ n.snap = NoRecord /\ n.drop = NoTask
    BY <1>i
  <2> HIDE DEF n
  <2>3. records[t].status = "AWAITING_INPUT" /\ issued' = issued
    BY <1>2 DEF SubmitInput
  <2>4. records[t].paused /\ records[t].kind = "dry_run"
    BY <2>3 DEF RunInv, PauseInv
  <2>5. /\ t \in issued /\ ~ InQueue(t)
        /\ \A q \in Procs : proc[q].task = t => proc[q].at \notin Starting /\ ~ Token(proc[q])
    BY <2>3, FoundFacts
  <2>6. /\ n.at \notin Starting /\ ~ Begun(n) /\ ~ Filled(n) /\ ~ Finishes(n) /\ ~ Early(n)
        /\ ~ Token(n)
    BY <2>2 DEF Starting, Begun, Filled, Finishes, Early, Token
  <2>7. Kinded(t, "dry_run") /\ "dry_run" \in Kinds
    BY <1>k, <2>3, <2>4, RecordKind DEF Kinds
  <2>8. Enters(p, t)
    BY <1>a, <2>1, <2>2, <2>3, <2>4, <2>5, <2>6, <2>7 DEF Enters
  <2> QED
    BY <2>8, EnterKeeps
<1>3. CASE Cancel(p, t) \/ Dismiss(p, t)
  <2>1. PICK n : /\ Becomes(p, n)
                 /\ \/ n = [Idle EXCEPT
                         !.at = IF records[t].status = "QUEUED" THEN "unpark" ELSE "fetch",
                         !.op = "CANCELLED", !.task = t]
                    \/ n = [Idle EXCEPT !.at = "find", !.task = t]
    BY <1>3 DEF Cancel, Dismiss
  <2>2. proc'[p] = n /\ \A q \in Procs : q # p => proc'[q] = proc[q]
    BY <1>b, <2>1
  <2>3. /\ \/ n.at \in {"unpark", "fetch"} /\ n.op = "CANCELLED"
           \/ n.at = "find" /\ n.op = "none"
        /\ n.task = t /\ n.kind = "none" /\ n.snap = NoRecord /\ n.drop = NoTask
    BY <1>i, <2>1
  <2>4. records[t].status # "NONE" /\ issued' = issued
    BY <1>3 DEF Cancel, Dismiss, Exists, Active, Working
  <2>5. t \in issued /\ \A q \in Procs : proc[q].task = t => proc[q].at \notin Starting
    BY <2>4, FoundFacts
  <2>6. /\ n.at \notin Starting /\ ~ Begun(n) /\ ~ Filled(n) /\ ~ Finishes(n) /\ ~ Early(n)
        /\ ~ Token(n) /\ ~ Resumes(n) /\ Bystander(n) /\ n.at # "store"
    BY <2>3 DEF Starting, Begun, Filled, Finishes, Early, Token, Resumes, Bystander
  <2>7. Enters(p, t)
    BY <1>a, <1>k, <2>2, <2>3, <2>4, <2>5, <2>6 DEF Enters
  <2> QED
    BY <2>7, EnterKeeps
<1> QED
  BY <1>1, <1>2, <1>3

(* The head of the queue comes to the job that drains.                      *)
LEMMA KeepDrainPop ==
  ASSUME TypeInv, TypeInv', RunInv, NEW p \in Procs, DrainPop(p)
  PROVE  RunInv'
<1> DEFINE o == proc[p]
<1> USE DEF keys, fixed
<1>r. LineInv /\ TokenInv /\ NewInv
  BY DEF RunInv
<1>t. /\ proc \in [Procs -> Process] /\ o \in Process /\ WellFormed(o) /\ o.at = "pop"
      /\ queue \in Seq(Tasks)
  BY DEF TypeInv, TypeOK, DrainPop, At
<1>1. o.task = NoTask /\ o.op = "none" /\ o.kind = "none" /\ o.snap = NoRecord
  <2>1. o.snap.status = "NONE" /\ o.snap \in Records
    BY <1>t DEF WellFormed, Process
  <2> QED
    BY <1>t, <2>1, NoneIsNoRecord DEF WellFormed, NoTaskYet, Writing
<1>2. /\ records' = records /\ uploads' = uploads /\ flags' = flags /\ dismissed' = dismissed /\ expired' = expired
      /\ templates' = templates /\ issued' = issued
  BY DEF DrainPop
<1>b. ASSUME NEW s, Becomes(p, s)
      PROVE  proc'[p] = s /\ \A q \in Procs : q # p => proc'[q] = proc[q]
  BY <1>t, <1>b DEF Becomes
<1>l. /\ NoRepeat(queue)
      /\ \A t \in Tasks : Occurs(queue, t) <=> InQueue(t)
      /\ \A t \in Tasks : Occurs(queue', t) <=> InQueue(t)'
  BY <1>r, LineKeeps
<1>3. CASE queue = <<>>
  <2>1. proc'[p] = Ends(p) /\ \A q \in Procs : q # p => proc'[q] = proc[q]
    BY <1>3, <1>b DEF DrainPop
  <2>2. Ends(p).task = NoTask /\ Ends(p).drop \in {o.drop, NoTask}
    BY DEF Ends, Idle
  <2>3. Calm(p)
    BY <1>2, <2>1, <2>2 DEF Calm
  <2>4. Around(p)
    BY <1>2, <1>3, <1>l DEF DrainPop, Around
  <2> QED
    BY <1>2, <2>3, <2>4, CalmKeeps
<1>4. CASE queue # <<>>
  <2>0. PICK t \in Tasks : t = Head(queue)
    BY <1>t, <1>4, HeadTailProperties
  <2> DEFINE n == [o EXCEPT !.at = "peek", !.task = t]
  <2>1. queue' = Tail(queue) /\ proc'[p] = n /\ \A q \in Procs : q # p => proc'[q] = proc[q]
    BY <1>4, <1>b, <2>0 DEF DrainPop
  <2>3. /\ NoRepeat(queue') /\ InQueue(t) /\ ~ Occurs(queue', t)
        /\ \A u \in Tasks : InQueue(u)' => InQueue(u)
    BY <1>t, <1>4, <1>l, <2>0, <2>1, TailLine
  <2>4. /\ n.at = "peek" /\ n.task = t /\ n.kind = "none" /\ n.op = "none"
        /\ n.snap = NoRecord /\ n.drop = o.drop
    BY <1>t, <1>1 DEF Process
  <2> HIDE DEF n
  <2>5. ~ InQueue(t)'
    BY <1>l, <2>3
  <2>6. /\ NotYet(records[t])
        /\ \A q \in Procs :
             /\ proc[q].drop # t
             /\ proc[q].task = t => /\ Bystander(proc[q]) /\ ~ proc[q].snap.paused
                                    /\ ~ Token(proc[q])
    BY <1>r, <2>3, Roles DEF LineInv, TypeInv, TypeOK
  <2>7. \A q \in Procs : proc[q].task = t => proc[q].at \notin Starting
    BY <2>6 DEF Token
  <2>8. t \in issued /\ Waits(t)
    BY <1>r, <2>3 DEF NewInv, Waits
  <2>9. n.at \notin Starting /\ ~ Begun(n) /\ ~ Filled(n) /\ ~ Finishes(n) /\ ~ Resumes(n)
        /\ Token(n)
    BY <2>4 DEF Starting, Begun, Filled, Finishes, Resumes, Token
  <2>10. \E k \in Kinds : Kinded(t, k)
    BY RecordKind
  <2>11. Enters(p, t)
    BY <1>1, <1>2, <2>1, <2>3, <2>4, <2>5, <2>6, <2>7, <2>8, <2>9, <2>10 DEF Enters
  <2> QED
    BY <2>11, EnterKeeps
<1> QED
  BY <1>3, <1>4

(* A kick hands its task over to a worker.                                  *)
LEMMA KeepKick ==
  ASSUME TypeInv, TypeInv', RunInv, NEW p \in Procs, Kick(p)
  PROVE  RunInv'
<1> DEFINE o == proc[p]
           t == o.task
<1> USE DEF keys, fixed
<1>r. NewInv /\ StartInv /\ LineInv /\ TokenInv /\ KindInv /\ UploadInv /\ BegunInv /\ TemplateInv
      /\ PauseInv /\ ResumeInv
  BY DEF RunInv
<1>f. ~ NoRecord.paused /\ NoRecord.kind = "none" /\ NoRecord.status = "NONE"
  BY DEF NoRecord
<1>i. /\ Idle.at = "idle" /\ Idle.task = NoTask /\ Idle.op = "none" /\ Idle.drop = NoTask
      /\ Idle.kind = "none" /\ Idle.snap = NoRecord
      /\ Idle = [at |-> "idle", task |-> NoTask, kind |-> "none", op |-> "none",
                 snap |-> NoRecord, drop |-> NoTask]
  BY DEF Idle
<1>t. /\ proc \in [Procs -> Process] /\ WellFormed(o) /\ o \in Process /\ o.snap \in Records
  BY DEF TypeInv, TypeOK, Process
<1>0. /\ records' = records /\ queue' = queue /\ uploads' = uploads /\ flags' = flags
      /\ dismissed' = dismissed /\ expired' = expired /\ templates' = templates /\ issued' = issued
      /\ \A u \in Tasks : /\ InQueue(u)' <=> InQueue(u)
                          /\ Free(u)' <=> Free(u)
  BY DEF Kick, InQueue, Free
<1>1. PICK label \in InBroker :
        /\ Kiq(p, label)
        /\ label = "queued_run" => o.at = "kick"
        /\ label = "queued_resume" => o.at = "kick_resume"
  BY DEF Kick, InBroker, At
<1>2. PICK j \in Jobs :
        proc' = [proc EXCEPT ![p] = Ends(p),
                             ![j] = [Idle EXCEPT !.at = label, !.task = t, !.kind = o.kind]]
  BY <1>1 DEF Kiq
<1> DEFINE m == [Idle EXCEPT !.at = label, !.task = t, !.kind = o.kind]
<1>3. /\ m.at = label /\ m.task = t /\ m.kind = o.kind /\ m.op = "none" /\ m.snap = NoRecord
      /\ m.drop = NoTask
  BY <1>i
<1>4. Ends(p).task = NoTask /\ Ends(p).drop \in {o.drop, NoTask} /\ Ends(p).kind = "none"
  BY DEF Ends, Idle
<1>5. /\ proc'[j] = m
      /\ p # j => proc'[p] = Ends(p)
      /\ \A q \in Procs : q # p /\ q # j => proc'[q] = proc[q]
  BY <1>2, <1>t
<1> HIDE DEF m
<1>6. /\ o.at \in {"kick", "kick_resume"} /\ o.op = "none" /\ t \in Tasks /\ o.snap = NoRecord
      /\ label \in {"queued_run", "queued_resume"}
  <2>1. o.at \in {"kick", "kick_resume"}
    BY <1>1 DEF InBroker
  <2>2. o.op = "none" /\ t \in Tasks /\ o.snap.status = "NONE"
    BY <1>t, <2>1 DEF WellFormed, NoTaskYet, Writing, Process
  <2> QED
    BY <1>t, <2>1, <2>2, NoneIsNoRecord DEF InBroker
(* j plays the part of p, p plays none.                                     *)
<1>7. /\ Token(m) <=> Token(o)
      /\ Early(m) <=> Early(o)
      /\ Resumes(m) <=> Resumes(o)
      /\ Finishes(m) <=> Finishes(o)
      /\ ~ Bystander(m) /\ ~ Bystander(o) /\ ~ Begun(m) /\ ~ Filled(m)
      /\ m.at \notin Starting /\ m.at # "store"
  BY <1>1, <1>3, <1>6 DEF Token, Early, Resumes, Finishes, Bystander, Begun, Filled, Starting
<1>8. \A q \in Procs : proc'[q].task \in Tasks =>
        \/ q = j /\ proc'[q] = m
        \/ q # p /\ q # j /\ proc'[q] = proc[q]
  BY <1>4, <1>5
<1>9. \A q \in Procs : proc'[q].drop # NoTask => proc'[q].drop = proc[q].drop
  BY <1>3, <1>4, <1>5
<1>10. t \in issued /\ p \in Procs
  BY <1>r, <1>6 DEF NewInv
<1>n1. NewInv'
  BY <1>r, <1>0, <1>3, <1>6, <1>8, <1>9, <1>10 DEF NewInv
<1>n2. StartInv'
  <2> SUFFICES ASSUME NEW r \in Procs, proc'[r].at \in Starting
               PROVE  /\ records'[proc'[r].task] = NoRecord
                      /\ \A q \in Procs : q # r => proc'[q].task # proc'[r].task
    BY DEF StartInv
  <2>1. proc'[r].task \in Tasks
    BY DEF TypeInv, TypeOK, WellFormed, NoTaskYet, Starting, Process
  <2>2. r # j /\ r # p /\ proc'[r] = proc[r]
    BY <1>7, <1>8, <2>1
  <2>3. records[proc[r].task] = NoRecord /\ \A q \in Procs : q # r => proc[q].task # proc[r].task
    BY <1>r, <2>2 DEF StartInv
  <2> QED
    BY <1>0, <1>3, <1>8, <2>1, <2>2, <2>3
<1>n3. LineInv'
  <2>1. ASSUME NEW u \in Tasks, InQueue(u)'
        PROVE  /\ NotYet(records'[u])
               /\ \A q \in Procs :
                    /\ proc'[q].drop # u
                    /\ proc'[q].task = u => Bystander(proc'[q]) /\ ~ proc'[q].snap.paused
    <3>1. /\ NotYet(records[u])
          /\ \A q \in Procs :
               /\ proc[q].drop # u
               /\ proc[q].task = u => Bystander(proc[q]) /\ ~ proc[q].snap.paused
      BY <1>r, <1>0, <2>1 DEF LineInv
    <3>2. t # u
      BY <1>7, <3>1
    <3> QED
      BY <1>0, <1>3, <1>8, <1>9, <3>1, <3>2
  <2> QED
    BY <1>r, <1>0, <2>1 DEF LineInv
<1>n4. TokenInv'
  <2> SUFFICES ASSUME NEW r \in Procs, Token(proc'[r])
               PROVE  /\ NotYet(records'[proc'[r].task])
                      /\ \A i \in DOMAIN queue' : queue'[i] # proc'[r].task
                      /\ ~ proc'[r].snap.paused
                      /\ \A q \in Procs :
                           /\ proc'[q].drop # proc'[r].task
                           /\ q # r /\ proc'[q].task = proc'[r].task
                                => Bystander(proc'[q]) /\ ~ proc'[q].snap.paused
    BY DEF TokenInv, InQueue
  <2>1. proc'[r].task \in Tasks
    BY Roles DEF TypeInv, TypeOK
  <2>2. PICK s \in Procs : /\ Token(proc[s]) /\ proc'[r].task = proc[s].task
                           /\ r = j => s = p
                           /\ r # j => s = r /\ r # p
    BY <1>3, <1>7, <1>8, <1>10, <2>1
  <2>3. /\ NotYet(records[proc[s].task]) /\ ~ InQueue(proc[s].task)
        /\ \A q \in Procs :
             /\ proc[q].drop # proc[s].task
             /\ q # s /\ proc[q].task = proc[s].task
                  => Bystander(proc[q]) /\ ~ proc[q].snap.paused
    BY <1>r, <2>2 DEF TokenInv
  <2>4. \A q \in Procs : q # r /\ proc'[q].task = proc'[r].task =>
          Bystander(proc'[q]) /\ ~ proc'[q].snap.paused
    <3> SUFFICES ASSUME NEW q \in Procs, q # r, proc'[q].task = proc'[r].task
                 PROVE  Bystander(proc'[q]) /\ ~ proc'[q].snap.paused
      OBVIOUS
    <3>1. CASE q = j
      <4>1. proc[p].task = proc[s].task /\ s = r /\ r # p
        BY <1>3, <1>5, <2>2, <3>1
      <4> QED
        BY <1>7, <1>10, <2>3, <4>1
    <3>2. CASE q # j
      <4>1. q # p /\ proc'[q] = proc[q]
        BY <1>8, <2>1, <3>2
      <4> QED
        BY <2>2, <2>3, <4>1
    <3> QED
      BY <3>1, <3>2
  <2>5. \A i \in DOMAIN queue' : queue'[i] # proc'[r].task
    BY <1>0, <2>2, <2>3 DEF InQueue
  <2>6. ~ proc'[r].snap.paused
    <3>1. r # j => ~ proc[r].snap.paused
      BY <1>r, <2>2 DEF TokenInv
    <3> QED
      BY <1>3, <1>5, <1>f, <1>8, <2>1, <3>1
  <2> QED
    BY <1>0, <1>9, <2>1, <2>2, <2>3, <2>4, <2>5, <2>6
<1>n5. KindInv'
  <2> SUFFICES ASSUME NEW u \in Tasks PROVE \E k \in Kinds : Kinded(u, k)'
    BY DEF KindInv
  <2>1. PICK k \in Kinds : Kinded(u, k)
    BY <1>r DEF KindInv
  <2>2. \A q \in Procs : proc'[q].task = u =>
          proc'[q].kind \in {k, "none"} /\ proc'[q].snap.kind \in {k, "none"}
    BY <1>3, <1>f, <1>8, <1>10, <2>1 DEF Kinded
  <2> QED
    BY <1>0, <2>1, <2>2 DEF Kinded
<1>n6. UploadInv'
  <2> SUFFICES ASSUME NEW u \in Tasks \ Lost', Generates(u)',
                      \/ InQueue(u)' \/ records'[u].status \in {"QUEUED", "PENDING"}
                      \/ \E q \in Procs : proc'[q].task = u /\ Early(proc'[q])
               PROVE  u \in uploads'
    BY DEF UploadInv
  <2>1. Waits(u)
    BY <1>0, <1>3, <1>7, <1>8, <1>10 DEF Waits
  <2>2. Generates(u)
    BY <1>0, <1>3, <1>f, <1>8, <1>10 DEF Generates
  <2> QED
    BY <1>r, <1>0, <2>1, <2>2 DEF UploadInv, Waits, Lost
<1>n7. BegunInv'
  <2>1. ASSUME NEW q \in Procs, Begun(proc'[q])
        PROVE  records'[proc'[q].task].status \notin {"QUEUED", "PENDING"}
    <3>1. proc'[q].task \in Tasks
      BY <2>1, Roles DEF TypeInv, TypeOK
    <3>2. proc'[q] = proc[q]
      BY <1>7, <1>8, <2>1, <3>1
    <3> QED
      BY <1>r, <1>0, <2>1, <3>2 DEF BegunInv, Begun
  <2>2. ASSUME NEW q \in Procs, proc'[q].drop # NoTask
        PROVE  records'[proc'[q].drop].status \notin {"QUEUED", "PENDING"}
    BY <1>r, <1>0, <1>9, <2>2 DEF BegunInv
  <2> QED
    BY <2>1, <2>2 DEF BegunInv, Begun
<1>n8. TemplateInv'
  <2>1. ASSUME NEW q \in Procs, Filled(proc'[q]) PROVE templates'[proc'[q].task] = "full"
    <3>1. proc'[q].task \in Tasks
      BY <2>1, Roles DEF TypeInv, TypeOK
    <3>2. proc'[q] = proc[q]
      BY <1>7, <1>8, <2>1, <3>1
    <3> QED
      BY <1>r, <1>0, <2>1, <3>2 DEF TemplateInv, Filled
  <2> QED
    BY <1>r, <1>0, <2>1 DEF TemplateInv, CompletedHasTemplate, Filled
<1>n9. PauseInv'
  BY <1>r, <1>0, <1>3, <1>7, <1>f, <1>8 DEF PauseInv
<1>n10. ResumeInv'
  BY <1>r, <1>0, <1>3, <1>7, <1>8, <1>10 DEF ResumeInv
<1> QED
  BY <1>n1, <1>n2, <1>n3, <1>n4, <1>n5, <1>n6, <1>n7, <1>n8, <1>n9, <1>n10 DEF RunInv

(* Every step keeps the parts of RunInv.                                    *)
LEMMA RunNext == TypeInv /\ TypeInv' /\ RunInv /\ [Next]_vars => RunInv'
<1> SUFFICES ASSUME TypeInv, TypeInv', RunInv, [Next]_vars PROVE RunInv'
  OBVIOUS
<1>1. CASE UNCHANGED vars
  BY <1>1 DEF vars, keys, fixed, RunInv, NewInv, StartInv, LineInv, TokenInv, KindInv, Kinded,
     UploadInv, Lost, Generates, BegunInv, TemplateInv, CompletedHasTemplate, PauseInv, ResumeInv,
     InQueue, Free
<1>2. ASSUME NEW r \in Requests, Call(r) PROVE RunInv'
  BY <1>2, KeepCall DEF Call
<1>3. ASSUME NEW r \in Requests, Serve(r) PROVE RunInv'
  BY <1>3, KeepCalm, KeepCheckQueueSize, KeepCreate, KeepDelete DEF Serve
<1>4. ASSUME NEW j \in Jobs, Run(j) PROVE RunInv'
  BY <1>4, KeepCalm, KeepDrainPop DEF Run
<1>5. ASSUME NEW p \in Procs, Share(p) PROVE RunInv'
  BY <1>5, KeepFetch, KeepStore, KeepKick DEF Share
<1>6. ASSUME NEW t \in Tasks, Expire(t) PROVE RunInv'
  BY <1>6, KeepExpire
<1> QED
  BY <1>1, <1>2, <1>3, <1>4, <1>5, <1>6 DEF Next

(* The types and the invariant always hold. *)
LEMMA RunCorrect == Spec => [](TypeInv /\ RunInv)
<1>1. Init => TypeInv /\ RunInv
  BY TypeInit, RunInit
<1>2. TypeInv /\ RunInv /\ [Next]_vars => (TypeInv /\ RunInv)'
  BY TypeNext, RunNext
<1> QED
  BY <1>1, <1>2, PTL DEF Spec

(* The document a user uploaded waits in Redis for the job that reads it:   *)
(* no failure, drain or clean-up of another task takes it away from one     *)
(* that is QUEUED or PENDING, only its dismissal or the upload's own TTL.   *)
THEOREM UploadWaitsCorrect == Spec => []UploadWaits
<1>1. RunInv => UploadWaits
  BY DEF RunInv, UploadInv, UploadWaits, Generates, Lost
<1> QED
  BY <1>1, RunCorrect, PTL

(* A generate task that says COMPLETED has both its template row and the    *)
(* fields of the second transaction.                                        *)
THEOREM CompletedHasTemplateCorrect == Spec => []CompletedHasTemplate
<1>1. RunInv => CompletedHasTemplate
  BY DEF RunInv, TemplateInv
<1> QED
  BY <1>1, RunCorrect, PTL

(* A resume job finds the values of the pause and the user's picks.         *)
THEOREM ResumeCompleteCorrect == Spec => []ResumeComplete
<1>1. TypeInv /\ RunInv => ResumeComplete
  <2> SUFFICES ASSUME TypeInv, RunInv, NEW j \in Jobs, At(j, "queued_resume"),
                      proc[j].task \notin flags \cup dismissed
               PROVE  records[proc[j].task].paused /\ records[proc[j].task].picks
    BY DEF ResumeComplete
  <2>1. j \in Procs /\ proc[j].task # NoTask /\ Free(proc[j].task)
    BY DEF At, TypeInv, TypeOK, WellFormed, NoTaskYet, Free
  <2>2. Resumes(proc[j]) /\ Finishes(proc[j])
    BY DEF At, Resumes, Finishes
  <2> QED
    BY <2>1, <2>2, OwnFacts
<1> QED
  BY <1>1, RunCorrect, PTL

=============================================================================
