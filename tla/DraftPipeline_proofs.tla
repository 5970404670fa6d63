------------------------ MODULE DraftPipeline_proofs ------------------------
(***************************************************************************)
(* Theorems about DraftPipeline, for every choice of its constants.        *)
(***************************************************************************)
EXTENDS DraftPipeline, WaitingLine_proofs, SequenceTheorems, FiniteSetTheorems, TLAPS

(* A process has a task unless it is idle or about to drain, and it knows   *)
(* which write it is making exactly while it makes one.                     *)
NoTaskYet == {"idle", "drain", "pop"}
Writing   == {"unpark_cancel", "fetch", "flag", "store"}
WellFormed(s) ==
  /\ s.at \in NoTaskYet <=> s.task = NoTask
  /\ s.at \in Writing <=> s.op # "none"

ProcsOK == proc \in [Procs -> Process] /\ \A p \in Procs : WellFormed(proc[p])
TypeInv == TypeOK /\ ProcsOK

(* What a set_* writes is a task record.                                    *)
LEMMA UpdatedType ==
  ASSUME NEW op \in Ops \ {"none"}, NEW rec \in Records, NEW row \in Nat
  PROVE  Updated(op, rec, row) \in Records
BY DEF Updated, Ops, Records, Statuses, Active, Terminal

(* A missing record is a record.                                          *)
LEMMA NoRecordType == NoRecord \in Records
BY DEF NoRecord, Records

(* A process that has no task yet is in order.                              *)
LEMMA NoTaskType ==
  ASSUME NEW label \in NoTaskYet
  PROVE  /\ [Idle EXCEPT !.at = label] \in Process
         /\ WellFormed([Idle EXCEPT !.at = label])
<1> DEFINE s == [Idle EXCEPT !.at = label]
<1>1. /\ s.at = label /\ s.task = NoTask /\ s.op = "none" /\ s.snap = NoRecord
      /\ s.row = 0 /\ s.skip = FALSE
  BY DEF Idle
<1>2. NoRecord \in Records
  BY DEF NoRecord, Records
<1>3. s \in Process
  BY <1>2 DEF Process, Idle, NoTaskYet, Labels, Ops
<1>4. WellFormed(s)
  BY <1>1 DEF WellFormed, NoTaskYet, Writing
<1> QED
  BY <1>3, <1>4

(* An idle process is in order.                                           *)
LEMMA IdleType == Idle \in Process /\ WellFormed(Idle)
<1>1. NoRecord \in Records
  BY DEF NoRecord, Records
<1>2. Idle \in Process
  BY <1>1 DEF Process, Idle, Labels, Ops
<1>3. WellFormed(Idle)
  BY DEF Idle, WellFormed, NoTaskYet, Writing
<1> QED
  BY <1>2, <1>3

(* A process about to drain is in order.                                  *)
LEMMA DrainType ==
  [Idle EXCEPT !.at = "drain"] \in Process /\ WellFormed([Idle EXCEPT !.at = "drain"])
BY NoTaskType DEF NoTaskYet

(* After a write a process is idle, drains, or goes on with its task.       *)
LEMMA ThenType ==
  ASSUME NEW op \in Ops \ {"none"}, NEW s \in Process, s.task \in Tasks,
         NoTask \notin Tasks
  PROVE  Then(op, s) \in Process /\ WellFormed(Then(op, s))
<1> USE DEF Then, Process, Idle, Records, NoRecord, Labels, InBroker, Statuses,
            Active, Terminal, Ops, WellFormed, NoTaskYet, Writing
<1>1. CASE op = "checking"
  BY <1>1
<1>2. CASE op \in {"existing", "awaiting"}
  BY <1>2
<1>3. CASE op = "attach"
  BY <1>3
<1>4. CASE op \in {"drafting", "redrafting"}
  BY <1>4
<1>5. CASE op \in {"completed", "failed", "adopt", "cancelled"}
  <2>1. Then(op, s) = [Idle EXCEPT !.at = "drain"]
    BY <1>5
  <2> QED
    BY <2>1, DrainType
<1>6. CASE op \in {"promote", "reset"}
  BY <1>6
<1> QED
  BY <1>1, <1>2, <1>3, <1>4, <1>5, <1>6

(* Changing the status of a log row keeps the table and its length.         *)
LEMMA RowSetType ==
  ASSUME NEW r \in Nat, NEW status \in RowStatuses, rows \in Seq(Rows)
  PROVE  RowSet(r, status) \in Seq(Rows)
<1> DEFINE row == [task |-> rows[r].task, status |-> status,
                   doc |-> rows[r].doc \/ status = "COMPLETED"]
<1>0. rows \in [1..Len(rows) -> Rows] /\ DOMAIN rows = 1..Len(rows) /\ Len(rows) \in Nat
  BY LenProperties
<1>1. CASE r \in 1..Len(rows)
  <2>1. row \in Rows
    BY <1>0, <1>1 DEF Rows
  <2>2. RowSet(r, status) = [rows EXCEPT ![r] = row]
    BY <1>0, <1>1 DEF RowSet
  <2> HIDE DEF row
  <2> QED
    BY <1>1, <2>1, <2>2, ExceptSeq
<1>2. CASE r \notin 1..Len(rows)
  BY <1>0, <1>2 DEF RowSet
<1> QED
  BY <1>1, <1>2

(* A step of one process that leaves it in order leaves all in order.       *)
LEMMA BecomesType ==
  ASSUME ProcsOK, NEW p \in Procs, NEW s \in Process, WellFormed(s), Becomes(p, s)
  PROVE  ProcsOK'
BY DEF ProcsOK, Becomes

(* Types hold at the start ...                                            *)
LEMMA TypeInit == Init => TypeInv
<1> SUFFICES ASSUME Init PROVE TypeInv
  OBVIOUS
<1>1. ProcsOK
  BY IdleType DEF Init, ProcsOK
<1>2. NoRecord \in Records
  BY DEF NoRecord, Records
<1>3. TypeOK
  BY <1>1, <1>2, ConstantsAssumption DEF Init, TypeOK, ProcsOK
<1> QED
  BY <1>1, <1>3 DEF TypeInv

(* Kicking a job leaves the sender idle and a message in the broker.        *)
LEMMA KiqType ==
  ASSUME ProcsOK, NEW p \in Procs, NEW label \in InBroker, NEW t \in Tasks,
         NEW skip \in BOOLEAN, Kiq(p, label, t, skip)
  PROVE  ProcsOK'
<1> DEFINE s == [Idle EXCEPT !.at = label, !.task = t, !.skip = skip]
<1>1. s \in Process /\ WellFormed(s)
  BY NoRecordType, ConstantsAssumption
     DEF Idle, Process, WellFormed, Labels, InBroker, Ops, NoTaskYet, Writing
<1>2. PICK j \in Jobs : proc' = [proc EXCEPT ![p] = Idle, ![j] = s]
  BY DEF Kiq
<1>3. j \in Procs
  BY DEF Procs
<1> HIDE DEF s
<1> QED
  BY <1>1, <1>2, <1>3, IdleType DEF ProcsOK

(* ... and every step keeps them.                                         *)
LEMMA TypeNext == TypeInv /\ [Next]_vars => TypeInv'
<1> SUFFICES ASSUME TypeInv, [Next]_vars PROVE TypeInv'
  OBVIOUS
<1> USE ConstantsAssumption DEF TypeInv
<1>1. ASSUME NEW r \in Requests, NEW t \in Tasks, NEW skip \in BOOLEAN, Start(r, t, skip)
      PROVE  TypeInv'
  <2> DEFINE s == [Idle EXCEPT !.at = "count", !.task = t, !.skip = skip]
  <2>a. Becomes(r, s)
    BY <1>1 DEF Start, At, Moved
  <2>b. s \in Process /\ WellFormed(s)
    BY <1>1, IdleType, NoRecordType
       DEF Start, TypeOK, Records, Statuses, Active, Terminal, Idle, Process,
           WellFormed, Labels, InBroker, Ops, NoTaskYet, Writing
  <2>1. ProcsOK'
    <3> HIDE DEF s
    <3> QED
      BY <2>a, <2>b, BecomesType DEF Procs
  <2> QED
    BY <1>1, <2>1 DEF Start, TypeOK, ProcsOK, redis, bounds, ListForUser, Visible, Procs
<1>2. ASSUME NEW r \in Requests, CountActive(r) PROVE TypeInv'
  <2> DEFINE s == [proc[r] EXCEPT !.at = IF Cardinality(ActiveTasks) >= MaxConcurrent
                                           THEN "size" ELSE "create_pending"]
  <2>a. Becomes(r, s)
    BY <1>2 DEF CountActive, At, Moved
  <2>b. s \in Process /\ WellFormed(s)
    BY <1>2, IdleType, NoRecordType
       DEF CountActive, TypeOK, ProcsOK, Procs, Records, At, Moved, Process,
           WellFormed, Labels, InBroker, Ops, NoTaskYet, Writing, Idle
  <2>1. ProcsOK'
    <3> HIDE DEF s
    <3> QED
      BY <2>a, <2>b, BecomesType DEF Procs
  <2> QED
    BY <1>2, <2>1
       DEF CountActive, TypeOK, ProcsOK, redis, bounds, ListForUser, Visible, Procs
<1>3. ASSUME NEW r \in Requests, CheckQueueSize(r) PROVE TypeInv'
  <2> DEFINE s == IF Len(queue) >= MaxQueued THEN Idle ELSE Moved(r, "create_queued")
  <2>a. Becomes(r, s)
    BY <1>3 DEF CheckQueueSize, At, Moved
  <2>b. s \in Process /\ WellFormed(s)
    BY <1>3, IdleType, NoRecordType
       DEF CheckQueueSize, TypeOK, ProcsOK, Procs, Records, At, Moved, Process,
           WellFormed, Labels, InBroker, Ops, NoTaskYet, Writing, Idle
  <2>1. ProcsOK'
    <3> HIDE DEF s
    <3> QED
      BY <2>a, <2>b, BecomesType DEF Procs
  <2> QED
    BY <1>3, <2>1
       DEF CheckQueueSize, TypeOK, ProcsOK, redis, bounds, ListForUser, Visible, Procs
<1>4. ASSUME NEW r \in Requests, Create(r) PROVE TypeInv'
  <2> DEFINE s == [proc[r] EXCEPT
                    !.at = IF At(r, "create_pending") THEN "kick" ELSE "park"]
  <2>a. Becomes(r, s)
    BY <1>4 DEF Create, At, Moved
  <2>b. s \in Process /\ WellFormed(s)
    BY <1>4, IdleType, NoRecordType
       DEF Create, TypeOK, ProcsOK, Procs, Records, At, Moved, Process, WellFormed,
           Labels, InBroker, Ops, NoTaskYet, Writing, Idle
  <2>1. ProcsOK'
    <3> HIDE DEF s
    <3> QED
      BY <2>a, <2>b, BecomesType DEF Procs
  <2>t. proc[r] \in Process /\ proc[r].task \in Tasks
    BY <1>4 DEF Create, At, ProcsOK, Process, WellFormed, NoTaskYet, Procs
  <2>u. /\ [NoRecord EXCEPT !.status = "PENDING"] \in Records
        /\ [NoRecord EXCEPT !.status = "QUEUED"] \in Records
    BY DEF NoRecord, Records, Statuses, Active
  <2>v. records' \in [Tasks -> Records]
    BY <1>4, <2>t, <2>u DEF Create, TypeOK
  <2> QED
    BY <1>4, <2>1, <2>t, <2>v DEF Create, TypeOK, ProcsOK, redis, bounds, Procs
<1>5. ASSUME NEW r \in Requests, Park(r) PROVE TypeInv'
  <2> DEFINE s == Idle
  <2>a. Becomes(r, s)
    BY <1>5 DEF Park, At, Moved
  <2>b. s \in Process /\ WellFormed(s)
    BY <1>5, IdleType, NoRecordType
       DEF Park, TypeOK, Records, Statuses, Active, Terminal, Idle, Process,
           WellFormed, Labels, InBroker, Ops, NoTaskYet, Writing
  <2>1. ProcsOK'
    <3> HIDE DEF s
    <3> QED
      BY <2>a, <2>b, BecomesType DEF Procs
  <2>t. proc[r] \in Process /\ proc[r].task \in Tasks
    BY <1>5 DEF Park, At, ProcsOK, Process, WellFormed, NoTaskYet, Procs
  <2>u. queue' \in Seq(Tasks)
    BY <1>5, <2>t, AppendProperties DEF Park, TypeOK
  <2> QED
    BY <1>5, <2>1, <2>u DEF Park, TypeOK, ProcsOK, redis, bounds, Procs
<1>6. ASSUME NEW p \in Procs, Kick(p) PROVE TypeInv'
  <2>t. proc[p] \in Process /\ proc[p].task \in Tasks
    BY <1>6 DEF Kick, At, ProcsOK, Process, WellFormed, NoTaskYet, Procs
  <2>1. ProcsOK'
    <3>1. proc[p].skip \in BOOLEAN /\ "queued_draft" \in InBroker
      BY <2>t DEF Process, InBroker
    <3> QED
      BY <1>6, <2>t, <3>1, KiqType DEF Kick
  <2> QED
    BY <1>6, <2>1 DEF Kick, TypeOK, ProcsOK, redis, bounds, ListForUser, Visible, Procs
<1>7. ASSUME NEW r \in Requests, NEW t \in Tasks, SubmitInput(r, t) PROVE TypeInv'
  <2>1. ProcsOK'
    BY <1>7, KiqType DEF SubmitInput, InBroker, Procs
  <2> QED
    BY <1>7, <2>1
       DEF SubmitInput, TypeOK, ProcsOK, redis, bounds, ListForUser, Visible, Procs
<1>8. ASSUME NEW r \in Requests, NEW t \in Tasks, UseExisting(r, t) PROVE TypeInv'
  <2> DEFINE s == [Idle EXCEPT !.at = "fetch", !.op = "adopt", !.task = t,
                         !.row = records[t].existing]
  <2>a. Becomes(r, s)
    BY <1>8 DEF UseExisting, At, Moved
  <2>b. s \in Process /\ WellFormed(s)
    BY <1>8, IdleType, NoRecordType
       DEF UseExisting, TypeOK, Records, Statuses, Active, Terminal, Idle, Process,
           WellFormed, Labels, InBroker, Ops, NoTaskYet, Writing
  <2>1. ProcsOK'
    <3> HIDE DEF s
    <3> QED
      BY <2>a, <2>b, BecomesType DEF Procs
  <2> QED
    BY <1>8, <2>1
       DEF UseExisting, TypeOK, ProcsOK, redis, bounds, ListForUser, Visible, Procs
<1>9. ASSUME NEW r \in Requests, NEW t \in Tasks, Regenerate(r, t) PROVE TypeInv'
  <2> DEFINE s == [Idle EXCEPT !.at = "store", !.op = "reset", !.task = t,
                         !.snap = records[t], !.skip = TRUE]
  <2>a. Becomes(r, s)
    BY <1>9 DEF Regenerate, At, Moved
  <2>b. s \in Process /\ WellFormed(s)
    BY <1>9, IdleType, NoRecordType
       DEF Regenerate, TypeOK, Records, Statuses, Active, Terminal, Idle, Process,
           WellFormed, Labels, InBroker, Ops, NoTaskYet, Writing
  <2>1. ProcsOK'
    <3> HIDE DEF s
    <3> QED
      BY <2>a, <2>b, BecomesType DEF Procs
  <2> QED
    BY <1>9, <2>1
       DEF Regenerate, TypeOK, ProcsOK, redis, bounds, ListForUser, Visible, Procs
<1>10. ASSUME NEW r \in Requests, NEW t \in Tasks, Cancel(r, t) PROVE TypeInv'
  <2> DEFINE s == [Idle EXCEPT
                    !.at = IF records[t].status = "QUEUED" THEN "unpark_cancel" ELSE "fetch",
                         !.op = "cancelled", !.task = t]
  <2>a. Becomes(r, s)
    BY <1>10 DEF Cancel, At, Moved
  <2>b. s \in Process /\ WellFormed(s)
    BY <1>10, IdleType, NoRecordType
       DEF Cancel, TypeOK, Records, Statuses, Active, Terminal, Idle, Process,
           WellFormed, Labels, InBroker, Ops, NoTaskYet, Writing
  <2>1. ProcsOK'
    <3> HIDE DEF s
    <3> QED
      BY <2>a, <2>b, BecomesType DEF Procs
  <2> QED
    BY <1>10, <2>1
       DEF Cancel, TypeOK, ProcsOK, redis, bounds, ListForUser, Visible, Procs
<1>11. ASSUME NEW r \in Requests, RemoveFromQueue(r) PROVE TypeInv'
  <2> DEFINE s == [proc[r] EXCEPT !.at = "fetch"]
  <2>a. Becomes(r, s)
    BY <1>11 DEF RemoveFromQueue, At, Moved
  <2>b. s \in Process /\ WellFormed(s)
    BY <1>11, IdleType, NoRecordType
       DEF RemoveFromQueue, TypeOK, ProcsOK, Procs, Records, At, Moved, Process,
           WellFormed, Labels, InBroker, Ops, NoTaskYet, Writing, Idle
  <2>1. ProcsOK'
    <3> HIDE DEF s
    <3> QED
      BY <2>a, <2>b, BecomesType DEF Procs
  <2>u. queue' \in Seq(Tasks)
    BY <1>11, WithoutType DEF RemoveFromQueue, TypeOK
  <2> QED
    BY <1>11, <2>1, <2>u DEF RemoveFromQueue, TypeOK, ProcsOK, redis, bounds, Procs
<1>12. ASSUME NEW r \in Requests, SetCancelFlag(r) PROVE TypeInv'
  <2> DEFINE s == [proc[r] EXCEPT !.at = "store"]
  <2>a. Becomes(r, s)
    BY <1>12 DEF SetCancelFlag, At, Moved
  <2>b. s \in Process /\ WellFormed(s)
    BY <1>12, IdleType, NoRecordType
       DEF SetCancelFlag, TypeOK, ProcsOK, Procs, Records, At, Moved, Process,
           WellFormed, Labels, InBroker, Ops, NoTaskYet, Writing, Idle
  <2>1. ProcsOK'
    <3> HIDE DEF s
    <3> QED
      BY <2>a, <2>b, BecomesType DEF Procs
  <2>t. proc[r] \in Process /\ proc[r].task \in Tasks
    BY <1>12 DEF SetCancelFlag, At, ProcsOK, Process, WellFormed, NoTaskYet, Procs
  <2> QED
    BY <1>12, <2>1, <2>t DEF SetCancelFlag, TypeOK, ProcsOK, redis, bounds, Procs
<1>13. ASSUME NEW r \in Requests, NEW t \in Tasks, Dismiss(r, t) PROVE TypeInv'
  <2> DEFINE s == [Idle EXCEPT !.at = "find", !.task = t]
  <2>a. Becomes(r, s)
    BY <1>13 DEF Dismiss, At, Moved
  <2>b. s \in Process /\ WellFormed(s)
    BY <1>13, IdleType, NoRecordType
       DEF Dismiss, TypeOK, Records, Statuses, Active, Terminal, Idle, Process,
           WellFormed, Labels, InBroker, Ops, NoTaskYet, Writing
  <2>1. ProcsOK'
    <3> HIDE DEF s
    <3> QED
      BY <2>a, <2>b, BecomesType DEF Procs
  <2> QED
    BY <1>13, <2>1
       DEF Dismiss, TypeOK, ProcsOK, redis, bounds, ListForUser, Visible, Procs
<1>14. ASSUME NEW r \in Requests, FindForDelete(r) PROVE TypeInv'
  <2> DEFINE s == IF Exists(proc[r].task) THEN Moved(r, "delete") ELSE Idle
  <2>a. Becomes(r, s)
    BY <1>14 DEF FindForDelete, At, Moved
  <2>b. s \in Process /\ WellFormed(s)
    BY <1>14, IdleType, NoRecordType
       DEF FindForDelete, TypeOK, ProcsOK, Procs, Records, At, Moved, Process,
           WellFormed, Labels, InBroker, Ops, NoTaskYet, Writing, Idle
  <2>1. ProcsOK'
    <3> HIDE DEF s
    <3> QED
      BY <2>a, <2>b, BecomesType DEF Procs
  <2> QED
    BY <1>14, <2>1
       DEF FindForDelete, TypeOK, ProcsOK, redis, bounds, ListForUser, Visible, Procs
<1>15. ASSUME NEW r \in Requests, Delete(r) PROVE TypeInv'
  <2>t. proc[r] \in Process /\ proc[r].task \in Tasks
    BY <1>15 DEF Delete, At, ProcsOK, Process, WellFormed, NoTaskYet, Procs
  <2> DEFINE s == IF At(r, "unpark") THEN Idle
              ELSE [proc[r] EXCEPT !.at = IF At(r, "delete") THEN "unlist"
                                          ELSE IF At(r, "unlist") THEN "unflag" ELSE "unpark"]
  <2>a. Becomes(r, s)
    BY <1>15 DEF Delete, At, Moved
  <2>b. s \in Process /\ WellFormed(s)
    BY <1>15, <2>t, IdleType
       DEF Delete, ProcsOK, Procs, At, Moved, Process, WellFormed, Labels, InBroker,
           Ops, NoTaskYet, Writing
  <2>1. ProcsOK'
    <3> HIDE DEF s
    <3> QED
      BY <2>a, <2>b, BecomesType DEF Procs
  <2>u. queue' \in Seq(Tasks)
    BY <1>15, WithoutType DEF Delete, TypeOK
  <2>v. records' \in [Tasks -> Records]
    BY <1>15, <2>t, NoRecordType DEF Delete, TypeOK
  <2>w. listed' \subseteq Tasks /\ flags' \subseteq Tasks
    BY <1>15 DEF Delete, TypeOK
  <2> QED
    BY <1>15, <2>1, <2>u, <2>v, <2>w DEF Delete, TypeOK, ProcsOK, redis, bounds, Procs
<1>16. ASSUME NEW p \in Procs, Fetch(p) PROVE TypeInv'
  <2>t. proc[p] \in Process /\ proc[p].task \in Tasks
    BY <1>16 DEF Fetch, At, ProcsOK, Process, WellFormed, NoTaskYet, Procs
  <2>o. proc[p].op \in Ops \ {"none"}
    BY <1>16 DEF Fetch, At, ProcsOK, Process, WellFormed, Writing
  <2>1. ProcsOK'
    <3>1. CASE ~ Exists(proc[p].task)
      <4>1. Becomes(p, Then(proc[p].op, proc[p]))
        BY <1>16, <3>1 DEF Fetch
      <4> QED
        BY <2>t, <2>o, <4>1, ThenType, BecomesType, ConstantsAssumption
    <3>2. CASE Exists(proc[p].task)
      <4> DEFINE s == [proc[p] EXCEPT
                         !.at = IF proc[p].op = "cancelled" THEN "flag" ELSE "store",
                         !.snap = records[proc[p].task]]
      <4>1. Becomes(p, s)
        BY <1>16, <3>2 DEF Fetch
      <4>2. s \in Process /\ WellFormed(s)
        BY <2>t, <2>o
           DEF TypeOK, At, Moved, Process, WellFormed, Labels, InBroker, Ops,
               NoTaskYet, Writing
      <4> HIDE DEF s
      <4> QED
        BY <4>1, <4>2, BecomesType
    <3> QED
      BY <3>1, <3>2
  <2> QED
    BY <1>16, <2>1 DEF Fetch, TypeOK, ProcsOK, redis, bounds, Procs
<1>17. ASSUME NEW p \in Procs, Store(p) PROVE TypeInv'
  <2>t. proc[p] \in Process /\ proc[p].task \in Tasks
    BY <1>17 DEF Store, At, ProcsOK, Process, WellFormed, NoTaskYet, Procs
  <2>o. proc[p].op \in Ops \ {"none"}
    BY <1>17 DEF Store, At, ProcsOK, Process, WellFormed, Writing
  <2>1. ProcsOK'
    <3> DEFINE s == [proc[p] EXCEPT !.snap = NoRecord]
    <3>1. s \in Process /\ s.task \in Tasks
      BY <2>t, NoRecordType DEF Process
    <3>2. Becomes(p, Then(proc[p].op, s))
      BY <1>17 DEF Store
    <3> HIDE DEF s
    <3> QED
      BY <2>o, <3>1, <3>2, ThenType, BecomesType, ConstantsAssumption
  <2>u. records' \in [Tasks -> Records]
    <3>1. Updated(proc[p].op, proc[p].snap, proc[p].row) \in Records
      BY <2>t, <2>o, UpdatedType DEF Process
    <3> QED
      BY <1>17, <3>1 DEF Store, TypeOK
  <2> QED
    BY <1>17, <2>1, <2>t, <2>u DEF Store, TypeOK, ProcsOK, redis, bounds, Procs
<1>18. ASSUME NEW j \in Jobs, BeginDraft(j) PROVE TypeInv'
  <2> DEFINE s == IF proc[j].task \in flags THEN Idle
              ELSE [proc[j] EXCEPT !.at = "fetch", !.op = "checking"]
  <2>a. Becomes(j, s)
    BY <1>18 DEF BeginDraft, At, Moved
  <2>b. s \in Process /\ WellFormed(s)
    BY <1>18, IdleType, NoRecordType
       DEF BeginDraft, TypeOK, ProcsOK, Procs, Records, At, Moved, Process, WellFormed,
           Labels, InBroker, Ops, NoTaskYet, Writing, Idle
  <2>1. ProcsOK'
    <3> HIDE DEF s
    <3> QED
      BY <2>a, <2>b, BecomesType DEF Procs
  <2> QED
    BY <1>18, <2>1
       DEF BeginDraft, TypeOK, ProcsOK, redis, bounds, ListForUser, Visible, Procs
<1>19. ASSUME NEW j \in Jobs, BeginResume(j) PROVE TypeInv'
  <2> DEFINE s == IF proc[j].task \in flags THEN Idle ELSE Moved(j, "load")
  <2>a. Becomes(j, s)
    BY <1>19 DEF BeginResume, At, Moved
  <2>b. s \in Process /\ WellFormed(s)
    BY <1>19, IdleType, NoRecordType
       DEF BeginResume, TypeOK, ProcsOK, Procs, Records, At, Moved, Process,
           WellFormed, Labels, InBroker, Ops, NoTaskYet, Writing, Idle
  <2>1. ProcsOK'
    <3> HIDE DEF s
    <3> QED
      BY <2>a, <2>b, BecomesType DEF Procs
  <2> QED
    BY <1>19, <2>1
       DEF BeginResume, TypeOK, ProcsOK, redis, bounds, ListForUser, Visible, Procs
<1>20. ASSUME NEW j \in Jobs, LoadForResume(j) PROVE TypeInv'
  <2> DEFINE s == IF ~ Exists(proc[j].task) THEN Idle
              ELSE [proc[j] EXCEPT !.at = "fetch", !.op = "redrafting",
                                   !.row = records[proc[j].task].log]
  <2>a. Becomes(j, s)
    BY <1>20 DEF LoadForResume, At, Moved
  <2>b. s \in Process /\ WellFormed(s)
    BY <1>20, IdleType, NoRecordType
       DEF LoadForResume, TypeOK, ProcsOK, Procs, Records, At, Moved, Process,
           WellFormed, Labels, InBroker, Ops, NoTaskYet, Writing, Idle
  <2>1. ProcsOK'
    <3> HIDE DEF s
    <3> QED
      BY <2>a, <2>b, BecomesType DEF Procs
  <2> QED
    BY <1>20, <2>1
       DEF LoadForResume, TypeOK, ProcsOK, redis, bounds, ListForUser, Visible, Procs
<1>21. ASSUME NEW j \in Jobs, CheckExisting(j) PROVE TypeInv'
  <2>t. proc[j] \in Process /\ proc[j].task \in Tasks
    BY <1>21 DEF CheckExisting, At, ProcsOK, Process, WellFormed, NoTaskYet, Procs
  <2> DEFINE done == CompletedRows(DraftOf[proc[j].task])
  <2>1. ProcsOK'
    <3>1. CASE Becomes(j, Moved(j, "insert"))
      <4>1. Moved(j, "insert") \in Process /\ WellFormed(Moved(j, "insert"))
        BY <1>21, <2>t
           DEF CheckExisting, ProcsOK, Procs, At, Moved, Process, WellFormed, Labels,
               InBroker, Ops, NoTaskYet, Writing
      <4> QED
        BY <3>1, <4>1, BecomesType DEF Procs
    <3>2. ASSUME NEW i \in done,
                 Becomes(j, [proc[j] EXCEPT
                              !.at = "fetch", !.op = "existing", !.row = i])
          PROVE  ProcsOK'
      <4> DEFINE s == [proc[j] EXCEPT !.at = "fetch", !.op = "existing", !.row = i]
      <4>1. i \in Nat
        BY LenProperties DEF CompletedRows, TypeOK
      <4>2. s \in Process /\ WellFormed(s)
        BY <2>t, <4>1
           DEF At, Moved, Process, WellFormed, Labels, InBroker, Ops, NoTaskYet, Writing
      <4> HIDE DEF s
      <4> QED
        BY <3>2, <4>2, BecomesType DEF Procs, s
    <3> QED
      BY <1>21, <3>1, <3>2 DEF CheckExisting
  <2> QED
    BY <1>21, <2>1
       DEF CheckExisting, TypeOK, ProcsOK, redis, bounds, ListForUser, Visible, Procs
<1>22. ASSUME NEW j \in Jobs, InsertRow(j) PROVE TypeInv'
  <2> DEFINE s == [proc[j] EXCEPT
                    !.at = "fetch", !.op = "attach", !.row = Len(rows) + 1]
  <2>a. Becomes(j, s)
    BY <1>22 DEF InsertRow, At, Moved
  <2>b. s \in Process /\ WellFormed(s)
    <3>1. Len(rows) + 1 \in Nat
      BY LenProperties DEF TypeOK
    <3>2. proc[j] \in Process /\ proc[j].task \in Tasks
      BY <1>22 DEF InsertRow, ProcsOK, Procs, At, Process, WellFormed, NoTaskYet
    <3> QED
      BY <3>1, <3>2
         DEF At, Moved, Process, WellFormed, Labels, InBroker, Ops, NoTaskYet, Writing
  <2>1. ProcsOK'
    <3> HIDE DEF s
    <3> QED
      BY <2>a, <2>b, BecomesType DEF Procs
  <2>t. proc[j] \in Process /\ proc[j].task \in Tasks
    BY <1>22 DEF InsertRow, At, ProcsOK, Process, WellFormed, NoTaskYet, Procs
  <2>u. rows' \in Seq(Rows)
    <3>1. [task |-> proc[j].task, status |-> "DRAFTING", doc |-> FALSE] \in Rows
      BY <2>t DEF Rows, RowStatuses
    <3> QED
      BY <1>22, <3>1, AppendProperties DEF InsertRow, TypeOK
  <2> QED
    BY <1>22, <2>1, <2>u DEF InsertRow, TypeOK, ProcsOK, redis, bounds, Procs
<1>23. ASSUME NEW j \in Jobs, MarkRowDrafting(j) PROVE TypeInv'
  <2> DEFINE s == [proc[j] EXCEPT !.at = "engine"]
  <2>a. Becomes(j, s)
    BY <1>23 DEF MarkRowDrafting, At, Moved
  <2>b. s \in Process /\ WellFormed(s)
    BY <1>23, IdleType, NoRecordType
       DEF MarkRowDrafting, TypeOK, ProcsOK, Procs, Records, At, Moved, Process,
           WellFormed, Labels, InBroker, Ops, NoTaskYet, Writing, Idle
  <2>1. ProcsOK'
    <3> HIDE DEF s
    <3> QED
      BY <2>a, <2>b, BecomesType DEF Procs
  <2>u. rows' \in Seq(Rows)
    <3>1. proc[j].row \in Nat /\ "DRAFTING" \in RowStatuses
      BY DEF ProcsOK, Process, Procs, RowStatuses
    <3> QED
      BY <1>23, <3>1, RowSetType DEF MarkRowDrafting, TypeOK
  <2> QED
    BY <1>23, <2>1, <2>u DEF MarkRowDrafting, TypeOK, ProcsOK, redis, bounds, Procs
<1>24. ASSUME NEW j \in Jobs, EngineFails(j) PROVE TypeInv'
  <2> DEFINE s == [proc[j] EXCEPT !.at = "fetch", !.op = "failed"]
  <2>a. Becomes(j, s)
    BY <1>24 DEF EngineFails, At, Moved, EngineStops
  <2>b. s \in Process /\ WellFormed(s)
    BY <1>24, IdleType, NoRecordType
       DEF EngineFails, TypeOK, ProcsOK, Procs, Records, At, Moved, Process,
           WellFormed, Labels, InBroker, Ops, NoTaskYet, Writing, Idle, EngineStops
  <2>1. ProcsOK'
    <3> HIDE DEF s
    <3> QED
      BY <2>a, <2>b, BecomesType DEF Procs
  <2>u. rows' \in Seq(Rows)
    <3>1. proc[j].row \in Nat /\ "FAILED" \in RowStatuses
      BY DEF ProcsOK, Process, Procs, RowStatuses
    <3> QED
      BY <1>24, <3>1, RowSetType DEF EngineFails, TypeOK, EngineStops
  <2> QED
    BY <1>24, <2>1, <2>u
       DEF EngineFails, TypeOK, ProcsOK, redis, bounds, Procs, EngineStops
<1>25. ASSUME NEW j \in Jobs, EngineAsks(j) PROVE TypeInv'
  <2> DEFINE s == [proc[j] EXCEPT !.at = "fetch", !.op = "awaiting"]
  <2>a. Becomes(j, s)
    BY <1>25 DEF EngineAsks, At, Moved, EngineStops
  <2>b. s \in Process /\ WellFormed(s)
    BY <1>25, IdleType, NoRecordType
       DEF EngineAsks, TypeOK, ProcsOK, Procs, Records, At, Moved, Process, WellFormed,
           Labels, InBroker, Ops, NoTaskYet, Writing, Idle, EngineStops
  <2>1. ProcsOK'
    <3> HIDE DEF s
    <3> QED
      BY <2>a, <2>b, BecomesType DEF Procs
  <2>u. rows' \in Seq(Rows)
    <3>1. proc[j].row \in Nat /\ "AWAITING_INPUT" \in RowStatuses
      BY DEF ProcsOK, Process, Procs, RowStatuses
    <3> QED
      BY <1>25, <3>1, RowSetType DEF EngineAsks, TypeOK, EngineStops
  <2> QED
    BY <1>25, <2>1, <2>u
       DEF EngineAsks, TypeOK, ProcsOK, redis, bounds, Procs, EngineStops
<1>26. ASSUME NEW j \in Jobs, EngineDelivers(j) PROVE TypeInv'
  <2> DEFINE s == [proc[j] EXCEPT
                    !.at = IF proc[j].task \in flags THEN "row_cancelled" ELSE "row_completed"]
  <2>a. Becomes(j, s)
    BY <1>26 DEF EngineDelivers, At, Moved
  <2>b. s \in Process /\ WellFormed(s)
    BY <1>26, IdleType, NoRecordType
       DEF EngineDelivers, TypeOK, ProcsOK, Procs, Records, At, Moved, Process,
           WellFormed, Labels, InBroker, Ops, NoTaskYet, Writing, Idle
  <2>1. ProcsOK'
    <3> HIDE DEF s
    <3> QED
      BY <2>a, <2>b, BecomesType DEF Procs
  <2> QED
    BY <1>26, <2>1
       DEF EngineDelivers, TypeOK, ProcsOK, redis, bounds, ListForUser, Visible, Procs
<1>27. ASSUME NEW j \in Jobs, DropResult(j) PROVE TypeInv'
  <2> DEFINE s == [Idle EXCEPT !.at = "drain"]
  <2>a. Becomes(j, s)
    BY <1>27 DEF DropResult, At, Moved
  <2>b. s \in Process /\ WellFormed(s)
    BY <1>27, IdleType, NoRecordType
       DEF DropResult, TypeOK, Records, Statuses, Active, Terminal, Idle, Process,
           WellFormed, Labels, InBroker, Ops, NoTaskYet, Writing
  <2>1. ProcsOK'
    <3> HIDE DEF s
    <3> QED
      BY <2>a, <2>b, BecomesType DEF Procs
  <2>u. rows' \in Seq(Rows)
    <3>1. proc[j].row \in Nat /\ "CANCELLED" \in RowStatuses
      BY DEF ProcsOK, Process, Procs, RowStatuses
    <3> QED
      BY <1>27, <3>1, RowSetType DEF DropResult, TypeOK
  <2> QED
    BY <1>27, <2>1, <2>u DEF DropResult, TypeOK, ProcsOK, redis, bounds, Procs
<1>28. ASSUME NEW j \in Jobs, KeepResult(j) PROVE TypeInv'
  <2> DEFINE s == [proc[j] EXCEPT !.at = "fetch", !.op = "completed"]
  <2>a. Becomes(j, s)
    BY <1>28 DEF KeepResult, At, Moved
  <2>b. s \in Process /\ WellFormed(s)
    BY <1>28, IdleType, NoRecordType
       DEF KeepResult, TypeOK, ProcsOK, Procs, Records, At, Moved, Process, WellFormed,
           Labels, InBroker, Ops, NoTaskYet, Writing, Idle
  <2>1. ProcsOK'
    <3> HIDE DEF s
    <3> QED
      BY <2>a, <2>b, BecomesType DEF Procs
  <2>u. rows' \in Seq(Rows)
    <3>1. proc[j].row \in Nat /\ "COMPLETED" \in RowStatuses
      BY DEF ProcsOK, Process, Procs, RowStatuses
    <3> QED
      BY <1>28, <3>1, RowSetType DEF KeepResult, TypeOK
  <2> QED
    BY <1>28, <2>1, <2>u DEF KeepResult, TypeOK, ProcsOK, redis, bounds, Procs
<1>29. ASSUME NEW p \in Procs, DrainCount(p) PROVE TypeInv'
  <2> DEFINE s == IF Cardinality(ActiveTasks) >= MaxConcurrent THEN Idle ELSE Moved(p, "pop")
  <2>a. Becomes(p, s)
    BY <1>29 DEF DrainCount, At, Moved
  <2>b. s \in Process /\ WellFormed(s)
    BY <1>29, IdleType, NoRecordType
       DEF DrainCount, TypeOK, ProcsOK, Procs, Records, At, Moved, Process, WellFormed,
           Labels, InBroker, Ops, NoTaskYet, Writing, Idle
  <2>1. ProcsOK'
    <3> HIDE DEF s
    <3> QED
      BY <2>a, <2>b, BecomesType DEF Procs
  <2> QED
    BY <1>29, <2>1
       DEF DrainCount, TypeOK, ProcsOK, redis, bounds, ListForUser, Visible, Procs
<1>30. ASSUME NEW p \in Procs, DrainPop(p) PROVE TypeInv'
  <2> DEFINE s == IF queue = <<>> THEN Idle
              ELSE [Idle EXCEPT !.at = "peek", !.task = Head(queue)]
  <2>a. Becomes(p, s)
    BY <1>30 DEF DrainPop, At, Moved
  <2>b. s \in Process /\ WellFormed(s)
    <3>1. CASE queue = <<>>
      BY <3>1, IdleType
    <3>2. CASE queue # <<>>
      <4>1. Head(queue) \in Tasks
        BY <3>2, HeadTailProperties DEF TypeOK
      <4> QED
        BY <3>2, <4>1, NoRecordType
           DEF Idle, Process, WellFormed, Labels, Ops, NoTaskYet, Writing
    <3> QED
      BY <3>1, <3>2
  <2>1. ProcsOK'
    <3> HIDE DEF s
    <3> QED
      BY <2>a, <2>b, BecomesType DEF Procs
  <2>u. queue' \in Seq(Tasks)
    <3>1. queue \in Seq(Tasks) /\ (queue' = queue \/ (queue # <<>> /\ queue' = Tail(queue)))
      BY <1>30 DEF DrainPop, TypeOK
    <3> QED
      BY <3>1, HeadTailProperties
  <2> QED
    BY <1>30, <2>1, <2>u DEF DrainPop, TypeOK, ProcsOK, redis, bounds, Procs
<1>31. ASSUME NEW p \in Procs, DrainPeek(p) PROVE TypeInv'
  <2> DEFINE s == IF ~ Exists(proc[p].task) THEN Idle
              ELSE [proc[p] EXCEPT !.at = "fetch", !.op = "promote"]
  <2>a. Becomes(p, s)
    BY <1>31 DEF DrainPeek, At, Moved
  <2>b. s \in Process /\ WellFormed(s)
    BY <1>31, IdleType, NoRecordType
       DEF DrainPeek, TypeOK, ProcsOK, Procs, Records, At, Moved, Process, WellFormed,
           Labels, InBroker, Ops, NoTaskYet, Writing, Idle
  <2>1. ProcsOK'
    <3> HIDE DEF s
    <3> QED
      BY <2>a, <2>b, BecomesType DEF Procs
  <2> QED
    BY <1>31, <2>1
       DEF DrainPeek, TypeOK, ProcsOK, redis, bounds, ListForUser, Visible, Procs
<1>32. ASSUME NEW p \in Procs, Crash(p) PROVE TypeInv'
  <2> DEFINE s == Idle
  <2>a. Becomes(p, s)
    BY <1>32 DEF Crash, At, Moved
  <2>b. s \in Process /\ WellFormed(s)
    BY <1>32, IdleType, NoRecordType
       DEF Crash, TypeOK, Records, Statuses, Active, Terminal, Idle, Process,
           WellFormed, Labels, InBroker, Ops, NoTaskYet, Writing
  <2>1. ProcsOK'
    <3> HIDE DEF s
    <3> QED
      BY <2>a, <2>b, BecomesType DEF Procs
  <2> QED
    BY <1>32, <2>1
       DEF Crash, TypeOK, ProcsOK, redis, bounds, ListForUser, Visible, Procs
<1>33. ASSUME NEW t \in Tasks, Expire(t) PROVE TypeInv'
  <2>1. ProcsOK'
    BY <1>33 DEF Expire, ProcsOK, WellFormed
  <2>u. records' \in [Tasks -> Records]
    BY <1>33, NoRecordType DEF Expire, TypeOK
  <2> QED
    BY <1>33, <2>1, <2>u DEF Expire, TypeOK, ProcsOK, redis, bounds, Procs
<1>34. CASE UNCHANGED vars
  BY <1>34 DEF vars, TypeInv, TypeOK, ProcsOK, WellFormed
<1> QED
  BY <1>1, <1>2, <1>3, <1>4, <1>5, <1>6, <1>7, <1>8, <1>9, <1>10, <1>11, <1>12, <1>13,
     <1>14, <1>15, <1>16, <1>17, <1>18, <1>19, <1>20, <1>21, <1>22, <1>23, <1>24,
     <1>25, <1>26, <1>27, <1>28, <1>29, <1>30, <1>31, <1>32, <1>33, <1>34
     DEF Next, Call, Serve, Work, Share

(* Type correctness: the records, the FIFO, the rows and the processes never*)
(* leave their types, whatever the handlers and jobs interleave.            *)
THEOREM TypeCorrect == Spec => []TypeOK
<1>1. Spec => []TypeInv
  BY TypeInit, TypeNext, PTL DEF Spec
<1>2. TypeInv => TypeOK
  BY DEF TypeInv
<1> QED
  BY <1>1, <1>2, PTL

-----------------------------------------------------------------------------
(***************************************************************************)
(* The waiting line.  ParkedOnce is not inductive: whether a drain may pop *)
(* a task depends on who else works on it.  The strengthening follows a    *)
(* task from the id it is given to the promotion.                          *)
(***************************************************************************)
Starting == {"count", "size", "create_pending", "create_queued"}
Deleting == {"find", "delete", "unlist", "unflag", "unpark"}

HasRow(t)  == \E k \in DOMAIN rows : rows[k].task = t
Parking(t) == \E p \in Procs : proc[p].task = t /\ proc[p].at = "park"
Waits(t)   == InQueue(t) \/ Parking(t)

(* Of an id that was not handed out there is no trace.                      *)
NewInv ==
  \A t \in Tasks \ issued :
    /\ records[t].status = "NONE" /\ ~ InQueue(t) /\ ~ HasRow(t)
    /\ \A p \in Procs : proc[p].task # t

(* Until its record is created only the request that starts a task knows it.*)
StartInv ==
  \A p \in Procs : proc[p].at \in Starting =>
    LET t == proc[p].task
    IN  /\ p \in Requests
        /\ records[t].status = "NONE" /\ ~ InQueue(t) /\ ~ HasRow(t)
        /\ \A q \in Procs : proc[q].task = t => q = p

(* One request parks a task, once, and the FIFO holds no id twice.          *)
ParkInv ==
  \A p \in Procs : proc[p].at = "park" =>
    /\ p \in Requests
    /\ ~ InQueue(proc[p].task)
    /\ \A q \in Procs : proc[q].at = "park" /\ proc[q].task = proc[p].task => q = p

FifoInv == \A i, k \in DOMAIN queue : queue[i] = queue[k] => i = k

(* Only cancels and dismissals touch a task that waits.                     *)
WaitInv ==
  \A t \in Tasks : Waits(t) =>
    /\ records[t].status \in {"NONE", "QUEUED", "CANCELLED"}
    /\ ~ HasRow(t)
    /\ \A p \in Procs : proc[p].task = t =>
         /\ p \in Requests
         /\ proc[p].at \in Deleting \cup {"park"} \/ proc[p].op = "cancelled"

(* A drain that popped a task has it for itself.                            *)
Promotes(p, t) == proc[p].task = t /\ (proc[p].at = "peek" \/ proc[p].op = "promote")
ServeInv ==
  \A p, q \in Procs : \A t \in Tasks : Promotes(p, t) /\ Promotes(q, t) => p = q

LineInv == NewInv /\ StartInv /\ ParkInv /\ FifoInv /\ WaitInv /\ ServeInv

(* The invariant of the line holds at the start.                          *)
LEMMA LineInit == Init => LineInv
BY ConstantsAssumption
   DEF Init, LineInv, NewInv, StartInv, ParkInv, FifoInv, WaitInv, ServeInv, Promotes,
   Waits, Parking, InQueue, HasRow, Idle, NoRecord, Starting

(* A task is settled once it was created: no request is starting it.        *)
Settled(t) ==
  t \in issued /\ \A p \in Procs : proc[p].at \in Starting => proc[p].task # t

(* A task with a record is settled, ...                                   *)
LEMMA ExistsSettled ==
  ASSUME LineInv, NEW t \in Tasks, Exists(t)
  PROVE  Settled(t)
BY DEF LineInv, NewInv, StartInv, Settled, Exists

(* ... and so is one that a process works on after its start.             *)
LEMMA WorkedOnSettled ==
  ASSUME LineInv, NEW p \in Procs, proc[p].task \in Tasks, proc[p].at \notin Starting
  PROVE  Settled(proc[p].task)
BY DEF LineInv, NewInv, StartInv, Settled

(* Almost every step is of one process, p, that starts or parks nothing and *)
(* touches a waiting task only to cancel or dismiss it.                     *)
OnlyMoves(p) == \A q \in Procs \ {p} : proc'[q] = proc[q]

(* Such a step keeps the invariant of the line.                           *)
LEMMA StepKeepsLine ==
  ASSUME TypeInv, TypeInv', LineInv, NEW p \in Procs, OnlyMoves(p),
         issued' = issued, FifoInv',
         \A t \in Tasks : InQueue(t)' => InQueue(t),
         \A t \in Tasks : HasRow(t)' => HasRow(t) \/ (Settled(t) /\ ~ Waits(t)),
         \A t \in Tasks :
           \/ records'[t] = records[t]
           \/ /\ Settled(t)
              /\ Waits(t) => records'[t].status \in {"NONE", "CANCELLED"},
         proc'[p].at \notin Starting \cup {"park"},
         \A t \in Tasks : proc'[p].task = t =>
           /\ Settled(t)
           /\ Waits(t)' => /\ p \in Requests
                           /\ proc'[p].at \in Deleting \/ proc'[p].op = "cancelled"
           /\ Promotes(p, t)' => \A q \in Procs \ {p} : ~ Promotes(q, t)
  PROVE  LineInv'
<1> USE DEF LineInv, TypeInv
<1>1. \A q \in Procs : q = p \/ proc'[q] = proc[q]
  BY DEF OnlyMoves
<1>2. \A q \in Procs : proc'[q].at \in Starting \cup {"park"} => q # p
  BY <1>1
<1>3. \A t \in Tasks : Waits(t)' => Waits(t)
  BY <1>1, <1>2 DEF Waits, Parking
<1>4. NewInv'
  BY <1>1 DEF NewInv, Settled
<1>w. \A q \in Procs :
        proc[q].at \in Starting \cup {"park"} => proc[q].task \in Tasks
  BY DEF ProcsOK, WellFormed, Process, NoTaskYet, Starting
<1>5. StartInv'
  <2>1. ASSUME NEW q \in Procs, proc'[q].at \in Starting, NEW t, t = proc'[q].task
        PROVE  /\ q \in Requests
               /\ records'[t].status = "NONE" /\ ~ InQueue(t)' /\ ~ HasRow(t)'
               /\ \A u \in Procs : proc'[u].task = t => u = q
    <3>1. q # p /\ proc[q].at \in Starting /\ proc[q].task = t /\ t \in Tasks
      BY <1>1, <1>2, <1>w, <2>1
    <3>2. ~ Settled(t)
      BY <3>1 DEF Settled
    <3> QED
      BY <1>1, <3>1, <3>2 DEF StartInv
  <2> QED
    BY <2>1 DEF StartInv, InQueue, HasRow
<1>6. ParkInv'
  <2>1. ASSUME NEW q \in Procs, proc'[q].at = "park", NEW t, t = proc'[q].task
        PROVE  /\ q \in Requests
               /\ ~ InQueue(t)'
               /\ \A u \in Procs : proc'[u].at = "park" /\ proc'[u].task = t => u = q
    <3>1. q # p /\ proc[q].at = "park" /\ proc[q].task = t /\ t \in Tasks
      BY <1>1, <1>2, <1>w, <2>1
    <3> QED
      BY <1>1, <1>2, <3>1 DEF ParkInv
  <2> QED
    BY <2>1 DEF ParkInv, InQueue
<1>7. WaitInv'
  BY <1>1, <1>3 DEF WaitInv
<1>8. ServeInv'
  BY <1>1 DEF ServeInv, Promotes
<1> QED
  BY <1>4, <1>5, <1>6, <1>7, <1>8

-----------------------------------------------------------------------------
(* Setting the status of a row adds no row.                                 *)
LEMMA RowSetKeepsRows ==
  ASSUME NEW r, NEW status, rows' = RowSet(r, status), rows \in Seq(Rows), NEW t
  PROVE  HasRow(t)' => HasRow(t)
BY DEF RowSet, HasRow

-----------------------------------------------------------------------------
(* A step that leaves the FIFO and the records alone and takes up no task.  *)
Quiet(o, n) ==
  /\ n.at \notin Starting \cup {"park"}
  /\ n.task \in Tasks =>
       /\ n.task = o.task /\ o.at \notin Starting \cup {"park"}
       /\ o.at \in Deleting \/ o.op = "cancelled" => n.at \in Deleting \/ n.op = "cancelled"
       /\ n.at = "peek" \/ n.op = "promote" => o.at = "peek" \/ o.op = "promote"

(* Becomes(p, s) moves p to s and no other process.                       *)
LEMMA BecomesMoves ==
  ASSUME TypeInv, NEW p \in Procs, NEW s, Becomes(p, s)
  PROVE  OnlyMoves(p) /\ proc'[p] = s
BY DEF TypeInv, ProcsOK, Becomes, OnlyMoves

QuietStep(p) ==
  /\ OnlyMoves(p) /\ Quiet(proc[p], proc'[p])
  /\ UNCHANGED <<records, queue, issued>>
  /\ \A t \in Tasks : HasRow(t)' => HasRow(t)

(* One process goes on quietly.                                           *)
LEMMA BecomesQuiet ==
  ASSUME TypeInv, NEW p \in Procs, NEW s, Becomes(p, s), Quiet(proc[p], s),
         UNCHANGED <<records, queue, issued>>, \A t \in Tasks : HasRow(t)' => HasRow(t)
  PROVE  QuietStep(p)
BY BecomesMoves DEF QuietStep

(* A quiet step keeps the invariant of the line.                          *)
LEMMA QuietKeepsLine ==
  ASSUME TypeInv, TypeInv', LineInv, NEW p \in Procs, QuietStep(p)
  PROVE  LineInv'
<1> USE DEF QuietStep
<1>2. FifoInv' /\ \A t : InQueue(t)' <=> InQueue(t)
  BY DEF LineInv, FifoInv, InQueue
<1>3. \A t \in Tasks : Waits(t)' => Waits(t)
  BY <1>2 DEF Quiet, OnlyMoves, Waits, Parking
<1>4. ASSUME NEW t \in Tasks, proc'[p].task = t
      PROVE  /\ Settled(t)
             /\ Waits(t)' => /\ p \in Requests
                             /\ proc'[p].at \in Deleting \/ proc'[p].op = "cancelled"
             /\ Promotes(p, t)' => \A q \in Procs \ {p} : ~ Promotes(q, t)
  <2>1. proc[p].task = t /\ proc[p].at \notin Starting \cup {"park"}
    BY <1>4 DEF Quiet
  <2>2. Settled(t)
    BY <2>1, WorkedOnSettled
  <2>3. Waits(t)' => /\ p \in Requests
                     /\ proc'[p].at \in Deleting \/ proc'[p].op = "cancelled"
    BY <1>3, <1>4, <2>1 DEF LineInv, WaitInv, Quiet
  <2>4. Promotes(p, t)' => Promotes(p, t)
    BY <1>4, <2>1 DEF Promotes, Quiet
  <2> QED
    BY <2>2, <2>3, <2>4 DEF LineInv, ServeInv
<1> QED
  <2>1. \A t \in Tasks : HasRow(t)' => HasRow(t) \/ (Settled(t) /\ ~ Waits(t))
    OBVIOUS
  <2>2. \A t \in Tasks : records'[t] = records[t]
    OBVIOUS
  <2>3. proc'[p].at \notin Starting \cup {"park"}
    BY DEF Quiet
  <2> QED
    BY <1>2, <1>4, <2>1, <2>2, <2>3, StepKeepsLine

(* A call of the user for a task that exists.                               *)
LEMMA CallKeepsLine ==
  ASSUME TypeInv, TypeInv', LineInv, NEW r \in Requests, NEW t \in Tasks, Exists(t),
         NEW s, Becomes(r, s), s.task = t, UNCHANGED <<records, queue, rows, issued>>,
         s.at \notin Starting \cup {"park", "peek"}, s.op # "promote",
         s.at \in Deleting \/ s.op = "cancelled" \/ ~ Waits(t)
  PROVE  LineInv'
<1>0. r \in Procs
  BY DEF Procs
<1>1. OnlyMoves(r) /\ proc'[r] = s
  BY <1>0, BecomesMoves
<1>2. FifoInv' /\ \A u : (InQueue(u)' <=> InQueue(u)) /\ (HasRow(u)' <=> HasRow(u))
  BY DEF LineInv, FifoInv, InQueue, HasRow
<1>3. \A u \in Tasks : Waits(u)' => Waits(u)
  BY <1>1, <1>2 DEF OnlyMoves, Waits, Parking
<1>4. Settled(t)
  BY ExistsSettled
<1>5. ASSUME NEW u \in Tasks, proc'[r].task = u
      PROVE  /\ Settled(u)
             /\ Waits(u)' => /\ r \in Requests
                             /\ proc'[r].at \in Deleting \/ proc'[r].op = "cancelled"
             /\ Promotes(r, u)' => \A q \in Procs \ {r} : ~ Promotes(q, u)
  BY <1>1, <1>3, <1>4, <1>5 DEF Promotes
<1>6. \A u \in Tasks : HasRow(u)' => HasRow(u) \/ (Settled(u) /\ ~ Waits(u))
  BY <1>2
<1>7. \A u \in Tasks : records'[u] = records[u]
  OBVIOUS
<1>8. proc'[r].at \notin Starting \cup {"park"}
  BY <1>1
<1> QED
  BY <1>0, <1>1, <1>2, <1>5, <1>6, <1>7, <1>8, StepKeepsLine

(* A kiq for a task that is neither being started nor waiting.              *)
LEMMA KiqKeepsLine ==
  ASSUME TypeInv, TypeInv', LineInv, NEW p \in Procs, NEW label \in InBroker,
         NEW t \in Tasks, NEW skip, Kiq(p, label, t, skip), Settled(t), ~ Waits(t),
         UNCHANGED <<records, queue, rows, issued>>
  PROVE  LineInv'
<1> DEFINE m == [Idle EXCEPT !.at = label, !.task = t, !.skip = skip]
<1>1. PICK j \in Jobs : proc' = [proc EXCEPT ![p] = Idle, ![j] = m]
  BY DEF Kiq
<1>2. /\ Idle.at = "idle" /\ Idle.task = NoTask /\ Idle.op = "none"
      /\ m.at \in InBroker /\ m.task = t /\ m.op = "none"
  BY DEF Idle
<1> HIDE DEF m
<1>3. \A q \in Procs :
        \/ proc'[q] = proc[q]
        \/ proc'[q].at = "idle" /\ proc'[q].task = NoTask /\ proc'[q].op = "none"
        \/ proc'[q].at \in InBroker /\ proc'[q].task = t /\ proc'[q].op = "none"
  BY <1>1, <1>2 DEF TypeInv, ProcsOK
<1>4. \A u : (InQueue(u)' <=> InQueue(u)) /\ (HasRow(u)' <=> HasRow(u))
  BY DEF InQueue, HasRow
<1>5. \A q \in Procs : proc'[q].at \in Starting \cup {"park"} => proc'[q] = proc[q]
  BY <1>3 DEF InBroker, Starting
<1>6. \A u \in Tasks : Waits(u)' => Waits(u)
  BY <1>4, <1>5 DEF Waits, Parking
<1>n. NoTask \notin Tasks
  BY ConstantsAssumption
<1>w. \A q \in Procs :
        proc[q].at \in Starting \cup {"park"} => proc[q].task \in Tasks
  BY DEF TypeInv, ProcsOK, WellFormed, Process, NoTaskYet, Starting
<1>7. NewInv'
  BY <1>3, <1>4, <1>n DEF LineInv, NewInv, Settled
<1>8. StartInv'
  <2>1. ASSUME NEW q \in Procs, proc'[q].at \in Starting, NEW v, v = proc'[q].task
        PROVE  /\ q \in Requests
               /\ records'[v].status = "NONE" /\ ~ InQueue(v)' /\ ~ HasRow(v)'
               /\ \A u \in Procs : proc'[u].task = v => u = q
    <3>1. proc'[q] = proc[q] /\ v \in Tasks /\ v # NoTask /\ v # t
      BY <1>5, <1>w, <1>n, <2>1 DEF Settled
    <3> QED
      BY <1>3, <1>4, <2>1, <3>1 DEF LineInv, StartInv
  <2> QED
    BY <2>1 DEF StartInv, InQueue, HasRow
<1>9. ParkInv'
  <2>1. ASSUME NEW q \in Procs, proc'[q].at = "park", NEW v, v = proc'[q].task
        PROVE  /\ q \in Requests
               /\ ~ InQueue(v)'
               /\ \A u \in Procs : proc'[u].at = "park" /\ proc'[u].task = v => u = q
    BY <1>4, <1>5, <2>1 DEF LineInv, ParkInv
  <2> QED
    BY <2>1 DEF ParkInv, InQueue
<1>10. FifoInv'
  BY DEF LineInv, FifoInv
<1>11. WaitInv'
  <2>1. ASSUME NEW u \in Tasks, Waits(u)'
        PROVE  /\ records'[u].status \in {"NONE", "QUEUED", "CANCELLED"}
               /\ ~ HasRow(u)'
               /\ \A q \in Procs : proc'[q].task = u =>
                    /\ q \in Requests
                    /\ proc'[q].at \in Deleting \cup {"park"} \/ proc'[q].op = "cancelled"
    <3>1. Waits(u) /\ u # t /\ u # NoTask
      BY <1>6, <1>n, <2>1
    <3> QED
      BY <1>3, <1>4, <3>1 DEF LineInv, WaitInv
  <2> QED
    BY <2>1 DEF WaitInv
<1>12. ServeInv'
  <2>1. \A q \in Procs, u \in Tasks : Promotes(q, u)' => Promotes(q, u)
    BY <1>3, <1>n DEF Promotes, InBroker
  <2> QED
    BY <2>1 DEF LineInv, ServeInv
<1> QED
  BY <1>7, <1>8, <1>9, <1>10, <1>11, <1>12 DEF LineInv

(* After a write a process has lost its task or goes on with it, and it no  *)
(* longer promotes or cancels.                                              *)
LEMMA ThenLine ==
  ASSUME NEW op \in Ops \ {"none"}, NEW s \in Process
  PROVE  LET n == Then(op, s)
         IN  /\ n.at \notin Starting \cup {"park", "peek"}
             /\ n.task \in Tasks => n.task = s.task /\ op # "cancelled" /\ n.op # "promote"
<1> USE ConstantsAssumption DEF Then, Process, Idle, Starting, Ops
<1>1. CASE op = "checking"
  BY <1>1
<1>2. CASE op \in {"existing", "awaiting"}
  BY <1>2
<1>3. CASE op = "attach"
  BY <1>3
<1>4. CASE op \in {"drafting", "redrafting"}
  BY <1>4
<1>5. CASE op \in {"completed", "failed", "adopt", "cancelled"}
  BY <1>5
<1>6. CASE op \in {"promote", "reset"}
  BY <1>6
<1> QED
  BY <1>1, <1>2, <1>3, <1>4, <1>5, <1>6

(* A request that starts a task takes its next step before the creation.    *)
LEMMA StartKeepsLine ==
  ASSUME TypeInv, TypeInv', LineInv, NEW p \in Procs, NEW s, Becomes(p, s),
         UNCHANGED <<records, queue, rows, issued>>,
         proc[p].at \in {"count", "size"}, s.at \in Starting, s.task = proc[p].task,
         s.op = proc[p].op
  PROVE  LineInv'
<1>1. OnlyMoves(p) /\ proc'[p] = s
  BY BecomesMoves
<1>2. \A q \in Procs : proc'[q].task = proc[q].task /\ proc'[q].op = proc[q].op
  BY <1>1 DEF OnlyMoves
<1>3. \A q \in Procs : (proc'[q].at \in Starting => proc[q].at \in Starting)
  BY <1>1 DEF OnlyMoves, Starting
<1>4. \A q \in Procs : proc'[q] = proc[q] \/
        (proc'[q].at \in Starting /\ proc[q].at \in Starting)
  BY <1>1 DEF OnlyMoves, Starting
<1>5. \A u : (InQueue(u)' <=> InQueue(u)) /\ (HasRow(u)' <=> HasRow(u))
  BY DEF InQueue, HasRow
<1>6. \A q \in Procs : proc'[q].at = "park" <=> proc[q].at = "park"
  BY <1>4 DEF Starting
<1>7. \A u : Waits(u)' <=> Waits(u)
  BY <1>2, <1>5, <1>6 DEF Waits, Parking
<1>8. NewInv'
  BY <1>2, <1>5 DEF LineInv, NewInv
<1>9. StartInv'
  <2>1. ASSUME NEW q \in Procs, proc'[q].at \in Starting, NEW v, v = proc'[q].task
        PROVE  /\ q \in Requests
               /\ records'[v].status = "NONE" /\ ~ InQueue(v)' /\ ~ HasRow(v)'
               /\ \A u \in Procs : proc'[u].task = v => u = q
    BY <1>2, <1>3, <1>5, <2>1 DEF LineInv, StartInv
  <2> QED
    BY <2>1 DEF StartInv, InQueue, HasRow
<1>10. ParkInv'
  <2>1. ASSUME NEW q \in Procs, proc'[q].at = "park", NEW v, v = proc'[q].task
        PROVE  /\ q \in Requests
               /\ ~ InQueue(v)'
               /\ \A u \in Procs : proc'[u].at = "park" /\ proc'[u].task = v => u = q
    BY <1>2, <1>5, <1>6, <2>1 DEF LineInv, ParkInv
  <2> QED
    BY <2>1 DEF ParkInv, InQueue
<1>11. FifoInv'
  BY DEF LineInv, FifoInv
<1>12. WaitInv'
  <2>1. ASSUME NEW u \in Tasks, Waits(u)'
        PROVE  /\ records'[u].status \in {"NONE", "QUEUED", "CANCELLED"}
               /\ ~ HasRow(u)'
               /\ \A q \in Procs : proc'[q].task = u =>
                    /\ q \in Requests
                    /\ proc'[q].at \in Deleting \cup {"park"} \/ proc'[q].op = "cancelled"
    BY <1>2, <1>4, <1>5, <1>7, <2>1 DEF LineInv, WaitInv, Starting, Deleting
  <2> QED
    BY <2>1 DEF WaitInv
<1>13. ServeInv'
  <2>1. \A q \in Procs, u \in Tasks : Promotes(q, u)' => Promotes(q, u)
    BY <1>2, <1>4 DEF Promotes, Starting
  <2> QED
    BY <2>1 DEF LineInv, ServeInv
<1> QED
  BY <1>8, <1>9, <1>10, <1>11, <1>12, <1>13 DEF LineInv

(* The last step of a dismissal and the first of a cancel take the id out of*)
(* the FIFO.                                                                *)
LEMMA LeaveKeepsLine ==
  ASSUME TypeInv, TypeInv', LineInv, NEW p \in Requests, NEW t \in Tasks, NEW s,
         Becomes(p, s), UNCHANGED <<records, rows, issued>>, queue' = Without(queue, t),
         s.at \notin Starting \cup {"park", "peek"},
         s.task \in Tasks => /\ s.task = t /\ Settled(t)
                             /\ Waits(t) => s.op = "cancelled"
                             /\ s.op = "promote" => Promotes(p, t)
  PROVE  LineInv'
<1>0. p \in Procs
  BY DEF Procs
<1>1. OnlyMoves(p) /\ proc'[p] = s
  BY <1>0, BecomesMoves
<1>2. NoRepeat(queue') /\ \A u : InQueue(u)' => InQueue(u)
  <2>1. queue \in Seq(Tasks) /\ NoRepeat(queue)
    BY DEF NoRepeat, LineInv, FifoInv, TypeInv, TypeOK
  <2>2. /\ NoRepeat(Without(queue, t))
        /\ \A u : Occurs(Without(queue, t), u) <=> Occurs(queue, u) /\ u # t
    BY <2>1, WithoutLine
  <2> QED
    BY <2>2 DEF Occurs, InQueue
<1>3. \A u \in Tasks : Waits(u)' => Waits(u)
  BY <1>1, <1>2 DEF Waits, Parking, OnlyMoves
<1>4. \A u \in Tasks : proc'[p].task = u =>
        /\ Settled(u)
        /\ Waits(u)' => /\ p \in Requests
                        /\ proc'[p].at \in Deleting \/ proc'[p].op = "cancelled"
        /\ Promotes(p, u)' => \A q \in Procs \ {p} : ~ Promotes(q, u)
  BY <1>0, <1>1, <1>3 DEF Promotes, LineInv, ServeInv
<1>5. /\ FifoInv'
      /\ \A u \in Tasks : records'[u] = records[u]
      /\ \A u \in Tasks : HasRow(u)' => HasRow(u) \/ (Settled(u) /\ ~ Waits(u))
  BY <1>2 DEF FifoInv, NoRepeat, HasRow
<1> QED
  BY <1>0, <1>1, <1>2, <1>4, <1>5, StepKeepsLine

-----------------------------------------------------------------------------
(* The steps that are quiet: reads, the work of a job apart from the log row*)
(* it adds, the count of a drain, and the death of a process.               *)
QuietAction(p) ==
  \/ SetCancelFlag(p) \/ FindForDelete(p) \/ Fetch(p)
  \/ BeginDraft(p) \/ BeginResume(p) \/ LoadForResume(p) \/ CheckExisting(p)
  \/ MarkRowDrafting(p) \/ EngineFails(p) \/ EngineAsks(p) \/ EngineDelivers(p)
  \/ DropResult(p) \/ KeepResult(p)
  \/ DrainCount(p) \/ DrainPeek(p) \/ Crash(p)

(* The actions that are quiet.                                            *)
LEMMA QuietActions ==
  ASSUME TypeInv, NEW p \in Procs, QuietAction(p)
  PROVE  QuietStep(p)
<1> USE ConstantsAssumption
<1>t. proc[p] \in Process /\ WellFormed(proc[p])
  BY DEF TypeInv, ProcsOK
<1>r. rows' = rows => \A t \in Tasks : HasRow(t)' => HasRow(t)
  BY DEF HasRow
<1>1. CASE SetCancelFlag(p)
  <2> DEFINE s == Moved(p, "store")
  <2>1. Becomes(p, s) /\ UNCHANGED <<records, queue, issued>>
    BY <1>1 DEF SetCancelFlag, Moved, redis
  <2>2. Quiet(proc[p], s)
    BY <1>1, <1>t
       DEF SetCancelFlag, At, Moved, Quiet, Process, WellFormed, Writing, NoTaskYet,
       Starting, Deleting, Idle
  <2>3. \A t \in Tasks : HasRow(t)' => HasRow(t)
    BY <1>1, <1>r DEF SetCancelFlag
  <2> HIDE DEF s
  <2> QED
    BY <2>1, <2>2, <2>3, BecomesQuiet
<1>2. CASE FindForDelete(p)
  <2> DEFINE s == IF Exists(proc[p].task) THEN Moved(p, "delete") ELSE Idle
  <2>1. Becomes(p, s) /\ UNCHANGED <<records, queue, issued>>
    BY <1>2 DEF FindForDelete, Moved, redis
  <2>2. Quiet(proc[p], s)
    BY <1>2, <1>t
       DEF FindForDelete, At, Moved, Quiet, Process, WellFormed, Writing, NoTaskYet,
       Starting, Deleting, Idle
  <2>3. \A t \in Tasks : HasRow(t)' => HasRow(t)
    BY <1>2, <1>r DEF FindForDelete
  <2> HIDE DEF s
  <2> QED
    BY <2>1, <2>2, <2>3, BecomesQuiet
<1>3. CASE Fetch(p)
  <2> DEFINE s == IF ~ Exists(proc[p].task) THEN Then(proc[p].op, proc[p])
                  ELSE [proc[p] EXCEPT
                         !.at = IF proc[p].op = "cancelled" THEN "flag" ELSE "store",
                         !.snap = records[proc[p].task]]
  <2>1. /\ Becomes(p, s) /\ UNCHANGED <<records, queue, rows, issued>>
        /\ proc[p].at = "fetch"
    BY <1>3 DEF Fetch, At, redis
  <2>2. proc[p].op \in Ops \ {"none"} /\ proc[p] \in Process
    BY <1>t, <2>1 DEF Process, WellFormed, Writing
  <2>3. Quiet(proc[p], s)
    <3>1. CASE ~ Exists(proc[p].task)
      <4>1. s = Then(proc[p].op, proc[p])
        BY <3>1
      <4> HIDE DEF s
      <4> QED
        BY <2>1, <2>2, <4>1, ThenLine DEF Quiet, Starting, Deleting
    <3>2. CASE Exists(proc[p].task)
      BY <2>1, <2>2, <3>2 DEF Quiet, Starting, Deleting, Process
    <3> QED
      BY <3>1, <3>2
  <2> HIDE DEF s
  <2> QED
    BY <1>r, <2>1, <2>3, BecomesQuiet
<1>4. CASE BeginDraft(p)
  <2> DEFINE s == IF proc[p].task \in flags THEN Idle
              ELSE [proc[p] EXCEPT !.at = "fetch", !.op = "checking"]
  <2>1. Becomes(p, s) /\ UNCHANGED <<records, queue, issued>>
    BY <1>4 DEF BeginDraft, Moved, redis
  <2>2. Quiet(proc[p], s)
    BY <1>4, <1>t
       DEF BeginDraft, At, Moved, Quiet, Process, WellFormed, Writing, NoTaskYet,
       Starting, Deleting, Idle
  <2>3. \A t \in Tasks : HasRow(t)' => HasRow(t)
    BY <1>4, <1>r DEF BeginDraft
  <2> HIDE DEF s
  <2> QED
    BY <2>1, <2>2, <2>3, BecomesQuiet
<1>5. CASE BeginResume(p)
  <2> DEFINE s == IF proc[p].task \in flags THEN Idle ELSE Moved(p, "load")
  <2>1. Becomes(p, s) /\ UNCHANGED <<records, queue, issued>>
    BY <1>5 DEF BeginResume, Moved, redis
  <2>2. Quiet(proc[p], s)
    BY <1>5, <1>t
       DEF BeginResume, At, Moved, Quiet, Process, WellFormed, Writing, NoTaskYet,
       Starting, Deleting, Idle
  <2>3. \A t \in Tasks : HasRow(t)' => HasRow(t)
    BY <1>5, <1>r DEF BeginResume
  <2> HIDE DEF s
  <2> QED
    BY <2>1, <2>2, <2>3, BecomesQuiet
<1>6. CASE LoadForResume(p)
  <2> DEFINE s == IF ~ Exists(proc[p].task) THEN Idle
              ELSE [proc[p] EXCEPT !.at = "fetch", !.op = "redrafting",
                                   !.row = records[proc[p].task].log]
  <2>1. Becomes(p, s) /\ UNCHANGED <<records, queue, issued>>
    BY <1>6 DEF LoadForResume, Moved, redis
  <2>2. Quiet(proc[p], s)
    BY <1>6, <1>t
       DEF LoadForResume, At, Moved, Quiet, Process, WellFormed, Writing, NoTaskYet,
       Starting, Deleting, Idle
  <2>3. \A t \in Tasks : HasRow(t)' => HasRow(t)
    BY <1>6, <1>r DEF LoadForResume
  <2> HIDE DEF s
  <2> QED
    BY <2>1, <2>2, <2>3, BecomesQuiet
<1>7. CASE CheckExisting(p)
  <2> DEFINE done == CompletedRows(DraftOf[proc[p].task])
  <2>1. \E s : /\ Becomes(p, s)
               /\ \/ s = Moved(p, "insert")
                  \/ \E i \in done : s = [proc[p] EXCEPT
                                           !.at = "fetch", !.op = "existing",
                                                         !.row = i]
    <3> HIDE DEF done
    <3>1. \/ Becomes(p, Moved(p, "insert"))
          \/ \E i \in done : Becomes(p, [proc[p] EXCEPT
                                          !.at = "fetch", !.op = "existing",
                                                        !.row = i])
      BY <1>7 DEF CheckExisting, done
    <3> QED
      BY <3>1
  <2>2. UNCHANGED <<records, queue, issued>> /\ rows' = rows /\ proc[p].at = "lookup"
    BY <1>7 DEF CheckExisting, redis, At
  <2>3. ASSUME NEW s, Becomes(p, s),
               \/ s = Moved(p, "insert")
               \/ \E i \in done : s = [proc[p] EXCEPT !.at = "fetch", !.op = "existing",
                                                      !.row = i]
        PROVE  QuietStep(p)
    <3> HIDE DEF done
    <3>1. /\ s.at \in {"insert", "fetch"} /\ s.task = proc[p].task
          /\ s.op \in {proc[p].op, "existing"} /\ proc[p].op = "none"
      BY <1>t, <2>2, <2>3 DEF Moved, Process, WellFormed, Writing
    <3>2. Quiet(proc[p], s)
      BY <2>2, <3>1 DEF Quiet, Starting, Deleting
    <3> QED
      BY <1>r, <2>2, <2>3, <3>2, BecomesQuiet
  <2> QED
    BY <2>1, <2>3
<1>8. CASE MarkRowDrafting(p)
  <2> DEFINE s == Moved(p, "engine")
  <2>1. Becomes(p, s) /\ UNCHANGED <<records, queue, issued>>
    BY <1>8 DEF MarkRowDrafting, Moved, redis
  <2>2. Quiet(proc[p], s)
    BY <1>8, <1>t
       DEF MarkRowDrafting, At, Moved, Quiet, Process, WellFormed, Writing, NoTaskYet,
       Starting, Deleting, Idle
  <2>3. \A t \in Tasks : HasRow(t)' => HasRow(t)
    BY <1>8, RowSetKeepsRows DEF MarkRowDrafting, TypeInv, TypeOK
  <2> HIDE DEF s
  <2> QED
    BY <2>1, <2>2, <2>3, BecomesQuiet
<1>9. CASE EngineFails(p)
  <2> DEFINE s == [proc[p] EXCEPT !.at = "fetch", !.op = "failed"]
  <2>1. Becomes(p, s) /\ UNCHANGED <<records, queue, issued>>
    BY <1>9 DEF EngineFails, Moved, redis, EngineStops
  <2>2. Quiet(proc[p], s)
    BY <1>9, <1>t
       DEF EngineFails, At, Moved, Quiet, Process, WellFormed, Writing, NoTaskYet,
       Starting, Deleting, Idle, EngineStops
  <2>3. \A t \in Tasks : HasRow(t)' => HasRow(t)
    BY <1>9, RowSetKeepsRows DEF EngineFails, TypeInv, TypeOK, EngineStops
  <2> HIDE DEF s
  <2> QED
    BY <2>1, <2>2, <2>3, BecomesQuiet
<1>10. CASE EngineAsks(p)
  <2> DEFINE s == [proc[p] EXCEPT !.at = "fetch", !.op = "awaiting"]
  <2>1. Becomes(p, s) /\ UNCHANGED <<records, queue, issued>>
    BY <1>10 DEF EngineAsks, Moved, redis, EngineStops
  <2>2. Quiet(proc[p], s)
    BY <1>10, <1>t
       DEF EngineAsks, At, Moved, Quiet, Process, WellFormed, Writing, NoTaskYet,
       Starting, Deleting, Idle, EngineStops
  <2>3. \A t \in Tasks : HasRow(t)' => HasRow(t)
    BY <1>10, RowSetKeepsRows DEF EngineAsks, TypeInv, TypeOK, EngineStops
  <2> HIDE DEF s
  <2> QED
    BY <2>1, <2>2, <2>3, BecomesQuiet
<1>11. CASE EngineDelivers(p)
  <2> DEFINE s == [proc[p] EXCEPT
                    !.at = IF proc[p].task \in flags THEN "row_cancelled" ELSE "row_completed"]
  <2>1. Becomes(p, s) /\ UNCHANGED <<records, queue, issued>>
    BY <1>11 DEF EngineDelivers, Moved, redis
  <2>2. Quiet(proc[p], s)
    BY <1>11, <1>t
       DEF EngineDelivers, At, Moved, Quiet, Process, WellFormed, Writing, NoTaskYet,
       Starting, Deleting, Idle
  <2>3. \A t \in Tasks : HasRow(t)' => HasRow(t)
    BY <1>11, <1>r DEF EngineDelivers
  <2> HIDE DEF s
  <2> QED
    BY <2>1, <2>2, <2>3, BecomesQuiet
<1>12. CASE DropResult(p)
  <2> DEFINE s == [Idle EXCEPT !.at = "drain"]
  <2>1. Becomes(p, s) /\ UNCHANGED <<records, queue, issued>>
    BY <1>12 DEF DropResult, Moved, redis
  <2>2. Quiet(proc[p], s)
    BY <1>12, <1>t
       DEF DropResult, At, Moved, Quiet, Process, WellFormed, Writing, NoTaskYet,
       Starting, Deleting, Idle
  <2>3. \A t \in Tasks : HasRow(t)' => HasRow(t)
    BY <1>12, RowSetKeepsRows DEF DropResult, TypeInv, TypeOK
  <2> HIDE DEF s
  <2> QED
    BY <2>1, <2>2, <2>3, BecomesQuiet
<1>13. CASE KeepResult(p)
  <2> DEFINE s == [proc[p] EXCEPT !.at = "fetch", !.op = "completed"]
  <2>1. Becomes(p, s) /\ UNCHANGED <<records, queue, issued>>
    BY <1>13 DEF KeepResult, Moved, redis
  <2>2. Quiet(proc[p], s)
    BY <1>13, <1>t
       DEF KeepResult, At, Moved, Quiet, Process, WellFormed, Writing, NoTaskYet,
       Starting, Deleting, Idle
  <2>3. \A t \in Tasks : HasRow(t)' => HasRow(t)
    BY <1>13, RowSetKeepsRows DEF KeepResult, TypeInv, TypeOK
  <2> HIDE DEF s
  <2> QED
    BY <2>1, <2>2, <2>3, BecomesQuiet
<1>14. CASE DrainCount(p)
  <2> DEFINE s == IF Cardinality(ActiveTasks) >= MaxConcurrent THEN Idle ELSE Moved(p, "pop")
  <2>1. Becomes(p, s) /\ UNCHANGED <<records, queue, issued>>
    BY <1>14 DEF DrainCount, Moved, redis
  <2>2. Quiet(proc[p], s)
    BY <1>14, <1>t
       DEF DrainCount, At, Moved, Quiet, Process, WellFormed, Writing, NoTaskYet,
       Starting, Deleting, Idle
  <2>3. \A t \in Tasks : HasRow(t)' => HasRow(t)
    BY <1>14, <1>r DEF DrainCount
  <2> HIDE DEF s
  <2> QED
    BY <2>1, <2>2, <2>3, BecomesQuiet
<1>15. CASE DrainPeek(p)
  <2> DEFINE s == IF ~ Exists(proc[p].task) THEN Idle
              ELSE [proc[p] EXCEPT !.at = "fetch", !.op = "promote"]
  <2>1. Becomes(p, s) /\ UNCHANGED <<records, queue, issued>>
    BY <1>15 DEF DrainPeek, Moved, redis
  <2>2. Quiet(proc[p], s)
    BY <1>15, <1>t
       DEF DrainPeek, At, Moved, Quiet, Process, WellFormed, Writing, NoTaskYet,
       Starting, Deleting, Idle
  <2>3. \A t \in Tasks : HasRow(t)' => HasRow(t)
    BY <1>15, <1>r DEF DrainPeek
  <2> HIDE DEF s
  <2> QED
    BY <2>1, <2>2, <2>3, BecomesQuiet
<1>16. CASE Crash(p)
  <2> DEFINE s == Idle
  <2>1. Becomes(p, s) /\ UNCHANGED <<records, queue, issued>>
    BY <1>16 DEF Crash, Moved, redis
  <2>2. Quiet(proc[p], s)
    BY <1>16, <1>t DEF Crash, At, Moved, Quiet, Process, WellFormed, Writing, NoTaskYet,
       Starting, Deleting, Idle
  <2>3. \A t \in Tasks : HasRow(t)' => HasRow(t)
    BY <1>16, <1>r DEF Crash
  <2> HIDE DEF s
  <2> QED
    BY <2>1, <2>2, <2>3, BecomesQuiet
<1> QED
  BY <1>1, <1>2, <1>3, <1>4, <1>5, <1>6, <1>7, <1>8, <1>9, <1>10, <1>11, <1>12, <1>13,
     <1>14, <1>15, <1>16
     DEF QuietAction

(* Every step keeps the invariant of the line.                            *)
LEMMA LineNext == TypeInv /\ TypeInv' /\ LineInv /\ [Next]_vars => LineInv'
<1> SUFFICES ASSUME TypeInv, TypeInv', LineInv, [Next]_vars PROVE LineInv'
  OBVIOUS
<1> USE ConstantsAssumption
<1>t. \A p \in Procs : proc[p] \in Process /\ WellFormed(proc[p])
  BY DEF TypeInv, ProcsOK
<1>q. Requests \subseteq Procs /\ Jobs \subseteq Procs
  BY DEF Procs
<1>w. \A t \in Tasks, p \in Procs :
        Waits(t) /\ proc[p].task = t =>
          /\ p \in Requests
          /\ proc[p].at \in Deleting \cup {"park"} \/ proc[p].op = "cancelled"
  BY DEF LineInv, WaitInv
<1>r. rows' = rows => \A t \in Tasks : HasRow(t)' => HasRow(t)
  BY DEF HasRow
<1>1. ASSUME NEW r \in Requests, NEW t \in Tasks, NEW skip \in BOOLEAN, Start(r, t, skip)
      PROVE  LineInv'
  <2> DEFINE s == [Idle EXCEPT !.at = "count", !.task = t, !.skip = skip]
  <2>1. OnlyMoves(r) /\ proc'[r] = s /\ r \in Procs
    BY <1>1, <1>q, BecomesMoves DEF Start
  <2>2. s.at = "count" /\ s.task = t /\ s.op = "none"
    BY DEF Idle
  <2> HIDE DEF s
  <2>3. UNCHANGED <<records, queue, rows>> /\ t \notin issued /\ issued' = issued \cup {t}
    BY <1>1 DEF Start, redis
  <2>4. /\ records[t].status = "NONE" /\ ~ InQueue(t) /\ ~ HasRow(t)
        /\ \A q \in Procs : proc[q].task # t
    BY <2>3 DEF LineInv, NewInv
  <2>5. \A u : (InQueue(u)' <=> InQueue(u)) /\ (HasRow(u)' <=> HasRow(u))
    BY <2>3 DEF InQueue, HasRow
  <2>6. \A u \in Tasks \ {t} : Parking(u)' => Parking(u)
    BY <2>1, <2>2, <2>4 DEF OnlyMoves, Parking
  <2>p. ~ Parking(t)'
    BY <2>1, <2>2, <2>4 DEF OnlyMoves, Parking
  <2>7. NewInv' /\ StartInv'
    <3>1. NewInv'
      BY <2>1, <2>2, <2>3, <2>5 DEF LineInv, NewInv, OnlyMoves
    <3>2. ASSUME NEW q \in Procs, proc'[q].at \in Starting, NEW v, v = proc'[q].task
          PROVE  /\ q \in Requests
                 /\ records'[v].status = "NONE" /\ ~ InQueue(v)' /\ ~ HasRow(v)'
                 /\ \A u \in Procs : proc'[u].task = v => u = q
      <4>1. CASE q = r
        BY <2>1, <2>2, <2>3, <2>4, <2>5, <3>2, <4>1 DEF OnlyMoves
      <4>2. CASE q # r
        <5>1. proc'[q] = proc[q] /\ v # t
          BY <2>1, <2>4, <3>2, <4>2 DEF OnlyMoves
        <5> QED
          BY <2>1, <2>2, <2>3, <2>5, <3>2, <5>1 DEF LineInv, StartInv, OnlyMoves
      <4> QED
        BY <4>1, <4>2
    <3> QED
      BY <3>1, <3>2 DEF StartInv, InQueue, HasRow
  <2>8. ParkInv' /\ FifoInv'
    <3>1. ASSUME NEW q \in Procs, proc'[q].at = "park", NEW v, v = proc'[q].task
          PROVE  /\ q \in Requests /\ ~ InQueue(v)'
                 /\ \A u \in Procs : proc'[u].at = "park" /\ proc'[u].task = v => u = q
      <4>1. q # r /\ proc'[q] = proc[q]
        BY <2>1, <2>2, <3>1 DEF OnlyMoves
      <4> QED
        BY <2>1, <2>2, <2>5, <3>1, <4>1 DEF LineInv, ParkInv, OnlyMoves
    <3> QED
      BY <2>3, <3>1 DEF LineInv, ParkInv, FifoInv, InQueue
  <2>9. WaitInv' /\ ServeInv'
    <3>1. ASSUME NEW u \in Tasks, Waits(u)'
          PROVE  /\ records'[u].status \in {"NONE", "QUEUED", "CANCELLED"}
                 /\ ~ HasRow(u)'
                 /\ \A q \in Procs : proc'[q].task = u =>
                      /\ q \in Requests
                      /\ proc'[q].at \in Deleting \cup {"park"} \/ proc'[q].op = "cancelled"
      <4>1. Waits(u) /\ u # t
        BY <2>4, <2>5, <2>6, <2>p, <3>1 DEF Waits
      <4> QED
        BY <2>1, <2>2, <2>3, <2>5, <4>1 DEF LineInv, WaitInv, OnlyMoves
    <3>2. \A q \in Procs, u \in Tasks : Promotes(q, u)' => Promotes(q, u)
      BY <2>1, <2>2 DEF Promotes, OnlyMoves
    <3> QED
      BY <3>1, <3>2 DEF LineInv, WaitInv, ServeInv
  <2> QED
    BY <2>7, <2>8, <2>9 DEF LineInv
<1>2. ASSUME NEW p \in Requests, CountActive(p) PROVE LineInv'
  <2> DEFINE s == Moved(p, IF Cardinality(ActiveTasks) >= MaxConcurrent
                           THEN "size" ELSE "create_pending")
  <2>1. Becomes(p, s) /\ UNCHANGED <<records, queue, rows, issued>> /\ proc[p].at = "count"
    BY <1>2 DEF CountActive, At
  <2>2. s.at \in {"size", "create_pending"} /\ s.task = proc[p].task /\ s.op = proc[p].op
    BY <1>q, <1>t DEF Moved, Process
  <2> HIDE DEF s
  <2> QED
    BY <1>q, <2>1, <2>2, StartKeepsLine DEF Starting
<1>3. ASSUME NEW p \in Requests, CheckQueueSize(p) PROVE LineInv'
  <2> DEFINE s == Moved(p, "create_queued")
  <2>1. CASE Len(queue) < MaxQueued
    <3>1. Becomes(p, s) /\ UNCHANGED <<records, queue, rows, issued>> /\ proc[p].at = "size"
      BY <1>3, <2>1, LenProperties DEF CheckQueueSize, At, TypeInv, TypeOK
    <3>2. s.at = "create_queued" /\ s.task = proc[p].task /\ s.op = proc[p].op
      BY <1>q, <1>t DEF Moved, Process
    <3> HIDE DEF s
    <3> QED
      BY <1>q, <3>1, <3>2, StartKeepsLine DEF Starting
  <2>2. CASE ~ (Len(queue) < MaxQueued)
    <3> DEFINE t == proc[p].task
    <3>1. /\ Becomes(p, Idle) /\ UNCHANGED <<records, queue, rows>>
          /\ proc[p].at = "size" /\ issued' = issued \ {t}
      BY <1>3, <2>2, LenProperties DEF CheckQueueSize, At, TypeInv, TypeOK
    <3>2. OnlyMoves(p) /\ proc'[p] = Idle /\ p \in Procs
      BY <1>q, <3>1, BecomesMoves
    <3>3. /\ records[t].status = "NONE" /\ ~ InQueue(t) /\ ~ HasRow(t)
          /\ \A q \in Procs : proc[q].task = t => q = p
      BY <1>q, <3>1 DEF LineInv, StartInv, Starting
    <3>i. Idle.at = "idle" /\ Idle.task = NoTask /\ Idle.op = "none"
      BY DEF Idle
    <3>t. t \in Tasks
      BY <1>q, <1>t, <3>1 DEF Process, WellFormed, NoTaskYet
    <3> HIDE DEF t
    <3>4. \A u : (InQueue(u)' <=> InQueue(u)) /\ (HasRow(u)' <=> HasRow(u))
      BY <3>1 DEF InQueue, HasRow
    <3>5. \A q \in Procs : proc'[q] = proc[q] \/ proc'[q] = Idle
      BY <3>2 DEF OnlyMoves
    <3>6. \A q \in Procs : proc'[q].at \in Starting \cup {"park"} => proc'[q] = proc[q] /\ q # p
      BY <3>2, <3>5, <3>i DEF Starting
    <3>7. NewInv'
      <4>1. ASSUME NEW u \in Tasks \ issued'
            PROVE  /\ records'[u].status = "NONE" /\ ~ InQueue(u)' /\ ~ HasRow(u)'
                   /\ \A q \in Procs : proc'[q].task # u
        <5>1. CASE u = t
          BY <3>1, <3>2, <3>3, <3>4, <3>t, <3>i, <5>1 DEF OnlyMoves
        <5>2. CASE u # t
          BY <3>1, <3>4, <3>5, <3>i, <4>1, <5>2 DEF LineInv, NewInv
        <5> QED
          BY <5>1, <5>2
      <4> QED
        BY <4>1 DEF NewInv
    <3>8. StartInv'
      <4>1. ASSUME NEW q \in Procs, proc'[q].at \in Starting, NEW v, v = proc'[q].task
            PROVE  /\ q \in Requests
                   /\ records'[v].status = "NONE" /\ ~ InQueue(v)' /\ ~ HasRow(v)'
                   /\ \A u \in Procs : proc'[u].task = v => u = q
        <5>1. proc'[q] = proc[q] /\ v \in Tasks
          BY <1>t, <3>6, <4>1 DEF Process, WellFormed, NoTaskYet, Starting
        <5> QED
          BY <3>1, <3>4, <3>5, <3>i, <4>1, <5>1 DEF LineInv, StartInv
      <4> QED
        BY <4>1 DEF StartInv, InQueue, HasRow
    <3>9. ParkInv' /\ FifoInv'
      BY <3>1, <3>4, <3>6 DEF LineInv, ParkInv, FifoInv, InQueue
    <3>10. WaitInv'
      <4>1. ASSUME NEW u \in Tasks, Waits(u)'
            PROVE  /\ records'[u].status \in {"NONE", "QUEUED", "CANCELLED"}
                   /\ ~ HasRow(u)'
                   /\ \A q \in Procs : proc'[q].task = u =>
                        /\ q \in Requests
                        /\ proc'[q].at \in Deleting \cup {"park"} \/ proc'[q].op = "cancelled"
        <5>1. Waits(u)
          BY <3>4, <3>6, <4>1 DEF Waits, Parking
        <5> QED
          BY <3>1, <3>4, <3>5, <3>i, <5>1 DEF LineInv, WaitInv
      <4> QED
        BY <4>1 DEF WaitInv
    <3>11. ServeInv'
      <4>1. \A q \in Procs, u \in Tasks : Promotes(q, u)' => Promotes(q, u)
        BY <3>5, <3>i DEF Promotes
      <4> QED
        BY <4>1 DEF LineInv, ServeInv
    <3> QED
      BY <3>7, <3>8, <3>9, <3>10, <3>11 DEF LineInv
  <2> QED
    BY <2>1, <2>2
<1>4. ASSUME NEW p \in Requests, Create(p) PROVE LineInv'
  <2> DEFINE t == proc[p].task
             s == [proc[p] EXCEPT
                    !.at = IF At(p, "create_pending") THEN "kick" ELSE "park"]
  <2>1. /\ Becomes(p, s) /\ UNCHANGED <<queue, rows, issued>> /\ proc[p].at \in Starting
        /\ \A u \in Tasks \ {t} : records'[u] = records[u]
    BY <1>4 DEF Create, At, Moved, Starting, TypeInv, TypeOK
  <2>2. s.at \in {"kick", "park"} /\ s.task = t /\ s.op = "none"
    BY <1>4, <1>q, <1>t DEF Create, At, Process, WellFormed, Writing
  <2>3. s.at = "park" => records'[t].status = "QUEUED"
    BY <1>4, <1>q, <1>t
       DEF Create, At, NoRecord, TypeInv, TypeOK, Process, WellFormed, NoTaskYet
  <2>t. t \in Tasks
    BY <1>q, <1>t, <2>1 DEF Process, WellFormed, NoTaskYet, Starting
  <2>4. /\ ~ InQueue(t) /\ ~ HasRow(t)
        /\ \A q \in Procs : proc[q].task = t => q = p
    BY <1>q, <2>1 DEF LineInv, StartInv
  <2>5. OnlyMoves(p) /\ proc'[p] = s /\ p \in Procs /\ p \in Requests /\ proc[p].task = t
    BY <1>4, <1>q, <2>1, BecomesMoves
  <2> HIDE DEF s, t
  <2>6. \A u : (InQueue(u)' <=> InQueue(u)) /\ (HasRow(u)' <=> HasRow(u))
    BY <2>1 DEF InQueue, HasRow
  <2>7. \A q \in Procs : q = p \/ (proc'[q] = proc[q] /\ proc[q].task # t)
    BY <2>4, <2>5 DEF OnlyMoves
  <2>8. NewInv'
    <3>1. t \in issued
      BY <2>5, <2>t DEF LineInv, NewInv
    <3> QED
      BY <2>1, <2>2, <2>5, <2>6, <2>7, <3>1 DEF LineInv, NewInv
  <2>9. StartInv'
    <3>1. ASSUME NEW q \in Procs, proc'[q].at \in Starting, NEW v, v = proc'[q].task
          PROVE  /\ q \in Requests
                 /\ records'[v].status = "NONE" /\ ~ InQueue(v)' /\ ~ HasRow(v)'
                 /\ \A u \in Procs : proc'[u].task = v => u = q
      <4>1. q # p /\ proc'[q] = proc[q] /\ v # t /\ v \in Tasks
        BY <1>t, <2>2, <2>5, <2>7, <3>1 DEF Process, WellFormed, NoTaskYet, Starting
      <4> QED
        BY <2>1, <2>2, <2>5, <2>6, <2>7, <3>1, <4>1 DEF LineInv, StartInv
    <3> QED
      BY <3>1 DEF StartInv, InQueue, HasRow
  <2>10. ParkInv' /\ FifoInv'
    <3>1. ASSUME NEW q \in Procs, proc'[q].at = "park", NEW v, v = proc'[q].task
          PROVE  /\ q \in Requests /\ ~ InQueue(v)'
                 /\ \A u \in Procs : proc'[u].at = "park" /\ proc'[u].task = v => u = q
      <4>1. CASE q = p
        BY <2>2, <2>4, <2>5, <2>6, <2>7, <3>1, <4>1
      <4>2. CASE q # p
        BY <2>2, <2>5, <2>6, <2>7, <3>1, <4>2 DEF LineInv, ParkInv
      <4> QED
        BY <4>1, <4>2
    <3> QED
      BY <2>1, <3>1 DEF LineInv, ParkInv, FifoInv, InQueue
  <2>11. WaitInv'
    <3>1. ASSUME NEW u \in Tasks, Waits(u)'
          PROVE  /\ records'[u].status \in {"NONE", "QUEUED", "CANCELLED"}
                 /\ ~ HasRow(u)'
                 /\ \A q \in Procs : proc'[q].task = u =>
                      /\ q \in Requests
                      /\ proc'[q].at \in Deleting \cup {"park"} \/ proc'[q].op = "cancelled"
      <4>1. CASE u = t
        <5>1. s.at = "park"
          BY <2>2, <2>4, <2>5, <2>6, <2>7, <3>1, <4>1 DEF Waits, Parking
        <5> QED
          BY <2>3, <2>4, <2>5, <2>6, <2>7, <4>1, <5>1
      <4>2. CASE u # t
        <5>1. Waits(u)
          BY <2>2, <2>5, <2>6, <2>7, <3>1, <4>2 DEF Waits, Parking
        <5> QED
          BY <2>1, <2>2, <2>5, <2>6, <2>7, <4>2, <5>1 DEF LineInv, WaitInv
      <4> QED
        BY <4>1, <4>2
    <3> QED
      BY <3>1 DEF WaitInv
  <2>12. ServeInv'
    <3>1. \A q \in Procs, u \in Tasks : Promotes(q, u)' => Promotes(q, u)
      BY <2>2, <2>5, <2>7 DEF Promotes
    <3> QED
      BY <3>1 DEF LineInv, ServeInv
  <2> QED
    BY <2>8, <2>9, <2>10, <2>11, <2>12 DEF LineInv
<1>5. ASSUME NEW p \in Requests, Park(p) PROVE LineInv'
  <2> DEFINE t == proc[p].task
  <2>1. /\ Becomes(p, Idle) /\ UNCHANGED <<records, rows, issued>> /\ proc[p].at = "park"
        /\ queue' = Append(queue, t)
    BY <1>5 DEF Park, At
  <2>2. OnlyMoves(p) /\ proc'[p] = Idle /\ p \in Procs /\ proc[p].task = t
    BY <1>q, <2>1, BecomesMoves
  <2>t. t \in Tasks
    BY <1>q, <1>t, <2>1 DEF Process, WellFormed, NoTaskYet
  <2>i. Idle.at = "idle" /\ Idle.task = NoTask /\ Idle.op = "none"
    BY DEF Idle
  <2>3. ~ InQueue(t) /\ \A q \in Procs : proc[q].at = "park" /\ proc[q].task = t => q = p
    BY <1>q, <2>1 DEF LineInv, ParkInv
  <2> HIDE DEF t
  <2>4. NoRepeat(queue') /\ \A u : InQueue(u)' <=> (InQueue(u) \/ u = t)
    <3>1. queue \in Seq(Tasks) /\ NoRepeat(queue) /\ ~ Occurs(queue, t)
      BY <2>3 DEF NoRepeat, Occurs, InQueue, LineInv, FifoInv, TypeInv, TypeOK
    <3>2. /\ NoRepeat(Append(queue, t))
          /\ \A u : Occurs(Append(queue, t), u) <=> Occurs(queue, u) \/ u = t
      BY <2>t, <3>1, AppendLine
    <3> QED
      BY <2>1, <3>2 DEF Occurs, InQueue
  <2>5. \A u : HasRow(u)' <=> HasRow(u)
    BY <2>1 DEF HasRow
  <2>6. \A q \in Procs : proc'[q] = proc[q] \/ proc'[q] = Idle
    BY <2>2 DEF OnlyMoves
  <2>7. \A q \in Procs : proc'[q].at \in Starting \cup {"park"} => proc'[q] = proc[q] /\ q # p
    BY <2>2, <2>6, <2>i DEF Starting
  <2>8. Waits(t)
    BY <2>1, <2>2 DEF Waits, Parking
  <2>9. \A u \in Tasks : Waits(u)' => Waits(u)
    BY <2>4, <2>7, <2>8 DEF Waits, Parking
  <2>10. NewInv'
    <3>1. t \in issued
      BY <2>2, <2>t DEF LineInv, NewInv
    <3> QED
      BY <2>1, <2>4, <2>5, <2>6, <2>i, <3>1 DEF LineInv, NewInv
  <2>11. StartInv'
    <3>1. ASSUME NEW q \in Procs, proc'[q].at \in Starting, NEW v, v = proc'[q].task
          PROVE  /\ q \in Requests
                 /\ records'[v].status = "NONE" /\ ~ InQueue(v)' /\ ~ HasRow(v)'
                 /\ \A u \in Procs : proc'[u].task = v => u = q
      <4>1. proc'[q] = proc[q] /\ v \in Tasks /\ q # p
        BY <1>t, <2>7, <3>1 DEF Process, WellFormed, NoTaskYet, Starting
      <4>2. v # t
        BY <2>2, <3>1, <4>1 DEF LineInv, StartInv
      <4> QED
        BY <2>1, <2>4, <2>5, <2>6, <2>i, <3>1, <4>1, <4>2 DEF LineInv, StartInv
    <3> QED
      BY <3>1 DEF StartInv, InQueue, HasRow
  <2>12. ParkInv' /\ FifoInv'
    <3>1. ASSUME NEW q \in Procs, proc'[q].at = "park", NEW v, v = proc'[q].task
          PROVE  /\ q \in Requests /\ ~ InQueue(v)'
                 /\ \A u \in Procs : proc'[u].at = "park" /\ proc'[u].task = v => u = q
      BY <2>3, <2>4, <2>7, <3>1 DEF LineInv, ParkInv
    <3> QED
      BY <2>4, <3>1 DEF LineInv, ParkInv, FifoInv, NoRepeat, InQueue
  <2>13. WaitInv'
    <3>1. ASSUME NEW u \in Tasks, Waits(u)'
          PROVE  /\ records'[u].status \in {"NONE", "QUEUED", "CANCELLED"}
                 /\ ~ HasRow(u)'
                 /\ \A q \in Procs : proc'[q].task = u =>
                      /\ q \in Requests
                      /\ proc'[q].at \in Deleting \cup {"park"} \/ proc'[q].op = "cancelled"
      BY <2>1, <2>5, <2>6, <2>9, <2>i, <3>1 DEF LineInv, WaitInv
    <3> QED
      BY <3>1 DEF WaitInv
  <2>14. ServeInv'
    <3>1. \A q \in Procs, u \in Tasks : Promotes(q, u)' => Promotes(q, u)
      BY <2>6, <2>i DEF Promotes
    <3> QED
      BY <3>1 DEF LineInv, ServeInv
  <2> QED
    BY <2>10, <2>11, <2>12, <2>13, <2>14 DEF LineInv
<1>6. ASSUME NEW p \in Procs, Kick(p) PROVE LineInv'
  <2>1. /\ Kiq(p, "queued_draft", proc[p].task, proc[p].skip) /\ proc[p].at = "kick"
        /\ UNCHANGED <<records, queue, rows, issued>>
    BY <1>6 DEF Kick, At, redis
  <2>2. proc[p].task \in Tasks /\ proc[p].op = "none"
    BY <1>t, <2>1 DEF Process, WellFormed, NoTaskYet, Writing
  <2>3. Settled(proc[p].task)
    BY <2>1, <2>2, WorkedOnSettled DEF Starting
  <2>4. ~ Waits(proc[p].task)
    BY <1>w, <2>1, <2>2 DEF Deleting
  <2> QED
    BY <2>1, <2>2, <2>3, <2>4, KiqKeepsLine DEF InBroker
<1>7. ASSUME NEW r \in Requests, NEW t \in Tasks, SubmitInput(r, t) PROVE LineInv'
  <2>1. /\ Kiq(r, "queued_resume", t, FALSE) /\ records[t].status = "AWAITING_INPUT"
        /\ UNCHANGED <<records, queue, rows, issued>>
    BY <1>7 DEF SubmitInput, redis
  <2>2. Settled(t)
    BY <2>1, ExistsSettled DEF Exists
  <2>3. ~ Waits(t)
    BY <2>1 DEF LineInv, WaitInv
  <2> QED
    BY <1>q, <2>1, <2>2, <2>3, KiqKeepsLine DEF InBroker
<1>8. ASSUME NEW r \in Requests, NEW t \in Tasks, UseExisting(r, t) PROVE LineInv'
  <2> DEFINE s == [Idle EXCEPT !.at = "fetch", !.op = "adopt", !.task = t,
                             !.row = records[t].existing]
  <2>1. Becomes(r, s) /\ UNCHANGED <<records, queue, rows, issued>>
    BY <1>8 DEF UseExisting, redis
  <2>2. Exists(t)
    BY <1>8 DEF UseExisting, Exists, Active, Terminal
  <2>3. /\ s.task = t /\ s.at \notin Starting \cup {"park", "peek"} /\ s.op # "promote"
        /\ s.at \in Deleting \/ s.op = "cancelled" \/ ~ Waits(t)
    BY <1>8 DEF UseExisting, Idle, Starting, Deleting, LineInv, WaitInv
  <2> HIDE DEF s
  <2> QED
    BY <2>1, <2>2, <2>3, CallKeepsLine
<1>9. ASSUME NEW r \in Requests, NEW t \in Tasks, Regenerate(r, t) PROVE LineInv'
  <2> DEFINE s == [Idle EXCEPT !.at = "store", !.op = "reset", !.task = t,
                             !.snap = records[t], !.skip = TRUE]
  <2>1. Becomes(r, s) /\ UNCHANGED <<records, queue, rows, issued>>
    BY <1>9 DEF Regenerate, redis
  <2>2. Exists(t)
    BY <1>9 DEF Regenerate, Exists, Active, Terminal
  <2>3. /\ s.task = t /\ s.at \notin Starting \cup {"park", "peek"} /\ s.op # "promote"
        /\ s.at \in Deleting \/ s.op = "cancelled" \/ ~ Waits(t)
    BY <1>9 DEF Regenerate, Idle, Starting, Deleting, LineInv, WaitInv
  <2> HIDE DEF s
  <2> QED
    BY <2>1, <2>2, <2>3, CallKeepsLine
<1>10. ASSUME NEW r \in Requests, NEW t \in Tasks, Cancel(r, t) PROVE LineInv'
  <2> DEFINE s == [Idle EXCEPT
                   !.at = IF records[t].status = "QUEUED" THEN "unpark_cancel"
                                                          ELSE "fetch",
                   !.op = "cancelled", !.task = t]
  <2>1. Becomes(r, s) /\ UNCHANGED <<records, queue, rows, issued>>
    BY <1>10 DEF Cancel, redis
  <2>2. Exists(t)
    BY <1>10 DEF Cancel, Exists, Active, Terminal
  <2>3. /\ s.task = t /\ s.at \notin Starting \cup {"park", "peek"} /\ s.op # "promote"
        /\ s.at \in Deleting \/ s.op = "cancelled" \/ ~ Waits(t)
    BY <1>10 DEF Cancel, Idle, Starting, Deleting, LineInv, WaitInv
  <2> HIDE DEF s
  <2> QED
    BY <2>1, <2>2, <2>3, CallKeepsLine
<1>11. ASSUME NEW r \in Requests, NEW t \in Tasks, Dismiss(r, t) PROVE LineInv'
  <2> DEFINE s == [Idle EXCEPT !.at = "find", !.task = t]
  <2>1. Becomes(r, s) /\ UNCHANGED <<records, queue, rows, issued>>
    BY <1>11 DEF Dismiss, redis
  <2>2. Exists(t)
    BY <1>11 DEF Dismiss, Exists, Active, Terminal
  <2>3. /\ s.task = t /\ s.at \notin Starting \cup {"park", "peek"} /\ s.op # "promote"
        /\ s.at \in Deleting \/ s.op = "cancelled" \/ ~ Waits(t)
    BY <1>11 DEF Dismiss, Idle, Starting, Deleting, LineInv, WaitInv
  <2> HIDE DEF s
  <2> QED
    BY <2>1, <2>2, <2>3, CallKeepsLine
<1>12. ASSUME NEW p \in Requests, RemoveFromQueue(p) PROVE LineInv'
  <2> DEFINE t == proc[p].task
             s == Moved(p, "fetch")
  <2>1. /\ Becomes(p, s) /\ UNCHANGED <<records, rows, issued>> /\ queue' = Without(queue, t)
        /\ proc[p].at = "unpark_cancel"
    BY <1>12 DEF RemoveFromQueue, At
  <2>2. s.at = "fetch" /\ s.task = t /\ s.op = proc[p].op
    BY <1>q, <1>t DEF Moved, Process
  <2>t. t \in Tasks
    BY <1>q, <1>t, <2>1 DEF Process, WellFormed, NoTaskYet
  <2>3. Settled(t)
    BY <1>q, <2>1, <2>t, WorkedOnSettled DEF Starting
  <2>4. Waits(t) => s.op = "cancelled"
    BY <1>q, <1>w, <2>1, <2>2, <2>t DEF Deleting
  <2>5. s.op = "promote" => Promotes(p, t)
    BY <2>1, <2>2 DEF Promotes
  <2> HIDE DEF s
  <2> QED
    BY <1>12, <2>1, <2>2, <2>3, <2>4, <2>5, <2>t, LeaveKeepsLine DEF Starting
<1>13. ASSUME NEW p \in Requests, Delete(p) PROVE LineInv'
  <2> DEFINE t == proc[p].task
  <2>a. proc[p].at \in {"delete", "unlist", "unflag", "unpark"}
    BY <1>13 DEF Delete, At
  <2>t. t \in Tasks /\ proc[p].op = "none" /\ p \in Procs
    BY <1>q, <1>t, <2>a DEF Process, WellFormed, NoTaskYet, Writing
  <2>s. Settled(t)
    BY <2>a, <2>t, WorkedOnSettled DEF Starting
  <2>1. CASE At(p, "delete")
    <3> DEFINE s == Moved(p, "unlist")
    <3>1. /\ Becomes(p, s) /\ UNCHANGED <<queue, rows, issued>>
          /\ records' = [records EXCEPT ![t] = NoRecord]
      BY <1>13, <2>1 DEF Delete, At
    <3>2. s.at = "unlist" /\ s.task = t /\ s.op = "none"
      BY <1>t, <2>t DEF Moved, Process
    <3>3. OnlyMoves(p) /\ proc'[p] = s
      BY <2>t, <3>1, BecomesMoves
    <3> HIDE DEF s
    <3>4. \A u \in Tasks :
            \/ records'[u] = records[u]
            \/ Settled(u) /\ (Waits(u) => records'[u].status \in {"NONE", "CANCELLED"})
      BY <2>s, <3>1 DEF NoRecord, TypeInv, TypeOK
    <3>5. FifoInv' /\ \A u : (InQueue(u)' => InQueue(u)) /\ (HasRow(u)' => HasRow(u))
      BY <3>1 DEF LineInv, FifoInv, InQueue, HasRow
    <3>6. \A u \in Tasks : proc'[p].task = u =>
            /\ Settled(u)
            /\ Waits(u)' => /\ p \in Requests
                            /\ proc'[p].at \in Deleting \/ proc'[p].op = "cancelled"
            /\ Promotes(p, u)' => \A q \in Procs \ {p} : ~ Promotes(q, u)
      BY <1>13, <2>s, <3>2, <3>3 DEF Deleting, Promotes
    <3>7. proc'[p].at \notin Starting \cup {"park"}
      BY <3>2, <3>3 DEF Starting
    <3> QED
      BY <2>t, <3>1, <3>3, <3>4, <3>5, <3>6, <3>7, StepKeepsLine
  <2>2. CASE At(p, "unlist") \/ At(p, "unflag")
    <3> DEFINE s == Moved(p, IF At(p, "unlist") THEN "unflag" ELSE "unpark")
    <3>1. Becomes(p, s) /\ UNCHANGED <<records, queue, rows, issued>>
      BY <1>13, <2>2 DEF Delete, At
    <3>2. s.at \in {"unflag", "unpark"} /\ s.task = t /\ s.op = "none"
      BY <1>t, <2>t DEF Moved, Process
    <3> HIDE DEF s
    <3>3. Quiet(proc[p], s)
      BY <2>2, <2>t, <3>2 DEF At, Quiet, Starting, Deleting
    <3> QED
      BY <1>r, <2>t, <3>1, <3>3, BecomesQuiet, QuietKeepsLine
  <2>3. CASE At(p, "unpark")
    <3>1. /\ Becomes(p, Idle) /\ UNCHANGED <<records, rows, issued>>
          /\ queue' = Without(queue, t)
      BY <1>13, <2>3 DEF Delete, At
    <3>2. Idle.at = "idle" /\ Idle.task = NoTask
      BY DEF Idle
    <3> QED
      BY <1>13, <2>t, <3>1, <3>2, LeaveKeepsLine DEF Starting
  <2> QED
    BY <2>1, <2>2, <2>3, <2>a DEF At
<1>14. ASSUME NEW p \in Procs, Store(p) PROVE LineInv'
  <2> DEFINE t == proc[p].task
             o == proc[p].op
             b == [proc[p] EXCEPT !.snap = NoRecord]
             s == Then(o, b)
  <2>1. /\ Becomes(p, s) /\ UNCHANGED <<queue, rows, issued>> /\ proc[p].at = "store"
        /\ records' = [records EXCEPT ![t] = Updated(o, proc[p].snap, proc[p].row)]
    BY <1>14 DEF Store, At
  <2>2. o \in Ops \ {"none"} /\ t \in Tasks /\ proc[p].snap \in Records
    BY <1>t, <2>1 DEF Process, WellFormed, Writing, NoTaskYet
  <2>3. b \in Process /\ b.task = t
    BY <1>t, NoRecordType DEF Process
  <2>4. /\ s.at \notin Starting \cup {"park", "peek"}
        /\ s.task \in Tasks => s.task = t /\ o # "cancelled" /\ s.op # "promote"
    <3> HIDE DEF b, o, t
    <3> QED
      BY <2>2, <2>3, ThenLine
  <2>5. Settled(t)
    BY <2>1, <2>2, WorkedOnSettled DEF Starting
  <2>6. Waits(t) => o = "cancelled"
    BY <1>w, <2>1, <2>2 DEF Deleting
  <2>7. o = "cancelled" => Updated(o, proc[p].snap, proc[p].row).status = "CANCELLED"
    BY <2>2 DEF Updated, Records
  <2>8. OnlyMoves(p) /\ proc'[p] = s
    BY <2>1, BecomesMoves
  <2> HIDE DEF s, t, o
  <2>9. \A u \in Tasks :
          \/ records'[u] = records[u]
          \/ Settled(u) /\ (Waits(u) => records'[u].status \in {"NONE", "CANCELLED"})
    BY <2>1, <2>5, <2>6, <2>7 DEF TypeInv, TypeOK
  <2>10. FifoInv' /\ \A u : (InQueue(u)' => InQueue(u)) /\ (HasRow(u)' => HasRow(u))
    BY <2>1 DEF LineInv, FifoInv, InQueue, HasRow
  <2>11. \A u \in Tasks : Waits(u)' => Waits(u)
    BY <2>4, <2>8, <2>10 DEF Waits, Parking, OnlyMoves
  <2>12. \A u \in Tasks : proc'[p].task = u =>
          /\ Settled(u)
          /\ Waits(u)' => /\ p \in Requests
                          /\ proc'[p].at \in Deleting \/ proc'[p].op = "cancelled"
          /\ Promotes(p, u)' => \A q \in Procs \ {p} : ~ Promotes(q, u)
    BY <2>4, <2>5, <2>6, <2>8, <2>11 DEF Promotes
  <2> QED
    BY <2>1, <2>4, <2>8, <2>9, <2>10, <2>12, StepKeepsLine
<1>15. ASSUME NEW p \in Jobs, InsertRow(p) PROVE LineInv'
  <2> DEFINE t == proc[p].task
             s == [proc[p] EXCEPT
                    !.at = "fetch", !.op = "attach", !.row = Len(rows) + 1]
             row == [task |-> t, status |-> "DRAFTING", doc |-> FALSE]
  <2>1. /\ Becomes(p, s) /\ UNCHANGED <<records, queue, issued>> /\ proc[p].at = "insert"
        /\ rows' = Append(rows, row)
    BY <1>15 DEF InsertRow, At, redis
  <2>2. t \in Tasks /\ p \in Procs /\ proc[p] \in Process
    BY <1>q, <1>t, <2>1 DEF Process, WellFormed, NoTaskYet
  <2>3. s.at = "fetch" /\ s.task = t /\ s.op = "attach"
    BY <2>2 DEF Process
  <2>4. Settled(t)
    BY <2>1, <2>2, WorkedOnSettled DEF Starting
  <2>5. ~ Waits(t)
    BY <1>w, <2>2
  <2>6. OnlyMoves(p) /\ proc'[p] = s
    BY <2>1, <2>2, BecomesMoves
  <2>r. row \in Rows /\ row.task = t
    BY <2>2 DEF Rows, RowStatuses
  <2> HIDE DEF s, t, row
  <2>7. \A u \in Tasks : HasRow(u)' => HasRow(u) \/ u = t
    <3>1. /\ rows \in Seq(Rows) /\ Len(rows') = Len(rows) + 1
          /\ \A i \in 1..Len(rows) : rows'[i] = rows[i]
          /\ rows'[Len(rows) + 1] = row
      BY <2>1, <2>r, AppendProperties DEF TypeInv, TypeOK
    <3>2. /\ DOMAIN rows' = 1..(Len(rows) + 1) /\ DOMAIN rows = 1..Len(rows)
          /\ Len(rows) \in Nat
      BY <3>1, LenProperties DEF TypeInv, TypeOK
    <3> QED
      BY <2>r, <3>1, <3>2 DEF HasRow
  <2>8. FifoInv' /\ \A u : InQueue(u)' <=> InQueue(u)
    BY <2>1 DEF LineInv, FifoInv, InQueue
  <2>9. \A u \in Tasks : Waits(u)' => Waits(u)
    BY <2>3, <2>6, <2>8 DEF Waits, Parking, OnlyMoves
  <2>10. \A u \in Tasks : proc'[p].task = u =>
          /\ Settled(u)
          /\ Waits(u)' => /\ p \in Requests
                          /\ proc'[p].at \in Deleting \/ proc'[p].op = "cancelled"
          /\ Promotes(p, u)' => \A q \in Procs \ {p} : ~ Promotes(q, u)
    BY <2>3, <2>4, <2>5, <2>6, <2>9 DEF Promotes
  <2>11. proc'[p].at \notin Starting \cup {"park"}
    BY <2>3, <2>6 DEF Starting
  <2>12. \A u \in Tasks : HasRow(u)' => HasRow(u) \/ (Settled(u) /\ ~ Waits(u))
    BY <2>4, <2>5, <2>7
  <2>13. \A u \in Tasks : records'[u] = records[u]
    BY <2>1
  <2> QED
    BY <2>1, <2>2, <2>6, <2>8, <2>10, <2>11, <2>12, <2>13, StepKeepsLine
<1>16. ASSUME NEW p \in Procs, DrainPop(p) PROVE LineInv'
  <2>1. CASE queue = <<>>
    <3>1. Becomes(p, Idle) /\ UNCHANGED <<records, queue, rows, issued>>
      BY <1>16, <2>1 DEF DrainPop
    <3>2. Quiet(proc[p], Idle)
      BY DEF Quiet, Idle, Starting
    <3> QED
      BY <1>r, <3>1, <3>2, BecomesQuiet, QuietKeepsLine
  <2>2. CASE queue # <<>>
    <3>4. PICK t \in Tasks : t = Head(queue)
      BY <2>2, HeadTailProperties DEF TypeInv, TypeOK
    <3> DEFINE s == [Idle EXCEPT !.at = "peek", !.task = t]
    <3>1. /\ Becomes(p, s) /\ UNCHANGED <<records, rows, issued>> /\ queue' = Tail(queue)
          /\ proc[p].at = "pop"
      BY <1>16, <2>2, <3>4 DEF DrainPop, At
    <3>2. s.at = "peek" /\ s.task = t
      BY DEF Idle
    <3>3. OnlyMoves(p) /\ proc'[p] = s
      BY <3>1, BecomesMoves
    <3> HIDE DEF s
    <3>5. /\ NoRepeat(queue') /\ InQueue(t)
          /\ \A u : InQueue(u)' => InQueue(u) /\ u # t
      BY <2>2, <3>1, <3>4, TailLine
         DEF NoRepeat, Occurs, InQueue, LineInv, FifoInv, TypeInv, TypeOK
    <3>6. Settled(t)
      BY <3>4, <3>5 DEF LineInv, NewInv, StartInv, Settled
    <3>7. ~ Waits(t)'
      <4>1. \A q \in Procs : ~ (proc[q].task = t /\ proc[q].at = "park")
        BY <3>5 DEF LineInv, ParkInv
      <4>2. ~ Parking(t)'
        BY <3>2, <3>3, <4>1 DEF Parking, OnlyMoves
      <4> QED
        BY <3>5, <4>2 DEF Waits
    <3>8. \A q \in Procs : ~ Promotes(q, t)
      BY <1>w, <1>t, <3>4, <3>5 DEF Promotes, Waits, Deleting, WellFormed, Writing
    <3>9. \A u \in Tasks : proc'[p].task = u =>
            /\ Settled(u)
            /\ Waits(u)' => /\ p \in Requests
                            /\ proc'[p].at \in Deleting \/ proc'[p].op = "cancelled"
            /\ Promotes(p, u)' => \A q \in Procs \ {p} : ~ Promotes(q, u)
      <4>1. \A u \in Tasks : proc'[p].task = u => u = t
        BY <3>2, <3>3
      <4> QED
        BY <3>6, <3>7, <3>8, <4>1
    <3>10. proc'[p].at \notin Starting \cup {"park"}
      BY <3>2, <3>3 DEF Starting
    <3>11. /\ FifoInv'
           /\ \A u \in Tasks : records'[u] = records[u]
           /\ \A u \in Tasks : HasRow(u)' => HasRow(u) \/ (Settled(u) /\ ~ Waits(u))
      BY <1>r, <3>1, <3>5 DEF FifoInv, NoRepeat
    <3> QED
      BY <3>1, <3>3, <3>5, <3>9, <3>10, <3>11, StepKeepsLine
  <2> QED
    BY <2>1, <2>2
<1>17. ASSUME NEW t \in Tasks, Expire(t) PROVE LineInv'
  <2>1. /\ UNCHANGED <<queue, rows, proc, issued>>
        /\ \A u \in Tasks : records'[u] = records[u] \/ records'[u].status = "NONE"
    BY <1>17 DEF Expire, NoRecord, TypeInv, TypeOK
  <2>2. \A u : /\ InQueue(u)' <=> InQueue(u)
               /\ HasRow(u)' <=> HasRow(u)
               /\ Parking(u)' <=> Parking(u)
    BY <2>1 DEF InQueue, HasRow, Parking
  <2>3. NewInv' /\ ParkInv' /\ FifoInv' /\ ServeInv'
    BY <2>1, <2>2
       DEF LineInv, NewInv, ParkInv, FifoInv, ServeInv, Promotes, InQueue, HasRow
  <2>4. StartInv'
    <3>1. \A q \in Procs : proc[q].at \in Starting => proc[q].task \in Tasks
      BY <1>t DEF Process, WellFormed, NoTaskYet, Starting
    <3> QED
      BY <2>1, <2>2, <3>1 DEF LineInv, StartInv, InQueue, HasRow
  <2>5. WaitInv'
    <3>1. \A u \in Tasks : Waits(u)' => Waits(u)
      BY <2>2 DEF Waits
    <3> QED
      BY <2>1, <2>2, <3>1 DEF LineInv, WaitInv
  <2> QED
    BY <2>3, <2>4, <2>5 DEF LineInv
<1>18. CASE UNCHANGED vars
  BY <1>18
     DEF vars, LineInv, NewInv, StartInv, ParkInv, FifoInv, WaitInv, ServeInv, Promotes,
     Waits, Parking, InQueue, HasRow
<1>19. ASSUME NEW p \in Procs, QuietAction(p) PROVE LineInv'
  BY <1>19, QuietActions, QuietKeepsLine
<1> QED
  BY <1>q, <1>1, <1>2, <1>3, <1>4, <1>5, <1>6, <1>7, <1>8, <1>9, <1>10, <1>11, <1>12,
     <1>13, <1>14, <1>15, <1>16, <1>17, <1>18, <1>19
     DEF Next, Call, Serve, Work, Share, QuietAction

(* A parked draft is parked once, and neither a job nor a log row is its own*)
(* before a drain takes it: for every number of requests, jobs and slots.   *)
THEOREM ParkedOnceCorrect == Spec => []ParkedOnce
<1>1. Init => TypeInv /\ LineInv
  BY TypeInit, LineInit
<1>2. TypeInv /\ LineInv /\ [Next]_vars => (TypeInv /\ LineInv)'
  BY TypeNext, LineNext
<1>3. TypeInv /\ LineInv => ParkedOnce
  <2> SUFFICES ASSUME TypeInv, LineInv PROVE ParkedOnce
    OBVIOUS
  <2>1. ASSUME NEW i \in DOMAIN queue
        PROVE  /\ \A j \in Jobs : proc[j].task # queue[i]
               /\ \A k \in DOMAIN rows : rows[k].task # queue[i]
    <3>1. queue[i] \in Tasks /\ Waits(queue[i])
      BY <2>1, ElementOfSeq, LenProperties DEF TypeInv, TypeOK, Waits, InQueue
    <3> QED
      BY <3>1, ConstantsAssumption DEF LineInv, WaitInv, HasRow, Procs
  <2> QED
    BY <2>1 DEF ParkedOnce, LineInv, FifoInv
<1> QED
  BY <1>1, <1>2, <1>3, PTL DEF Spec

-----------------------------------------------------------------------------
(***************************************************************************)
(* The refinement.  Every step of the pipeline is a step of the waiting    *)
(* line of AdmissionQueue or leaves it alone: a process has a role for at  *)
(* most one task, and most steps only keep or lose it.                     *)
(***************************************************************************)
Placed == {"count", "size", "create_pending", "create_queued", "park"}
Places(p, t) == p \in Requests /\ proc[p].task = t /\ proc[p].at \in Placed

(* The phases of the line in terms of the roles of single processes.      *)
LEMMA Roles ==
  /\ \A t : Placing(t) <=> \E p \in Procs : Places(p, t)
  /\ \A t : Serving(t) <=> \E p \in Procs : Promotes(p, t)
BY DEF Placing, Serving, Places, Promotes, Placed, Procs

(* A task is placed, waits or is served, and by one process.                *)
OneRole ==
  \A t \in Tasks :
    /\ InQueue(t) => t \in issued /\ \A p \in Procs : ~ Places(p, t) /\ ~ Promotes(p, t)
    /\ \A p \in Procs : Places(p, t) \/ Promotes(p, t) => t \in issued
    /\ \A p, q \in Procs :
         /\ Places(p, t) => ~ Promotes(q, t)
         /\ Places(p, t) /\ Places(q, t) => p = q
         /\ Promotes(p, t) /\ Promotes(q, t) => p = q

(* The invariant of the line gives the roles.                             *)
LEMMA OneRoleAtATime == TypeInv /\ LineInv => OneRole
<1> SUFFICES ASSUME TypeInv, LineInv, NEW t \in Tasks
             PROVE  /\ InQueue(t) => /\ t \in issued
                                     /\ \A p \in Procs : ~ Places(p, t) /\ ~ Promotes(p, t)
                    /\ \A p \in Procs : Places(p, t) \/ Promotes(p, t) => t \in issued
                    /\ \A p, q \in Procs :
                         /\ Places(p, t) => ~ Promotes(q, t)
                         /\ Places(p, t) /\ Places(q, t) => p = q
                         /\ Promotes(p, t) /\ Promotes(q, t) => p = q
  BY DEF OneRole
<1>t. \A p \in Procs : proc[p] \in Process /\ WellFormed(proc[p])
  BY DEF TypeInv, ProcsOK
<1>1. \A p \in Procs : Waits(t) => ~ Promotes(p, t)
  BY <1>t DEF LineInv, WaitInv, Promotes, Deleting, WellFormed, Writing
<1>2. \A p \in Procs : Places(p, t) /\ proc[p].at # "park" =>
        ~ InQueue(t) /\ \A q \in Procs : proc[q].task = t => q = p
  BY DEF LineInv, StartInv, Places, Placed, Starting
<1>3. \A p \in Procs : Places(p, t) /\ proc[p].at = "park" =>
        /\ ~ InQueue(t) /\ Waits(t)
        /\ \A q \in Procs : proc[q].at = "park" /\ proc[q].task = t => q = p
  BY DEF LineInv, ParkInv, Places, Waits, Parking
<1>4. \A p \in Procs : Places(p, t) => ~ Promotes(p, t)
  BY <1>t DEF Places, Placed, Promotes, WellFormed, Writing
<1>5. \A p, q \in Procs : Places(p, t) /\ Places(q, t) => p = q
  BY <1>2, <1>3 DEF Places
<1>6. \A p, q \in Procs : Places(p, t) => ~ Promotes(q, t)
  BY <1>1, <1>2, <1>3, <1>4 DEF Promotes
<1>7. \A p, q \in Procs : Promotes(p, t) /\ Promotes(q, t) => p = q
  BY DEF LineInv, ServeInv
<1>8. InQueue(t) => \A p \in Procs : ~ Places(p, t) /\ ~ Promotes(p, t)
  BY <1>1, <1>2, <1>3 DEF Waits
<1>9. \A p \in Procs : Places(p, t) \/ Promotes(p, t) => t \in issued
  BY DEF LineInv, NewInv, Places, Promotes
<1>10. InQueue(t) => t \in issued
  BY DEF LineInv, NewInv
<1> QED
  BY <1>5, <1>6, <1>7, <1>8, <1>9, <1>10

(* Who has a role for a task, or its place, tells its phase; ...          *)
LEMMA PhaseIs ==
  ASSUME OneRole, NEW t \in Tasks
  PROVE  /\ InQueue(t) => PhaseOf(t) = "waiting"
         /\ \A p \in Procs : Places(p, t) => PhaseOf(t) = "placing"
         /\ \A p \in Procs : Promotes(p, t) => PhaseOf(t) = "serving"
         /\ ~ InQueue(t) /\ (\A p \in Procs : ~ Places(p, t) /\ ~ Promotes(p, t)) =>
              PhaseOf(t) = IF t \in issued THEN "placed" ELSE "new"
BY Roles DEF OneRole, PhaseOf

(* ... after the step as well.                                            *)
LEMMA PhaseIsNext ==
  ASSUME OneRole', NEW t \in Tasks
  PROVE  /\ InQueue(t)' => PhaseOf(t)' = "waiting"
         /\ \A p \in Procs : Places(p, t)' => PhaseOf(t)' = "placing"
         /\ \A p \in Procs : Promotes(p, t)' => PhaseOf(t)' = "serving"
         /\ ~ InQueue(t)' /\ (\A p \in Procs : ~ Places(p, t)' /\ ~ Promotes(p, t)') =>
              PhaseOf(t)' = IF t \in issued' THEN "placed" ELSE "new"
BY DEF OneRole, PhaseOf, Placing, Serving, Places, Promotes, Placed, Procs

(* A task that keeps its place and its roles keeps its phase.               *)
Same(t) ==
  /\ InQueue(t)' <=> InQueue(t)
  /\ \A p \in Procs : (Places(p, t)' <=> Places(p, t)) /\ (Promotes(p, t)' <=> Promotes(p, t))
  /\ t \in issued' <=> t \in issued

(* Where nothing changed the phase is the old one.                        *)
LEMMA SamePhase ==
  ASSUME OneRole, OneRole', NEW t \in Tasks, Same(t)
  PROVE  PhaseOf(t)' = PhaseOf(t)
BY PhaseIs, PhaseIsNext DEF Same

(* No task changes its phase: the line stutters.                          *)
LEMMA LineStutters ==
  ASSUME queue' = queue, \A t \in Tasks : PhaseOf(t)' = PhaseOf(t)
  PROVE  [Line!Next]_(Line!vars)
BY DEF Line!vars

(* One task takes a step of the line and all others stay where they are.    *)
LEMMA LineMoves ==
  ASSUME NEW t \in Tasks, NEW from, NEW to, PhaseOf(t) = from, PhaseOf(t)' = to,
         \A u \in Tasks \ {t} : PhaseOf(u)' = PhaseOf(u)
  PROVE  Line!Moves(t, from, to)
BY DEF Line!Moves

(* A step in which p at most loses a role.                                  *)
LEMMA RoleStep ==
  ASSUME OneRole, OneRole', NEW p \in Procs, queue' = queue, issued' = issued,
         \A q \in Procs \ {p}, t \in Tasks :
           (Places(q, t)' <=> Places(q, t)) /\ (Promotes(q, t)' <=> Promotes(q, t)),
         \A t \in Tasks : (Places(p, t)' => Places(p, t)) /\ (Promotes(p, t)' => Promotes(p, t))
  PROVE  [Line!Next]_(Line!vars)
<1>1. \A t : InQueue(t)' <=> InQueue(t)
  BY DEF InQueue
<1>2. CASE \E t \in Tasks : Places(p, t) /\ ~ Places(p, t)'
  <2>1. PICK t \in Tasks : Places(p, t) /\ ~ Places(p, t)'
    BY <1>2
  <2>2. \A u \in Tasks \ {t} : Same(u)
    <3>1. \A u \in Tasks \ {t} : ~ Places(p, u) /\ ~ Promotes(p, u)
      BY <2>1 DEF Places, Promotes
    <3> QED
      BY <1>1, <3>1 DEF Same
  <2>3. PhaseOf(t) = "placing"
    BY <2>1, PhaseIs
  <2>4. PhaseOf(t)' = "placed"
    <3>1. ~ InQueue(t)' /\ t \in issued'
      BY <1>1, <2>1 DEF OneRole
    <3>2. \A q \in Procs : ~ Places(q, t)' /\ ~ Promotes(q, t)'
      BY <2>1 DEF OneRole
    <3> QED
      BY <3>1, <3>2, PhaseIsNext
  <2>5. Line!Moves(t, "placing", "placed")
    BY <2>2, <2>3, <2>4, SamePhase, LineMoves
  <2> QED
    BY <2>5 DEF Line!Next, Line!Settle
<1>3. CASE \E t \in Tasks : Promotes(p, t) /\ ~ Promotes(p, t)'
  <2>1. PICK t \in Tasks : Promotes(p, t) /\ ~ Promotes(p, t)'
    BY <1>3
  <2>2. \A u \in Tasks \ {t} : Same(u)
    <3>1. \A u \in Tasks \ {t} : ~ Places(p, u) /\ ~ Promotes(p, u)
      BY <2>1 DEF Places, Promotes
    <3> QED
      BY <1>1, <3>1 DEF Same
  <2>3. PhaseOf(t) = "serving"
    BY <2>1, PhaseIs
  <2>4. PhaseOf(t)' = "placed"
    <3>1. ~ InQueue(t)' /\ t \in issued'
      BY <1>1, <2>1 DEF OneRole
    <3>2. \A q \in Procs : ~ Places(q, t)' /\ ~ Promotes(q, t)'
      BY <2>1 DEF OneRole
    <3> QED
      BY <3>1, <3>2, PhaseIsNext
  <2>5. Line!Moves(t, "serving", "placed")
    BY <2>2, <2>3, <2>4, SamePhase, LineMoves
  <2> QED
    BY <2>5 DEF Line!Next, Line!Served
<1>4. CASE /\ ~ \E t \in Tasks : Places(p, t) /\ ~ Places(p, t)'
           /\ ~ \E t \in Tasks : Promotes(p, t) /\ ~ Promotes(p, t)'
  <2>1. \A t \in Tasks : Same(t)
    BY <1>1, <1>4 DEF Same
  <2> QED
    BY <2>1, SamePhase, LineStutters
<1> QED
  BY <1>2, <1>3, <1>4

(* The same of a process that goes on as s.                                 *)
LEMMA RoleBecomes ==
  ASSUME TypeInv, OneRole, OneRole', NEW p \in Procs, NEW s, Becomes(p, s),
         UNCHANGED <<queue, issued>>,
         s.at \in Placed /\ s.task \in Tasks =>
           p \notin Requests \/ (s.task = proc[p].task /\ proc[p].at \in Placed),
         (s.at = "peek" \/ s.op = "promote") /\ s.task \in Tasks =>
           s.task = proc[p].task /\ (proc[p].at = "peek" \/ proc[p].op = "promote")
  PROVE  [Line!Next]_(Line!vars)
<1>1. OnlyMoves(p) /\ proc'[p] = s
  BY BecomesMoves
<1>2. \A q \in Procs \ {p}, t \in Tasks :
        (Places(q, t)' <=> Places(q, t)) /\ (Promotes(q, t)' <=> Promotes(q, t))
  BY <1>1 DEF OnlyMoves, Places, Promotes
<1>3. \A t \in Tasks :
        (Places(p, t)' => Places(p, t)) /\ (Promotes(p, t)' => Promotes(p, t))
  BY <1>1 DEF Places, Promotes
<1> QED
  BY <1>2, <1>3, RoleStep

(* Quiet steps give no new role.                                          *)
LEMMA QuietRole ==
  ASSUME OneRole, OneRole', NEW p \in Procs, QuietStep(p)
  PROVE  [Line!Next]_(Line!vars)
<1>2. \A q \in Procs \ {p}, t \in Tasks :
        (Places(q, t)' <=> Places(q, t)) /\ (Promotes(q, t)' <=> Promotes(q, t))
  BY DEF QuietStep, OnlyMoves, Places, Promotes
<1>3. \A t \in Tasks :
        (Places(p, t)' => Places(p, t)) /\ (Promotes(p, t)' => Promotes(p, t))
  BY DEF QuietStep, Quiet, Places, Promotes, Placed, Starting
<1> QED
  BY <1>2, <1>3, RoleStep DEF QuietStep

(* Kicking a job ends the role of the sender and gives none to the job.   *)
LEMMA KiqRole ==
  ASSUME TypeInv, OneRole, OneRole', NEW p \in Procs, NEW label \in InBroker,
         NEW t, NEW skip, Kiq(p, label, t, skip), UNCHANGED <<queue, issued>>
  PROVE  [Line!Next]_(Line!vars)
<1> DEFINE m == [Idle EXCEPT !.at = label, !.task = t, !.skip = skip]
<1>1. PICK j \in Jobs : /\ j = p \/ At(j, "idle")
                        /\ proc' = [proc EXCEPT ![p] = Idle, ![j] = m]
  BY DEF Kiq
<1>2. /\ Idle.at = "idle" /\ Idle.op = "none"
      /\ m.at \in InBroker /\ m.op = "none"
  BY DEF Idle
<1> HIDE DEF m
<1>3. \A q \in Procs : \/ proc'[q] = proc[q]
                       \/ /\ q = p \/ (proc[q].at = "idle" /\ proc[q].op = "none")
                          /\ proc'[q].at \in InBroker \cup {"idle"} /\ proc'[q].op = "none"
  BY <1>1, <1>2 DEF TypeInv, ProcsOK, At, WellFormed, Writing
<1>4. \A q \in Procs \ {p}, u \in Tasks :
        (Places(q, u)' <=> Places(q, u)) /\ (Promotes(q, u)' <=> Promotes(q, u))
  BY <1>3 DEF Places, Promotes, Placed, InBroker
<1>5. \A u \in Tasks :
        (Places(p, u)' => Places(p, u)) /\ (Promotes(p, u)' => Promotes(p, u))
  BY <1>3 DEF Places, Promotes, Placed, InBroker
<1> QED
  BY <1>4, <1>5, RoleStep

(* A cancel or a dismissal takes the task out of the line, if it is there.  *)
LEMMA LeaveRole ==
  ASSUME TypeInv, LineInv, OneRole, OneRole', NEW p \in Procs, NEW t \in Tasks, NEW s,
         Becomes(p, s), UNCHANGED issued, queue' = Without(queue, t), proc[p].task = t,
         proc[p].at \in {"unpark_cancel", "unpark"}, s.at \notin Placed \cup {"peek"},
         s.op = "promote" /\ s.task \in Tasks => s.task = t /\ proc[p].op = "promote"
  PROVE  [Line!Next]_(Line!vars)
<1>1. OnlyMoves(p) /\ proc'[p] = s
  BY BecomesMoves
<1>2. CASE InQueue(t)
  <2>1. /\ \A u \in Tasks : ~ Places(p, u) /\ ~ Promotes(p, u)
        /\ \A u \in Tasks : ~ Places(p, u)' /\ ~ Promotes(p, u)'
    <3>1. \A u \in Tasks : ~ Places(p, u) /\ ~ Places(p, u)'
      BY <1>1 DEF Places, Placed
    <3>2. ~ Promotes(p, t)
      BY <1>2 DEF OneRole
    <3> QED
      BY <1>1, <3>1, <3>2 DEF Promotes, Placed
  <2>2. \A q \in Procs, u \in Tasks :
          (Places(q, u)' <=> Places(q, u)) /\ (Promotes(q, u)' <=> Promotes(q, u))
    BY <1>1, <2>1 DEF OnlyMoves, Places, Promotes
  <2>3. \A u : InQueue(u)' <=> InQueue(u) /\ u # t
    <3>1. queue \in Seq(Tasks) /\ NoRepeat(queue)
      BY DEF NoRepeat, LineInv, FifoInv, TypeInv, TypeOK
    <3>2. \A u : Occurs(Without(queue, t), u) <=> Occurs(queue, u) /\ u # t
      BY <3>1, WithoutLine
    <3> QED
      BY <3>2 DEF Occurs, InQueue
  <2>4. \A u \in Tasks \ {t} : Same(u)
    BY <2>2, <2>3 DEF Same
  <2>5. PhaseOf(t) = "waiting"
    BY <1>2, PhaseIs
  <2>6. PhaseOf(t)' = "placed"
    <3>1. ~ InQueue(t)' /\ t \in issued'
      BY <1>2, <2>3 DEF OneRole
    <3>2. \A q \in Procs : ~ Places(q, t)' /\ ~ Promotes(q, t)'
      BY <1>2, <2>2 DEF OneRole
    <3> QED
      BY <3>1, <3>2, PhaseIsNext
  <2>7. Line!Moves(t, "waiting", "placed")
    BY <2>4, <2>5, <2>6, SamePhase, LineMoves
  <2>8. \E i \in DOMAIN queue :
          /\ queue[i] = t
          /\ queue' = SubSeq(queue, 1, i - 1) \o SubSeq(queue, i + 1, Len(queue))
    BY <1>2 DEF InQueue, Without
  <2> QED
    BY <2>7, <2>8 DEF Line!Next, Line!Withdraw
<1>3. CASE ~ InQueue(t)
  <2>1. queue' = queue
    BY <1>3 DEF InQueue, Without
  <2> QED
    BY <2>1, RoleBecomes
<1> QED
  BY <1>2, <1>3

(* Every step of the pipeline is a step of the line or a stutter.         *)
LEMMA Refines ==
  TypeInv /\ LineInv /\ (TypeInv /\ LineInv)' /\ [Next]_vars => [Line!Next]_(Line!vars)
<1> SUFFICES ASSUME TypeInv, LineInv, TypeInv', LineInv', [Next]_vars
             PROVE  [Line!Next]_(Line!vars)
  OBVIOUS
<1> USE ConstantsAssumption
<1>a. OneRole
  BY OneRoleAtATime
<1>b. OneRole'
  BY OneRoleAtATime, PTL
<1>t. \A p \in Procs : proc[p] \in Process /\ WellFormed(proc[p])
  BY DEF TypeInv, ProcsOK
<1>q. Requests \subseteq Procs /\ Jobs \subseteq Procs
  BY DEF Procs
<1>1. ASSUME NEW r \in Requests, NEW t \in Tasks, NEW skip \in BOOLEAN, Start(r, t, skip)
      PROVE  [Line!Next]_(Line!vars)
  <2> DEFINE s == [Idle EXCEPT !.at = "count", !.task = t, !.skip = skip]
  <2>1. /\ OnlyMoves(r) /\ proc'[r] = s /\ r \in Procs /\ proc[r].at = "idle"
        /\ queue' = queue /\ t \notin issued /\ issued' = issued \cup {t}
    BY <1>1, <1>q, BecomesMoves DEF Start, At
  <2>2. s.at = "count" /\ s.task = t /\ s.op = "none"
    BY DEF Idle
  <2> HIDE DEF s
  <2>3. proc[r].op = "none"
    BY <1>t, <2>1 DEF WellFormed, Writing
  <2>4. Places(r, t)'
    BY <2>1, <2>2 DEF Places, Placed
  <2>5. \A u \in Tasks \ {t} : Same(u)
    <3>1. \A u \in Tasks \ {t}, q \in Procs :
            (Places(q, u)' <=> Places(q, u)) /\ (Promotes(q, u)' <=> Promotes(q, u))
      BY <2>1, <2>2, <2>3 DEF OnlyMoves, Places, Promotes, Placed
    <3> QED
      BY <2>1, <3>1 DEF Same, InQueue
  <2>6. PhaseOf(t) = "new"
    <3>1. ~ InQueue(t) /\ \A q \in Procs : ~ Places(q, t) /\ ~ Promotes(q, t)
      BY <1>a, <2>1 DEF OneRole
    <3> QED
      BY <1>a, <2>1, <3>1, PhaseIs
  <2>7. PhaseOf(t)' = "placing"
    BY <1>b, <2>1, <2>4, PhaseIsNext
  <2>8. Line!Moves(t, "new", "placing")
    BY <1>a, <1>b, <2>5, <2>6, <2>7, SamePhase, LineMoves
  <2> QED
    BY <2>1, <2>8 DEF Line!Next, Line!Take
<1>2. ASSUME NEW p \in Requests, CountActive(p) PROVE [Line!Next]_(Line!vars)
  <2> DEFINE s == Moved(p, IF Cardinality(ActiveTasks) >= MaxConcurrent
                           THEN "size" ELSE "create_pending")
  <2>1. Becomes(p, s) /\ UNCHANGED <<queue, issued>> /\ proc[p].at = "count"
    BY <1>2 DEF CountActive, At
  <2>2. s.at \in Placed \ {"peek"} /\ s.task = proc[p].task /\ s.op = proc[p].op
    BY <1>q, <1>t DEF Moved, Process, Placed
  <2> HIDE DEF s
  <2> QED
    BY <1>a, <1>b, <1>q, <2>1, <2>2, RoleBecomes DEF Placed
<1>3. ASSUME NEW p \in Requests, CheckQueueSize(p) PROVE [Line!Next]_(Line!vars)
  <2>0. proc[p].at = "size" /\ p \in Procs /\ queue' = queue
    BY <1>3, <1>q DEF CheckQueueSize, At
  <2>1. CASE Len(queue) < MaxQueued
    <3> DEFINE s == Moved(p, "create_queued")
    <3>1. Becomes(p, s) /\ issued' = issued
      BY <1>3, <2>1, LenProperties DEF CheckQueueSize, TypeInv, TypeOK
    <3>2. s.at = "create_queued" /\ s.task = proc[p].task /\ s.op = proc[p].op
      BY <1>t, <2>0 DEF Moved, Process
    <3> HIDE DEF s
    <3> QED
      BY <1>a, <1>b, <2>0, <3>1, <3>2, RoleBecomes DEF Placed
  <2>2. CASE ~ (Len(queue) < MaxQueued)
    <3>1. PICK t \in Tasks : t = proc[p].task
      BY <1>t, <2>0 DEF Process, WellFormed, NoTaskYet
    <3>2. OnlyMoves(p) /\ proc'[p] = Idle /\ issued' = issued \ {t}
      BY <1>3, <2>0, <2>2, <3>1, LenProperties, BecomesMoves
         DEF CheckQueueSize, TypeInv, TypeOK
    <3>i. Idle.at = "idle" /\ Idle.op = "none"
      BY DEF Idle
    <3>3. Places(p, t)
      BY <2>0, <3>1 DEF Places, Placed
    <3>o. proc[p].op = "none"
      BY <1>t, <2>0 DEF WellFormed, Writing
    <3>4. \A u \in Tasks \ {t} : Same(u)
      <4>1. \A u \in Tasks \ {t}, q \in Procs :
              (Places(q, u)' <=> Places(q, u)) /\ (Promotes(q, u)' <=> Promotes(q, u))
        BY <2>0, <3>1, <3>2, <3>i DEF OnlyMoves, Places, Promotes, Placed
      <4> QED
        BY <2>0, <3>2, <4>1 DEF Same, InQueue
    <3>5. PhaseOf(t) = "placing"
      BY <1>a, <2>0, <3>3, PhaseIs
    <3>6. PhaseOf(t)' = "new"
      <4>1. ~ InQueue(t)' /\ \A q \in Procs : ~ Places(q, t)' /\ ~ Promotes(q, t)'
        BY <1>b, <3>2 DEF OneRole
      <4> QED
        BY <1>b, <3>2, <4>1, PhaseIsNext
    <3>7. Line!Moves(t, "placing", "new")
      BY <1>a, <1>b, <3>4, <3>5, <3>6, SamePhase, LineMoves
    <3> QED
      BY <2>0, <3>7 DEF Line!Next, Line!Refuse
  <2> QED
    BY <2>1, <2>2
<1>4. ASSUME NEW p \in Requests, Create(p) PROVE [Line!Next]_(Line!vars)
  <2> DEFINE s == Moved(p, IF At(p, "create_pending") THEN "kick" ELSE "park")
  <2>1. /\ Becomes(p, s) /\ UNCHANGED <<queue, issued>>
        /\ proc[p].at \in {"create_pending", "create_queued"}
    BY <1>4 DEF Create, At
  <2>2. s.at \in {"kick", "park"} /\ s.task = proc[p].task /\ s.op = proc[p].op
    BY <1>q, <1>t DEF Moved, Process
  <2> HIDE DEF s
  <2> QED
    BY <1>a, <1>b, <1>q, <2>1, <2>2, RoleBecomes DEF Placed
<1>5. ASSUME NEW p \in Requests, Park(p) PROVE [Line!Next]_(Line!vars)
  <2>0. proc[p].at = "park" /\ p \in Procs /\ issued' = issued
    BY <1>5, <1>q DEF Park, At
  <2>1. PICK t \in Tasks : t = proc[p].task
    BY <1>t, <2>0 DEF Process, WellFormed, NoTaskYet
  <2>2. OnlyMoves(p) /\ proc'[p] = Idle /\ queue' = Append(queue, t)
    BY <1>5, <2>0, <2>1, BecomesMoves DEF Park
  <2>i. Idle.at = "idle" /\ Idle.op = "none"
    BY DEF Idle
  <2>3. Places(p, t)
    BY <2>0, <2>1 DEF Places, Placed
  <2>o. proc[p].op = "none"
    BY <1>t, <2>0 DEF WellFormed, Writing
  <2>4. \A u : InQueue(u)' <=> (InQueue(u) \/ u = t)
    <3>1. queue \in Seq(Tasks) /\ NoRepeat(queue) /\ ~ Occurs(queue, t)
      BY <1>a, <2>0, <2>3
         DEF OneRole, NoRepeat, Occurs, InQueue, LineInv, FifoInv, TypeInv, TypeOK
    <3>2. \A u : Occurs(Append(queue, t), u) <=> Occurs(queue, u) \/ u = t
      BY <3>1, AppendLine
    <3> QED
      BY <2>2, <3>2 DEF Occurs, InQueue
  <2>5. \A u \in Tasks \ {t} : Same(u)
    <3>1. \A u \in Tasks \ {t}, q \in Procs :
            (Places(q, u)' <=> Places(q, u)) /\ (Promotes(q, u)' <=> Promotes(q, u))
      BY <2>0, <2>1, <2>2, <2>i DEF OnlyMoves, Places, Promotes, Placed
    <3> QED
      BY <2>0, <2>4, <3>1 DEF Same
  <2>6. PhaseOf(t) = "placing" /\ PhaseOf(t)' = "waiting"
    BY <1>a, <1>b, <2>0, <2>3, <2>4, PhaseIs, PhaseIsNext
  <2>7. Line!Moves(t, "placing", "waiting")
    BY <1>a, <1>b, <2>5, <2>6, SamePhase, LineMoves
  <2> QED
    BY <2>2, <2>7 DEF Line!Next, Line!Wait
<1>6. ASSUME NEW p \in Procs, Kick(p) PROVE [Line!Next]_(Line!vars)
  BY <1>6, <1>a, <1>b, KiqRole DEF Kick, InBroker, redis
<1>7. ASSUME NEW r \in Requests, NEW t \in Tasks, SubmitInput(r, t)
      PROVE  [Line!Next]_(Line!vars)
  BY <1>7, <1>a, <1>b, <1>q, KiqRole DEF SubmitInput, InBroker, redis
<1>8. ASSUME NEW r \in Requests, NEW t \in Tasks,
             UseExisting(r, t) \/ Regenerate(r, t) \/ Cancel(r, t) \/ Dismiss(r, t)
      PROVE  [Line!Next]_(Line!vars)
  <2>1. /\ UNCHANGED <<queue, issued>>
        /\ \E s : /\ Becomes(r, s) /\ s.op \in {"adopt", "reset", "cancelled", "none"}
                  /\ s.at \in {"fetch", "store", "unpark_cancel", "find"}
    <3>1. CASE UseExisting(r, t)
      <4> DEFINE s == [Idle EXCEPT !.at = "fetch", !.op = "adopt", !.task = t,
                                 !.row = records[t].existing]
      <4>1. Becomes(r, s) /\ UNCHANGED <<queue, issued>>
        BY <3>1 DEF UseExisting, redis
      <4>2. /\ s.op \in {"adopt", "reset", "cancelled", "none"}
            /\ s.at \in {"fetch", "store", "unpark_cancel", "find"}
        BY DEF Idle
      <4> HIDE DEF s
      <4> QED
        BY <4>1, <4>2
    <3>2. CASE Regenerate(r, t)
      <4> DEFINE s == [Idle EXCEPT !.at = "store", !.op = "reset", !.task = t,
                                 !.snap = records[t], !.skip = TRUE]
      <4>1. Becomes(r, s) /\ UNCHANGED <<queue, issued>>
        BY <3>2 DEF Regenerate, redis
      <4>2. /\ s.op \in {"adopt", "reset", "cancelled", "none"}
            /\ s.at \in {"fetch", "store", "unpark_cancel", "find"}
        BY DEF Idle
      <4> HIDE DEF s
      <4> QED
        BY <4>1, <4>2
    <3>3. CASE Cancel(r, t)
      <4> DEFINE s == [Idle EXCEPT
                       !.at = IF records[t].status = "QUEUED" THEN "unpark_cancel"
                                                              ELSE "fetch",
                       !.op = "cancelled", !.task = t]
      <4>1. Becomes(r, s) /\ UNCHANGED <<queue, issued>>
        BY <3>3 DEF Cancel, redis
      <4>2. /\ s.op \in {"adopt", "reset", "cancelled", "none"}
            /\ s.at \in {"fetch", "store", "unpark_cancel", "find"}
        BY DEF Idle
      <4> HIDE DEF s
      <4> QED
        BY <4>1, <4>2
    <3>4. CASE Dismiss(r, t)
      <4> DEFINE s == [Idle EXCEPT !.at = "find", !.task = t]
      <4>1. Becomes(r, s) /\ UNCHANGED <<queue, issued>>
        BY <3>4 DEF Dismiss, redis
      <4>2. /\ s.op \in {"adopt", "reset", "cancelled", "none"}
            /\ s.at \in {"fetch", "store", "unpark_cancel", "find"}
        BY DEF Idle
      <4> HIDE DEF s
      <4> QED
        BY <4>1, <4>2
    <3> QED
      BY <1>8, <3>1, <3>2, <3>3, <3>4
  <2> QED
    BY <1>a, <1>b, <1>q, <2>1, RoleBecomes DEF Placed
<1>9. ASSUME NEW p \in Requests, RemoveFromQueue(p) PROVE [Line!Next]_(Line!vars)
  <2> DEFINE s == Moved(p, "fetch")
  <2>0. proc[p].at = "unpark_cancel" /\ p \in Procs
    BY <1>9, <1>q DEF RemoveFromQueue, At
  <2>1. PICK t \in Tasks : t = proc[p].task
    BY <1>t, <2>0 DEF Process, WellFormed, NoTaskYet
  <2>2. Becomes(p, s) /\ UNCHANGED issued /\ queue' = Without(queue, t)
    BY <1>9, <2>1 DEF RemoveFromQueue
  <2>3. s.at = "fetch" /\ s.task = t /\ s.op = proc[p].op
    BY <1>t, <2>0, <2>1 DEF Moved, Process
  <2> HIDE DEF s
  <2> QED
    BY <1>a, <1>b, <2>0, <2>1, <2>2, <2>3, LeaveRole DEF Placed
<1>10. ASSUME NEW p \in Requests, Delete(p) PROVE [Line!Next]_(Line!vars)
  <2>0. /\ proc[p].at \in {"delete", "unlist", "unflag", "unpark"} /\ p \in Procs
        /\ issued' = issued
    BY <1>10, <1>q DEF Delete, At
  <2>1. CASE proc[p].at # "unpark"
    <3>1. /\ queue' = queue
          /\ \/ Becomes(p, Moved(p, "unlist"))
             \/ Becomes(p, Moved(p, "unflag"))
             \/ Becomes(p, Moved(p, "unpark"))
      BY <1>10, <2>1 DEF Delete, At
    <3>2. ASSUME NEW label \in {"unlist", "unflag", "unpark"}
          PROVE  LET s == Moved(p, label)
                 IN  s.at = label /\ s.task = proc[p].task /\ s.op = proc[p].op
      BY <1>t, <2>0 DEF Moved, Process
    <3> QED
      BY <1>a, <1>b, <2>0, <3>1, <3>2, RoleBecomes DEF Placed
  <2>2. CASE proc[p].at = "unpark"
    <3>1. PICK t \in Tasks : t = proc[p].task
      BY <1>t, <2>0 DEF Process, WellFormed, NoTaskYet
    <3>2. Becomes(p, Idle) /\ queue' = Without(queue, t)
      BY <1>10, <2>2, <3>1 DEF Delete, At
    <3>3. Idle.at = "idle" /\ Idle.op = "none"
      BY DEF Idle
    <3> QED
      BY <1>a, <1>b, <2>0, <2>2, <3>1, <3>2, <3>3, LeaveRole DEF Placed
  <2> QED
    BY <2>1, <2>2
<1>11. ASSUME NEW p \in Procs, Store(p) PROVE [Line!Next]_(Line!vars)
  <2> DEFINE b == [proc[p] EXCEPT !.snap = NoRecord]
             s == Then(proc[p].op, b)
  <2>1. Becomes(p, s) /\ UNCHANGED <<queue, issued>> /\ proc[p].at = "store"
    BY <1>11 DEF Store, At
  <2>2. proc[p].op \in Ops \ {"none"} /\ b \in Process
    BY <1>t, <2>1, NoRecordType DEF Process, WellFormed, Writing
  <2>3. /\ s.at \notin Starting \cup {"park", "peek"}
        /\ s.task \in Tasks => s.op # "promote"
    <3> HIDE DEF b
    <3> QED
      BY <2>2, ThenLine
  <2> HIDE DEF s
  <2> QED
    BY <1>a, <1>b, <2>1, <2>3, RoleBecomes DEF Placed, Starting
<1>12. ASSUME NEW p \in Jobs, InsertRow(p) PROVE [Line!Next]_(Line!vars)
  <2> DEFINE s == [proc[p] EXCEPT
                    !.at = "fetch", !.op = "attach", !.row = Len(rows) + 1]
  <2>1. Becomes(p, s) /\ UNCHANGED <<queue, issued>>
    BY <1>12 DEF InsertRow, redis
  <2>2. s.at = "fetch" /\ s.op = "attach"
    BY <1>q, <1>t DEF Process
  <2> HIDE DEF s
  <2> QED
    BY <1>a, <1>b, <1>q, <2>1, <2>2, RoleBecomes DEF Placed
<1>13. ASSUME NEW p \in Procs, DrainPop(p) PROVE [Line!Next]_(Line!vars)
  <2>0. proc[p].at = "pop" /\ issued' = issued /\ proc[p].op = "none"
    BY <1>13, <1>t DEF DrainPop, At, WellFormed, Writing
  <2>1. CASE queue = <<>>
    <3>1. Becomes(p, Idle) /\ queue' = queue
      BY <1>13, <2>1 DEF DrainPop
    <3>2. Idle.at = "idle" /\ Idle.op = "none"
      BY DEF Idle
    <3> QED
      BY <1>a, <1>b, <2>0, <3>1, <3>2, RoleBecomes DEF Placed
  <2>2. CASE queue # <<>>
    <3>1. PICK t \in Tasks : t = Head(queue)
      BY <2>2, HeadTailProperties DEF TypeInv, TypeOK
    <3> DEFINE s == [Idle EXCEPT !.at = "peek", !.task = t]
    <3>2. OnlyMoves(p) /\ proc'[p] = s /\ queue' = Tail(queue)
      BY <1>13, <2>2, <3>1, BecomesMoves DEF DrainPop
    <3>3. s.at = "peek" /\ s.task = t /\ s.op = "none"
      BY DEF Idle
    <3> HIDE DEF s
    <3>4. InQueue(t) /\ \A u : InQueue(u)' <=> InQueue(u) /\ u # t
      <4>1. queue \in Seq(Tasks) /\ NoRepeat(queue)
        BY DEF NoRepeat, LineInv, FifoInv, TypeInv, TypeOK
      <4>2. /\ Occurs(queue, t)
            /\ \A u : Occurs(Tail(queue), u) <=> Occurs(queue, u) /\ u # t
        BY <2>2, <3>1, <4>1, TailLine
      <4> QED
        BY <3>2, <4>2 DEF Occurs, InQueue
    <3>5. \A u \in Tasks \ {t} : Same(u)
      <4>1. \A u \in Tasks \ {t}, q \in Procs :
              (Places(q, u)' <=> Places(q, u)) /\ (Promotes(q, u)' <=> Promotes(q, u))
        BY <2>0, <3>2, <3>3 DEF OnlyMoves, Places, Promotes, Placed
      <4> QED
        BY <2>0, <3>4, <4>1 DEF Same
    <3>6. Promotes(p, t)'
      BY <3>2, <3>3 DEF Promotes
    <3>7. PhaseOf(t) = "waiting" /\ PhaseOf(t)' = "serving"
      BY <1>a, <1>b, <3>4, <3>6, PhaseIs, PhaseIsNext
    <3>8. Line!Moves(t, "waiting", "serving")
      BY <1>a, <1>b, <3>5, <3>7, SamePhase, LineMoves
    <3> QED
      BY <2>2, <3>1, <3>2, <3>8 DEF Line!Next, Line!Release
  <2> QED
    BY <2>1, <2>2
<1>14. ASSUME UNCHANGED <<queue, proc, issued>> PROVE [Line!Next]_(Line!vars)
  <2>1. \A t \in Tasks : Same(t)
    BY <1>14 DEF Same, InQueue, Places, Promotes
  <2> QED
    BY <1>14, <1>a, <1>b, <2>1, SamePhase, LineStutters
<1>15. ASSUME NEW t \in Tasks, Expire(t) PROVE [Line!Next]_(Line!vars)
  BY <1>14, <1>15 DEF Expire
<1>16. CASE UNCHANGED vars
  BY <1>14, <1>16 DEF vars
<1>17. ASSUME NEW p \in Procs, QuietAction(p) PROVE [Line!Next]_(Line!vars)
  BY <1>17, <1>a, <1>b, QuietActions, QuietRole
<1> QED
  BY <1>q, <1>1, <1>2, <1>3, <1>4, <1>5, <1>6, <1>7, <1>8, <1>9, <1>10, <1>11, <1>12,
     <1>13, <1>15, <1>16, <1>17 DEF Next, Call, Serve, Work, Share, QuietAction

(* The pipeline implements the waiting line: what was promoted, cancelled or*)
(* dismissed never waits again, drafts are promoted in the order in which   *)
(* they were parked, and nothing is promoted that did not wait.             *)
THEOREM PipelineWaitsInLine == Spec => WaitsInLine
<1>1. Init => TypeInv /\ LineInv
  BY TypeInit, LineInit
<1>2. TypeInv /\ LineInv /\ [Next]_vars => (TypeInv /\ LineInv)'
  BY TypeNext, LineNext
<1>3. Init => Line!Init
  <2> SUFFICES ASSUME Init, NEW t \in Tasks PROVE PhaseOf(t) = "new"
    BY DEF Init, Line!Init
  <2>1. ~ InQueue(t) /\ t \notin issued
    BY DEF Init, InQueue
  <2>2. \A p \in Procs : proc[p] = Idle
    BY DEF Init
  <2>3. ~ Placing(t) /\ ~ Serving(t)
    BY <2>2, ConstantsAssumption DEF Placing, Serving, Idle, Procs
  <2> QED
    BY <2>1, <2>3 DEF PhaseOf
<1> QED
  BY <1>1, <1>2, <1>3, Refines, PTL DEF Spec, WaitsInLine, Line!Spec

-----------------------------------------------------------------------------
(***************************************************************************)
(* Cancellation.  Nothing but a dismissal or the TTL disturbs a cancelled  *)
(* task at which nothing is at work: what is left of it in the broker ends *)
(* at its first call.                                                      *)
(***************************************************************************)
Left == InBroker \cup {"find", "delete"}

(* What has to be shown of a step.                                          *)
LEMMA RestKept ==
  ASSUME NEW t \in Tasks, Resting(t), records'[t] = records[t], t \in flags',
         InQueue(t)' => InQueue(t),
         \A p \in Procs : proc'[p].task = t => proc'[p].at \in Left
  PROVE  Resting(t)'
BY DEF Resting, Left

(* Quiet steps: only the first calls of jobs and of a dismissal are of t.   *)
LEMMA QuietKeepsRest ==
  ASSUME TypeInv, NEW t \in Tasks, Resting(t), NEW p \in Procs, QuietAction(p)
  PROVE  Resting(t)'
<1>1. QuietStep(p)
  BY QuietActions
<1>2. t \in flags'
  BY DEF Resting, QuietAction, SetCancelFlag, FindForDelete, Fetch, BeginDraft, BeginResume,
     LoadForResume, CheckExisting, MarkRowDrafting, EngineFails, EngineAsks, EngineStops,
     EngineDelivers, DropResult, KeepResult, DrainCount, DrainPeek, Crash, redis
<1>3. records' = records /\ (InQueue(t)' => InQueue(t))
  BY <1>1 DEF QuietStep, InQueue
<1>4. \A q \in Procs \ {p} : proc'[q] = proc[q]
  BY <1>1 DEF QuietStep, OnlyMoves
<1>t. proc[p] \in Process /\ proc \in [Procs -> Process]
  BY DEF TypeInv, ProcsOK
<1>5. ASSUME proc'[p].task = t PROVE proc'[p].at \in Left
  <2>1. proc[p].task = t /\ proc[p].at \in Left
    BY <1>1, <1>5 DEF QuietStep, Quiet, Resting, Left
  <2>2. CASE BeginDraft(p) \/ BeginResume(p)
    <3>1. Becomes(p, Idle)
      BY <2>1, <2>2 DEF BeginDraft, BeginResume, Resting
    <3> QED
      BY <1>5, <1>t, <3>1, ConstantsAssumption DEF Becomes, Idle
  <2>3. CASE FindForDelete(p)
    BY <1>5, <1>t, <2>3, ConstantsAssumption
       DEF FindForDelete, Becomes, Moved, Idle, Left, Process
  <2>4. CASE Crash(p)
    BY <1>5, <1>t, <2>4, ConstantsAssumption DEF Crash, Becomes, Idle
  <2> QED
    BY <2>1, <2>2, <2>3, <2>4
       DEF QuietAction, SetCancelFlag, Fetch, LoadForResume, CheckExisting, MarkRowDrafting,
       EngineFails, EngineAsks, EngineStops, EngineDelivers, DropResult, KeepResult,
       DrainCount, DrainPeek, At, Left, InBroker
<1>6. \A q \in Procs : proc'[q].task = t => proc'[q].at \in Left
  BY <1>4, <1>5 DEF Resting, Left
<1> QED
  BY <1>2, <1>3, <1>6, RestKept

(* A step of p that is not of t, by which t is neither written nor queued.  *)
LEMMA OtherKeepsRest ==
  ASSUME TypeInv, NEW t \in Tasks, Resting(t), NEW p \in Procs, NEW s, Becomes(p, s),
         s.task # t, records'[t] = records[t], t \in flags', InQueue(t)' => InQueue(t)
  PROVE  Resting(t)'
<1>1. \A q \in Procs : proc'[q].task = t => proc'[q] = proc[q]
  BY BecomesMoves DEF OnlyMoves
<1> QED
  BY <1>1, RestKept DEF Resting, Left

(* Kicking a job changes no record that rests. *)
LEMMA KiqKeepsRest ==
  ASSUME TypeInv, NEW t \in Tasks, Resting(t), NEW p \in Procs, NEW label \in InBroker,
         NEW u, NEW skip, Kiq(p, label, u, skip), UNCHANGED <<records, flags, queue>>
  PROVE  Resting(t)'
<1> DEFINE m == [Idle EXCEPT !.at = label, !.task = u, !.skip = skip]
<1>1. PICK j \in Jobs : proc' = [proc EXCEPT ![p] = Idle, ![j] = m]
  BY DEF Kiq
<1>2. Idle.task = NoTask /\ m.at = label /\ NoTask # t
  BY ConstantsAssumption DEF Idle
<1> HIDE DEF m
<1>3. \A q \in Procs : proc'[q] = proc[q] \/ proc'[q] = Idle \/ proc'[q] = m
  BY <1>1 DEF TypeInv, ProcsOK
<1>4. \A q \in Procs : proc'[q].task = t => proc'[q].at \in Left
  BY <1>2, <1>3 DEF Resting, Left
<1> QED
  BY <1>4, RestKept DEF Resting, InQueue

(* A record that rests goes on resting, or expires. *)
LEMMA RestStep ==
  ASSUME TypeInv, LineInv, [Next]_vars, NEW t \in Tasks, Resting(t)
  PROVE  Resting(t)' \/ ~ Exists(t)' \/ expiries' # expiries
<1> USE ConstantsAssumption
<1>t. \A p \in Procs : proc[p] \in Process /\ WellFormed(proc[p])
  BY DEF TypeInv, ProcsOK
<1>q. Requests \subseteq Procs /\ Jobs \subseteq Procs
  BY DEF Procs
<1>r. /\ records[t].status = "CANCELLED" /\ t \in flags /\ ~ InQueue(t)
      /\ \A p \in Procs : proc[p].task = t => proc[p].at \in Left
  BY DEF Resting, Left
<1>l. \A label \in Left : label \notin Labels \ {"queued_draft", "queued_resume", "find", "delete"}
  BY DEF Left, InBroker
<1>f. records \in [Tasks -> Records] /\ queue \in Seq(Tasks)
  BY DEF TypeInv, TypeOK
<1>i. queue' = queue => (InQueue(t)' => InQueue(t))
  BY DEF InQueue
<1>1. ASSUME NEW r \in Requests, NEW u \in Tasks, NEW skip \in BOOLEAN, Start(r, u, skip)
      PROVE  Resting(t)'
  <2>1. u # t
    BY <1>1, <1>r DEF Start, LineInv, NewInv
  <2>2. PICK s : s = [Idle EXCEPT !.at = "count", !.task = u, !.skip = skip]
    OBVIOUS
  <2>3. s.task # t
    BY <2>1, <2>2 DEF Idle
  <2>4. Becomes(r, s) /\ UNCHANGED <<records, flags, queue>>
    BY <1>1, <2>2 DEF Start
  <2> QED
    BY <1>q, <1>r, <1>i, <2>3, <2>4, OtherKeepsRest
<1>2. ASSUME NEW r \in Requests, NEW u \in Tasks,
             UseExisting(r, u) \/ Regenerate(r, u) \/ Cancel(r, u)
      PROVE  Resting(t)'
  <2>1. u # t
    BY <1>2, <1>r DEF UseExisting, Regenerate, Cancel, Active
  <2>2. \E s : Becomes(r, s) /\ s.task = u
    <3> DEFINE adopt == [Idle EXCEPT !.at = "fetch", !.op = "adopt", !.task = u,
                                     !.row = records[u].existing]
               again == [Idle EXCEPT !.at = "store", !.op = "reset", !.task = u,
                                     !.snap = records[u], !.skip = TRUE]
               stop == [Idle EXCEPT
                          !.at = IF records[u].status = "QUEUED" THEN "unpark_cancel"
                                                                 ELSE "fetch",
                          !.op = "cancelled", !.task = u]
    <3>1. Becomes(r, adopt) \/ Becomes(r, again) \/ Becomes(r, stop)
      BY <1>2 DEF UseExisting, Regenerate, Cancel
    <3>2. adopt.task = u /\ again.task = u /\ stop.task = u
      BY DEF Idle
    <3> HIDE DEF adopt, again, stop
    <3> QED
      BY <3>1, <3>2
  <2>3. UNCHANGED <<records, flags, queue>>
    BY <1>2 DEF UseExisting, Regenerate, Cancel, redis
  <2> QED
    BY <1>q, <1>r, <1>i, <2>1, <2>2, <2>3, OtherKeepsRest
<1>3. ASSUME NEW r \in Requests, NEW u \in Tasks, SubmitInput(r, u) PROVE Resting(t)'
  BY <1>3, <1>q, KiqKeepsRest DEF SubmitInput, redis, InBroker
<1>4. ASSUME NEW p \in Procs, Kick(p) PROVE Resting(t)'
  BY <1>4, KiqKeepsRest DEF Kick, redis, InBroker
<1>5. ASSUME NEW r \in Requests, NEW u \in Tasks, Dismiss(r, u) PROVE Resting(t)'
  <2>1. PICK s : s = [Idle EXCEPT !.at = "find", !.task = u]
    OBVIOUS
  <2>2. proc'[r] = s /\ OnlyMoves(r) /\ s.at = "find"
    BY <1>5, <1>q, <2>1, BecomesMoves DEF Dismiss, Idle
  <2>3. UNCHANGED <<records, flags, queue>>
    BY <1>5 DEF Dismiss, redis
  <2> QED
    BY <1>r, <1>i, <2>2, <2>3, RestKept DEF OnlyMoves, Left
<1>6. ASSUME NEW r \in Requests, CountActive(r) \/ CheckQueueSize(r) PROVE Resting(t)'
  <2>1. proc[r].task # t /\ UNCHANGED <<records, flags, queue>>
    BY <1>6, <1>q, <1>r, <1>l DEF CountActive, CheckQueueSize, At, Labels, redis
  <2>2. \E s : Becomes(r, s) /\ s.task \in {proc[r].task, NoTask}
    <3>1. \/ \E label : Becomes(r, Moved(r, label))
          \/ Becomes(r, Idle)
      BY <1>6 DEF CountActive, CheckQueueSize
    <3>2. Idle.task = NoTask /\ \A label : Moved(r, label).task = proc[r].task
      BY <1>q, <1>t DEF Idle, Moved, Process
    <3> QED
      BY <3>1, <3>2
  <2> QED
    BY <1>q, <1>r, <1>i, <2>1, <2>2, OtherKeepsRest
<1>7. ASSUME NEW r \in Requests, Create(r) PROVE Resting(t)'
  <2>1. proc[r].task # t
    BY <1>7, <1>q, <1>r, <1>l DEF Create, At, Labels
  <2>2. records'[t] = records[t] /\ UNCHANGED <<flags, queue>>
    BY <1>7, <1>f, <2>1 DEF Create
  <2>3. \E label : Becomes(r, Moved(r, label))
    BY <1>7 DEF Create
  <2>4. \A label : Moved(r, label).task = proc[r].task
    BY <1>q, <1>t DEF Moved, Process
  <2> QED
    BY <1>q, <1>r, <1>i, <2>1, <2>2, <2>3, <2>4, OtherKeepsRest
<1>8. ASSUME NEW r \in Requests, Park(r) PROVE Resting(t)'
  <2>1. proc[r].task # t /\ proc[r].task \in Tasks /\ UNCHANGED <<records, flags>>
    BY <1>8, <1>q, <1>t, <1>r, <1>l DEF Park, At, Labels, Process, WellFormed, NoTaskYet
  <2>2. InQueue(t)' => InQueue(t)
    <3>1. queue' = Append(queue, proc[r].task) /\ ~ Occurs(queue, proc[r].task) /\ NoRepeat(queue)
      BY <1>8, <1>q
         DEF Park, At, Occurs, NoRepeat, InQueue, LineInv, ParkInv, FifoInv
    <3>2. \A u : Occurs(Append(queue, proc[r].task), u) <=> Occurs(queue, u) \/ u = proc[r].task
      BY <1>f, <2>1, <3>1, AppendLine
    <3> QED
      BY <2>1, <3>1, <3>2 DEF Occurs, InQueue
  <2>3. Becomes(r, Idle) /\ Idle.task # t
    BY <1>8 DEF Park, Idle
  <2> QED
    BY <1>q, <1>r, <2>1, <2>2, <2>3, OtherKeepsRest
<1>9. ASSUME NEW r \in Requests, RemoveFromQueue(r) PROVE Resting(t)'
  <2>1. proc[r].task # t /\ UNCHANGED <<records, flags>>
    BY <1>9, <1>q, <1>r, <1>l DEF RemoveFromQueue, At, Labels
  <2>2. InQueue(t)' => InQueue(t)
    BY <1>9, <1>f, WithoutLine
       DEF RemoveFromQueue, Occurs, NoRepeat, InQueue, LineInv, FifoInv
  <2>3. Becomes(r, Moved(r, "fetch")) /\ Moved(r, "fetch").task = proc[r].task
    BY <1>9, <1>q, <1>t DEF RemoveFromQueue, Moved, Process
  <2> QED
    BY <1>q, <1>r, <2>1, <2>2, <2>3, OtherKeepsRest
<1>10. ASSUME NEW r \in Requests, Delete(r) PROVE Resting(t)' \/ ~ Exists(t)'
  <2>1. CASE proc[r].task = t
    <3>1. At(r, "delete")
      BY <1>10, <1>q, <1>r, <1>l, <2>1 DEF Delete, At, Labels
    <3>2. records' = [records EXCEPT ![t] = NoRecord]
      BY <1>10, <2>1, <3>1 DEF Delete, At
    <3> QED
      BY <1>f, <3>2 DEF Exists, NoRecord
  <2>2. CASE proc[r].task # t
    <3>1. records'[t] = records[t] /\ t \in flags'
      BY <1>10, <1>f, <1>r, <2>2 DEF Delete
    <3>2. InQueue(t)' => InQueue(t)
      <4>1. queue' = queue \/ queue' = Without(queue, proc[r].task)
        BY <1>10 DEF Delete
      <4>2. \A u : Occurs(Without(queue, proc[r].task), u) => Occurs(queue, u)
        BY <1>f, WithoutLine DEF NoRepeat, LineInv, FifoInv
      <4> QED
        BY <4>1, <4>2 DEF InQueue, Occurs
    <3>3. \E s : Becomes(r, s) /\ s.task # t
      <4>1. Becomes(r, Idle) \/ \E label : Becomes(r, Moved(r, label))
        BY <1>10 DEF Delete
      <4>2. Idle.task = NoTask /\ \A label : Moved(r, label).task = proc[r].task
        BY <1>q, <1>t DEF Idle, Moved, Process
      <4> QED
        BY <2>2, <4>1, <4>2
    <3> QED
      BY <1>q, <3>1, <3>2, <3>3, OtherKeepsRest
  <2> QED
    BY <2>1, <2>2
<1>11. ASSUME NEW p \in Procs, Store(p) PROVE Resting(t)'
  <2> DEFINE b == [proc[p] EXCEPT !.snap = NoRecord]
             s == Then(proc[p].op, b)
  <2>1. proc[p].task # t /\ proc[p].op \in Ops \ {"none"}
    BY <1>11, <1>t, <1>r, <1>l DEF Store, At, Labels, Process, WellFormed, Writing
  <2>2. records'[t] = records[t] /\ UNCHANGED <<flags, queue>> /\ Becomes(p, s)
    BY <1>11, <1>f, <2>1 DEF Store
  <2>3. b \in Process /\ b.task = proc[p].task
    BY <1>t, NoRecordType DEF Process
  <2> HIDE DEF b
  <2>4. s.task # t
    BY <2>1, <2>3, ThenLine
  <2> HIDE DEF s
  <2> QED
    BY <1>r, <1>i, <2>2, <2>4, OtherKeepsRest
<1>12. ASSUME NEW j \in Jobs, InsertRow(j) PROVE Resting(t)'
  <2>1. PICK s : s = [proc[j] EXCEPT !.at = "fetch", !.op = "attach", !.row = Len(rows) + 1]
    OBVIOUS
  <2>2. proc[j].task # t /\ Becomes(j, s) /\ UNCHANGED <<records, flags, queue>>
    BY <1>12, <1>q, <1>r, <1>l, <2>1 DEF InsertRow, At, Labels, redis
  <2>3. s.task = proc[j].task
    BY <1>q, <1>t, <2>1 DEF Process
  <2> QED
    BY <1>q, <1>r, <1>i, <2>2, <2>3, OtherKeepsRest
<1>13. ASSUME NEW p \in Procs, DrainPop(p) PROVE Resting(t)'
  <2>1. UNCHANGED <<records, flags>>
    BY <1>13 DEF DrainPop
  <2>2. CASE queue = <<>>
    BY <1>13, <1>r, <1>i, <2>1, <2>2, OtherKeepsRest DEF DrainPop, Idle
  <2>3. CASE queue # <<>>
    <3>1. /\ Occurs(queue, Head(queue))
          /\ \A u : Occurs(Tail(queue), u) => Occurs(queue, u)
      BY <1>f, <2>3, TailLine DEF NoRepeat, LineInv, FifoInv
    <3>2. PICK s : s = [Idle EXCEPT !.at = "peek", !.task = Head(queue)]
      OBVIOUS
    <3>3. Becomes(p, s) /\ queue' = Tail(queue)
      BY <1>13, <2>3, <3>2 DEF DrainPop
    <3>4. s.task # t /\ (InQueue(t)' => InQueue(t))
      BY <1>r, <3>1, <3>2, <3>3 DEF InQueue, Occurs, Idle
    <3> QED
      BY <1>r, <2>1, <3>3, <3>4, OtherKeepsRest
  <2> QED
    BY <2>2, <2>3
<1>14. ASSUME NEW u \in Tasks, Expire(u) PROVE expiries' # expiries
  BY <1>14 DEF Expire, TypeInv, TypeOK
<1>15. CASE UNCHANGED vars
  BY <1>15, <1>r, <1>i, RestKept DEF vars
<1>16. ASSUME NEW p \in Procs, QuietAction(p) PROVE Resting(t)'
  BY <1>16, QuietKeepsRest
<1> QED
  BY <1>q, <1>1, <1>2, <1>3, <1>4, <1>5, <1>6, <1>7, <1>8, <1>9, <1>10, <1>11, <1>12, <1>13,
     <1>14, <1>15, <1>16
     DEF Next, Call, Serve, Work, Share, QuietAction

(* A cancelled task at which nothing is at work is not taken up again until *)
(* it is dismissed or expires, whatever is called.                          *)
THEOREM CancelledStaysCorrect == Spec => CancelledStays
<1>1. TypeInv /\ LineInv /\ [Next]_vars
        => [\A t \in Tasks :
              Resting(t) => Resting(t)' \/ ~ Exists(t)' \/ expiries' # expiries]_vars
  BY RestStep
<1>2. Spec => [](TypeInv /\ LineInv)
  BY TypeInit, TypeNext, LineInit, LineNext, PTL DEF Spec
<1> QED
  BY <1>1, <1>2, PTL DEF Spec, CancelledStays
-----------------------------------------------------------------------------
(***************************************************************************)
(* Findability.  A record becomes QUEUED once, when the request that parks *)
(* it creates it; from then on only requests that cancel or dismiss and the*)
(* drain that popped it may be at work on it, so that none of the others   *)
(* can write QUEUED back or take the id out of the FIFO for nothing.       *)
(***************************************************************************)
Handles(s) ==
  s.at \in {"find", "delete", "park", "peek"} \/ s.op \in {"promote", "cancelled"}

(* Of a QUEUED task only these are at work, ...                             *)
HandledInv ==
  \A t \in Tasks : records[t].status = "QUEUED" =>
     \A p \in Procs : proc[p].task = t => Handles(proc[p])

(* ... and attach_log, which keeps the status it read, never read QUEUED.   *)
ReadNotQueued(s) ==
  s.at \in {"flag", "store"} /\ s.op = "attach" => s.snap.status # "QUEUED"
AttachInv == \A p \in Procs : ReadNotQueued(proc[p])

QueuedInv == HandledInv /\ AttachInv /\ QueuedIsFindable

(* Nothing is queued at first. *)
LEMMA QueuedInit == Init => QueuedInv
BY ConstantsAssumption
   DEF Init, QueuedInv, HandledInv, AttachInv, ReadNotQueued, QueuedIsFindable, Idle, NoRecord

(* A step of p keeps them if no record becomes QUEUED and, where one is,    *)
(* p goes on as one of these and leaves the id findable.                    *)
Leaves(p, t) ==
  /\ records[t].status = "QUEUED"
  /\ proc'[p].task = t => Handles(proc'[p])
  /\ crashes' = 0 /\ (InQueue(t) \/ InTransit(p, t)) => InQueue(t)' \/ InTransit(p, t)'

(* A step that leaves every queued id findable keeps the invariant. *)
LEMMA StepKeepsQueued ==
  ASSUME QueuedInv, NEW p \in Procs, OnlyMoves(p), crashes' = 0 => crashes = 0,
         \A t \in Tasks : records'[t].status = "QUEUED" => Leaves(p, t),
         ReadNotQueued(proc'[p])
  PROVE  QueuedInv'
<1>m. \A q \in Procs : q = p \/ proc'[q] = proc[q]
  BY DEF OnlyMoves
<1>1. HandledInv'
  <2>1. ASSUME NEW t \in Tasks, records'[t].status = "QUEUED", NEW q \in Procs, proc'[q].task = t
        PROVE  Handles(proc'[q])
    BY <1>m, <2>1 DEF QueuedInv, HandledInv, Leaves
  <2> QED
    BY <2>1 DEF HandledInv, Handles
<1>2. AttachInv'
  BY <1>m DEF QueuedInv, AttachInv, ReadNotQueued
<1>3. QueuedIsFindable'
  <2>1. ASSUME crashes' = 0, NEW t \in Tasks, records'[t].status = "QUEUED"
        PROVE  InQueue(t)' \/ \E q \in Procs : InTransit(q, t)'
    <3>1. Leaves(p, t) /\ crashes = 0
      BY <2>1
    <3>2. CASE InQueue(t)
      BY <2>1, <3>1, <3>2 DEF Leaves
    <3>3. CASE ~ InQueue(t)
      <4>1. PICK q \in Procs : InTransit(q, t)
        BY <3>1, <3>3 DEF QueuedInv, QueuedIsFindable, Leaves
      <4>2. CASE q = p
        BY <2>1, <3>1, <4>1, <4>2 DEF Leaves
      <4>3. CASE q # p
        <5>1. proc'[q] = proc[q]
          BY <1>m, <4>3
        <5> QED
          BY <4>1, <5>1 DEF InTransit
      <4> QED
        BY <4>2, <4>3
    <3> QED
      BY <3>2, <3>3
  <2> QED
    BY <2>1 DEF QueuedIsFindable
<1> QED
  BY <1>1, <1>2, <1>3 DEF QueuedInv

(* A step of p that is not about a QUEUED task and takes up none.           *)
LEMMA OtherKeepsQueued ==
  ASSUME QueuedInv, NEW p \in Procs, OnlyMoves(p), crashes' = 0 => crashes = 0,
         queue' = queue, ~ Handles(proc[p]),
         \A t \in Tasks : records'[t].status = "QUEUED" =>
            records[t].status = "QUEUED" /\ (proc'[p].task = t => proc[p].task = t \/ Handles(proc'[p])),
         ReadNotQueued(proc'[p])
  PROVE  QueuedInv'
<1>1. \A t \in Tasks : records[t].status = "QUEUED" => proc[p].task # t /\ ~ InTransit(p, t)
  BY DEF QueuedInv, HandledInv, Handles, InTransit
<1>2. \A t \in Tasks : records'[t].status = "QUEUED" => Leaves(p, t)
  BY <1>1 DEF Leaves, InQueue
<1> QED
  BY <1>2, StepKeepsQueued

(* After a write a process does not write at once.                          *)
LEMMA ThenWrites ==
  ASSUME NEW op \in Ops \ {"none"}, NEW s \in Process
  PROVE  Then(op, s).at \notin {"flag", "store"}
<1> USE DEF Then, Process, Idle, Ops
<1>1. CASE op = "checking"
  BY <1>1
<1>2. CASE op \in {"existing", "awaiting"}
  BY <1>2
<1>3. CASE op = "attach"
  BY <1>3
<1>4. CASE op \in {"drafting", "redrafting"}
  BY <1>4
<1>5. CASE op \in {"completed", "failed", "adopt", "cancelled"}
  BY <1>5
<1>6. CASE op \in {"promote", "reset"}
  BY <1>6
<1> QED
  BY <1>1, <1>2, <1>3, <1>4, <1>5, <1>6

(* Quiet steps.                                                             *)
LEMMA QuietKeepsQueued ==
  ASSUME TypeInv, QueuedInv, NEW p \in Procs, QuietAction(p)
  PROVE  QueuedInv'
<1> USE ConstantsAssumption
<1>1. QuietStep(p)
  BY QuietActions
<1>2. OnlyMoves(p) /\ records' = records /\ queue' = queue
  BY <1>1 DEF QuietStep
<1>t. /\ proc[p] \in Process /\ WellFormed(proc[p]) /\ proc \in [Procs -> Process]
      /\ records \in [Tasks -> Records] /\ crashes \in Nat
  BY DEF TypeInv, ProcsOK, TypeOK
<1>c. crashes' = crashes \/ (Crash(p) /\ crashes' = crashes + 1)
  <2>1. CASE Crash(p)
    BY <2>1 DEF Crash
  <2>2. CASE ~ Crash(p)
    BY <2>2
       DEF QuietAction, SetCancelFlag, FindForDelete, Fetch, BeginDraft, BeginResume,
       LoadForResume, CheckExisting, MarkRowDrafting, EngineFails, EngineAsks, EngineStops,
       EngineDelivers, DropResult, KeepResult, DrainCount, DrainPeek, bounds
  <2> QED
    BY <2>1, <2>2
<1>d. crashes' = 0 => crashes = 0
  BY <1>c, <1>t
<1>q. \A t \in Tasks : InQueue(t) => InQueue(t)'
  BY <1>2 DEF InQueue
<1>k. proc'[p].task \in Tasks => proc'[p].task = proc[p].task
  BY <1>1 DEF QuietStep, Quiet
<1>h. \A t \in Tasks : records[t].status = "QUEUED" /\ proc[p].task = t => Handles(proc[p])
  BY DEF QueuedInv, HandledInv
<1>3. CASE SetCancelFlag(p)
  <2>1. proc'[p] = Moved(p, "store") /\ proc[p].at = "flag"
    BY <1>3, <1>t DEF SetCancelFlag, Becomes, At
  <2>2. /\ proc'[p].at = "store" /\ proc'[p].task = proc[p].task /\ proc'[p].op = proc[p].op
        /\ proc'[p].snap = proc[p].snap
    BY <2>1, <1>t DEF Moved, Process
  <2>3. \A t \in Tasks : records'[t].status = "QUEUED" => Leaves(p, t)
    BY <1>2, <1>h, <1>q, <2>1, <2>2 DEF Leaves, InTransit, Handles
  <2>4. ReadNotQueued(proc'[p])
    BY <2>1, <2>2 DEF QueuedInv, AttachInv, ReadNotQueued
  <2> QED
    BY <1>2, <1>d, <2>3, <2>4, StepKeepsQueued
<1>4. CASE FindForDelete(p)
  <2>1. proc[p].at = "find" /\ (proc'[p] = Moved(p, "delete") \/ proc'[p] = Idle)
    BY <1>4, <1>t DEF FindForDelete, Becomes, At
  <2>2. /\ proc'[p].at \in {"delete", "idle"}
        /\ proc'[p].at = "idle" => proc'[p].task = NoTask
    BY <2>1, <1>t DEF Moved, Process, Idle
  <2>3. proc[p].op = "none"
    BY <1>t, <2>1 DEF WellFormed, Writing
  <2>4. \A t \in Tasks : records'[t].status = "QUEUED" => Leaves(p, t)
    BY <1>2, <1>q, <2>1, <2>2, <2>3 DEF Leaves, InTransit, Handles
  <2>5. ReadNotQueued(proc'[p])
    BY <2>2 DEF ReadNotQueued
  <2> QED
    BY <1>2, <1>d, <2>4, <2>5, StepKeepsQueued
<1>5. CASE Fetch(p)
  <2>1. proc[p].at = "fetch" /\ proc[p].op \in Ops \ {"none"} /\ proc[p].task \in Tasks
    BY <1>5, <1>t DEF Fetch, At, WellFormed, Writing, NoTaskYet, Process
  <2>2. CASE ~ Exists(proc[p].task)
    <3>1. proc'[p] = Then(proc[p].op, proc[p])
      BY <1>5, <1>t, <2>2 DEF Fetch, Becomes
    <3>2. proc'[p].at \notin {"flag", "store"}
      BY <1>t, <2>1, <3>1, ThenWrites
    <3>3. \A t \in Tasks : records'[t].status = "QUEUED" => Leaves(p, t)
      BY <1>2, <1>k, <1>q, <2>1, <2>2 DEF Leaves, InTransit, Exists
    <3> QED
      BY <1>2, <1>d, <3>2, <3>3, StepKeepsQueued DEF ReadNotQueued
  <2>3. CASE Exists(proc[p].task)
    <3>1. PICK rec \in Records : rec = records[proc[p].task]
      BY <1>t, <2>1
    <3>2. PICK label \in {"flag", "store"} :
            label = IF proc[p].op = "cancelled" THEN "flag" ELSE "store"
      OBVIOUS
    <3>3. proc'[p] = [proc[p] EXCEPT !.at = label, !.snap = rec]
      BY <1>5, <1>t, <2>3, <3>1, <3>2 DEF Fetch, Becomes
    <3>4. /\ proc'[p].task = proc[p].task /\ proc'[p].op = proc[p].op
          /\ proc'[p].snap = rec
      BY <1>t, <3>3 DEF Process
    <3>5. ReadNotQueued(proc'[p])
      BY <1>h, <2>1, <3>1, <3>4 DEF ReadNotQueued, Handles
    <3>6. \A t \in Tasks : records'[t].status = "QUEUED" => Leaves(p, t)
      BY <1>2, <1>h, <1>q, <2>1, <3>4 DEF Leaves, InTransit, Handles
    <3> QED
      BY <1>2, <1>d, <3>5, <3>6, StepKeepsQueued
  <2> QED
    BY <2>2, <2>3
<1>6. CASE DrainPeek(p)
  <2>1. proc[p].at = "peek" /\ proc[p].task \in Tasks
    BY <1>6, <1>t DEF DrainPeek, At, WellFormed, NoTaskYet, Process
  <2>2. CASE ~ Exists(proc[p].task)
    <3>1. proc'[p] = Idle
      BY <1>6, <1>t, <2>2 DEF DrainPeek, Becomes
    <3>2. \A t \in Tasks : records'[t].status = "QUEUED" => Leaves(p, t)
      BY <1>2, <1>q, <2>1, <2>2, <3>1 DEF Leaves, InTransit, Exists, Idle
    <3> QED
      BY <1>2, <1>d, <3>1, <3>2, StepKeepsQueued DEF ReadNotQueued, Idle
  <2>3. CASE Exists(proc[p].task)
    <3>1. proc'[p] = [proc[p] EXCEPT !.at = "fetch", !.op = "promote"]
      BY <1>6, <1>t, <2>3 DEF DrainPeek, Becomes
    <3>2. proc'[p].at = "fetch" /\ proc'[p].op = "promote" /\ proc'[p].task = proc[p].task
      BY <1>t, <3>1 DEF Process
    <3>3. \A t \in Tasks : records'[t].status = "QUEUED" => Leaves(p, t)
      BY <1>2, <1>q, <3>2 DEF Leaves, InTransit, Handles
    <3> QED
      BY <1>2, <1>d, <3>2, <3>3, StepKeepsQueued DEF ReadNotQueued
  <2> QED
    BY <2>2, <2>3
<1>7. CASE Crash(p)
  <2>1. proc'[p] = Idle /\ crashes' = crashes + 1
    BY <1>7, <1>t DEF Crash, Becomes
  <2>2. \A t \in Tasks : records'[t].status = "QUEUED" => Leaves(p, t)
    BY <1>2, <1>t, <2>1 DEF Leaves, Idle
  <2> QED
    BY <1>2, <1>d, <2>1, <2>2, StepKeepsQueued DEF ReadNotQueued, Idle
(* All others are not of a QUEUED task, or of no task at all.               *)
<1>8. CASE ~ (SetCancelFlag(p) \/ FindForDelete(p) \/ Fetch(p) \/ DrainPeek(p) \/ Crash(p))
  <2>1. /\ proc[p].at \in {"queued_draft", "queued_resume", "load", "lookup", "row_drafting",
                           "engine", "row_cancelled", "row_completed", "drain"}
        /\ ~ Handles(proc[p])
    <3>1. proc[p].at \in {"queued_draft", "queued_resume", "load", "lookup", "row_drafting",
                          "engine", "row_cancelled", "row_completed", "drain"}
      BY <1>8
         DEF QuietAction, BeginDraft, BeginResume, LoadForResume, CheckExisting,
         MarkRowDrafting, EngineFails, EngineAsks, EngineStops, EngineDelivers, DropResult,
         KeepResult, DrainCount, At
    <3> QED
      BY <1>t, <3>1 DEF Handles, WellFormed, Writing
  <2>2. proc'[p].at \notin {"flag", "store"}
    <3> DEFINE ok(l) == l \notin {"flag", "store"}
               to(o) == [proc[p] EXCEPT !.at = "fetch", !.op = o]
               with(o, i) == [proc[p] EXCEPT !.at = "fetch", !.op = o, !.row = i]
    <3>a. \A o, i : ok(to(o).at) /\ ok(with(o, i).at)
      BY <1>t DEF Process
    <3>b. ok(Idle.at) /\ ok([Idle EXCEPT !.at = "drain"].at) /\ \A l : Moved(p, l).at = l
      BY <1>t DEF Idle, Moved, Process
    <3>c. \A s : Becomes(p, s) => proc'[p] = s
      BY <1>t DEF Becomes
    <3> HIDE DEF to, with
    <3>1. CASE BeginDraft(p) \/ BeginResume(p)
      <4>1. Becomes(p, Idle) \/ Becomes(p, to("checking")) \/ Becomes(p, Moved(p, "load"))
        BY <3>1 DEF BeginDraft, BeginResume, to
      <4> QED
        BY <3>a, <3>b, <3>c, <4>1
    <3>2. CASE LoadForResume(p)
      <4>1. Becomes(p, Idle) \/ Becomes(p, with("redrafting", records[proc[p].task].log))
        BY <3>2 DEF LoadForResume, with
      <4> QED
        BY <3>a, <3>b, <3>c, <4>1
    <3>3. CASE CheckExisting(p)
      <4> DEFINE done == CompletedRows(DraftOf[proc[p].task])
      <4> HIDE DEF done
      <4>1. Becomes(p, Moved(p, "insert")) \/ \E i \in done : Becomes(p, with("existing", i))
        BY <3>3 DEF CheckExisting, done, with
      <4> QED
        BY <3>a, <3>b, <3>c, <4>1
    <3>4. CASE MarkRowDrafting(p)
      BY <3>4, <3>b, <3>c DEF MarkRowDrafting
    <3>5. CASE EngineFails(p) \/ EngineAsks(p)
      <4>1. Becomes(p, to("failed")) \/ Becomes(p, to("awaiting"))
        BY <3>5 DEF EngineFails, EngineAsks, EngineStops, to
      <4> QED
        BY <3>a, <3>c, <4>1
    <3>6. CASE EngineDelivers(p)
      BY <3>6, <3>b, <3>c DEF EngineDelivers
    <3>7. CASE DropResult(p) \/ KeepResult(p)
      <4>1. Becomes(p, [Idle EXCEPT !.at = "drain"]) \/ Becomes(p, to("completed"))
        BY <3>7 DEF DropResult, KeepResult, to
      <4> QED
        BY <3>a, <3>b, <3>c, <4>1
    <3>8. CASE DrainCount(p)
      BY <3>8, <3>b, <3>c DEF DrainCount
    <3> QED
      BY <1>8, <3>1, <3>2, <3>3, <3>4, <3>5, <3>6, <3>7, <3>8 DEF QuietAction
  <2> QED
    BY <1>2, <1>d, <1>k, <2>1, <2>2, OtherKeepsQueued DEF ReadNotQueued
<1> QED
  BY <1>3, <1>4, <1>5, <1>6, <1>7, <1>8

(* A kiq for a task that is not QUEUED, by a process that has no QUEUED one.*)
LEMMA KiqKeepsQueued ==
  ASSUME TypeInv, QueuedInv, NEW p \in Procs, NEW label \in InBroker, NEW u \in Tasks,
         NEW skip, Kiq(p, label, u, skip), UNCHANGED <<records, queue, crashes>>,
         records[u].status # "QUEUED", ~ Handles(proc[p])
  PROVE  QueuedInv'
<1> DEFINE m == [Idle EXCEPT !.at = label, !.task = u, !.skip = skip]
<1>1. PICK j \in Jobs : /\ j = p \/ (p \in Requests /\ At(j, "idle"))
                        /\ proc' = [proc EXCEPT ![p] = Idle, ![j] = m]
  BY DEF Kiq
<1>2. /\ Idle.task = NoTask /\ Idle.at = "idle" /\ m.at = label /\ m.task = u
      /\ NoTask \notin Tasks /\ label \notin {"flag", "store"}
  BY ConstantsAssumption DEF Idle, InBroker
<1> HIDE DEF m
<1>t. \A q \in Procs : proc[q] \in Process /\ WellFormed(proc[q])
  BY DEF TypeInv, ProcsOK
<1>3. \A q \in Procs :
        \/ proc'[q] = proc[q]
        \/ (proc'[q] = Idle \/ proc'[q] = m) /\ (q = p \/ proc[q].at = "idle")
  BY <1>1 DEF TypeInv, ProcsOK, At
<1>4. HandledInv'
  <2>1. ASSUME NEW t \in Tasks, records'[t].status = "QUEUED", NEW q \in Procs, proc'[q].task = t
        PROVE  Handles(proc'[q])
    BY <1>2, <1>3, <2>1 DEF QueuedInv, HandledInv
  <2> QED
    BY <2>1 DEF HandledInv, Handles
<1>5. AttachInv'
  <2>1. ASSUME NEW q \in Procs PROVE ReadNotQueued(proc'[q])
    BY <1>2, <1>3 DEF QueuedInv, AttachInv, ReadNotQueued
  <2> QED
    BY <2>1 DEF AttachInv, ReadNotQueued
<1>6. QueuedIsFindable'
  <2>1. ASSUME crashes' = 0, NEW t \in Tasks, records'[t].status = "QUEUED"
        PROVE  InQueue(t)' \/ \E q \in Procs : InTransit(q, t)'
    <3>1. CASE InQueue(t)
      BY <3>1 DEF InQueue
    <3>2. CASE ~ InQueue(t)
      <4>1. PICK q \in Procs : InTransit(q, t)
        BY <2>1, <3>2 DEF QueuedInv, QueuedIsFindable
      <4>2. q # p
        BY <4>1 DEF InTransit, Handles
      <4>3. proc[q].at # "idle"
        BY <1>t, <1>2, <4>1 DEF InTransit, WellFormed, NoTaskYet
      <4>4. proc'[q] = proc[q]
        BY <1>3, <4>2, <4>3
      <4> QED
        BY <4>1, <4>4 DEF InTransit
    <3> QED
      BY <3>1, <3>2
  <2> QED
    BY <2>1 DEF QueuedIsFindable
<1> QED
  BY <1>4, <1>5, <1>6 DEF QueuedInv

(* Every step keeps them.                                                   *)
LEMMA QueuedNext == TypeInv /\ LineInv /\ QueuedInv /\ [Next]_vars => QueuedInv'
<1> SUFFICES ASSUME TypeInv, LineInv, QueuedInv, [Next]_vars PROVE QueuedInv'
  OBVIOUS
<1> USE ConstantsAssumption
<1>t. \A p \in Procs : proc[p] \in Process /\ WellFormed(proc[p])
  BY DEF TypeInv, ProcsOK
<1>q. Requests \subseteq Procs /\ Jobs \subseteq Procs
  BY DEF Procs
<1>f. records \in [Tasks -> Records] /\ queue \in Seq(Tasks) /\ NoRepeat(queue)
  BY DEF TypeInv, TypeOK, LineInv, FifoInv, NoRepeat
<1>h. \A p \in Procs, t \in Tasks :
        records[t].status = "QUEUED" /\ proc[p].task = t => Handles(proc[p])
  BY DEF QueuedInv, HandledInv
<1>n. \A p \in Procs : proc[p].at \notin Writing \cup {"find", "delete", "park", "peek"} =>
        ~ Handles(proc[p])
  BY <1>t DEF Handles, WellFormed
<1>i. \A t \in Tasks : queue' = queue => (InQueue(t)' <=> InQueue(t))
  BY DEF InQueue
(* A request takes up task u that is not QUEUED, or to cancel or dismiss it.*)
<1>1. ASSUME NEW r \in Requests, NEW u \in Tasks, NEW s, At(r, "idle"), Becomes(r, s),
             s.task = u, s.at # "flag", s.op # "attach",
             records[u].status # "QUEUED" \/ Handles(s), UNCHANGED <<records, queue, crashes>>
      PROVE  QueuedInv'
  <2>1. OnlyMoves(r) /\ proc'[r] = s /\ r \in Procs
    BY <1>1, <1>q, BecomesMoves
  <2>2. ~ Handles(proc[r])
    BY <1>1, <1>n, <2>1 DEF At, Writing
  <2>3. ReadNotQueued(proc'[r])
    BY <1>1, <2>1 DEF ReadNotQueued
  <2> QED
    BY <1>1, <2>1, <2>2, <2>3, OtherKeepsQueued
<1>2. ASSUME NEW r \in Requests, NEW u \in Tasks, NEW skip \in BOOLEAN, Start(r, u, skip)
      PROVE  QueuedInv'
  <2>1. PICK s : s = [Idle EXCEPT !.at = "count", !.task = u, !.skip = skip]
    OBVIOUS
  <2>2. s.task = u /\ s.at = "count" /\ s.op = "none"
    BY <2>1 DEF Idle
  <2>3. records[u].status # "QUEUED"
    BY <1>2 DEF Start, LineInv, NewInv
  <2>4. Becomes(r, s) /\ At(r, "idle") /\ UNCHANGED <<records, queue, crashes>>
    BY <1>2, <2>1 DEF Start, bounds
  <2> QED
    BY <1>1, <2>2, <2>3, <2>4
<1>3. ASSUME NEW r \in Requests, NEW u \in Tasks, UseExisting(r, u) PROVE QueuedInv'
  <2>1. PICK s : s = [Idle EXCEPT !.at = "fetch", !.op = "adopt", !.task = u,
                                  !.row = records[u].existing]
    OBVIOUS
  <2>2. s.task = u /\ s.at = "fetch" /\ s.op = "adopt"
    BY <2>1 DEF Idle
  <2>3. /\ Becomes(r, s) /\ At(r, "idle") /\ UNCHANGED <<records, queue, crashes>>
        /\ records[u].status # "QUEUED"
    BY <1>3, <2>1 DEF UseExisting, bounds, redis
  <2> QED
    BY <1>1, <2>2, <2>3
<1>4. ASSUME NEW r \in Requests, NEW u \in Tasks, Regenerate(r, u) PROVE QueuedInv'
  <2>1. PICK s : s = [Idle EXCEPT !.at = "store", !.op = "reset", !.task = u,
                                  !.snap = records[u], !.skip = TRUE]
    OBVIOUS
  <2>2. s.task = u /\ s.at = "store" /\ s.op = "reset"
    BY <2>1 DEF Idle
  <2>3. /\ Becomes(r, s) /\ At(r, "idle") /\ UNCHANGED <<records, queue, crashes>>
        /\ records[u].status # "QUEUED"
    BY <1>4, <2>1 DEF Regenerate, redis
  <2> QED
    BY <1>1, <2>2, <2>3
<1>5. ASSUME NEW r \in Requests, NEW u \in Tasks, Cancel(r, u) PROVE QueuedInv'
  <2>1. PICK label : label = IF records[u].status = "QUEUED" THEN "unpark_cancel" ELSE "fetch"
    OBVIOUS
  <2>2. PICK s : s = [Idle EXCEPT !.at = label, !.op = "cancelled", !.task = u]
    OBVIOUS
  <2>3. s.task = u /\ s.at # "flag" /\ s.op = "cancelled"
    BY <2>1, <2>2 DEF Idle
  <2>4. Becomes(r, s) /\ At(r, "idle") /\ UNCHANGED <<records, queue, crashes>>
    BY <1>5, <2>1, <2>2 DEF Cancel, bounds, redis
  <2> QED
    BY <1>1, <2>3, <2>4 DEF Handles
<1>6. ASSUME NEW r \in Requests, NEW u \in Tasks, Dismiss(r, u) PROVE QueuedInv'
  <2>1. PICK s : s = [Idle EXCEPT !.at = "find", !.task = u]
    OBVIOUS
  <2>2. s.task = u /\ s.at = "find" /\ s.op = "none"
    BY <2>1 DEF Idle
  <2>3. Becomes(r, s) /\ At(r, "idle") /\ UNCHANGED <<records, queue, crashes>>
    BY <1>6, <2>1 DEF Dismiss, bounds, redis
  <2> QED
    BY <1>1, <2>2, <2>3 DEF Handles
<1>7. ASSUME NEW r \in Requests, NEW u \in Tasks, SubmitInput(r, u) PROVE QueuedInv'
  <2>1. /\ Kiq(r, "queued_resume", u, FALSE) /\ UNCHANGED <<records, queue, crashes>>
        /\ records[u].status # "QUEUED" /\ proc[r].at = "idle"
    BY <1>7 DEF SubmitInput, At, redis, bounds
  <2> QED
    BY <1>n, <1>q, <2>1, KiqKeepsQueued DEF InBroker, Writing
<1>8. ASSUME NEW p \in Procs, Kick(p) PROVE QueuedInv'
  <2>1. /\ Kiq(p, "queued_draft", proc[p].task, proc[p].skip)
        /\ UNCHANGED <<records, queue, crashes>> /\ proc[p].at = "kick"
    BY <1>8 DEF Kick, At, redis, bounds
  <2>2. proc[p].task \in Tasks /\ ~ Handles(proc[p])
    BY <1>n, <1>t, <2>1 DEF Process, WellFormed, NoTaskYet, Writing
  <2>3. records[proc[p].task].status # "QUEUED"
    BY <1>h, <2>2
  <2> QED
    BY <2>1, <2>2, <2>3, KiqKeepsQueued DEF InBroker
<1>9. ASSUME NEW r \in Requests, CountActive(r) \/ CheckQueueSize(r) PROVE QueuedInv'
  <2>1. /\ proc[r].at \in {"count", "size"} /\ UNCHANGED <<records, queue, crashes>>
        /\ Becomes(r, Idle)
              \/ \E label \in {"size", "create_pending", "create_queued"} :
                    Becomes(r, Moved(r, label))
    BY <1>9 DEF CountActive, CheckQueueSize, At, bounds
  <2>2. \A label : Moved(r, label).task = proc[r].task /\ Moved(r, label).at = label
    BY <1>q, <1>t DEF Moved, Process
  <2>3. Idle.task = NoTask /\ Idle.at = "idle"
    BY DEF Idle
  <2>4. \A s : Becomes(r, s) => OnlyMoves(r) /\ proc'[r] = s
    BY <1>q, BecomesMoves
  <2>5. /\ OnlyMoves(r) /\ proc'[r].at \notin {"flag", "store"}
        /\ proc'[r].task \in {proc[r].task, NoTask}
    BY <2>1, <2>2, <2>3, <2>4
  <2>6. ~ Handles(proc[r])
    BY <1>n, <1>q, <2>1 DEF Writing
  <2> QED
    BY <1>q, <2>1, <2>5, <2>6, OtherKeepsQueued DEF ReadNotQueued
<1>10. ASSUME NEW p \in Requests, Create(p) PROVE QueuedInv'
  <2> DEFINE t == proc[p].task
  <2>1. /\ UNCHANGED <<queue, crashes>> /\ proc[p].at \in Starting
        /\ \A u \in Tasks \ {t} : records'[u] = records[u]
    BY <1>10, <1>f DEF Create, At, Starting, bounds
  <2>2. t \in Tasks /\ proc[p].op = "none" /\ p \in Procs
    BY <1>q, <1>t, <2>1 DEF Process, WellFormed, NoTaskYet, Starting, Writing
  <2>3. /\ \A label : Moved(p, label).at = label /\ Moved(p, label).task = t
                      /\ Moved(p, label).op = "none"
        /\ \A s : Becomes(p, s) => OnlyMoves(p) /\ proc'[p] = s
    BY <1>t, <2>2, BecomesMoves DEF Moved, Process
  <2>4. \A q \in Procs \ {p} : proc[q].task # t
    BY <2>1, <2>2 DEF LineInv, StartInv
  <2>5. /\ OnlyMoves(p) /\ proc'[p].task = t /\ proc'[p].op = "none"
        /\ \/ proc'[p].at = "park"
           \/ proc'[p].at = "kick" /\ records'[t].status = "PENDING"
    <3>1. CASE At(p, "create_pending")
      BY <1>10, <1>f, <2>2, <2>3, <3>1 DEF Create, At, NoRecord
    <3>2. CASE At(p, "create_queued")
      BY <1>10, <2>3, <3>2 DEF Create, At
    <3> QED
      BY <1>10, <3>1, <3>2 DEF Create
  <2> HIDE DEF t
  <2>m. \A q \in Procs : q = p \/ (proc'[q] = proc[q] /\ proc[q].task # t)
    BY <2>4, <2>5 DEF OnlyMoves
  <2>6. HandledInv'
    <3>1. ASSUME NEW u \in Tasks, records'[u].status = "QUEUED", NEW q \in Procs,
                 proc'[q].task = u
          PROVE  Handles(proc'[q])
      <4>1. CASE u = t
        BY <2>2, <2>5, <2>m, <3>1, <4>1 DEF Handles
      <4>2. CASE u # t
        BY <1>h, <2>1, <2>5, <2>m, <3>1, <4>2
      <4> QED
        BY <4>1, <4>2
    <3> QED
      BY <3>1 DEF HandledInv, Handles
  <2>7. AttachInv'
    BY <2>5, <2>m DEF QueuedInv, AttachInv, ReadNotQueued
  <2>8. QueuedIsFindable'
    <3>1. ASSUME crashes' = 0, NEW u \in Tasks, records'[u].status = "QUEUED"
          PROVE  InQueue(u)' \/ \E q \in Procs : InTransit(q, u)'
      <4>1. CASE u = t
        BY <2>2, <2>5, <3>1, <4>1 DEF InTransit
      <4>2. CASE u # t
        <5>1. InQueue(u) \/ \E q \in Procs : InTransit(q, u)
          BY <2>1, <3>1, <4>2 DEF QueuedInv, QueuedIsFindable
        <5>2. CASE InQueue(u)
          BY <1>i, <2>1, <5>2
        <5>3. ASSUME NEW q \in Procs, InTransit(q, u) PROVE InTransit(q, u)'
          <6>1. q # p
            BY <4>2, <5>3 DEF InTransit, t
          <6> QED
            BY <2>m, <5>3, <6>1 DEF InTransit
        <5> QED
          BY <5>1, <5>2, <5>3
      <4> QED
        BY <4>1, <4>2
    <3> QED
      BY <3>1 DEF QueuedIsFindable
  <2> QED
    BY <2>6, <2>7, <2>8 DEF QueuedInv
<1>11. ASSUME NEW r \in Requests, Park(r) PROVE QueuedInv'
  <2>1. /\ proc'[r] = Idle /\ OnlyMoves(r) /\ r \in Procs /\ proc[r].at = "park"
        /\ queue' = Append(queue, proc[r].task) /\ UNCHANGED <<records, crashes>>
    BY <1>11, <1>q, BecomesMoves DEF Park, At, bounds
  <2>2. proc[r].task \in Tasks /\ ~ Occurs(queue, proc[r].task) /\ proc[r].op = "none"
    BY <1>t, <2>1
       DEF Process, WellFormed, NoTaskYet, Writing, LineInv, ParkInv, Occurs, InQueue
  <2>3. \A u : Occurs(Append(queue, proc[r].task), u) <=> Occurs(queue, u) \/ u = proc[r].task
    BY <1>f, <2>2, AppendLine
  <2>4. \A t \in Tasks : InQueue(t) \/ InTransit(r, t) => InQueue(t)'
    BY <2>1, <2>3 DEF InQueue, Occurs, InTransit
  <2>5. \A t \in Tasks : records'[t].status = "QUEUED" => Leaves(r, t)
    BY <2>1, <2>4 DEF Leaves, Idle
  <2> QED
    BY <2>1, <2>5, StepKeepsQueued DEF ReadNotQueued, Idle
<1>12. ASSUME NEW r \in Requests, RemoveFromQueue(r) PROVE QueuedInv'
  <2>1. /\ proc'[r] = Moved(r, "fetch") /\ OnlyMoves(r) /\ r \in Procs
        /\ proc[r].at = "unpark_cancel" /\ queue' = Without(queue, proc[r].task)
        /\ UNCHANGED <<records, crashes>>
    BY <1>12, <1>q, BecomesMoves DEF RemoveFromQueue, At, bounds
  <2>2. proc'[r].at = "fetch" /\ proc'[r].task = proc[r].task /\ proc'[r].op = proc[r].op
    BY <1>t, <2>1 DEF Moved, Process
  <2>3. \A u : Occurs(queue, u) /\ u # proc[r].task => Occurs(queue', u)
    BY <1>f, <2>1, WithoutLine
  <2>4. \A t \in Tasks : InQueue(t) /\ t # proc[r].task => InQueue(t)'
    BY <2>3 DEF InQueue, Occurs
  <2>5. ASSUME NEW t \in Tasks, records'[t].status = "QUEUED" PROVE Leaves(r, t)
    <3>1. proc[r].task = t => Handles(proc[r]) /\ InTransit(r, t)' /\ Handles(proc'[r])
      BY <1>h, <2>1, <2>2, <2>5 DEF Handles, InTransit
    <3> QED
      BY <2>1, <2>2, <2>4, <2>5, <3>1 DEF Leaves, InTransit
  <2> QED
    BY <2>1, <2>2, <2>5, StepKeepsQueued DEF ReadNotQueued
<1>13. ASSUME NEW r \in Requests, Delete(r) PROVE QueuedInv'
  <2> DEFINE t == proc[r].task
  <2>1. /\ r \in Procs /\ proc[r].at \in {"delete", "unlist", "unflag", "unpark"}
        /\ crashes' = crashes
    BY <1>13, <1>q DEF Delete, At, bounds
  <2>2. t \in Tasks /\ proc[r].op = "none"
    BY <1>t, <2>1 DEF Process, WellFormed, NoTaskYet, Writing
  <2>3. /\ \A label : Moved(r, label).at = label /\ Moved(r, label).task = t
        /\ Idle.at = "idle" /\ Idle.task = NoTask
        /\ \A s : Becomes(r, s) => OnlyMoves(r) /\ proc'[r] = s
    BY <1>t, <2>1, BecomesMoves DEF Moved, Process, Idle
  <2>4. CASE At(r, "delete")
    <3>1. /\ OnlyMoves(r) /\ proc'[r].at = "unlist" /\ proc'[r].task = t /\ queue' = queue
          /\ records'[t].status = "NONE" /\ \A u \in Tasks \ {t} : records'[u] = records[u]
      BY <1>13, <1>f, <2>2, <2>3, <2>4 DEF Delete, At, NoRecord
    <3>2. \A u \in Tasks : records'[u].status = "QUEUED" => Leaves(r, u)
      BY <1>i, <2>2, <3>1 DEF Leaves, InTransit
    <3> QED
      BY <2>1, <3>1, <3>2, StepKeepsQueued DEF ReadNotQueued
  <2>5. CASE At(r, "unlist") \/ At(r, "unflag")
    <3>1. /\ OnlyMoves(r) /\ proc'[r].at \in {"unflag", "unpark"} /\ proc'[r].task = t
          /\ UNCHANGED <<records, queue>>
      BY <1>13, <2>3, <2>5 DEF Delete, At
    <3>2. ~ Handles(proc[r])
      BY <2>2, <2>5 DEF Handles, At
    <3> QED
      BY <2>1, <3>1, <3>2, OtherKeepsQueued DEF ReadNotQueued
  <2>6. CASE At(r, "unpark")
    <3>1. /\ OnlyMoves(r) /\ proc'[r] = Idle /\ records' = records
          /\ queue' = Without(queue, t)
      BY <1>13, <2>3, <2>6 DEF Delete, At
    <3>2. ~ Handles(proc[r])
      BY <2>2, <2>6 DEF Handles, At
    <3>3. \A u : Occurs(queue, u) /\ u # t => Occurs(queue', u)
      BY <1>f, <3>1, WithoutLine
    <3>4. \A u \in Tasks : InQueue(u) /\ u # t => InQueue(u)'
      BY <3>3 DEF InQueue, Occurs
    <3>5. \A u \in Tasks : records'[u].status = "QUEUED" => Leaves(r, u)
      BY <1>h, <2>1, <2>3, <3>1, <3>2, <3>4 DEF Leaves, InTransit
    <3> QED
      BY <2>1, <2>3, <3>1, <3>5, StepKeepsQueued DEF ReadNotQueued
  <2> QED
    BY <2>1, <2>4, <2>5, <2>6 DEF At
<1>14. ASSUME NEW p \in Procs, Store(p) PROVE QueuedInv'
  <2> DEFINE t == proc[p].task
             o == proc[p].op
             b == [proc[p] EXCEPT !.snap = NoRecord]
             s == Then(o, b)
             rec == Updated(o, proc[p].snap, proc[p].row)
  <2>1. /\ Becomes(p, s) /\ UNCHANGED <<queue, crashes>> /\ proc[p].at = "store"
        /\ records' = [records EXCEPT ![t] = rec]
    BY <1>14 DEF Store, At, bounds
  <2>2. o \in Ops \ {"none"} /\ t \in Tasks /\ proc[p].snap \in Records
    BY <1>t, <2>1 DEF Process, WellFormed, Writing, NoTaskYet
  <2>3. b \in Process /\ b.task = t
    BY <1>t, NoRecordType DEF Process
  <2>4. OnlyMoves(p) /\ proc'[p] = s
    BY <2>1, BecomesMoves
  <2>5. rec.status # "QUEUED"
    <3>1. o = "attach" => proc[p].snap.status # "QUEUED"
      BY <2>1 DEF QueuedInv, AttachInv, ReadNotQueued
    <3> QED
      BY <2>2, <3>1 DEF Updated, Ops, Records
  <2> HIDE DEF b, rec, o
  <2>6. s.at \notin {"flag", "store"} /\ (s.task \in Tasks => s.task = t)
    BY <2>2, <2>3, ThenLine, ThenWrites
  <2> HIDE DEF s, t
  <2>7. \A u \in Tasks : records'[u].status = "QUEUED" => u # t /\ records'[u] = records[u]
    BY <1>f, <2>1, <2>2, <2>5
  <2>8. \A u \in Tasks : records'[u].status = "QUEUED" => Leaves(p, u)
    BY <1>i, <2>1, <2>4, <2>6, <2>7 DEF Leaves, InTransit, t
  <2> QED
    BY <2>1, <2>4, <2>6, <2>8, StepKeepsQueued DEF ReadNotQueued
<1>15. ASSUME NEW j \in Jobs, InsertRow(j) PROVE QueuedInv'
  <2>1. PICK s : s = [proc[j] EXCEPT !.at = "fetch", !.op = "attach", !.row = Len(rows) + 1]
    OBVIOUS
  <2>2. /\ OnlyMoves(j) /\ proc'[j] = s /\ j \in Procs /\ proc[j].at = "insert"
        /\ UNCHANGED <<records, queue, crashes>>
    BY <1>15, <1>q, <2>1, BecomesMoves DEF InsertRow, At, redis, bounds
  <2>3. s.task = proc[j].task /\ s.at = "fetch"
    BY <1>t, <2>1, <2>2 DEF Process
  <2>4. ~ Handles(proc[j])
    BY <1>n, <2>2 DEF Writing
  <2> QED
    BY <2>2, <2>3, <2>4, OtherKeepsQueued DEF ReadNotQueued
<1>16. ASSUME NEW p \in Procs, DrainPop(p) PROVE QueuedInv'
  <2>1. proc[p].at = "pop" /\ UNCHANGED <<records, crashes>> /\ ~ Handles(proc[p])
    BY <1>16, <1>n DEF DrainPop, At, bounds, Writing
  <2>2. CASE queue = <<>>
    <3>1. OnlyMoves(p) /\ proc'[p] = Idle /\ queue' = queue
      BY <1>16, <2>2, BecomesMoves DEF DrainPop
    <3> QED
      BY <2>1, <3>1, OtherKeepsQueued DEF ReadNotQueued, Idle
  <2>3. CASE queue # <<>>
    <3>1. \A u : Occurs(Tail(queue), u) <=> Occurs(queue, u) /\ u # Head(queue)
      BY <1>f, <2>3, TailLine
    <3>2. PICK s : s = [Idle EXCEPT !.at = "peek", !.task = Head(queue)]
      OBVIOUS
    <3>3. OnlyMoves(p) /\ proc'[p] = s /\ queue' = Tail(queue)
      BY <1>16, <2>3, <3>2, BecomesMoves DEF DrainPop
    <3>4. s.at = "peek" /\ s.task = Head(queue)
      BY <3>2 DEF Idle
    <3>5. \A t \in Tasks : InQueue(t) => InQueue(t)' \/ t = Head(queue)
      BY <3>1, <3>3 DEF InQueue, Occurs
    <3>6. \A t \in Tasks : records'[t].status = "QUEUED" => Leaves(p, t)
      BY <1>h, <2>1, <3>3, <3>4, <3>5 DEF Leaves, InTransit, Handles
    <3> QED
      BY <2>1, <3>3, <3>4, <3>6, StepKeepsQueued DEF ReadNotQueued
  <2> QED
    BY <2>2, <2>3
<1>17. ASSUME NEW u \in Tasks, Expire(u) PROVE QueuedInv'
  <2>1. /\ UNCHANGED <<queue, proc, crashes>>
        /\ \A t \in Tasks : records'[t].status = "QUEUED" => records[t].status = "QUEUED"
    BY <1>17, <1>f DEF Expire, NoRecord
  <2> QED
    BY <2>1
       DEF QueuedInv, HandledInv, AttachInv, ReadNotQueued, Handles, QueuedIsFindable,
       InTransit, InQueue
<1>18. CASE UNCHANGED vars
  BY <1>18
     DEF vars, QueuedInv, HandledInv, AttachInv, ReadNotQueued, Handles, QueuedIsFindable,
     InTransit, InQueue
<1>19. ASSUME NEW p \in Procs, QuietAction(p) PROVE QueuedInv'
  BY <1>19, QuietKeepsQueued
<1> QED
  BY <1>q, <1>2, <1>3, <1>4, <1>5, <1>6, <1>7, <1>8, <1>9, <1>10, <1>11, <1>12, <1>13, <1>14,
     <1>15, <1>16, <1>17, <1>18, <1>19
     DEF Next, Call, Serve, Work, Share, QuietAction

(* Unless a process died, a QUEUED draft is in the FIFO or a process that   *)
(* will park, promote or cancel it is on its way.                           *)
THEOREM QueuedIsFindableCorrect == Spec => []QueuedIsFindable
<1>1. Init => TypeInv /\ LineInv /\ QueuedInv
  BY TypeInit, LineInit, QueuedInit
<1>2. TypeInv /\ LineInv /\ QueuedInv /\ [Next]_vars => (TypeInv /\ LineInv /\ QueuedInv)'
  BY TypeNext, LineNext, QueuedNext
<1>3. QueuedInv => QueuedIsFindable
  BY DEF QueuedInv
<1> QED
  BY <1>1, <1>2, <1>3, PTL DEF Spec
-----------------------------------------------------------------------------
(***************************************************************************)
(* Rows.  The right to insert a log row for a task is handed on from the   *)
(* request that starts it to the FIFO, the drain, the message and the job; *)
(* each row, each process that holds the right and the place in the FIFO   *)
(* counts once against the requests that asked for a draft.                *)
(***************************************************************************)
Will(s) ==
  \/ s.at \in {"count", "size", "create_pending", "create_queued", "park", "kick",
               "queued_draft", "peek", "lookup", "insert"}
  \/ s.op \in {"promote", "checking", "reset"}

Holders(t)   == {p \in Procs : proc[p].task = t /\ Will(proc[p])}
RowsOf(t)    == {i \in DOMAIN rows : rows[i].task = t}
Placeholder(t) == IF InQueue(t) THEN 1 ELSE 0

Tally(t) ==
  /\ IsFiniteSet(Holders(t)) /\ IsFiniteSet(RowsOf(t))
  /\ Cardinality(RowsOf(t)) + Cardinality(Holders(t)) + Placeholder(t) <= 1 + regens[t]
TallyInv == \A t \in Tasks : Tally(t)

(* No row is counted at first. *)
LEMMA TallyInit == Init => TallyInv
<1> SUFFICES ASSUME Init, NEW t \in Tasks PROVE Tally(t)
  BY DEF TallyInv
<1>1. Holders(t) = {} /\ RowsOf(t) = {} /\ ~ InQueue(t) /\ regens[t] = 0
  BY ConstantsAssumption DEF Init, Holders, RowsOf, InQueue, Idle
<1> QED
  BY <1>1, FS_EmptySet DEF Tally, Placeholder

(* Changing the status of a row leaves it with its task.                    *)
LEMMA RowSetKeepsOwner ==
  ASSUME NEW r, NEW status, rows' = RowSet(r, status), NEW t
  PROVE  RowsOf(t)' = RowsOf(t)
BY DEF RowSet, RowsOf

(* What has to be shown of a step: nobody new holds the right to a row of t.*)
LEMMA TallyKept ==
  ASSUME TypeInv, NEW t \in Tasks, Tally(t), Holders(t)' \subseteq Holders(t),
         RowsOf(t)' = RowsOf(t), InQueue(t)' => InQueue(t), regens'[t] = regens[t]
  PROVE  Tally(t)'
<1>1. IsFiniteSet(Holders(t)') /\ Cardinality(Holders(t)') <= Cardinality(Holders(t))
  BY FS_Subset DEF Tally
<1>2. /\ Cardinality(Holders(t)) \in Nat /\ Cardinality(Holders(t)') \in Nat
      /\ Cardinality(RowsOf(t)) \in Nat
  BY <1>1, FS_CardinalityType DEF Tally
<1>3. Placeholder(t)' <= Placeholder(t) /\ Placeholder(t)' \in 0..1 /\ Placeholder(t) \in 0..1
  BY DEF Placeholder
<1>4. regens[t] \in Nat
  BY ConstantsAssumption DEF TypeInv, TypeOK
<1> QED
  BY <1>1, <1>2, <1>3, <1>4 DEF Tally

(* One process moves.  It takes up no right ...                             *)
LEMMA StepKeepsTally ==
  ASSUME TypeInv, NEW t \in Tasks, Tally(t), NEW p \in Procs, OnlyMoves(p),
         proc'[p].task = t /\ Will(proc'[p]) => proc[p].task = t /\ Will(proc[p]),
         RowsOf(t)' = RowsOf(t), InQueue(t)' => InQueue(t), regens'[t] = regens[t]
  PROVE  Tally(t)'
<1>1. Holders(t)' \subseteq Holders(t)
  BY DEF Holders, Will, OnlyMoves
<1> QED
  BY <1>1, TallyKept

(* ... or gives one up.                                                     *)
LEMMA HoldersLose ==
  ASSUME NEW t \in Tasks, Tally(t), NEW p \in Procs, OnlyMoves(p),
         proc[p].task = t, Will(proc[p]), ~ (proc'[p].task = t /\ Will(proc'[p]))
  PROVE  /\ IsFiniteSet(Holders(t)') /\ Cardinality(Holders(t)') \in Nat
         /\ Cardinality(Holders(t)') = Cardinality(Holders(t)) - 1
<1>1. Holders(t)' = Holders(t) \ {p} /\ p \in Holders(t)
  BY DEF Holders, Will, OnlyMoves
<1> QED
  BY <1>1, FS_RemoveElement, FS_CardinalityType DEF Tally

(* A step of one process adds at most that one to those that may insert. *)
LEMMA HoldersGain ==
  ASSUME NEW t \in Tasks, Tally(t), NEW p \in Procs, OnlyMoves(p)
  PROVE  /\ IsFiniteSet(Holders(t)') /\ Cardinality(Holders(t)') \in Nat
         /\ Cardinality(Holders(t)') <= Cardinality(Holders(t)) + 1
<1>1. Holders(t)' \subseteq Holders(t) \cup {p}
  BY DEF Holders, Will, OnlyMoves
<1>2. /\ IsFiniteSet(Holders(t) \cup {p}) /\ Cardinality(Holders(t)) \in Nat
      /\ Cardinality(Holders(t) \cup {p}) <= Cardinality(Holders(t)) + 1
      /\ Cardinality(Holders(t) \cup {p}) \in Nat
  <2>1. IsFiniteSet(Holders(t)) /\ Cardinality(Holders(t)) \in Nat
    BY FS_CardinalityType DEF Tally
  <2>2. /\ IsFiniteSet(Holders(t) \cup {p})
        /\ \/ Cardinality(Holders(t) \cup {p}) = Cardinality(Holders(t))
           \/ Cardinality(Holders(t) \cup {p}) = Cardinality(Holders(t)) + 1
    BY <2>1, FS_AddElement
  <2> QED
    BY <2>1, <2>2
<1>3. /\ IsFiniteSet(Holders(t)')
      /\ Cardinality(Holders(t)') <= Cardinality(Holders(t) \cup {p})
  BY <1>1, <1>2, FS_Subset
<1>4. Cardinality(Holders(t)') \in Nat
  BY <1>3, FS_CardinalityType
<1> QED
  BY <1>2, <1>3, <1>4

(* After a write only a promotion, a first write or a reset leads to a row. *)
LEMMA ThenWill ==
  ASSUME NEW op \in Ops \ {"none"}, NEW s \in Process, Will(Then(op, s)), Then(op, s).task \in Tasks
  PROVE  op \in {"promote", "checking", "reset"}
<1> USE ConstantsAssumption DEF Then, Process, Idle, Ops, Will
<1>1. CASE op \in {"existing", "awaiting"}
  BY <1>1
<1>2. CASE op = "attach"
  BY <1>2
<1>3. CASE op \in {"drafting", "redrafting"}
  BY <1>3
<1>4. CASE op \in {"completed", "failed", "adopt", "cancelled"}
  BY <1>4
<1> QED
  BY <1>1, <1>2, <1>3, <1>4

(* Quiet steps hand the right on or lose it.                                *)
LEMMA QuietKeepsTally ==
  ASSUME TypeInv, NEW p \in Procs, QuietAction(p), NEW t \in Tasks, Tally(t)
  PROVE  Tally(t)'
<1> USE ConstantsAssumption
<1>1. QuietStep(p)
  BY QuietActions
<1>2. OnlyMoves(p) /\ (InQueue(t)' => InQueue(t))
  BY <1>1 DEF QuietStep, InQueue
<1>t. proc[p] \in Process /\ WellFormed(proc[p]) /\ proc \in [Procs -> Process]
  BY DEF TypeInv, ProcsOK
<1>k. proc'[p].task \in Tasks => proc'[p].task = proc[p].task
  BY <1>1 DEF QuietStep, Quiet
<1>r. RowsOf(t)' = RowsOf(t)
  <2>1. rows' = rows \/ \E r, status : rows' = RowSet(r, status)
    BY DEF QuietAction, SetCancelFlag, FindForDelete, Fetch, BeginDraft, BeginResume,
       LoadForResume, CheckExisting, MarkRowDrafting, EngineFails, EngineAsks, EngineStops,
       EngineDelivers, DropResult, KeepResult, DrainCount, DrainPeek, Crash
  <2>2. CASE rows' = rows
    BY <2>2 DEF RowsOf
  <2> QED
    BY <2>1, <2>2, RowSetKeepsOwner
<1>g. regens' = regens
  BY DEF QuietAction, SetCancelFlag, FindForDelete, Fetch, BeginDraft, BeginResume,
     LoadForResume, CheckExisting, MarkRowDrafting, EngineFails, EngineAsks, EngineStops,
     EngineDelivers, DropResult, KeepResult, DrainCount, DrainPeek, Crash, bounds
<1>w. Will(proc'[p]) /\ proc'[p].task \in Tasks => Will(proc[p])
  <2> DEFINE to(l, o) == [proc[p] EXCEPT !.at = l, !.op = o]
             with(o, i) == [proc[p] EXCEPT !.at = "fetch", !.op = o, !.row = i]
  <2>a. \A l, o, i : /\ to(l, o).at = l /\ to(l, o).op = o
                     /\ with(o, i).at = "fetch" /\ with(o, i).op = o
    BY <1>t DEF Process
  <2>b. /\ Idle.task = NoTask /\ [Idle EXCEPT !.at = "drain"].task = NoTask
        /\ \A l : Moved(p, l).at = l /\ Moved(p, l).op = proc[p].op
    BY <1>t DEF Idle, Moved, Process
  <2>c. \A s : Becomes(p, s) => proc'[p] = s
    BY <1>t DEF Becomes
  <2>d. proc[p].at \notin Writing => proc[p].op = "none"
    BY <1>t DEF WellFormed
  <2> HIDE DEF to, with
  <2>1. CASE SetCancelFlag(p)
    BY <2>1, <2>b, <2>c DEF SetCancelFlag, At, Will
  <2>2. CASE FindForDelete(p)
    BY <2>2, <2>b, <2>c, <2>d DEF FindForDelete, At, Will, Writing
  <2>3. CASE Fetch(p)
    <3>1. proc[p].at = "fetch" /\ proc[p].op \in Ops \ {"none"} /\ proc[p].task \in Tasks
      BY <1>t, <2>3 DEF Fetch, At, WellFormed, Writing, NoTaskYet, Process
    <3>2. CASE ~ Exists(proc[p].task)
      <4>1. proc'[p] = Then(proc[p].op, proc[p])
        BY <2>3, <2>c, <3>2 DEF Fetch
      <4> QED
        BY <1>t, <3>1, <4>1, ThenWill DEF Will
    <3>3. CASE Exists(proc[p].task)
      <4>1. PICK label \in {"flag", "store"} :
              label = IF proc[p].op = "cancelled" THEN "flag" ELSE "store"
        OBVIOUS
      <4>2. proc'[p] = [proc[p] EXCEPT !.at = label, !.snap = records[proc[p].task]]
        BY <2>3, <2>c, <3>3, <4>1 DEF Fetch
      <4>3. proc'[p].op = proc[p].op /\ proc'[p].at = label
        BY <1>t, <4>2 DEF Process
      <4> QED
        BY <3>1, <4>3 DEF Will
    <3> QED
      BY <3>2, <3>3
  <2>4. CASE BeginDraft(p)
    BY <2>4 DEF BeginDraft, At, Will
  <2>5. CASE BeginResume(p)
    BY <2>5, <2>b, <2>c, <2>d DEF BeginResume, At, Will, Writing
  <2>6. CASE LoadForResume(p)
    <3>1. Becomes(p, Idle) \/ Becomes(p, with("redrafting", records[proc[p].task].log))
      BY <2>6 DEF LoadForResume, with
    <3> QED
      BY <2>a, <2>b, <2>c, <3>1 DEF Will
  <2>7. CASE CheckExisting(p)
    BY <2>7 DEF CheckExisting, At, Will
  <2>8. CASE MarkRowDrafting(p)
    BY <2>8, <2>b, <2>c, <2>d DEF MarkRowDrafting, At, Will, Writing
  <2>9. CASE EngineFails(p) \/ EngineAsks(p) \/ KeepResult(p)
    <3>1. \E o \in {"failed", "awaiting", "completed"} : Becomes(p, to("fetch", o))
      BY <2>9 DEF EngineFails, EngineAsks, EngineStops, KeepResult, to
    <3> QED
      BY <2>a, <2>c, <3>1 DEF Will
  <2>10. CASE EngineDelivers(p)
    BY <2>10, <2>b, <2>c, <2>d DEF EngineDelivers, At, Will, Writing
  <2>11. CASE DropResult(p)
    BY <2>11, <2>b, <2>c DEF DropResult
  <2>12. CASE DrainCount(p)
    BY <2>12, <2>b, <2>c, <2>d DEF DrainCount, At, Will, Writing
  <2>13. CASE DrainPeek(p)
    BY <2>13 DEF DrainPeek, At, Will
  <2>14. CASE Crash(p)
    BY <2>14, <2>b, <2>c DEF Crash
  <2> QED
    BY <2>1, <2>2, <2>3, <2>4, <2>5, <2>6, <2>7, <2>8, <2>9, <2>10, <2>11, <2>12, <2>13, <2>14
       DEF QuietAction
<1> QED
  BY <1>2, <1>g, <1>k, <1>r, <1>w, StepKeepsTally

(* Every step keeps the tally.                                              *)
LEMMA TallyNext == TypeInv /\ TypeInv' /\ LineInv /\ TallyInv /\ [Next]_vars => TallyInv'
<1> SUFFICES ASSUME TypeInv, TypeInv', LineInv, TallyInv, [Next]_vars, NEW t \in Tasks
             PROVE  Tally(t)'
  BY DEF TallyInv, Tally, Holders, Will, RowsOf, Placeholder, InQueue
<1> USE ConstantsAssumption
<1>0. Tally(t)
  BY DEF TallyInv
<1>t. \A p \in Procs : proc[p] \in Process /\ WellFormed(proc[p])
  BY DEF TypeInv, ProcsOK
<1>q. Requests \subseteq Procs /\ Jobs \subseteq Procs
  BY DEF Procs
<1>f. /\ queue \in Seq(Tasks) /\ NoRepeat(queue) /\ regens \in [Tasks -> 0..MaxRegens]
      /\ rows \in Seq(Rows)
  BY DEF TypeInv, TypeOK, LineInv, FifoInv, NoRepeat
<1>r. rows' = rows => RowsOf(t)' = RowsOf(t)
  BY DEF RowsOf
<1>i. queue' = queue => (InQueue(t)' <=> InQueue(t))
  BY DEF InQueue
<1>n. \A p \in Procs : proc[p].at \notin Writing => proc[p].op = "none"
  BY <1>t DEF WellFormed
<1>c. /\ Cardinality(RowsOf(t)) \in Nat /\ Cardinality(Holders(t)) \in Nat
      /\ regens[t] \in Nat /\ Placeholder(t) \in 0..1
  BY <1>0, <1>f, FS_CardinalityType DEF Tally, Placeholder
<1>m. ASSUME NEW p \in Procs, NEW s, Becomes(p, s) PROVE OnlyMoves(p) /\ proc'[p] = s
  BY <1>m, BecomesMoves
(* A step of p that takes up no right and leaves rows, FIFO and calls alone.*)
<1>1. ASSUME NEW p \in Procs, NEW s, Becomes(p, s), UNCHANGED <<rows, regens>>,
             InQueue(t)' => InQueue(t),
             s.task = t /\ Will(s) => proc[p].task = t /\ Will(proc[p])
      PROVE  Tally(t)'
  BY <1>0, <1>1, <1>m, <1>r, StepKeepsTally
<1>2. ASSUME NEW r \in Requests, NEW u \in Tasks, NEW skip \in BOOLEAN, Start(r, u, skip)
      PROVE  Tally(t)'
  <2>1. PICK s : s = [Idle EXCEPT !.at = "count", !.task = u, !.skip = skip]
    OBVIOUS
  <2>2. Becomes(r, s) /\ UNCHANGED <<rows, queue, regens>> /\ s.task = u /\ u \notin issued
    BY <1>2, <2>1 DEF Start, bounds, Idle
  <2>3. CASE u # t
    BY <1>q, <1>1, <1>i, <2>2, <2>3
  <2>4. CASE u = t
    <3>1. RowsOf(t) = {} /\ Holders(t) = {} /\ ~ InQueue(t)
      BY <2>2, <2>4 DEF LineInv, NewInv, HasRow, RowsOf, Holders
    <3>2. Cardinality(RowsOf(t)) = 0 /\ Cardinality(Holders(t)) = 0
      BY <3>1, FS_EmptySet
    <3>3. /\ IsFiniteSet(Holders(t)') /\ Cardinality(Holders(t)') \in Nat
          /\ Cardinality(Holders(t)') <= Cardinality(Holders(t)) + 1
      BY <1>0, <1>q, <1>m, <2>2, HoldersGain
    <3>4. RowsOf(t)' = RowsOf(t) /\ Placeholder(t)' = 0 /\ regens'[t] = regens[t]
      BY <1>i, <1>r, <2>2, <3>1 DEF Placeholder
    <3> QED
      BY <1>0, <1>c, <3>2, <3>3, <3>4 DEF Tally
  <2> QED
    BY <2>3, <2>4
<1>3. ASSUME NEW r \in Requests, NEW u \in Tasks,
             UseExisting(r, u) \/ Cancel(r, u) \/ Dismiss(r, u)
      PROVE  Tally(t)'
  <2> DEFINE adopt == [Idle EXCEPT !.at = "fetch", !.op = "adopt", !.task = u,
                                   !.row = records[u].existing]
             stop == [Idle EXCEPT
                        !.at = IF records[u].status = "QUEUED" THEN "unpark_cancel"
                                                               ELSE "fetch",
                        !.op = "cancelled", !.task = u]
             away == [Idle EXCEPT !.at = "find", !.task = u]
  <2>1. ~ Will(adopt) /\ ~ Will(stop) /\ ~ Will(away)
    BY DEF Idle, Will
  <2>2. /\ Becomes(r, adopt) \/ Becomes(r, stop) \/ Becomes(r, away)
        /\ UNCHANGED <<rows, queue, regens>>
    BY <1>3 DEF UseExisting, Cancel, Dismiss, redis, bounds
  <2> HIDE DEF adopt, stop, away
  <2> QED
    BY <1>q, <1>1, <1>i, <2>1, <2>2
<1>4. ASSUME NEW r \in Requests, NEW u \in Tasks, Regenerate(r, u) PROVE Tally(t)'
  <2>1. PICK s : s = [Idle EXCEPT !.at = "store", !.op = "reset", !.task = u,
                                  !.snap = records[u], !.skip = TRUE]
    OBVIOUS
  <2>2. /\ Becomes(r, s) /\ UNCHANGED <<rows, queue>> /\ s.task = u
        /\ regens' = [regens EXCEPT ![u] = @ + 1]
    BY <1>4, <2>1 DEF Regenerate, redis, Idle
  <2>3. CASE u # t
    <3>1. OnlyMoves(r) /\ proc'[r].task # t
      BY <1>q, <1>m, <2>2, <2>3
    <3>2. regens'[t] = regens[t]
      BY <1>f, <2>2, <2>3
    <3> QED
      BY <1>0, <1>q, <1>r, <1>i, <2>2, <3>1, <3>2, StepKeepsTally
  <2>4. CASE u = t
    <3>1. /\ IsFiniteSet(Holders(t)') /\ Cardinality(Holders(t)') \in Nat
          /\ Cardinality(Holders(t)') <= Cardinality(Holders(t)) + 1
      BY <1>0, <1>q, <1>m, <2>2, HoldersGain
    <3>2. RowsOf(t)' = RowsOf(t) /\ Placeholder(t)' = Placeholder(t)
      BY <1>i, <1>r, <2>2 DEF Placeholder
    <3>3. regens'[t] = regens[t] + 1
      BY <1>f, <2>2, <2>4
    <3> QED
      BY <1>0, <1>c, <3>1, <3>2, <3>3 DEF Tally
  <2> QED
    BY <2>3, <2>4
(* A message takes the right over from its sender, or carries none.         *)
<1>5. ASSUME NEW p \in Procs, NEW label \in InBroker, NEW u \in Tasks, NEW skip,
             Kiq(p, label, u, skip), UNCHANGED <<rows, queue, regens>>,
             label = "queued_draft" => proc[p].task = u /\ Will(proc[p])
      PROVE  Tally(t)'
  <2> DEFINE m == [Idle EXCEPT !.at = label, !.task = u, !.skip = skip]
  <2>1. PICK j \in Jobs : proc' = [proc EXCEPT ![p] = Idle, ![j] = m]
    BY <1>5 DEF Kiq
  <2>2. /\ Idle.task = NoTask /\ m.at = label /\ m.task = u /\ m.op = "none"
        /\ NoTask \notin Tasks
    BY DEF Idle
  <2> HIDE DEF m
  <2>3. \A q \in Procs : \/ q = j /\ proc'[q] = m
                         \/ q = p /\ proc'[q] = Idle
                         \/ q \notin {j, p} /\ proc'[q] = proc[q]
    BY <2>1 DEF TypeInv, ProcsOK
  <2>4. CASE u = t /\ label = "queued_draft"
    <3>1. p \in Holders(t) /\ Holders(t)' \subseteq (Holders(t) \ {p}) \cup {j}
      BY <1>5, <2>2, <2>3, <2>4 DEF Holders
    <3> DEFINE rest == Holders(t) \ {p}
    <3>2. IsFiniteSet(rest) /\ Cardinality(rest) = Cardinality(Holders(t)) - 1
      BY <1>0, <3>1, FS_RemoveElement DEF Tally
    <3> HIDE DEF rest
    <3>3. /\ IsFiniteSet(rest \cup {j})
          /\ \/ Cardinality(rest \cup {j}) = Cardinality(rest)
             \/ Cardinality(rest \cup {j}) = Cardinality(rest) + 1
      BY <3>2, FS_AddElement
    <3>4. Cardinality(rest) \in Nat /\ Cardinality(rest \cup {j}) \in Nat
      BY <3>2, <3>3, FS_CardinalityType
    <3>5. /\ IsFiniteSet(Holders(t)')
          /\ Cardinality(Holders(t)') <= Cardinality(rest \cup {j})
      BY <3>1, <3>3, FS_Subset DEF rest
    <3>6. Cardinality(Holders(t)') \in Nat
      BY <3>5, FS_CardinalityType
    <3>7. /\ RowsOf(t)' = RowsOf(t) /\ Placeholder(t)' = Placeholder(t)
          /\ regens'[t] = regens[t]
      BY <1>i, <1>r, <1>5 DEF Placeholder
    <3> QED
      BY <1>0, <1>c, <3>2, <3>3, <3>4, <3>5, <3>6, <3>7 DEF Tally
  <2>5. CASE ~ (u = t /\ label = "queued_draft")
    <3>1. ~ (m.task = t /\ Will(m))
      BY <1>5, <2>2, <2>5 DEF Will, InBroker
    <3>2. Holders(t)' \subseteq Holders(t)
      <4>1. \A q \in Procs : proc'[q].task = t /\ Will(proc'[q]) => proc'[q] = proc[q]
        BY <2>2, <2>3, <3>1
      <4>2. \A q \in Procs : q \in Holders(t)' => proc'[q].task = t /\ Will(proc'[q])
        BY DEF Holders, Will
      <4> QED
        BY <4>1, <4>2 DEF Holders
    <3> QED
      BY <1>0, <1>5, <1>r, <1>i, <3>2, TallyKept
  <2> QED
    BY <2>4, <2>5
<1>6. ASSUME NEW r \in Requests, NEW u \in Tasks, SubmitInput(r, u) PROVE Tally(t)'
  <2>1. Kiq(r, "queued_resume", u, FALSE) /\ UNCHANGED <<rows, queue, regens>>
    BY <1>6 DEF SubmitInput, redis, bounds
  <2> QED
    BY <1>q, <1>5, <2>1 DEF InBroker
<1>7. ASSUME NEW p \in Procs, Kick(p) PROVE Tally(t)'
  <2>1. /\ Kiq(p, "queued_draft", proc[p].task, proc[p].skip)
        /\ UNCHANGED <<rows, queue, regens>> /\ proc[p].at = "kick"
    BY <1>7 DEF Kick, At, redis, bounds
  <2>2. proc[p].task \in Tasks /\ Will(proc[p])
    BY <1>t, <2>1 DEF Process, WellFormed, NoTaskYet, Will
  <2> QED
    BY <1>5, <2>1, <2>2 DEF InBroker
(* The calls of a request on its way to its place.                          *)
<1>8. ASSUME NEW r \in Requests, CountActive(r) \/ CheckQueueSize(r) \/ Create(r) PROVE Tally(t)'
  <2>1. /\ proc[r].at \in Starting /\ UNCHANGED <<rows, queue, regens>>
        /\ Becomes(r, Idle) \/ \E label : Becomes(r, Moved(r, label))
    BY <1>8 DEF CountActive, CheckQueueSize, Create, At, Starting, bounds
  <2>2. \A label : Moved(r, label).task = proc[r].task
    BY <1>q, <1>t DEF Moved, Process
  <2>3. Will(proc[r]) /\ Idle.task # t
    BY <2>1 DEF Will, Starting, Idle
  <2> QED
    BY <1>q, <1>1, <1>i, <2>1, <2>2, <2>3
<1>9. ASSUME NEW r \in Requests, Park(r) PROVE Tally(t)'
  <2> DEFINE u == proc[r].task
  <2>1. /\ Becomes(r, Idle) /\ proc[r].at = "park" /\ queue' = Append(queue, u)
        /\ UNCHANGED <<rows, regens>> /\ r \in Procs
    BY <1>9, <1>q DEF Park, At, bounds
  <2>2. u \in Tasks /\ ~ Occurs(queue, u)
    BY <1>t, <2>1 DEF Process, WellFormed, NoTaskYet, LineInv, ParkInv, Occurs, InQueue
  <2>3. \A v : Occurs(queue', v) <=> Occurs(queue, v) \/ v = u
    BY <1>f, <2>1, <2>2, AppendLine
  <2>4. Idle.task # t
    BY DEF Idle
  <2>5. CASE u # t
    BY <1>1, <2>1, <2>3, <2>4, <2>5 DEF InQueue, Occurs
  <2>6. CASE u = t
    <3>1. /\ IsFiniteSet(Holders(t)') /\ Cardinality(Holders(t)') \in Nat
          /\ Cardinality(Holders(t)') = Cardinality(Holders(t)) - 1
      BY <1>0, <1>m, <2>1, <2>4, <2>6, HoldersLose DEF Will
    <3>2. /\ RowsOf(t)' = RowsOf(t) /\ regens'[t] = regens[t]
          /\ Placeholder(t)' \in 0..1 /\ Placeholder(t) = 0
      BY <1>r, <2>1, <2>2, <2>6 DEF Placeholder, InQueue, Occurs
    <3> QED
      BY <1>0, <1>c, <3>1, <3>2 DEF Tally
  <2> QED
    BY <2>5, <2>6
<1>10. ASSUME NEW r \in Requests, RemoveFromQueue(r) PROVE Tally(t)'
  <2>1. /\ Becomes(r, Moved(r, "fetch")) /\ proc[r].at = "unpark_cancel" /\ r \in Procs
        /\ queue' = Without(queue, proc[r].task) /\ UNCHANGED <<rows, regens>>
    BY <1>10, <1>q DEF RemoveFromQueue, At, bounds
  <2>2. /\ Moved(r, "fetch").task = proc[r].task /\ Moved(r, "fetch").at = "fetch"
        /\ Moved(r, "fetch").op = proc[r].op
    BY <1>t, <2>1 DEF Moved, Process
  <2>3. InQueue(t)' => InQueue(t)
    <3>1. Occurs(Without(queue, proc[r].task), t) => Occurs(queue, t)
      BY <1>f, WithoutLine
    <3> QED
      BY <2>1, <3>1 DEF InQueue, Occurs
  <2> QED
    BY <1>1, <2>1, <2>2, <2>3 DEF Will
<1>11. ASSUME NEW r \in Requests, Delete(r) PROVE Tally(t)'
  <2>1. /\ proc[r].at \in {"delete", "unlist", "unflag", "unpark"} /\ r \in Procs
        /\ queue' = queue \/ queue' = Without(queue, proc[r].task)
        /\ UNCHANGED <<rows, regens>>
        /\ Becomes(r, Idle) \/ \E label \in Deleting : Becomes(r, Moved(r, label))
    BY <1>11, <1>q DEF Delete, At, Deleting, bounds
  <2>2. \A label : Moved(r, label).at = label /\ Moved(r, label).op = proc[r].op
    BY <1>t, <2>1 DEF Moved, Process
  <2>3. Idle.task # t /\ \A label \in Deleting : ~ Will(Moved(r, label))
    BY <1>n, <2>1, <2>2 DEF Will, Deleting, Idle, Writing
  <2>4. InQueue(t)' => InQueue(t)
    <3>1. Occurs(Without(queue, proc[r].task), t) => Occurs(queue, t)
      BY <1>f, WithoutLine
    <3> QED
      BY <2>1, <3>1 DEF InQueue, Occurs
  <2> QED
    BY <1>1, <2>1, <2>3, <2>4
<1>12. ASSUME NEW p \in Procs, Store(p) PROVE Tally(t)'
  <2> DEFINE o == proc[p].op
             b == [proc[p] EXCEPT !.snap = NoRecord]
             s == Then(o, b)
  <2>1. Becomes(p, s) /\ UNCHANGED <<queue, rows, regens>> /\ proc[p].at = "store"
    BY <1>12 DEF Store, At, bounds
  <2>2. o \in Ops \ {"none"} /\ b \in Process /\ b.task = proc[p].task
    BY <1>t, <2>1, NoRecordType DEF Process, WellFormed, Writing
  <2> HIDE DEF b
  <2>3. s.task = t /\ Will(s) => proc[p].task = t /\ o \in {"promote", "checking", "reset"}
    <3> HIDE DEF o
    <3> QED
      BY <2>2, ThenLine, ThenWill
  <2>4. o \in {"promote", "checking", "reset"} => Will(proc[p])
    BY DEF Will
  <2> HIDE DEF s, o
  <2> QED
    BY <1>1, <1>i, <2>1, <2>3, <2>4
<1>13. ASSUME NEW j \in Jobs, InsertRow(j) PROVE Tally(t)'
  <2> DEFINE u == proc[j].task
             row == [task |-> u, status |-> "DRAFTING", doc |-> FALSE]
  <2>1. PICK s : s = [proc[j] EXCEPT !.at = "fetch", !.op = "attach", !.row = Len(rows) + 1]
    OBVIOUS
  <2>2. /\ Becomes(j, s) /\ proc[j].at = "insert" /\ j \in Procs
        /\ rows' = Append(rows, row) /\ UNCHANGED <<queue, regens>>
    BY <1>13, <1>q, <2>1 DEF InsertRow, At, redis, bounds
  <2>3. ~ Will(s) /\ Will(proc[j])
    BY <1>t, <2>1, <2>2 DEF Will, Process
  <2>4. u \in Tasks
    BY <1>t, <2>2 DEF Process, WellFormed, NoTaskYet
  <2>r. row \in Rows /\ row.task = u
    BY <2>4 DEF Rows, RowStatuses
  <2> HIDE DEF row
  <2> DEFINE n == Len(rows) + 1
  <2>5. /\ \A i \in DOMAIN rows : rows'[i] = rows[i] /\ i \in DOMAIN rows'
        /\ \A i \in DOMAIN rows' : i \in DOMAIN rows \/ i = n
        /\ rows'[n] = row
    <3>1. /\ Len(rows') = Len(rows) + 1
          /\ \A i \in 1..Len(rows) : rows'[i] = rows[i]
          /\ rows'[Len(rows) + 1] = row
      BY <1>f, <2>2, <2>r, AppendProperties
    <3>2. /\ DOMAIN rows' = 1..(Len(rows) + 1) /\ DOMAIN rows = 1..Len(rows)
          /\ Len(rows) \in Nat
      BY <1>f, <3>1, LenProperties DEF TypeInv, TypeOK
    <3> QED
      BY <3>1, <3>2
  <2> HIDE DEF n
  <2>6. CASE u # t
    <3>1. RowsOf(t)' = RowsOf(t)
      BY <2>r, <2>5, <2>6 DEF RowsOf
    <3>2. OnlyMoves(j) /\ ~ Will(proc'[j]) /\ regens'[t] = regens[t]
      BY <1>m, <2>2, <2>3
    <3> QED
      BY <1>0, <1>i, <2>2, <3>1, <3>2, StepKeepsTally
  <2>7. CASE u = t
    <3>1. RowsOf(t)' \subseteq RowsOf(t) \cup {n}
      BY <2>5 DEF RowsOf
    <3>2. /\ IsFiniteSet(RowsOf(t) \cup {n})
          /\ \/ Cardinality(RowsOf(t) \cup {n}) = Cardinality(RowsOf(t))
             \/ Cardinality(RowsOf(t) \cup {n}) = Cardinality(RowsOf(t)) + 1
      BY <1>0, FS_AddElement DEF Tally
    <3>3. IsFiniteSet(RowsOf(t)') /\ Cardinality(RowsOf(t)') <= Cardinality(RowsOf(t) \cup {n})
      BY <3>1, <3>2, FS_Subset
    <3>4. Cardinality(RowsOf(t)') \in Nat
      BY <3>3, FS_CardinalityType
    <3>5. /\ IsFiniteSet(Holders(t)') /\ Cardinality(Holders(t)') \in Nat
          /\ Cardinality(Holders(t)') = Cardinality(Holders(t)) - 1
      BY <1>0, <1>m, <2>2, <2>3, <2>7, HoldersLose
    <3>6. Placeholder(t)' = Placeholder(t) /\ regens'[t] = regens[t]
      BY <1>i, <2>2 DEF Placeholder
    <3> QED
      BY <1>0, <1>c, <3>2, <3>3, <3>4, <3>5, <3>6 DEF Tally
  <2> QED
    BY <2>6, <2>7
<1>14. ASSUME NEW p \in Procs, DrainPop(p) PROVE Tally(t)'
  <2>1. UNCHANGED <<rows, regens>>
    BY <1>14 DEF DrainPop, bounds
  <2>2. CASE queue = <<>>
    BY <1>14, <1>1, <1>i, <2>1, <2>2 DEF DrainPop, Idle
  <2>3. CASE queue # <<>>
    <3>1. /\ Occurs(queue, Head(queue))
          /\ \A u : Occurs(Tail(queue), u) <=> Occurs(queue, u) /\ u # Head(queue)
      BY <1>f, <2>3, TailLine
    <3>2. PICK s : s = [Idle EXCEPT !.at = "peek", !.task = Head(queue)]
      OBVIOUS
    <3>3. Becomes(p, s) /\ queue' = Tail(queue) /\ s.task = Head(queue)
      BY <1>14, <2>3, <3>2 DEF DrainPop, Idle
    <3>4. CASE t # Head(queue)
      BY <1>1, <2>1, <3>1, <3>3, <3>4 DEF InQueue, Occurs
    <3>5. CASE t = Head(queue)
      <4>1. /\ IsFiniteSet(Holders(t)') /\ Cardinality(Holders(t)') \in Nat
            /\ Cardinality(Holders(t)') <= Cardinality(Holders(t)) + 1
        BY <1>0, <1>m, <3>3, HoldersGain
      <4>2. Placeholder(t) = 1 /\ Placeholder(t)' = 0
        BY <3>1, <3>3, <3>5 DEF Placeholder, InQueue, Occurs
      <4>3. RowsOf(t)' = RowsOf(t) /\ regens'[t] = regens[t]
        BY <1>r, <2>1
      <4> QED
        BY <1>0, <1>c, <4>1, <4>2, <4>3 DEF Tally
    <3> QED
      BY <3>4, <3>5
  <2> QED
    BY <2>2, <2>3
<1>15. CASE UNCHANGED vars \/ \E u \in Tasks : Expire(u)
  <2>1. UNCHANGED <<rows, queue, proc, regens>>
    BY <1>15 DEF vars, Expire
  <2>2. Holders(t)' \subseteq Holders(t)
    BY <2>1 DEF Holders, Will
  <2> QED
    BY <1>0, <1>r, <1>i, <2>1, <2>2, TallyKept
<1>16. ASSUME NEW p \in Procs, QuietAction(p) PROVE Tally(t)'
  BY <1>0, <1>16, QuietKeepsTally
<1> QED
  BY <1>q, <1>2, <1>3, <1>4, <1>6, <1>7, <1>8, <1>9, <1>10, <1>11, <1>12, <1>13, <1>14, <1>15,
     <1>16
     DEF Next, Call, Serve, Work, Share, QuietAction

(* One log row per request that asked for a draft of the task, however      *)
(* drains, cancels, retries, crashes and expiries interleave.               *)
THEOREM RowPerRequestCorrect == Spec => []RowPerRequest
<1>1. Init => TypeInv /\ LineInv /\ TallyInv
  BY TypeInit, LineInit, TallyInit
<1>2. TypeInv /\ LineInv /\ TallyInv /\ [Next]_vars => (TypeInv /\ LineInv /\ TallyInv)'
  BY TypeNext, LineNext, TallyNext
<1>3. TypeInv /\ TallyInv => RowPerRequest
  <2> SUFFICES ASSUME TypeInv, TallyInv, NEW t \in Tasks
               PROVE  Cardinality(RowsOf(t)) <= 1 + regens[t]
    BY DEF RowPerRequest, RowsOf
  <2>1. Tally(t)
    BY DEF TallyInv
  <2>2. /\ Cardinality(RowsOf(t)) \in Nat /\ Cardinality(Holders(t)) \in Nat
        /\ regens[t] \in Nat /\ Placeholder(t) \in 0..1
    BY <2>1, ConstantsAssumption, FS_CardinalityType DEF Tally, Placeholder, TypeInv, TypeOK
  <2> QED
    BY <2>1, <2>2 DEF Tally
<1> QED
  BY <1>1, <1>2, <1>3, PTL DEF Spec
-----------------------------------------------------------------------------
(***************************************************************************)
(* Documents.  Where no route takes a log_id away from a running job and no*)
(* key expires, a task passes through three phases that do not overlap: one*)
(* process holds its right to a row (early), an earlier document was found *)
(* for it, or its row was attached and jobs draft (late).  Cancels race    *)
(* with all of them; a cancel that writes back a record without the log_id *)
(* has raised the flag before, and the engine's result is then dropped.    *)
(***************************************************************************)
Undisturbed ==
  Api \cap {"regenerate", "dismiss", "dismiss_active"} = {} /\ MaxExpiries = 0

LateOps  == {"drafting", "redrafting", "awaiting", "failed", "completed"}
Early(s) == Will(s) \/ s.op = "attach"
Found(s) == s.op \in {"existing", "adopt"}
Late(s)  ==
  s.op \in LateOps \/ s.at \in {"queued_resume", "load", "row_drafting", "engine",
                                "row_completed", "row_cancelled"}
Before  == {"NONE", "QUEUED", "PENDING", "CHECKING_EXISTING", "CANCELLED"}
After   == {"DRAFTING", "AWAITING_INPUT", "FAILED"}

(* A reference to a row, if set, is to a row of the case and template of t, *)
(* and one that is offered or shown to the user is to a document.           *)
RowRef(i, t) == i # 0 => i \in DOMAIN rows /\ DraftOf[rows[i].task] = DraftOf[t]
DocRef(i, t) == RowRef(i, t) /\ (i # 0 => rows[i].doc)

(* What a process knows: the task's record, ...                             *)
SnapOK(s) ==
  /\ s.at \in {"flag", "store"} =>
       s.snap.status # "NONE" /\ RowRef(s.snap.log, s.task) /\ DocRef(s.snap.existing, s.task)
  /\ s.at = "store" /\ s.op = "attach" => s.snap.status \in Before
  /\ s.at = "store" /\ s.op \in LateOps => s.snap.log # 0 \/ s.task \in flags
(* ... its row, ...                                                         *)
RowOK(s) ==
  /\ RowRef(s.row, s.task)
  /\ s.op \in {"existing", "adopt", "completed"} => s.row # 0 /\ DocRef(s.row, s.task)
  /\ s.op = "attach" \/ s.at = "row_completed" => s.row # 0
  /\ s.op \in {"drafting", "redrafting"} \/ s.at \in {"row_drafting", "engine"} =>
       s.row # 0 \/ s.task \in flags
(* ... and that the task is still there.                                    *)
Knows(s) ==
  /\ s.at \notin Deleting /\ s.op # "reset"
  /\ s.at \in {"flag", "unpark_cancel"} => s.op = "cancelled"
  /\ s.task \in Tasks =>
       /\ s.at \notin Starting => Exists(s.task)
       /\ s.at = "store" /\ s.op = "cancelled" => s.task \in flags
       /\ SnapOK(s) /\ RowOK(s)
KnowsInv == \A p \in Procs : Knows(proc[p])

(* While a process holds the right to a row only cancels are about the task.*)
OnItsOwn(t) ==
  \A p \in Procs : proc[p].task = t /\ Early(proc[p]) =>
    /\ records[t].status \in Before
    /\ \A q \in Procs \ {p} : proc[q].task = t => proc[q].op = "cancelled"

(* Once the row was attached nobody looks for or adopts another one, and the*)
(* log_id is there unless the flag is.                                      *)
Drafted(t) ==
  records[t].status \in After \/ \E p \in Procs : proc[p].task = t /\ Late(proc[p])
PastIt(t) ==
  Drafted(t) =>
    /\ records[t].status # "EXISTING_FOUND"
    /\ records[t].log # 0 \/ t \in flags
    /\ \A q \in Procs : proc[q].task = t => ~ Early(proc[q]) /\ ~ Found(proc[q])
PhaseInv == \A t \in Tasks : OnItsOwn(t) /\ PastIt(t)

RecordOK(t) ==
  /\ RowRef(records[t].log, t) /\ DocRef(records[t].existing, t)
  /\ records[t].status = "COMPLETED" => records[t].log # 0 /\ DocRef(records[t].log, t)
  /\ InQueue(t) => Exists(t)
RecordInv == \A t \in Tasks : RecordOK(t)

(* A COMPLETED row holds a document.                                        *)
RowInv == \A i \in DOMAIN rows : rows[i].status = "COMPLETED" => rows[i].doc

DocInv == KnowsInv /\ PhaseInv /\ RecordInv /\ RowInv

(* There are no rows and no documents at first. *)
LEMMA DocInit == Init => DocInv
<1> SUFFICES ASSUME Init PROVE DocInv
  OBVIOUS
<1>1. /\ \A p \in Procs : proc[p] = Idle
      /\ \A t \in Tasks : records[t] = NoRecord
      /\ DOMAIN rows = {} /\ DOMAIN queue = {}
  BY DEF Init
<1>2. KnowsInv
  BY <1>1, ConstantsAssumption DEF KnowsInv, Knows, Idle, Deleting
<1>3. PhaseInv
  BY <1>1, ConstantsAssumption
     DEF PhaseInv, OnItsOwn, PastIt, Drafted, Idle, NoRecord, After
<1>4. RecordInv
  BY <1>1 DEF RecordInv, RecordOK, NoRecord, RowRef, DocRef, InQueue
<1>5. RowInv
  BY <1>1 DEF RowInv
<1> QED
  BY <1>2, <1>3, <1>4, <1>5 DEF DocInv

(* Rows are added and marked, never removed or emptied of their document.   *)
RowsGrow ==
  \A i \in DOMAIN rows :
    i \in DOMAIN rows' /\ rows'[i].task = rows[i].task /\ (rows[i].doc => rows'[i].doc)

(* A row that is there stays there. *)
LEMMA RefsStay ==
  ASSUME RowsGrow, NEW i, NEW t
  PROVE  (RowRef(i, t) => RowRef(i, t)') /\ (DocRef(i, t) => DocRef(i, t)')
BY DEF RowsGrow, RowRef, DocRef

(* Writing a row keeps the others, and a document once it is there. *)
LEMMA RowSetGrows ==
  ASSUME NEW r, NEW status, rows' = RowSet(r, status), RowInv, rows \in Seq(Rows)
  PROVE  /\ RowsGrow /\ RowInv'
         /\ status = "COMPLETED" /\ r # 0 /\ r \in DOMAIN rows => rows'[r].doc
<1>b. \A i \in DOMAIN rows : rows[i].doc \in BOOLEAN
  <2>1. rows \in [1..Len(rows) -> Rows]
    BY LenProperties
  <2> QED
    BY <2>1 DEF Rows
<1>1. CASE r = 0
  BY <1>1 DEF RowSet, RowsGrow, RowInv
<1>2. CASE r # 0
  <2>1. DOMAIN rows' = DOMAIN rows
    BY <1>2 DEF RowSet
  <2>2. \A i \in DOMAIN rows \ {r} : rows'[i] = rows[i]
    BY <1>2 DEF RowSet
  <2>3. r \in DOMAIN rows =>
          rows'[r] = [task |-> rows[r].task, status |-> status,
                      doc |-> rows[r].doc \/ status = "COMPLETED"]
    BY <1>2 DEF RowSet
  <2>4. ASSUME r \in DOMAIN rows
        PROVE  /\ rows'[r].task = rows[r].task /\ rows'[r].status = status
               /\ rows'[r].doc = (rows[r].doc \/ status = "COMPLETED")
    BY <2>3, <2>4
  <2>5. RowsGrow
    BY <1>b, <2>1, <2>2, <2>4 DEF RowsGrow
  <2>6. RowInv'
    <3>1. ASSUME NEW i \in DOMAIN rows', rows'[i].status = "COMPLETED" PROVE rows'[i].doc
      <4>1. CASE i = r
        BY <1>b, <2>1, <2>4, <3>1, <4>1
      <4>2. CASE i # r
        BY <2>1, <2>2, <3>1, <4>2 DEF RowInv
      <4> QED
        BY <4>1, <4>2
    <3> QED
      BY <3>1 DEF RowInv
  <2>7. status = "COMPLETED" /\ r \in DOMAIN rows => rows'[r].doc
    BY <1>b, <2>4
  <2> QED
    BY <2>5, <2>6, <2>7
<1> QED
  BY <1>1, <1>2

(* What a step leaves to be shown.                                          *)
Grows ==
  /\ RowsGrow /\ RowInv' /\ flags \subseteq flags'
  /\ \A t \in Tasks : Exists(t) => Exists(t)'

(* What a process knows of its row stays true. *)
LEMMA KnowsStays ==
  ASSUME NEW s, Knows(s), Grows
  PROVE  Knows(s)'
<1>1. \A i, t : (RowRef(i, t) => RowRef(i, t)') /\ (DocRef(i, t) => DocRef(i, t)')
  BY RefsStay DEF Grows
<1>2. s.task \in Tasks => (SnapOK(s) => SnapOK(s)') /\ (RowOK(s) => RowOK(s)')
  BY <1>1 DEF SnapOK, RowOK, Grows
<1> QED
  BY <1>2 DEF Knows, Grows

(* A step of p: what it knows afterwards, the records and the phases.       *)
LEMMA DocKept ==
  ASSUME DocInv, NEW p \in Procs, OnlyMoves(p), Grows, Knows(proc[p])', RecordInv', PhaseInv'
  PROVE  DocInv'
<1>1. ASSUME NEW q \in Procs PROVE Knows(proc[q])'
  <2>1. CASE q = p
    BY <2>1
  <2>2. CASE q # p
    <3>1. PICK s : s = proc[q]
      OBVIOUS
    <3>2. proc'[q] = s /\ Knows(s)'
      BY <2>2, <3>1, KnowsStays DEF OnlyMoves, DocInv, KnowsInv
    <3> QED
      BY <3>2 DEF Knows, SnapOK, RowOK, RowRef, DocRef, Exists
  <2> QED
    BY <2>1, <2>2
<1> QED
  BY <1>1 DEF DocInv, KnowsInv, Grows

(* A record that is left alone.                                             *)
LEMMA RecordKept ==
  ASSUME NEW t \in Tasks, RecordOK(t), RowsGrow, records'[t] = records[t],
         InQueue(t)' => Exists(t)
  PROVE  RecordOK(t)'
<1>1. PICK rec : rec = records[t] /\ rec = records'[t]
  OBVIOUS
<1> QED
  BY <1>1, RefsStay DEF RecordOK, Exists, RowRef, DocRef

(* A step of p that stays in its phase, or only cancels.                    *)
Stays(o, n) ==
  n.task \in Tasks =>
    \/ n.op = "cancelled"
    \/ /\ o.task = n.task /\ o.op # "cancelled"
       /\ Early(n) => Early(o)
       /\ Found(n) => Found(o)
       /\ Late(n) => Late(o)

(* A write of a cancel is no step of a job. *)
LEMMA CancelsApart ==
  ASSUME NEW s, WellFormed(s), s.op = "cancelled"
  PROVE  ~ Early(s) /\ ~ Found(s) /\ ~ Late(s)
BY DEF WellFormed, Writing, Early, Will, Found, Late, LateOps

(* Steps beside a job keep it in its phase. *)
LEMMA PhaseKept ==
  ASSUME TypeInv, TypeInv', NEW t \in Tasks, OnItsOwn(t), PastIt(t), NEW p \in Procs,
         OnlyMoves(p), proc'[p].task = t => Stays(proc[p], proc'[p]),
         records'[t] = records[t], flags \subseteq flags'
  PROVE  OnItsOwn(t)' /\ PastIt(t)'
<1>w. \A q \in Procs : WellFormed(proc'[q])
  BY DEF TypeInv, ProcsOK, WellFormed
<1>1. ASSUME NEW q \in Procs, proc'[q].task = t
      PROVE  \/ proc'[q].op = "cancelled"
             \/ /\ proc[q].task = t /\ proc[q].op # "cancelled"
                /\ Early(proc'[q]) => Early(proc[q])
                /\ Found(proc'[q]) => Found(proc[q])
                /\ Late(proc'[q]) => Late(proc[q])
  BY <1>1 DEF Stays, OnlyMoves
<1>2. \A q \in Procs : proc'[q].op = "cancelled" =>
         ~ Early(proc'[q]) /\ ~ Found(proc'[q]) /\ ~ Late(proc'[q])
  BY <1>w, CancelsApart
<1>3. \A q \in Procs : proc'[q].task = t =>
         /\ Early(proc'[q]) => proc[q].task = t /\ Early(proc[q])
         /\ Found(proc'[q]) => proc[q].task = t /\ Found(proc[q])
         /\ Late(proc'[q]) => proc[q].task = t /\ Late(proc[q])
         /\ proc'[q].op = "cancelled" \/ (proc[q].task = t /\ proc[q].op # "cancelled")
  BY <1>1, <1>2
<1>4. OnItsOwn(t)'
  <2>1. ASSUME NEW q \in Procs, proc'[q].task = t, Early(proc'[q])
        PROVE  /\ records'[t].status \in Before
               /\ \A u \in Procs \ {q} : proc'[u].task = t => proc'[u].op = "cancelled"
    BY <1>3, <2>1 DEF OnItsOwn
  <2> QED
    BY <2>1 DEF OnItsOwn, Early, Will
<1>5. PastIt(t)'
  <2>1. Drafted(t)' => Drafted(t)
    <3>1. (\E q \in Procs : proc'[q].task = t /\ Late(proc'[q])) =>
             \E q \in Procs : proc[q].task = t /\ Late(proc[q])
      BY <1>3
    <3> QED
      BY <3>1 DEF Drafted, Late
  <2>2. ASSUME Drafted(t)
        PROVE  \A q \in Procs : proc'[q].task = t => ~ Early(proc'[q]) /\ ~ Found(proc'[q])
    BY <1>3, <2>2 DEF PastIt
  <2>3. Drafted(t) => records'[t].status # "EXISTING_FOUND" /\ (records'[t].log # 0 \/ t \in flags')
    BY DEF PastIt
  <2> QED
    BY <2>1, <2>2, <2>3 DEF PastIt, Early, Will, Found
<1> QED
  BY <1>4, <1>5

(* Three ways to re-establish the phases of t by a step of p: only cancels  *)
(* are left beside p, ...                                                   *)
LEMMA AlonePhase ==
  ASSUME TypeInv, TypeInv', NEW t \in Tasks, NEW p \in Procs, OnlyMoves(p),
         records'[t].status \in Before, ~ Late(proc'[p]),
         \A q \in Procs \ {p} : proc[q].task = t => proc[q].op = "cancelled"
  PROVE  OnItsOwn(t)' /\ PastIt(t)'
<1>1. \A q \in Procs \ {p} : proc'[q].task = t =>
        /\ proc'[q].op = "cancelled"
        /\ ~ Early(proc'[q]) /\ ~ Found(proc'[q]) /\ ~ Late(proc'[q])
  BY CancelsApart DEF OnlyMoves, TypeInv, ProcsOK
<1>2. OnItsOwn(t)'
  <2>1. \A q \in Procs : proc'[q].task = t /\ Early(proc'[q]) => q = p
    BY <1>1
  <2> QED
    BY <1>1, <2>1 DEF OnItsOwn, Early, Will
<1>3. ~ Drafted(t)'
  <2>1. \A q \in Procs : ~ (proc'[q].task = t /\ Late(proc'[q]))
    BY <1>1
  <2> QED
    BY <2>1 DEF Drafted, Before, After, Late
<1> QED
  BY <1>2, <1>3 DEF PastIt

(* ... the task was drafted, ...                                            *)
LEMMA DraftedPhase ==
  ASSUME NEW t \in Tasks, records'[t].status # "EXISTING_FOUND",
         records'[t].log # 0 \/ t \in flags',
         \A q \in Procs : proc'[q].task = t => ~ Early(proc'[q]) /\ ~ Found(proc'[q])
  PROVE  OnItsOwn(t)' /\ PastIt(t)'
<1>1. OnItsOwn(t)'
  BY DEF OnItsOwn, Early, Will
<1>2. PastIt(t)'
  BY DEF PastIt, Early, Will, Found
<1> QED
  BY <1>1, <1>2

(* ... or an earlier document was found for it and nothing drafts.          *)
LEMMA FoundPhase ==
  ASSUME NEW t \in Tasks, records'[t].status \notin After,
         \A q \in Procs : proc'[q].task = t => ~ Early(proc'[q]) /\ ~ Late(proc'[q])
  PROVE  OnItsOwn(t)' /\ PastIt(t)'
<1>1. OnItsOwn(t)'
  BY DEF OnItsOwn, Early, Will
<1>2. ~ Drafted(t)'
  BY DEF Drafted, Late
<1> QED
  BY <1>1, <1>2 DEF PastIt

(* A step of p that leaves the records alone and its task in its phase.     *)
LEMMA QuietKeepsDoc ==
  ASSUME TypeInv, TypeInv', DocInv, NEW p \in Procs, NEW s, Becomes(p, s),
         Stays(proc[p], s), Knows(s)', UNCHANGED records, RowsGrow, RowInv',
         flags \subseteq flags', \A t \in Tasks : InQueue(t)' => Exists(t)
  PROVE  DocInv'
<1>1. OnlyMoves(p) /\ proc'[p] = s
  BY BecomesMoves
<1>2. RecordInv'
  <2>1. \A t \in Tasks : RecordOK(t)'
    BY RecordKept DEF DocInv, RecordInv
  <2> QED
    BY <2>1 DEF RecordInv
<1>3. PhaseInv'
  <2>1. \A t \in Tasks : OnItsOwn(t)' /\ PastIt(t)'
    BY <1>1, PhaseKept DEF DocInv, PhaseInv
  <2> QED
    BY <2>1 DEF PhaseInv
<1>4. Grows
  BY DEF Grows, Exists
<1>5. Knows(proc[p])'
  BY <1>1 DEF Knows, SnapOK, RowOK, RowRef, DocRef, Exists
<1> QED
  BY <1>1, <1>2, <1>3, <1>4, <1>5, DocKept

(* The same for a step that changes nothing but the state of p.             *)
LEMMA MoveKeepsDoc ==
  ASSUME TypeInv, TypeInv', DocInv, NEW p \in Procs, NEW s, Becomes(p, s),
         Stays(proc[p], s), Knows(s), UNCHANGED <<records, rows>>, flags \subseteq flags',
         \A t \in Tasks : InQueue(t)' => Exists(t)
  PROVE  DocInv'
<1>1. RowsGrow /\ RowInv'
  BY DEF RowsGrow, DocInv, RowInv
<1>2. Grows
  BY <1>1 DEF Grows, Exists
<1>3. Knows(s)'
  BY <1>2, KnowsStays
<1> QED
  BY <1>1, <1>3, QuietKeepsDoc

(* Reads, and the work of a job apart from the log row it adds.             *)
LEMMA QuietKeepsDocs ==
  ASSUME TypeInv, TypeInv', DocInv, NEW p \in Procs, QuietAction(p)
  PROVE  DocInv'
<1> USE ConstantsAssumption
<1>1. QuietStep(p)
  BY QuietActions
<1>2. \A t \in Tasks : InQueue(t)' => Exists(t)
  BY <1>1 DEF QuietStep, InQueue, DocInv, RecordInv, RecordOK
<1>t. /\ proc[p] \in Process /\ WellFormed(proc[p]) /\ rows \in Seq(Rows)
      /\ records \in [Tasks -> Records]
  BY DEF TypeInv, ProcsOK, TypeOK
<1>k. Knows(proc[p])
  BY DEF DocInv, KnowsInv
<1>p. ASSUME proc[p].task \in Tasks
      PROVE  /\ OnItsOwn(proc[p].task) /\ PastIt(proc[p].task) /\ RecordOK(proc[p].task)
             /\ Early(proc[p]) => records[proc[p].task].status \in Before
             /\ Late(proc[p]) => records[proc[p].task].log # 0 \/ proc[p].task \in flags
  BY <1>p DEF DocInv, PhaseInv, RecordInv, OnItsOwn, PastIt, Drafted
<1>n. proc[p].at \notin Writing => proc[p].op = "none"
  BY <1>t DEF WellFormed
<1>x. proc[p].at \notin NoTaskYet => proc[p].task \in Tasks
  BY <1>t DEF WellFormed, Process
<1>i. /\ Idle.at = "idle" /\ Idle.op = "none" /\ Idle.task \notin Tasks
      /\ [Idle EXCEPT !.at = "drain"].at = "drain"
      /\ [Idle EXCEPT !.at = "drain"].op = "none"
      /\ [Idle EXCEPT !.at = "drain"].task \notin Tasks
  BY DEF Idle
<1> DEFINE to(l, o) == [proc[p] EXCEPT !.at = l, !.op = o]
           with(o, i) == [proc[p] EXCEPT !.at = "fetch", !.op = o, !.row = i]
<1>a. \A l, o, i :
        /\ to(l, o).at = l /\ to(l, o).op = o /\ to(l, o).task = proc[p].task
        /\ to(l, o).row = proc[p].row /\ to(l, o).snap = proc[p].snap
        /\ with(o, i).at = "fetch" /\ with(o, i).op = o /\ with(o, i).task = proc[p].task
        /\ with(o, i).row = i /\ with(o, i).snap = proc[p].snap
  BY <1>t DEF Process
<1>b. \A l : Moved(p, l) = to(l, proc[p].op)
  BY <1>t DEF Moved, Process
<1> HIDE DEF to, with
(* A process that lost its task. *)
<1>e. ASSUME NEW s, s.task \notin Tasks, s.at \in {"idle", "drain", "pop"}, s.op = "none"
      PROVE  Knows(s) /\ Knows(s)' /\ Stays(proc[p], s)
  BY <1>e DEF Knows, Deleting, Stays
<1>3. CASE SetCancelFlag(p)
  <2>1. /\ Becomes(p, to("store", proc[p].op)) /\ proc[p].at = "flag"
        /\ UNCHANGED <<records, rows>> /\ flags' = flags \cup {proc[p].task}
    BY <1>3, <1>b DEF SetCancelFlag, At
  <2>2. PICK s : s = to("store", proc[p].op)
    OBVIOUS
  <2>3. /\ s.at = "store" /\ s.op = "cancelled" /\ s.task = proc[p].task /\ s.row = proc[p].row
        /\ s.snap = proc[p].snap /\ s.task \in Tasks
    BY <1>a, <1>k, <1>x, <2>1, <2>2 DEF Knows, NoTaskYet
  <2>4. RowsGrow /\ RowInv'
    BY <2>1 DEF RowsGrow, DocInv, RowInv
  <2>5. Knows(s)'
    <3>1. SnapOK(s)'
      BY <1>k, <2>1, <2>3 DEF Knows, SnapOK, RowRef, DocRef, LateOps
    <3>2. RowOK(s)'
      BY <1>k, <2>1, <2>3 DEF Knows, RowOK, RowRef
    <3>3. Exists(s.task)'
      BY <1>k, <2>1, <2>3 DEF Knows, Starting, Exists
    <3> QED
      BY <2>1, <2>3, <3>1, <3>2, <3>3 DEF Knows, Deleting
  <2>6. Stays(proc[p], s)
    BY <2>3 DEF Stays
  <2> QED
    BY <1>2, <2>1, <2>2, <2>4, <2>5, <2>6, QuietKeepsDoc
<1>4. CASE FindForDelete(p)
  BY <1>4, <1>k DEF FindForDelete, At, Knows, Deleting
<1>5. CASE Fetch(p)
  <2>1. /\ proc[p].at = "fetch" /\ proc[p].task \in Tasks /\ Exists(proc[p].task)
        /\ UNCHANGED <<records, rows, flags>>
    BY <1>5, <1>k, <1>x DEF Fetch, At, NoTaskYet, Knows, Starting, redis
  <2>2. PICK label \in {"flag", "store"} :
          label = IF proc[p].op = "cancelled" THEN "flag" ELSE "store"
    OBVIOUS
  <2>3. PICK s : s = [proc[p] EXCEPT !.at = label, !.snap = records[proc[p].task]]
    OBVIOUS
  <2>4. Becomes(p, s)
    BY <1>5, <2>1, <2>2, <2>3 DEF Fetch
  <2>5. /\ s.at = label /\ s.op = proc[p].op /\ s.task = proc[p].task /\ s.row = proc[p].row
        /\ s.snap = records[s.task]
    BY <1>t, <2>3 DEF Process
  <2>6. proc[p].op = "attach" => Early(proc[p])
    BY DEF Early
  <2>7. proc[p].op \in LateOps => Late(proc[p])
    BY DEF Late
  <2>8. SnapOK(s)
    <3>1. s.snap.status # "NONE" /\ RowRef(s.snap.log, s.task) /\ DocRef(s.snap.existing, s.task)
      BY <1>p, <2>1, <2>5 DEF Exists, RecordOK
    <3>2. s.op = "attach" => s.snap.status \in Before
      BY <1>p, <2>1, <2>5, <2>6
    <3>3. s.op \in LateOps => s.snap.log # 0 \/ s.task \in flags
      BY <1>p, <2>1, <2>5, <2>7
    <3> QED
      BY <3>1, <3>2, <3>3 DEF SnapOK
  <2>9. RowOK(s)
    BY <1>k, <2>1, <2>2, <2>5 DEF Knows, RowOK
  <2>10. Knows(s)
    <3>1. s.at = "store" => s.op # "cancelled"
      BY <2>2, <2>5
    <3>2. s.at = "flag" => s.op = "cancelled"
      BY <2>2, <2>5
    <3>3. s.at \notin Deleting /\ s.op # "reset" /\ s.at # "unpark_cancel" /\ s.at \notin Starting
      BY <1>k, <2>2, <2>5 DEF Knows, Deleting, Starting
    <3> QED
      BY <2>1, <2>5, <2>8, <2>9, <3>1, <3>2, <3>3 DEF Knows
  <2>11. Stays(proc[p], s)
    BY <2>1, <2>2, <2>5 DEF Stays, Early, Will, Found, Late
  <2> QED
    BY <1>2, <2>1, <2>4, <2>10, <2>11, MoveKeepsDoc
<1>6. CASE BeginDraft(p)
  <2>1. /\ Becomes(p, Idle) \/ Becomes(p, to("fetch", "checking"))
        /\ proc[p].at = "queued_draft"
        /\ UNCHANGED <<records, rows, flags>>
    BY <1>6 DEF BeginDraft, At, redis, to
  <2>2. Knows(to("fetch", "checking")) /\ Stays(proc[p], to("fetch", "checking"))
    BY <1>6, <1>a, <1>k, <1>n
       DEF BeginDraft, At, Knows, Deleting, Starting, SnapOK, RowOK, Stays, Early, Will, Found, Late,
       LateOps, Writing
  <2> QED
    BY <1>2, <1>e, <1>i, <2>1, <2>2, MoveKeepsDoc
<1>7. CASE BeginResume(p)
  <2>1. /\ Becomes(p, Idle) \/ Becomes(p, to("load", proc[p].op))
        /\ proc[p].at = "queued_resume" /\ UNCHANGED <<records, rows, flags>>
    BY <1>7, <1>b DEF BeginResume, At, redis
  <2>2. Knows(to("load", proc[p].op)) /\ Stays(proc[p], to("load", proc[p].op))
    BY <1>a, <1>k, <1>n, <2>1
       DEF Knows, Deleting, Starting, SnapOK, RowOK, Stays, Early, Will, Found, Late,
       LateOps, Writing
  <2> QED
    BY <1>2, <1>e, <1>i, <2>1, <2>2, MoveKeepsDoc
<1>8. CASE LoadForResume(p)
  <2> DEFINE log == records[proc[p].task].log
  <2>1. /\ Becomes(p, Idle) \/ Becomes(p, with("redrafting", log))
        /\ proc[p].at = "load" /\ UNCHANGED <<records, rows, flags>>
    BY <1>8 DEF LoadForResume, At, redis, with
  <2>2. PICK s : s = with("redrafting", log)
    OBVIOUS
  <2>3. /\ s.at = "fetch" /\ s.op = "redrafting" /\ s.task = proc[p].task /\ s.row = log
        /\ s.task \in Tasks /\ proc[p].op = "none"
    BY <1>a, <1>n, <1>x, <2>1, <2>2 DEF NoTaskYet, Writing
  <2>4. RowRef(s.row, s.task) /\ (s.row # 0 \/ s.task \in flags)
    BY <1>p, <2>1, <2>3 DEF RecordOK, Late
  <2>5. Knows(s)
    BY <1>k, <2>1, <2>3, <2>4 DEF Knows, SnapOK, RowOK, Deleting, Starting
  <2>6. Stays(proc[p], s)
    BY <2>1, <2>3 DEF Stays, Early, Will, Found, Late
  <2> QED
    BY <1>2, <1>e, <1>i, <2>1, <2>2, <2>5, <2>6, MoveKeepsDoc
<1>9. CASE MarkRowDrafting(p)
  <2>1. /\ Becomes(p, to("engine", proc[p].op)) /\ proc[p].at = "row_drafting"
        /\ rows' = RowSet(proc[p].row, "DRAFTING") /\ UNCHANGED <<records, flags>>
    BY <1>9, <1>b DEF MarkRowDrafting, At, redis
  <2>2. PICK s : s = to("engine", proc[p].op)
    OBVIOUS
  <2>3. /\ s.at = "engine" /\ s.op = "none" /\ s.task = proc[p].task /\ s.row = proc[p].row
        /\ proc[p].op = "none"
    BY <1>a, <1>n, <2>1, <2>2 DEF Writing
  <2>4. RowsGrow /\ RowInv'
    BY <1>t, <2>1, RowSetGrows DEF DocInv
  <2>5. Knows(s)
    BY <1>k, <2>1, <2>3 DEF Knows, SnapOK, RowOK, Deleting, Starting
  <2>6. Knows(s)' /\ Stays(proc[p], s)
    <3>1. Grows
      BY <2>1, <2>4 DEF Grows, Exists
    <3> QED
      BY <2>1, <2>3, <2>5, <3>1, KnowsStays DEF Stays, Early, Will, Found, Late
  <2> QED
    BY <1>2, <2>1, <2>2, <2>4, <2>6, QuietKeepsDoc
<1>10. CASE EngineFails(p) \/ EngineAsks(p)
  <2>1. PICK o \in {"failed", "awaiting"}, status \in {"FAILED", "AWAITING_INPUT"} :
          /\ Becomes(p, to("fetch", o)) /\ proc[p].at = "engine"
          /\ rows' = RowSet(proc[p].row, status) /\ UNCHANGED <<records, flags>>
    BY <1>10 DEF EngineFails, EngineAsks, EngineStops, At, redis, to
  <2>2. PICK s : s = to("fetch", o)
    OBVIOUS
  <2>3. /\ s.at = "fetch" /\ s.op = o /\ s.task = proc[p].task /\ s.row = proc[p].row
        /\ proc[p].op = "none"
    BY <1>a, <1>n, <2>1, <2>2 DEF Writing
  <2>4. RowsGrow /\ RowInv'
    BY <1>t, <2>1, RowSetGrows DEF DocInv
  <2>5. Knows(s)
    BY <1>k, <2>1, <2>3 DEF Knows, SnapOK, RowOK, Deleting, Starting
  <2>6. Knows(s)' /\ Stays(proc[p], s)
    <3>1. Grows
      BY <2>1, <2>4 DEF Grows, Exists
    <3> QED
      BY <2>1, <2>3, <2>5, <3>1, KnowsStays DEF Stays, Early, Will, Found, Late
  <2> QED
    BY <1>2, <2>1, <2>2, <2>4, <2>6, QuietKeepsDoc
<1>11. CASE EngineDelivers(p)
  <2>1. PICK label \in {"row_cancelled", "row_completed"} :
          /\ Becomes(p, to(label, proc[p].op)) /\ proc[p].at = "engine"
          /\ label = "row_completed" => proc[p].task \notin flags
          /\ UNCHANGED <<records, rows, flags>>
    BY <1>11, <1>b DEF EngineDelivers, At, redis
  <2>2. PICK s : s = to(label, proc[p].op)
    OBVIOUS
  <2>3. /\ s.at = label /\ s.op = "none" /\ s.task = proc[p].task /\ s.row = proc[p].row
        /\ proc[p].op = "none"
    BY <1>a, <1>n, <2>1, <2>2 DEF Writing
  <2>4. Knows(s) /\ Stays(proc[p], s)
    BY <1>k, <2>1, <2>3 DEF Knows, SnapOK, RowOK, Deleting, Starting, Stays, Early, Will, Found, Late
  <2> QED
    BY <1>2, <2>1, <2>2, <2>4, MoveKeepsDoc
<1>12. CASE DropResult(p)
  <2>1. PICK s : s = [Idle EXCEPT !.at = "drain"]
    OBVIOUS
  <2>2. /\ Becomes(p, s) /\ rows' = RowSet(proc[p].row, "CANCELLED") /\ UNCHANGED <<records, flags>>
    BY <1>12, <2>1 DEF DropResult, redis
  <2>3. RowsGrow /\ RowInv'
    BY <1>t, <2>2, RowSetGrows DEF DocInv
  <2> QED
    BY <1>2, <1>e, <1>i, <2>1, <2>2, <2>3, QuietKeepsDoc
<1>13. CASE KeepResult(p)
  <2>1. /\ Becomes(p, to("fetch", "completed")) /\ proc[p].at = "row_completed"
        /\ rows' = RowSet(proc[p].row, "COMPLETED") /\ UNCHANGED <<records, flags>>
    BY <1>13 DEF KeepResult, At, redis, to
  <2>2. PICK s : s = to("fetch", "completed")
    OBVIOUS
  <2>3. /\ s.at = "fetch" /\ s.op = "completed" /\ s.task = proc[p].task /\ s.row = proc[p].row
        /\ proc[p].op = "none" /\ s.task \in Tasks
    BY <1>a, <1>n, <1>x, <2>1, <2>2 DEF Writing, NoTaskYet
  <2>r. s.row # 0 /\ RowRef(s.row, s.task) /\ Exists(s.task)
    BY <1>k, <2>1, <2>3 DEF Knows, RowOK, Starting
  <2>4. RowsGrow /\ RowInv' /\ rows'[s.row].doc
    BY <1>t, <2>1, <2>3, <2>r, RowSetGrows DEF DocInv, RowRef
  <2>5. RowRef(s.row, s.task)' /\ DocRef(s.row, s.task)'
    BY <2>r, <2>4, RefsStay DEF DocRef
  <2>6. Knows(s)' /\ Stays(proc[p], s)
    BY <2>1, <2>3, <2>r, <2>5
       DEF Knows, SnapOK, RowOK, Deleting, Starting, Exists, Stays, Early, Will, Found, Late
  <2> QED
    BY <1>2, <2>1, <2>2, <2>4, <2>6, QuietKeepsDoc
<1>14. CASE DrainCount(p)
  <2>1. /\ Becomes(p, Idle) \/ Becomes(p, to("pop", proc[p].op))
        /\ proc[p].at = "drain" /\ UNCHANGED <<records, rows, flags>>
    BY <1>14, <1>b DEF DrainCount, At
  <2>2. /\ to("pop", proc[p].op).task \notin Tasks /\ to("pop", proc[p].op).at = "pop"
        /\ to("pop", proc[p].op).op = "none"
    BY <1>a, <1>n, <1>t, <2>1 DEF WellFormed, NoTaskYet, Writing
  <2> QED
    BY <1>2, <1>e, <1>i, <2>1, <2>2, MoveKeepsDoc
<1>15. CASE DrainPeek(p)
  <2>1. /\ Becomes(p, Idle) \/ Becomes(p, to("fetch", "promote"))
        /\ proc[p].at = "peek" /\ UNCHANGED <<records, rows, flags>>
    BY <1>15 DEF DrainPeek, At, redis, to
  <2>2. PICK s : s = to("fetch", "promote")
    OBVIOUS
  <2>3. /\ s.at = "fetch" /\ s.op = "promote" /\ s.task = proc[p].task /\ s.row = proc[p].row
        /\ proc[p].op = "none"
    BY <1>a, <1>n, <2>1, <2>2 DEF Writing
  <2>4. Knows(s) /\ Stays(proc[p], s)
    BY <1>k, <2>1, <2>3
       DEF Knows, SnapOK, RowOK, Deleting, Starting, Stays, Early, Will, Found, Late, LateOps
  <2> QED
    BY <1>2, <1>e, <1>i, <2>1, <2>2, <2>4, MoveKeepsDoc
<1>16. CASE Crash(p)
  <2>1. Becomes(p, Idle) /\ UNCHANGED <<records, rows, flags>>
    BY <1>16 DEF Crash, redis
  <2> QED
    BY <1>2, <1>e, <1>i, <2>1, MoveKeepsDoc
<1>17. CASE CheckExisting(p)
  <2> DEFINE done == CompletedRows(DraftOf[proc[p].task])
  <2>1. /\ Becomes(p, to("insert", proc[p].op)) \/ \E i \in done : Becomes(p, with("existing", i))
        /\ proc[p].at = "lookup" /\ UNCHANGED <<records, rows, flags>>
    BY <1>17, <1>b DEF CheckExisting, At, redis, with, Latest
  <2>2. CASE Becomes(p, to("insert", proc[p].op))
    <3>1. PICK s : s = to("insert", proc[p].op)
      OBVIOUS
    <3>2. /\ s.at = "insert" /\ s.op = "none" /\ s.task = proc[p].task /\ s.row = proc[p].row
          /\ proc[p].op = "none"
      BY <1>a, <1>n, <2>1, <3>1 DEF Writing
    <3>3. Knows(s) /\ Stays(proc[p], s)
      BY <1>k, <2>1, <3>2
         DEF Knows, SnapOK, RowOK, Deleting, Starting, Stays, Early, Will, Found, Late, LateOps
    <3> QED
      BY <1>2, <2>1, <2>2, <3>1, <3>3, MoveKeepsDoc
  <2>3. ASSUME NEW i \in done, Becomes(p, with("existing", i)) PROVE DocInv'
    <3>1. PICK s : s = with("existing", i)
      OBVIOUS
    <3>2. /\ s.at = "fetch" /\ s.op = "existing" /\ s.task = proc[p].task /\ s.row = i
          /\ proc[p].op = "none" /\ s.task \in Tasks
      BY <1>a, <1>n, <1>x, <2>1, <3>1 DEF Writing, NoTaskYet
    <3>3. i # 0 /\ DocRef(i, s.task)
      BY <1>t, <3>2, LenProperties DEF CompletedRows, DocRef, RowRef, DocInv, RowInv
    <3>4. Knows(s)
      BY <1>k, <2>1, <3>2, <3>3 DEF Knows, SnapOK, RowOK, Deleting, Starting, LateOps, DocRef
    <3>5. OnlyMoves(p) /\ proc'[p] = s
      BY <2>3, <3>1, BecomesMoves
    <3>6. ASSUME NEW t \in Tasks PROVE OnItsOwn(t)' /\ PastIt(t)'
      <4>1. OnItsOwn(t) /\ PastIt(t)
        BY DEF DocInv, PhaseInv
      <4>2. CASE t = s.task
        <5>1. /\ records[t].status \in Before
              /\ \A q \in Procs \ {p} : proc[q].task = t => proc[q].op = "cancelled"
          BY <2>1, <3>2, <4>1, <4>2 DEF OnItsOwn, Early, Will
        <5>2. ~ Late(s)
          BY <3>2 DEF Late, LateOps
        <5> QED
          BY <2>1, <3>5, <5>1, <5>2, AlonePhase
      <4>3. CASE t # s.task
        BY <2>1, <3>5, <4>1, <4>3, PhaseKept
      <4> QED
        BY <4>2, <4>3
    <3>7. RowsGrow /\ RowInv'
      BY <2>1 DEF RowsGrow, DocInv, RowInv
    <3>8. Grows
      BY <2>1, <3>7 DEF Grows, Exists
    <3>9. RecordInv'
      <4>1. \A t \in Tasks : RecordOK(t)'
        BY <1>2, <2>1, <3>7, RecordKept DEF DocInv, RecordInv
      <4> QED
        BY <4>1 DEF RecordInv
    <3>10. Knows(proc[p])'
      <4>1. Knows(s)'
        BY <3>4, <3>8, KnowsStays
      <4> QED
        BY <3>5, <4>1 DEF Knows, SnapOK, RowOK, RowRef, DocRef, Exists
    <3>11. PhaseInv'
      BY <3>6 DEF PhaseInv
    <3> QED
      BY <3>5, <3>8, <3>9, <3>10, <3>11, DocKept
  <2> QED
    BY <2>1, <2>2, <2>3
<1> QED
  BY <1>3, <1>4, <1>5, <1>6, <1>7, <1>8, <1>9, <1>10, <1>11, <1>12, <1>13, <1>14, <1>15, <1>16,
     <1>17 DEF QuietAction

(* A step of p that changes the record or the phase of one task, t.         *)
LEMMA TaskKeepsDoc ==
  ASSUME TypeInv, TypeInv', DocInv, NEW p \in Procs, NEW s, Becomes(p, s),
         UNCHANGED <<rows, flags>>, NEW t \in Tasks,
         \A u \in Tasks \ {t} : records'[u] = records[u] /\ s.task # u,
         \A u \in Tasks \ {t} : InQueue(u)' => Exists(u),
         Exists(t) => Exists(t)',
         Knows(s)', RecordOK(t)', OnItsOwn(t)', PastIt(t)'
  PROVE  DocInv'
<1>1. OnlyMoves(p) /\ proc'[p] = s
  BY BecomesMoves
<1>2. RowsGrow /\ RowInv'
  BY DEF RowsGrow, DocInv, RowInv
<1>3. Grows
  BY <1>2 DEF Grows, Exists
<1>4. RecordInv'
  <2>1. ASSUME NEW u \in Tasks \ {t} PROVE RecordOK(u)'
    BY <1>2, RecordKept DEF DocInv, RecordInv
  <2>2. \A u \in Tasks : RecordOK(u)'
    BY <2>1
  <2> QED
    BY <2>2 DEF RecordInv
<1>5. PhaseInv'
  <2>1. ASSUME NEW u \in Tasks \ {t} PROVE OnItsOwn(u)' /\ PastIt(u)'
    BY <1>1, PhaseKept DEF DocInv, PhaseInv
  <2>2. \A u \in Tasks : OnItsOwn(u)' /\ PastIt(u)'
    BY <2>1
  <2> QED
    BY <2>2 DEF PhaseInv
<1>6. Knows(proc[p])'
  BY <1>1 DEF Knows, SnapOK, RowOK, RowRef, DocRef, Exists
<1> QED
  BY <1>1, <1>3, <1>4, <1>5, <1>6, DocKept

(* A kiq by p for its own task, or for one that awaits input.               *)
LEMMA KiqKeepsDoc ==
  ASSUME TypeInv, TypeInv', DocInv, NEW p \in Procs, NEW label \in InBroker, NEW t \in Tasks,
         NEW skip, Kiq(p, label, t, skip), UNCHANGED <<records, rows, flags, queue>>,
         Exists(t),
         \/ label = "queued_draft" /\ proc[p].task = t /\ Early(proc[p])
         \/ label = "queued_resume" /\ Drafted(t)
  PROVE  DocInv'
<1> USE ConstantsAssumption
<1> DEFINE m == [Idle EXCEPT !.at = label, !.task = t, !.skip = skip]
<1>1. PICK j \in Jobs : /\ proc' = [proc EXCEPT ![p] = Idle, ![j] = m]
                        /\ j = p \/ proc[j].at = "idle"
  BY DEF Kiq, At
<1>2. /\ Idle.at = "idle" /\ Idle.task \notin Tasks /\ Idle.op = "none"
      /\ m.at = label /\ m.task = t /\ m.op = "none" /\ m.row = 0
  BY DEF Idle
<1> HIDE DEF m
<1>3. \A q \in Procs : \/ q = j /\ proc'[q] = m
                       \/ q = p /\ q # j /\ proc'[q] = Idle
                       \/ q \notin {j, p} /\ proc'[q] = proc[q]
  BY <1>1 DEF TypeInv, ProcsOK
<1>w. \A q \in Procs : WellFormed(proc[q])
  BY DEF TypeInv, ProcsOK
<1>j. j = p \/ proc[j].task \notin Tasks
  BY <1>1, <1>w DEF Procs, WellFormed, NoTaskYet
<1>4. RowsGrow /\ RowInv'
  BY DEF RowsGrow, DocInv, RowInv
<1>5. Grows
  BY <1>4 DEF Grows, Exists
<1>6. KnowsInv'
  <2>1. Knows(m) /\ Knows(Idle)
    BY <1>2 DEF Knows, Deleting, Starting, SnapOK, RowOK, RowRef, InBroker
  <2>2. Knows(m)' /\ Knows(Idle)'
    BY <1>5, <2>1, KnowsStays
  <2>3. ASSUME NEW q \in Procs PROVE Knows(proc[q])'
    <3>1. PICK s : s = proc[q]
      OBVIOUS
    <3>2. Knows(s)'
      BY <1>5, <3>1, KnowsStays DEF DocInv, KnowsInv
    <3>3. PICK n : n = proc'[q] /\ n \in {m, Idle, s}
      BY <1>3, <3>1
    <3>4. Knows(n)'
      BY <2>2, <3>2, <3>3
    <3> QED
      BY <3>3, <3>4 DEF Knows, SnapOK, RowOK, RowRef, DocRef, Exists
  <2> QED
    BY <2>3 DEF KnowsInv
<1>7. RecordInv'
  <2>1. \A u \in Tasks : InQueue(u)' => Exists(u)
    BY DEF InQueue, DocInv, RecordInv, RecordOK
  <2>2. \A u \in Tasks : RecordOK(u)'
    BY <1>4, <2>1, RecordKept DEF DocInv, RecordInv
  <2> QED
    BY <2>2 DEF RecordInv
(* Who is about the task u afterwards was before, except for the message.   *)
<1>8. ASSUME NEW u \in Tasks, NEW q \in Procs, proc'[q].task = u
      PROVE  \/ q = j /\ u = t /\ proc'[q] = m
             \/ q \notin {j, p} /\ proc'[q] = proc[q]
  BY <1>2, <1>3, <1>8
<1>9. ASSUME NEW u \in Tasks PROVE OnItsOwn(u)' /\ PastIt(u)'
  <2>1. OnItsOwn(u) /\ PastIt(u)
    BY DEF DocInv, PhaseInv
  <2>2. CASE u # t
    <3>1. \A q \in Procs : proc'[q].task = u => proc'[q] = proc[q]
      BY <1>8, <2>2
    <3>2. OnItsOwn(u)'
      <4>1. ASSUME NEW q \in Procs, proc'[q].task = u, Early(proc'[q])
            PROVE  /\ records'[u].status \in Before
                   /\ \A v \in Procs \ {q} : proc'[v].task = u => proc'[v].op = "cancelled"
        BY <2>1, <3>1, <4>1 DEF OnItsOwn
      <4> QED
        BY <4>1 DEF OnItsOwn, Early, Will
    <3>3. Drafted(u)' => Drafted(u)
      <4>1. (\E q \in Procs : proc'[q].task = u /\ Late(proc'[q])) =>
               \E q \in Procs : proc[q].task = u /\ Late(proc[q])
        BY <3>1
      <4> QED
        BY <4>1 DEF Drafted, Late
    <3>4. Drafted(u) => \A q \in Procs : proc'[q].task = u => ~ Early(proc'[q]) /\ ~ Found(proc'[q])
      BY <2>1, <3>1 DEF PastIt
    <3> QED
      BY <2>1, <3>2, <3>3, <3>4 DEF PastIt, Early, Will, Found
  <2>3. CASE u = t /\ label = "queued_draft"
    <3>1. /\ records[t].status \in Before /\ proc[p].task = t
          /\ \A q \in Procs \ {p} : proc[q].task = t => proc[q].op = "cancelled"
      BY <2>1, <2>3 DEF OnItsOwn
    <3>2. ~ Late(m)
      BY <1>2, <2>3 DEF Late, LateOps
    <3>3. \A q \in Procs \ {j} : proc'[q].task = t =>
             /\ proc'[q].op = "cancelled"
             /\ ~ Early(proc'[q]) /\ ~ Found(proc'[q]) /\ ~ Late(proc'[q])
      <4>1. ASSUME NEW q \in Procs \ {j}, proc'[q].task = t
            PROVE  q # p /\ proc'[q] = proc[q] /\ proc[q].op = "cancelled"
        BY <1>8, <3>1, <4>1
      <4> QED
        BY <1>w, <4>1, CancelsApart
    <3>4. OnItsOwn(t)'
      <4>1. \A q \in Procs : proc'[q].task = t /\ Early(proc'[q]) => q = j
        BY <3>3
      <4> QED
        BY <3>1, <3>3, <4>1 DEF OnItsOwn, Early, Will
    <3>5. ~ Drafted(t)'
      <4>1. \A q \in Procs : ~ (proc'[q].task = t /\ Late(proc'[q]))
        BY <1>3, <3>2, <3>3
      <4> QED
        BY <3>1, <4>1 DEF Drafted, Before, After, Late
    <3> QED
      BY <2>3, <3>4, <3>5 DEF PastIt
  <2>4. CASE u = t /\ label = "queued_resume"
    <3>1. /\ records[t].status # "EXISTING_FOUND" /\ (records[t].log # 0 \/ t \in flags)
          /\ \A q \in Procs : proc[q].task = t => ~ Early(proc[q]) /\ ~ Found(proc[q])
      BY <2>1, <2>4 DEF PastIt
    <3>2. ~ Early(m) /\ ~ Found(m)
      BY <1>2, <2>4 DEF Early, Will, Found
    <3>3. \A q \in Procs : proc'[q].task = t => ~ Early(proc'[q]) /\ ~ Found(proc'[q])
      BY <1>8, <3>1, <3>2
    <3> QED
      BY <2>4, <3>1, <3>3, DraftedPhase
  <2> QED
    BY <2>2, <2>3, <2>4 DEF InBroker
<1>10. PhaseInv'
  BY <1>9 DEF PhaseInv
<1> QED
  BY <1>4, <1>6, <1>7, <1>10 DEF DocInv

(* What a write leaves in the task record, whatever was read before.        *)
LEMMA StoreKeepsDoc ==
  ASSUME TypeInv, TypeInv', DocInv, NEW p \in Procs, Store(p)
  PROVE  DocInv'
<1> USE ConstantsAssumption
<1>0. PICK t, o, rec, row : proc[p].task = t /\ proc[p].op = o /\ proc[p].snap = rec /\ proc[p].row = row
  OBVIOUS
<1>b. PICK b : b = [proc[p] EXCEPT !.snap = NoRecord]
  OBVIOUS
<1>1. /\ Becomes(p, Then(o, b)) /\ proc[p].at = "store" /\ UNCHANGED <<queue, rows, flags>>
      /\ records' = [records EXCEPT ![t] = Updated(o, rec, row)]
  BY <1>0, <1>b DEF Store, At
<1>2. /\ proc[p] \in Process /\ WellFormed(proc[p]) /\ \A q \in Procs : WellFormed(proc[q])
      /\ records \in [Tasks -> Records] /\ rec \in Records
  BY <1>0 DEF TypeInv, TypeOK, ProcsOK, Process
<1>3. t \in Tasks /\ o \in Ops \ {"none"}
  BY <1>0, <1>1, <1>2 DEF WellFormed, Writing, NoTaskYet, Process
<1>4. /\ b \in Process /\ b.task = t /\ b.row = row /\ b.at = "store" /\ b.op = o
      /\ b.snap = NoRecord /\ b.skip \in BOOLEAN
  BY <1>0, <1>1, <1>2, <1>b, NoRecordType DEF Process
<1>k. /\ Knows(proc[p]) /\ Exists(t) /\ SnapOK(proc[p]) /\ RowOK(proc[p]) /\ o # "reset"
      /\ o = "cancelled" => t \in flags
  BY <1>0, <1>1, <1>3 DEF DocInv, KnowsInv, Knows, Starting
<1>s. rec.status # "NONE" /\ RowRef(rec.log, t) /\ DocRef(rec.existing, t) /\ RowRef(row, t)
  BY <1>0, <1>1, <1>k DEF SnapOK, RowOK
<1>p. OnItsOwn(t) /\ PastIt(t) /\ RecordOK(t)
  BY <1>3 DEF DocInv, PhaseInv, RecordInv
<1>r. records'[t] = Updated(o, rec, row)
  BY <1>1, <1>2, <1>3
<1>m. OnlyMoves(p) /\ proc'[p] = Then(o, b)
  BY <1>1, BecomesMoves
<1>5. \A u \in Tasks \ {t} : records'[u] = records[u] /\ Then(o, b).task # u
  <2>1. \A u \in Tasks \ {t} : records'[u] = records[u]
    BY <1>1, <1>2
  <2>2. Then(o, b).task \in Tasks => Then(o, b).task = t
    BY <1>3, <1>4, ThenLine
  <2> QED
    BY <2>1, <2>2
<1>6. \A u \in Tasks : InQueue(u)' => Exists(u)
  BY <1>1 DEF InQueue, DocInv, RecordInv, RecordOK
<1>g. RowsGrow /\ (RowInv => RowInv')
  BY <1>1 DEF RowsGrow, RowInv
<1>q. \A i : (RowRef(i, t) => RowRef(i, t)') /\ (DocRef(i, t) => DocRef(i, t)')
  BY <1>g, RefsStay
(* What has to be shown for each write. *)
<1>7. ASSUME NEW new, new = Updated(o, rec, row), new.status # "NONE",
             RowRef(new.log, t), DocRef(new.existing, t),
             new.status = "COMPLETED" => new.log # 0 /\ DocRef(new.log, t),
             NEW s, s = Then(o, b), Knows(s), OnItsOwn(t)', PastIt(t)'
      PROVE  DocInv'
  <2>1. Exists(t)' /\ RecordOK(t)'
    <3>1. PICK n : n = records'[t] /\ n = new
      BY <1>r, <1>7
    <3>2. RowRef(n.log, t)' /\ DocRef(n.existing, t)'
      BY <1>7, <1>q, <3>1
    <3>3. n.status = "COMPLETED" => n.log # 0 /\ DocRef(n.log, t)'
      BY <1>7, <1>q, <3>1
    <3> QED
      BY <1>7, <3>1, <3>2, <3>3 DEF RecordOK, Exists, RowRef, DocRef
  <2>2. Knows(s)'
    <3>1. \A u \in Tasks : Exists(u) => Exists(u)'
      BY <1>5, <2>1 DEF Exists
    <3>2. Grows
      BY <1>1, <1>g, <3>1 DEF Grows, DocInv
    <3> QED
      BY <1>7, <3>2, KnowsStays
  <2> QED
    BY <1>1, <1>3, <1>5, <1>6, <1>7, <2>1, <2>2, TaskKeepsDoc
<1>8. ASSUME NEW s, s.task \notin Tasks, s.at \in {"idle", "drain"}, s.op = "none"
      PROVE  Knows(s) /\ ~ Early(s) /\ ~ Found(s) /\ ~ Late(s)
  BY <1>0, <1>8 DEF Knows, Deleting, Early, Will, Found, Late, LateOps
<1>i. /\ Idle.at = "idle" /\ Idle.op = "none" /\ Idle.task \notin Tasks
      /\ [Idle EXCEPT !.at = "drain"].at = "drain"
      /\ [Idle EXCEPT !.at = "drain"].op = "none"
      /\ [Idle EXCEPT !.at = "drain"].task \notin Tasks
  BY DEF Idle
<1>u. ASSUME NEW new, new = Updated(o, rec, row)
      PROVE  /\ o = "checking" =>
                   new.status = "CHECKING_EXISTING" /\ new.log = rec.log /\ new.existing = rec.existing
             /\ o = "promote" =>
                   new.status = "PENDING" /\ new.log = rec.log /\ new.existing = rec.existing
             /\ o = "existing" =>
                   new.status = "EXISTING_FOUND" /\ new.log = rec.log /\ new.existing = row
             /\ o = "attach" =>
                   new.status = rec.status /\ new.log = row /\ new.existing = rec.existing
             /\ o \in {"drafting", "redrafting", "awaiting", "failed"} =>
                   /\ new.status \in After /\ new.log = rec.log /\ new.existing = rec.existing
             /\ o \in {"completed", "adopt"} =>
                   /\ new.status = "COMPLETED" /\ new.existing = rec.existing
                   /\ row # 0 => new.log = row
             /\ o = "cancelled" =>
                   new.status = "CANCELLED" /\ new.log = rec.log /\ new.existing = rec.existing
  BY <1>2, <1>u DEF Updated, Records, After
<1>9. PICK new, s : new = Updated(o, rec, row) /\ s = Then(o, b)
  OBVIOUS
<1>10. records'[t] = new /\ proc'[p] = s
  BY <1>9, <1>m, <1>r
<1>c. CASE o \in {"checking", "promote"}
  <2>1. /\ new.status \in Before \ {"NONE"} /\ new.log = rec.log /\ new.existing = rec.existing
    BY <1>c, <1>9, <1>u DEF Before
  <2>2. s.at \in {"insert", "lookup", "kick"} /\ s.op = "none" /\ s.task = t /\ s.row = row
    BY <1>0, <1>c, <1>4, <1>9 DEF Then, Process
  <2>3. Knows(s)
    BY <1>0, <1>3, <1>k, <1>s, <2>2 DEF Knows, SnapOK, RowOK, Deleting, Starting
  <2>4. \A q \in Procs \ {p} : proc[q].task = t => proc[q].op = "cancelled"
    BY <1>0, <1>c, <1>p DEF OnItsOwn, Early, Will
  <2>5. ~ Late(s)
    BY <1>0, <2>2 DEF Late, LateOps
  <2>6. OnItsOwn(t)' /\ PastIt(t)'
    BY <1>3, <1>m, <1>10, <2>1, <2>4, <2>5, AlonePhase
  <2> QED
    BY <1>7, <1>9, <1>s, <2>1, <2>3, <2>6 DEF Before
<1>e. CASE o = "existing"
  <2>1. /\ new.status = "EXISTING_FOUND" /\ new.log = rec.log /\ new.existing = row
    BY <1>e, <1>9, <1>u
  <2>2. s = Idle
    BY <1>0, <1>e, <1>9 DEF Then
  <2>3. DocRef(row, t)
    BY <1>0, <1>e, <1>k DEF RowOK
  <2>4. Found(proc[p]) /\ ~ Early(proc[p])
    BY <1>0, <1>1, <1>e DEF Found, Early, Will
  <2>5. ~ Drafted(t)
    BY <1>0, <1>p, <2>4 DEF PastIt
  <2>6. \A q \in Procs \ {p} : proc[q].task = t => ~ Early(proc[q]) /\ ~ Late(proc[q])
    BY <1>0, <1>e, <1>p, <2>4, <2>5 DEF OnItsOwn, Drafted
  <2>7. \A q \in Procs : proc'[q].task = t => ~ Early(proc'[q]) /\ ~ Late(proc'[q])
    BY <1>3, <1>8, <1>i, <1>m, <1>10, <2>2, <2>6 DEF OnlyMoves
  <2>8. OnItsOwn(t)' /\ PastIt(t)'
    BY <1>3, <1>10, <2>1, <2>7, FoundPhase DEF After
  <2> QED
    BY <1>7, <1>8, <1>9, <1>i, <1>s, <2>1, <2>2, <2>3, <2>8
<1>a. CASE o = "attach"
  <2>1. /\ new.status = rec.status /\ new.log = row /\ new.existing = rec.existing
        /\ row # 0 /\ rec.status \in Before
    BY <1>0, <1>1, <1>a, <1>9, <1>k, <1>u DEF SnapOK, RowOK
  <2>2. s.at = "fetch" /\ s.op = "drafting" /\ s.task = t /\ s.row = row
    BY <1>0, <1>a, <1>4, <1>9 DEF Then, Process
  <2>3. Knows(s)
    BY <1>0, <1>3, <1>k, <1>s, <2>1, <2>2 DEF Knows, SnapOK, RowOK, Deleting, Starting
  <2>4. \A q \in Procs \ {p} : proc[q].task = t => proc[q].op = "cancelled"
    BY <1>0, <1>a, <1>p DEF OnItsOwn, Early
  <2>5. \A q \in Procs : proc'[q].task = t => ~ Early(proc'[q]) /\ ~ Found(proc'[q])
    <3>1. ~ Early(s) /\ ~ Found(s)
      BY <1>0, <2>2 DEF Early, Will, Found
    <3>2. \A q \in Procs \ {p} : proc[q].task = t => ~ Early(proc[q]) /\ ~ Found(proc[q])
      BY <1>2, <2>4, CancelsApart
    <3> QED
      BY <1>m, <1>10, <3>1, <3>2 DEF OnlyMoves
  <2>6. OnItsOwn(t)' /\ PastIt(t)'
    BY <1>3, <1>10, <2>1, <2>5, DraftedPhase DEF Before
  <2> QED
    BY <1>7, <1>9, <1>s, <2>1, <2>3, <2>6 DEF Before
<1>l. CASE o \in {"drafting", "redrafting", "awaiting", "failed", "completed"}
  <2>1. Late(proc[p]) /\ Drafted(t)
    BY <1>0, <1>3, <1>l DEF Late, LateOps, Drafted
  <2>2. /\ new.status \in After \cup {"COMPLETED"} /\ new.existing = rec.existing
        /\ new.log = rec.log \/ (o = "completed" /\ new.log = row)
        /\ new.status = "COMPLETED" => o = "completed"
        /\ o = "completed" => new.log = row /\ row # 0 /\ DocRef(row, t)
    BY <1>0, <1>l, <1>9, <1>k, <1>u DEF RowOK, After
  <2>3. new.log # 0 \/ t \in flags
    BY <1>0, <1>1, <1>l, <1>k, <2>2 DEF SnapOK, LateOps
  <2>4. Knows(s) /\ ~ Early(s) /\ ~ Found(s)
    <3>1. CASE o \in {"drafting", "redrafting"}
      <4>1. s.at \in {"engine", "row_drafting"} /\ s.op = "none" /\ s.task = t /\ s.row = row
        BY <1>0, <1>4, <1>9, <3>1 DEF Then, Process
      <4>2. row # 0 \/ t \in flags
        BY <1>0, <1>k, <3>1 DEF RowOK
      <4> QED
        BY <1>3, <1>k, <1>s, <4>1, <4>2
           DEF Knows, SnapOK, RowOK, Deleting, Starting, Early, Will, Found
    <3>2. CASE o \in {"awaiting", "failed", "completed"}
      BY <1>0, <1>8, <1>9, <1>i, <3>2 DEF Then
    <3> QED
      BY <1>l, <3>1, <3>2
  <2>5. \A q \in Procs : proc'[q].task = t => ~ Early(proc'[q]) /\ ~ Found(proc'[q])
    BY <1>0, <1>m, <1>10, <1>p, <2>1, <2>4 DEF OnlyMoves, PastIt
  <2>6. OnItsOwn(t)' /\ PastIt(t)'
    BY <1>1, <1>3, <1>10, <2>2, <2>3, <2>5, DraftedPhase DEF After
  <2>7. RowRef(new.log, t)
    BY <1>s, <2>2 DEF DocRef
  <2> QED
    BY <1>7, <1>9, <1>s, <2>2, <2>4, <2>6, <2>7 DEF After
<1>f. CASE o = "adopt"
  <2>1. /\ new.status = "COMPLETED" /\ new.existing = rec.existing
        /\ new.log = row /\ row # 0 /\ DocRef(row, t)
    BY <1>0, <1>f, <1>9, <1>k, <1>u DEF RowOK
  <2>2. Knows(s) /\ ~ Early(s) /\ ~ Found(s) /\ ~ Late(s)
    BY <1>0, <1>8, <1>9, <1>i, <1>f DEF Then
  <2>4. Found(proc[p]) /\ ~ Early(proc[p])
    BY <1>0, <1>1, <1>f DEF Found, Early, Will
  <2>5. ~ Drafted(t)
    BY <1>0, <1>p, <2>4 DEF PastIt
  <2>6. \A q \in Procs \ {p} : proc[q].task = t => ~ Early(proc[q]) /\ ~ Late(proc[q])
    BY <1>0, <1>f, <1>p, <2>4, <2>5 DEF OnItsOwn, Drafted
  <2>7. \A q \in Procs : proc'[q].task = t => ~ Early(proc'[q]) /\ ~ Late(proc'[q])
    BY <1>m, <1>10, <2>2, <2>6 DEF OnlyMoves
  <2>8. OnItsOwn(t)' /\ PastIt(t)'
    BY <1>3, <1>10, <2>1, <2>7, FoundPhase DEF After
  <2> QED
    BY <1>7, <1>9, <1>s, <2>1, <2>2, <2>8 DEF DocRef
<1>x. CASE o = "cancelled"
  <2>1. new.status = "CANCELLED" /\ new.log = rec.log /\ new.existing = rec.existing
    BY <1>x, <1>9, <1>u
  <2>2. Knows(s) /\ ~ Early(s) /\ ~ Found(s) /\ ~ Late(s) /\ s.task # t
    BY <1>0, <1>3, <1>8, <1>9, <1>i, <1>x DEF Then
  <2>3. \A q \in Procs : proc'[q].task = t => q # p /\ proc'[q] = proc[q]
    BY <1>m, <1>10, <2>2 DEF OnlyMoves
  <2>4. OnItsOwn(t)'
    <3>1. ASSUME NEW q \in Procs, proc'[q].task = t, Early(proc'[q])
          PROVE  \A u \in Procs \ {q} : proc'[u].task = t => proc'[u].op = "cancelled"
      BY <1>0, <1>p, <2>3, <3>1 DEF OnItsOwn
    <3> QED
      BY <1>0, <1>10, <2>1, <3>1 DEF OnItsOwn, Early, Will, Before
  <2>5. PastIt(t)'
    <3>1. Drafted(t)' => Drafted(t)
      <4>1. (\E q \in Procs : proc'[q].task = t /\ Late(proc'[q])) =>
               \E q \in Procs : proc[q].task = t /\ Late(proc[q])
        BY <2>3
      <4> QED
        BY <1>0, <1>10, <2>1, <4>1 DEF Drafted, Late, After
    <3>2. Drafted(t) => \A q \in Procs : proc'[q].task = t => ~ Early(proc'[q]) /\ ~ Found(proc'[q])
      BY <1>0, <1>p, <2>3 DEF PastIt
    <3>3. records'[t].status # "EXISTING_FOUND" /\ t \in flags'
      BY <1>1, <1>10, <1>k, <1>x, <2>1
    <3> QED
      BY <1>0, <3>1, <3>2, <3>3 DEF PastIt, Early, Will, Found
  <2> QED
    BY <1>7, <1>9, <1>s, <2>1, <2>2, <2>4, <2>5
<1> QED
  BY <1>3, <1>k, <1>c, <1>e, <1>a, <1>l, <1>f, <1>x DEF Ops

(* Every step keeps the phases and the documents.                           *)
LEMMA DocNext ==
  ASSUME Undisturbed
  PROVE  TypeInv /\ TypeInv' /\ LineInv /\ DocInv /\ [Next]_vars => DocInv'
<1> SUFFICES ASSUME TypeInv, TypeInv', LineInv, DocInv, [Next]_vars PROVE DocInv'
  OBVIOUS
<1> USE ConstantsAssumption
<1>t. /\ \A p \in Procs : proc[p] \in Process /\ WellFormed(proc[p]) /\ Knows(proc[p])
      /\ records \in [Tasks -> Records] /\ queue \in Seq(Tasks) /\ NoRepeat(queue)
      /\ rows \in Seq(Rows)
  BY DEF TypeInv, TypeOK, ProcsOK, DocInv, KnowsInv, LineInv, FifoInv, NoRepeat
<1>q. Requests \subseteq Procs /\ Jobs \subseteq Procs
  BY DEF Procs
<1>x. \A p \in Procs : proc[p].at \notin NoTaskYet => proc[p].task \in Tasks
  BY <1>t DEF WellFormed, Process
<1>n. \A p \in Procs : proc[p].at \notin Writing => proc[p].op = "none"
  BY <1>t DEF WellFormed
<1>p. \A t \in Tasks : OnItsOwn(t) /\ PastIt(t) /\ RecordOK(t) /\ (InQueue(t) => Exists(t))
  BY DEF DocInv, PhaseInv, RecordInv, RecordOK
<1>i. queue' = queue => \A t \in Tasks : InQueue(t)' => Exists(t)
  BY <1>p DEF InQueue
<1>m. ASSUME NEW p \in Procs, NEW s, Becomes(p, s) PROVE OnlyMoves(p) /\ proc'[p] = s
  BY <1>m, BecomesMoves
<1>d. /\ Idle.at = "idle" /\ Idle.op = "none" /\ Idle.task \notin Tasks /\ Knows(Idle)
      /\ \A o : Stays(o, Idle)
  BY DEF Idle, Knows, Stays, Deleting
<1>1. CASE UNCHANGED vars
  BY <1>1
     DEF vars, DocInv, KnowsInv, Knows, SnapOK, RowOK, RowRef, DocRef, Exists, PhaseInv, OnItsOwn,
     PastIt, Drafted, Early, Will, Found, Late, RecordInv, RecordOK, InQueue, RowInv
<1>2. ASSUME NEW r \in Requests, NEW t \in Tasks, NEW skip \in BOOLEAN, Start(r, t, skip)
      PROVE  DocInv'
  <2>1. PICK s : s = [Idle EXCEPT !.at = "count", !.task = t, !.skip = skip]
    OBVIOUS
  <2>2. /\ s.at = "count" /\ s.op = "none" /\ s.task = t /\ s.row = 0
        /\ Becomes(r, s) /\ t \notin issued /\ UNCHANGED <<records, rows, flags, queue>>
    BY <1>2, <2>1 DEF Start, Idle
  <2>3. records[t].status = "NONE" /\ \A q \in Procs : proc[q].task # t
    BY <2>2 DEF LineInv, NewInv
  <2>4. OnlyMoves(r) /\ proc'[r] = s
    BY <1>m, <1>q, <2>2
  <2>5. OnItsOwn(t)' /\ PastIt(t)'
    BY <1>q, <2>2, <2>3, <2>4, AlonePhase DEF Before, Late, LateOps
  <2>6. RowsGrow /\ RowInv' /\ Grows
    BY <2>2 DEF RowsGrow, DocInv, RowInv, Grows, Exists
  <2>7. Knows(s)'
    BY <2>2, <2>6, KnowsStays DEF Knows, SnapOK, RowOK, RowRef, Deleting, Starting, LateOps
  <2>8. RecordOK(t)'
    BY <1>i, <1>p, <2>2, <2>6, RecordKept
  <2> QED
    BY <1>i, <1>q, <2>2, <2>5, <2>7, <2>8, TaskKeepsDoc DEF Exists
<1>3. ASSUME NEW r \in Requests, NEW t \in Tasks, SubmitInput(r, t) PROVE DocInv'
  <2>1. /\ Kiq(r, "queued_resume", t, FALSE) /\ UNCHANGED <<records, rows, flags, queue>>
        /\ records[t].status = "AWAITING_INPUT"
    BY <1>3 DEF SubmitInput, redis
  <2>2. Drafted(t) /\ Exists(t)
    BY <2>1 DEF Drafted, After, Exists
  <2> QED
    BY <1>q, <2>1, <2>2, KiqKeepsDoc DEF InBroker
<1>4. ASSUME NEW r \in Requests, NEW t \in Tasks, UseExisting(r, t) PROVE DocInv'
  <2>1. PICK s : s = [Idle EXCEPT !.at = "fetch", !.op = "adopt", !.task = t,
                                  !.row = records[t].existing]
    OBVIOUS
  <2>2. /\ s.at = "fetch" /\ s.op = "adopt" /\ s.task = t /\ s.row = records[t].existing
        /\ Becomes(r, s) /\ UNCHANGED <<records, rows, flags, queue>>
        /\ records[t].status = "EXISTING_FOUND" /\ records[t].existing # 0
    BY <1>4, <2>1 DEF UseExisting, redis, Idle
  <2>3. \A q \in Procs : proc[q].task = t => ~ Early(proc[q])
    BY <1>p, <2>2 DEF OnItsOwn, Before
  <2>4. ~ Drafted(t)
    BY <1>p, <2>2 DEF PastIt
  <2>5. \A q \in Procs : proc[q].task = t => ~ Late(proc[q])
    BY <2>4 DEF Drafted
  <2>6. OnItsOwn(t)' /\ PastIt(t)'
    <3>1. ~ Early(s) /\ ~ Late(s)
      BY <2>2 DEF Early, Will, Late, LateOps
    <3>2. OnlyMoves(r) /\ proc'[r] = s
      BY <1>m, <1>q, <2>2
    <3>3. \A q \in Procs : proc'[q].task = t => ~ Early(proc'[q]) /\ ~ Late(proc'[q])
      BY <2>3, <2>5, <3>1, <3>2 DEF OnlyMoves
    <3> QED
      BY <2>2, <3>3, FoundPhase DEF After
  <2>7. RowsGrow /\ RowInv' /\ Grows
    BY <2>2 DEF RowsGrow, DocInv, RowInv, Grows, Exists
  <2>8. Knows(s)
    BY <1>p, <2>2 DEF Knows, SnapOK, RowOK, RecordOK, DocRef, Deleting, Exists, LateOps
  <2>9. Knows(s)' /\ RecordOK(t)'
    BY <1>i, <1>p, <2>2, <2>7, <2>8, KnowsStays, RecordKept
  <2> QED
    BY <1>i, <1>q, <2>2, <2>6, <2>9, TaskKeepsDoc DEF Exists
<1>5. ASSUME NEW r \in Requests, NEW t \in Tasks, Regenerate(r, t) \/ Dismiss(r, t) PROVE DocInv'
  BY <1>5 DEF Regenerate, Dismiss, Undisturbed
<1>6. ASSUME NEW r \in Requests, NEW t \in Tasks, Cancel(r, t) PROVE DocInv'
  <2>1. PICK label \in {"unpark_cancel", "fetch"} :
          label = IF records[t].status = "QUEUED" THEN "unpark_cancel" ELSE "fetch"
    OBVIOUS
  <2>2. PICK s : s = [Idle EXCEPT !.at = label, !.op = "cancelled", !.task = t]
    OBVIOUS
  <2>3. /\ s.at = label /\ s.op = "cancelled" /\ s.task = t /\ s.row = 0
        /\ Becomes(r, s) /\ UNCHANGED <<records, rows, flags, queue>>
        /\ records[t].status \in Active
    BY <1>6, <2>1, <2>2 DEF Cancel, redis, Idle
  <2>4. Knows(s) /\ Stays(proc[r], s)
    BY <2>1, <2>3 DEF Knows, SnapOK, RowOK, RowRef, Deleting, Exists, LateOps, Active, Stays
  <2> QED
    BY <1>i, <1>q, <2>3, <2>4, MoveKeepsDoc
(* The calls of a request on its way to its place.                          *)
<1>7. ASSUME NEW r \in Requests, CountActive(r) \/ CheckQueueSize(r) PROVE DocInv'
  <2>1. /\ Becomes(r, Idle) \/ \E label \in {"size", "create_pending", "create_queued"} :
                                Becomes(r, Moved(r, label))
        /\ proc[r].at \in {"count", "size"} /\ UNCHANGED <<records, rows, flags, queue>>
    BY <1>7 DEF CountActive, CheckQueueSize, At
  <2>2. ASSUME NEW label \in {"size", "create_pending", "create_queued"}
        PROVE  Knows(Moved(r, label)) /\ Stays(proc[r], Moved(r, label))
    <3>1. PICK s : s = Moved(r, label)
      OBVIOUS
    <3>2. /\ s.at = label /\ s.op = proc[r].op /\ s.task = proc[r].task /\ s.row = proc[r].row
          /\ s.op = "none" /\ Knows(proc[r])
      BY <1>n, <1>q, <1>t, <2>1, <3>1 DEF Moved, Process, Writing
    <3>3. Knows(s)
      BY <2>1, <3>2 DEF Knows, SnapOK, RowOK, Deleting, Starting, LateOps
    <3>4. Stays(proc[r], s)
      BY <2>1, <3>2 DEF Stays, Early, Will, Found, Late, LateOps
    <3> QED
      BY <3>1, <3>3, <3>4
  <2>3. CASE Becomes(r, Idle)
    BY <1>d, <1>i, <1>q, <2>1, <2>3, MoveKeepsDoc
  <2>4. ASSUME NEW label \in {"size", "create_pending", "create_queued"}, Becomes(r, Moved(r, label))
        PROVE  DocInv'
    BY <1>i, <1>q, <2>1, <2>2, <2>4, MoveKeepsDoc
  <2> QED
    BY <2>1, <2>3, <2>4
<1>8. ASSUME NEW r \in Requests, Create(r) PROVE DocInv'
  <2>1. PICK t : t = proc[r].task
    OBVIOUS
  <2>2. PICK status \in {"PENDING", "QUEUED"}, label \in {"kick", "park"} :
          /\ records' = [records EXCEPT ![t] = [NoRecord EXCEPT !.status = status]]
          /\ Becomes(r, Moved(r, label)) /\ proc[r].at \in Starting
          /\ UNCHANGED <<rows, flags, queue>>
    BY <1>8, <2>1 DEF Create, At, Starting
  <2>3. t \in Tasks /\ Knows(proc[r]) /\ proc[r].op = "none"
    BY <1>n, <1>q, <1>t, <1>x, <2>1, <2>2 DEF Starting, NoTaskYet, Writing
  <2>4. PICK new : new = records'[t] /\ new.status = status /\ new.log = 0 /\ new.existing = 0
    BY <1>t, <2>2, <2>3 DEF NoRecord
  <2>5. \A u \in Tasks \ {t} : records'[u] = records[u]
    BY <1>t, <2>2
  <2>6. PICK s : s = Moved(r, label)
    OBVIOUS
  <2>7. s.at = label /\ s.op = "none" /\ s.task = t /\ s.row = proc[r].row
    BY <1>q, <1>t, <2>1, <2>3, <2>6 DEF Moved, Process
  <2>8. OnlyMoves(r) /\ proc'[r] = s
    BY <1>m, <1>q, <2>2, <2>6
  <2>9. records[t].status = "NONE" /\ \A q \in Procs \ {r} : proc[q].task # t
    BY <1>q, <2>1, <2>2 DEF LineInv, StartInv
  <2>10. OnItsOwn(t)' /\ PastIt(t)'
    <3>1. ~ Late(s)
      BY <2>7 DEF Late, LateOps
    <3> QED
      BY <1>q, <2>3, <2>4, <2>8, <2>9, <3>1, AlonePhase DEF Before
  <2>11. Exists(t)' /\ RecordOK(t)'
    BY <2>4 DEF Exists, RecordOK, RowRef, DocRef
  <2>12. RowsGrow /\ RowInv' /\ Grows
    BY <2>2, <2>5, <2>11 DEF RowsGrow, DocInv, RowInv, Grows, Exists
  <2>13. Knows(s)'
    <3>1. RowRef(proc[r].row, t)
      BY <2>1, <2>3 DEF Knows, RowOK
    <3>2. RowRef(s.row, t)'
      BY <2>2, <2>7, <3>1 DEF RowRef
    <3> QED
      BY <2>7, <2>11, <3>2 DEF Knows, SnapOK, RowOK, Deleting, LateOps
  <2> QED
    BY <1>i, <1>q, <2>2, <2>3, <2>5, <2>6, <2>7, <2>10, <2>11, <2>13, TaskKeepsDoc
<1>9. ASSUME NEW r \in Requests, Park(r) PROVE DocInv'
  <2>1. /\ proc[r].at = "park" /\ queue' = Append(queue, proc[r].task) /\ Becomes(r, Idle)
        /\ UNCHANGED <<records, rows, flags>>
    BY <1>9 DEF Park, At
  <2>2. proc[r].task \in Tasks /\ Exists(proc[r].task)
    BY <1>q, <1>t, <1>x, <2>1 DEF NoTaskYet, Knows, Starting
  <2>3. ~ Occurs(queue, proc[r].task)
    BY <1>q, <2>1 DEF LineInv, ParkInv, InQueue, Occurs
  <2>4. \A u : Occurs(queue', u) <=> Occurs(queue, u) \/ u = proc[r].task
    BY <1>t, <2>1, <2>2, <2>3, AppendLine
  <2>5. \A u \in Tasks : InQueue(u)' => Exists(u)
    BY <1>p, <2>2, <2>4 DEF InQueue, Occurs
  <2> QED
    BY <1>d, <1>q, <2>1, <2>5, MoveKeepsDoc
<1>10. ASSUME NEW p \in Procs, Kick(p) PROVE DocInv'
  <2>1. /\ Kiq(p, "queued_draft", proc[p].task, proc[p].skip) /\ proc[p].at = "kick"
        /\ UNCHANGED <<records, rows, flags, queue>>
    BY <1>10 DEF Kick, At, redis
  <2>2. proc[p].task \in Tasks /\ Early(proc[p]) /\ Exists(proc[p].task)
    BY <1>t, <1>x, <2>1 DEF NoTaskYet, Early, Will, Knows, Starting
  <2> QED
    BY <2>1, <2>2, KiqKeepsDoc DEF InBroker
<1>11. ASSUME NEW r \in Requests, RemoveFromQueue(r) PROVE DocInv'
  <2>1. /\ proc[r].at = "unpark_cancel" /\ queue' = Without(queue, proc[r].task)
        /\ Becomes(r, Moved(r, "fetch")) /\ UNCHANGED <<records, rows, flags>>
    BY <1>11 DEF RemoveFromQueue, At
  <2>2. PICK s : s = Moved(r, "fetch")
    OBVIOUS
  <2>3. /\ s.at = "fetch" /\ s.op = "cancelled" /\ s.task = proc[r].task /\ s.row = proc[r].row
        /\ Knows(proc[r])
    BY <1>q, <1>t, <2>1, <2>2 DEF Moved, Process, Knows
  <2>4. Knows(s) /\ Stays(proc[r], s)
    BY <2>1, <2>3 DEF Knows, SnapOK, RowOK, Deleting, Starting, LateOps, Stays
  <2>5. \A u \in Tasks : InQueue(u)' => Exists(u)
    <3>1. \A u : Occurs(Without(queue, proc[r].task), u) => Occurs(queue, u)
      BY <1>t, WithoutLine
    <3> QED
      BY <1>p, <2>1, <3>1 DEF InQueue, Occurs
  <2> QED
    BY <1>q, <2>1, <2>2, <2>4, <2>5, MoveKeepsDoc
<1>12. ASSUME NEW r \in Requests, Delete(r) PROVE DocInv'
  BY <1>12, <1>q, <1>t DEF Delete, At, Knows, Deleting
<1>13. ASSUME NEW j \in Jobs, InsertRow(j) PROVE DocInv'
  <2> DEFINE t == proc[j].task
             row == [task |-> t, status |-> "DRAFTING", doc |-> FALSE]
             n == Len(rows) + 1
  <2>1. PICK s : s = [proc[j] EXCEPT !.at = "fetch", !.op = "attach", !.row = n]
    OBVIOUS
  <2>2. /\ Becomes(j, s) /\ proc[j].at = "insert" /\ j \in Procs
        /\ rows' = Append(rows, row) /\ UNCHANGED <<records, flags, queue>>
    BY <1>13, <1>q, <2>1 DEF InsertRow, At, redis
  <2>3. /\ s.at = "fetch" /\ s.op = "attach" /\ s.task = t /\ s.row = n
        /\ t \in Tasks /\ Exists(t) /\ proc[j].op = "none"
    BY <1>n, <1>t, <1>x, <2>1, <2>2 DEF Process, NoTaskYet, Writing, Knows, Starting
  <2>4. row \in Rows /\ row.task = t /\ row.status = "DRAFTING"
    BY <2>3 DEF Rows, RowStatuses
  <2> HIDE DEF row
  <2>5. /\ \A i \in DOMAIN rows : rows'[i] = rows[i] /\ i \in DOMAIN rows'
        /\ \A i \in DOMAIN rows' : i \in DOMAIN rows \/ i = n
        /\ rows'[n] = row /\ n \in DOMAIN rows' /\ n # 0
    <3>1. /\ Len(rows') = Len(rows) + 1
          /\ \A i \in 1..Len(rows) : rows'[i] = rows[i]
          /\ rows'[Len(rows) + 1] = row
      BY <1>t, <2>2, <2>4, AppendProperties
    <3>2. /\ DOMAIN rows' = 1..(Len(rows) + 1) /\ DOMAIN rows = 1..Len(rows)
          /\ Len(rows) \in Nat
      BY <1>t, <3>1, LenProperties DEF TypeInv, TypeOK
    <3> QED
      BY <3>1, <3>2
  <2> HIDE DEF n
  <2>6. RowsGrow /\ RowInv'
    BY <2>4, <2>5 DEF RowsGrow, DocInv, RowInv
  <2>7. RowRef(s.row, s.task)'
    BY <2>3, <2>4, <2>5 DEF RowRef
  <2>8. Knows(s)'
    BY <2>2, <2>3, <2>5, <2>7 DEF Knows, SnapOK, RowOK, Deleting, Exists, LateOps
  <2>9. Stays(proc[j], s)
    BY <2>2, <2>3 DEF Stays, Early, Will, Found, Late, LateOps
  <2> HIDE DEF t
  <2> QED
    BY <1>i, <2>2, <2>6, <2>8, <2>9, QuietKeepsDoc
<1>14. ASSUME NEW p \in Procs, DrainPop(p) PROVE DocInv'
  <2>1. UNCHANGED <<records, rows, flags>>
    BY <1>14 DEF DrainPop
  <2>2. CASE queue = <<>>
    BY <1>14, <1>d, <1>i, <2>1, <2>2, MoveKeepsDoc DEF DrainPop
  <2>3. CASE queue # <<>>
    <3>1. /\ Occurs(queue, Head(queue))
          /\ \A u : Occurs(Tail(queue), u) <=> Occurs(queue, u) /\ u # Head(queue)
      BY <1>t, <2>3, TailLine
    <3>2. PICK t : t = Head(queue)
      OBVIOUS
    <3>3. PICK s : s = [Idle EXCEPT !.at = "peek", !.task = t]
      OBVIOUS
    <3>4. /\ Becomes(p, s) /\ queue' = Tail(queue) /\ s.at = "peek" /\ s.op = "none"
          /\ s.task = t /\ s.row = 0
      BY <1>14, <2>3, <3>2, <3>3 DEF DrainPop, Idle
    <3>5. t \in Tasks /\ InQueue(t) /\ Exists(t)
      <4>1. InQueue(t)
        BY <3>1, <3>2 DEF InQueue, Occurs
      <4>2. t \in Tasks
        BY <1>t, <2>3, <3>2, HeadTailProperties
      <4> QED
        BY <1>p, <4>1, <4>2
    <3>6. \A u \in Tasks : InQueue(u)' => Exists(u)
      BY <1>p, <3>1, <3>4 DEF InQueue, Occurs
    <3>7. /\ records[t].status \in Before
          /\ \A q \in Procs : proc[q].task = t => proc[q].op = "cancelled"
      <4>1. \A q \in Procs : proc[q].task = t => proc[q].at # "park"
        BY <3>5 DEF LineInv, ParkInv
      <4> QED
        BY <1>t, <3>5, <4>1 DEF LineInv, WaitInv, Waits, Before, Knows
    <3>8. OnlyMoves(p) /\ proc'[p] = s
      BY <1>m, <3>4
    <3>9. OnItsOwn(t)' /\ PastIt(t)'
      <4>1. ~ Late(s)
        BY <3>4 DEF Late, LateOps
      <4> QED
        BY <2>1, <3>5, <3>7, <3>8, <4>1, AlonePhase
    <3>10. RowsGrow /\ RowInv' /\ Grows
      BY <2>1 DEF RowsGrow, DocInv, RowInv, Grows, Exists
    <3>11. Knows(s)
      BY <3>4, <3>5 DEF Knows, SnapOK, RowOK, RowRef, Deleting, LateOps
    <3>12. Knows(s)' /\ RecordOK(t)'
      BY <1>p, <2>1, <3>5, <3>6, <3>10, <3>11, KnowsStays, RecordKept
    <3> QED
      BY <2>1, <3>4, <3>5, <3>6, <3>9, <3>12, TaskKeepsDoc DEF Exists
  <2> QED
    BY <2>2, <2>3
<1>15. ASSUME NEW p \in Procs, Store(p) PROVE DocInv'
  BY <1>15, StoreKeepsDoc
<1>16. ASSUME NEW t \in Tasks, Expire(t) PROVE DocInv'
  BY <1>16 DEF Expire, Undisturbed, TypeInv, TypeOK
<1>17. ASSUME NEW p \in Procs, QuietAction(p) PROVE DocInv'
  BY <1>17, QuietKeepsDocs
<1> QED
  BY <1>q, <1>1, <1>2, <1>3, <1>4, <1>5, <1>6, <1>7, <1>8, <1>9, <1>10, <1>11, <1>12, <1>13,
     <1>14, <1>15, <1>16, <1>17
     DEF Next, Call, Serve, Work, Share, QuietAction

(* Where no route takes a log_id away from a running job and nothing        *)
(* expires, a COMPLETED task shows a log row of its own case and template   *)
(* that holds a document: the cancels, adoptions, second resumes and drains *)
(* that race with its job never leave it without one.                       *)
THEOREM CompletedHasDocumentCorrect ==
  ASSUME Undisturbed
  PROVE  Spec => []CompletedHasDocument
<1>1. Init => TypeInv /\ LineInv /\ DocInv
  BY TypeInit, LineInit, DocInit
<1>2. TypeInv /\ LineInv /\ DocInv /\ [Next]_vars => (TypeInv /\ LineInv /\ DocInv)'
  BY TypeNext, LineNext, DocNext
<1>3. DocInv => CompletedHasDocument
  BY DEF DocInv, RecordInv, RecordOK, DocRef, RowRef, CompletedHasDocument
<1> QED
  BY <1>1, <1>2, <1>3, PTL DEF Spec
-----------------------------------------------------------------------------
(***************************************************************************)
(* The cap.  It is counted before it is used, so active tasks alone prove  *)
(* nothing: what never grows is the load, the tasks that run or that a     *)
(* process at work may still make run (again: a cancel does not stop it),  *)
(* together with the drains that have counted and not yet popped.  When a  *)
(* count succeeds fewer than MaxConcurrent tasks run, and every process    *)
(* stands for at most one task or pop beside them.                         *)
(***************************************************************************)
Capped ==
  /\ Api \cap {"regenerate", "dismiss", "dismiss_active"} = {}
  /\ IsFiniteSet(Tasks) /\ IsFiniteSet(Procs)

Running == {t \in Tasks : records[t].status \in Active \ {"QUEUED"}}
Works(s) ==
  /\ s.at \notin {"idle", "count", "size", "create_queued", "park", "drain", "pop"} \cup Deleting
  /\ s.op # "cancelled"
Worked  == {t \in Tasks : \E p \in Procs : proc[p].task = t /\ Works(proc[p])}
Counted == {p \in Procs : proc[p].at = "pop"}
Bound   == MaxConcurrent + Cardinality(Procs) - 1
WithinBound == Cardinality(Running \cup Worked) + Cardinality(Counted) <= Bound

(* No route unlists a task, so the count misses none that runs.             *)
ListedInv ==
  /\ \A t \in Tasks : Exists(t) => t \in listed
  /\ \A p \in Procs : proc[p].at \notin Deleting

LoadInv == WithinBound /\ ListedInv

(* A process works on one task, so at most one task or pop is added by each.*)
LEMMA OneTaskEach ==
  ASSUME Capped, NEW run \in SUBSET Tasks, NEW worked \in SUBSET Tasks,
         NEW counted \in SUBSET Procs, NEW at,
         \A t \in worked : \E p \in Procs \ counted : at[p].task = t,
         Cardinality(run) < MaxConcurrent
  PROVE  Cardinality(run \cup worked) + Cardinality(counted) <= Bound
<1> DEFINE W == worked \ run
           f == [t \in W |-> CHOOSE p \in Procs \ counted : at[p].task = t]
           others == Procs \ counted
<1>1. \A t \in W : f[t] \in others /\ at[f[t]].task = t
  OBVIOUS
<1>2. f \in Injection(W, others)
  BY <1>1 DEF Injection, IsInjective
<1>3. IsFiniteSet(others) /\ Cardinality(others) = Cardinality(Procs) - Cardinality(counted)
  <2>1. Procs \cap counted = counted
    OBVIOUS
  <2> QED
    BY <2>1, FS_Difference DEF Capped
<1> HIDE DEF f, others
<1>4. IsFiniteSet(W) /\ Cardinality(W) <= Cardinality(others)
  BY <1>2, <1>3, FS_Injection
<1>5. run \cup worked = run \cup W /\ run \cap W = {}
  OBVIOUS
<1> HIDE DEF W
<1>6. IsFiniteSet(run) /\ IsFiniteSet(counted)
  BY FS_Subset DEF Capped
<1>7. /\ Cardinality(W) \in Nat /\ Cardinality(run) \in Nat /\ Cardinality(counted) \in Nat
      /\ Cardinality(Procs) \in Nat
  BY <1>4, <1>6, FS_CardinalityType DEF Capped
<1>8. Cardinality(run \cup W) = Cardinality(run) + Cardinality(W)
  <2>1. Cardinality(run \cup W) = Cardinality(run) + Cardinality(W) - Cardinality({})
    BY <1>4, <1>5, <1>6, FS_Union
  <2> QED
    BY <1>7, <2>1, FS_EmptySet
<1>9. Cardinality(run \cup worked) = Cardinality(run) + Cardinality(W)
  BY <1>5, <1>8
<1> QED
  BY <1>3, <1>4, <1>7, <1>9, ConstantsAssumption DEF Bound

(* Where fewer than MaxConcurrent tasks run the load is within its bound.   *)
LEMMA FewLoad == ASSUME Capped PROVE Cardinality(Running) < MaxConcurrent => WithinBound
<1>1. /\ Running \in SUBSET Tasks /\ Worked \in SUBSET Tasks /\ Counted \in SUBSET Procs
      /\ \A t \in Worked : \E p \in Procs \ Counted : proc[p].task = t
  BY DEF Running, Worked, Counted, Works
<1> QED
  BY <1>1, OneTaskEach DEF WithinBound

(* While fewer than the cap run, there is room for every process. *)
LEMMA FewLoadNext == ASSUME Capped PROVE Cardinality(Running') < MaxConcurrent => WithinBound'
<1>1. /\ Running' \in SUBSET Tasks /\ Worked' \in SUBSET Tasks /\ Counted' \in SUBSET Procs
      /\ \A t \in Worked' : \E p \in Procs \ Counted' : proc'[p].task = t
  BY DEF Running, Worked, Counted, Works
<1>2. Cardinality(Running') < MaxConcurrent => Cardinality(Running' \cup Worked') + Cardinality(Counted') <= Bound
  BY <1>1, OneTaskEach
<1> QED
  BY <1>2 DEF WithinBound, Bound

(* A count that succeeds, by a step that leaves the records alone.          *)
LEMMA CountKeepsBound ==
  ASSUME TypeInv, ListedInv, Capped, ~ (Cardinality(ActiveTasks) >= MaxConcurrent),
         records' = records
  PROVE  WithinBound'
<1>1. Running \subseteq ActiveTasks /\ ActiveTasks \subseteq Tasks
  BY DEF Running, ActiveTasks, Visible, ListedInv, Exists, Active, TypeInv, TypeOK
<1>2. IsFiniteSet(ActiveTasks) /\ IsFiniteSet(Running)
  BY <1>1, FS_Subset DEF Capped
<1>3. /\ Cardinality(Running) <= Cardinality(ActiveTasks) /\ Cardinality(ActiveTasks) \in Nat
      /\ Cardinality(Running) \in Nat
  BY <1>1, <1>2, FS_Subset, FS_CardinalityType
<1>4. Running' = Running
  BY DEF Running
<1>5. Cardinality(Running') < MaxConcurrent
  BY <1>3, <1>4, ConstantsAssumption
<1> QED
  BY <1>5, FewLoadNext

(* Nothing runs and nothing is counted at first. *)
LEMMA LoadInit == ASSUME Capped PROVE Init => LoadInv
<1> SUFFICES ASSUME Init PROVE LoadInv
  OBVIOUS
<1> USE ConstantsAssumption
<1>1. ListedInv
  BY DEF Init, ListedInv, Exists, NoRecord, Idle, Deleting
<1>2. Running = {}
  BY DEF Init, Running, NoRecord, Active
<1>3. Cardinality(Running) = 0
  BY <1>2, FS_EmptySet
<1>4. WithinBound
  BY <1>3, FewLoad
<1> QED
  BY <1>1, <1>4 DEF LoadInv

(* All that is counted is finite. *)
LEMMA LoadFinite ==
  ASSUME Capped
  PROVE  /\ IsFiniteSet(Running \cup Worked) /\ IsFiniteSet(Counted)
         /\ Cardinality(Running \cup Worked) \in Nat /\ Cardinality(Counted) \in Nat
         /\ Cardinality(Procs) \in Nat /\ Bound \in Int
<1>1. Running \cup Worked \subseteq Tasks /\ Counted \subseteq Procs
  BY DEF Running, Worked, Counted
<1>2. IsFiniteSet(Running \cup Worked) /\ IsFiniteSet(Counted)
  BY <1>1, FS_Subset DEF Capped
<1>3. /\ Cardinality(Running \cup Worked) \in Nat /\ Cardinality(Counted) \in Nat
      /\ Cardinality(Procs) \in Nat
  BY <1>2, FS_CardinalityType DEF Capped
<1> QED
  BY <1>2, <1>3, ConstantsAssumption DEF Bound

(* What has to be shown of a step: the load gets no new member.             *)
LEMMA LoadKept ==
  ASSUME Capped, WithinBound, (Running \cup Worked)' \subseteq Running \cup Worked,
         Counted' \subseteq Counted
  PROVE  WithinBound'
<1>1. /\ Cardinality((Running \cup Worked)') <= Cardinality(Running \cup Worked)
      /\ Cardinality(Counted') <= Cardinality(Counted)
  BY LoadFinite, FS_Subset
<1>2. /\ Cardinality((Running \cup Worked)') \in Nat /\ Cardinality(Counted') \in Nat
  <2>1. IsFiniteSet((Running \cup Worked)') /\ IsFiniteSet(Counted')
    BY LoadFinite, FS_Subset
  <2> QED
    BY <2>1, FS_CardinalityType
<1>3. Bound' = Bound
  BY DEF Bound
<1> QED
  BY <1>1, <1>2, <1>3, LoadFinite DEF WithinBound

(* A step of p that takes up no work and adds no running task beside its own*)
LEMMA StepKeepsLoad ==
  ASSUME Capped, TypeInv, WithinBound, NEW p \in Procs, NEW s, Becomes(p, s),
         s.at = "pop" => proc[p].at = "pop",
         s.task \in Tasks /\ Works(s) => s.task \in Running \/ (proc[p].task = s.task /\ Works(proc[p])),
         \A t \in Tasks : t \in Running' => t \in Running \/ (proc[p].task = t /\ Works(proc[p]))
  PROVE  WithinBound'
<1>1. OnlyMoves(p) /\ proc'[p] = s
  BY BecomesMoves
<1>2. Counted' \subseteq Counted
  BY <1>1 DEF Counted, OnlyMoves
<1>3. \A t \in Tasks : proc[p].task = t /\ Works(proc[p]) => t \in Worked
  BY DEF Worked
<1>4. Running' \subseteq Running \cup Worked
  BY <1>3 DEF Running
<1>5. Worked' \subseteq Running \cup Worked
  <2>1. ASSUME NEW t \in Tasks, NEW q \in Procs, proc'[q].task = t, Works(proc'[q])
        PROVE  t \in Running \cup Worked
    <3>1. CASE q = p
      BY <1>1, <1>3, <2>1, <3>1
    <3>2. CASE q # p
      BY <1>1, <2>1, <3>2 DEF OnlyMoves, Worked
    <3> QED
      BY <3>1, <3>2
  <2> QED
    BY <2>1 DEF Worked, Works
<1> QED
  BY <1>2, <1>4, <1>5, LoadKept

(* What never sets a task running keeps the list.                           *)
LEMMA ListedKept ==
  ASSUME TypeInv, ListedInv, NEW p \in Procs, NEW s, Becomes(p, s), s.at \notin Deleting,
         records' = records, listed' = listed \/ ListForUser
  PROVE  ListedInv'
<1>1. OnlyMoves(p) /\ proc'[p] = s
  BY BecomesMoves
<1>2. \A t \in Tasks : Exists(t)' => t \in listed'
  BY DEF ListedInv, ListForUser, Visible, Exists
<1> QED
  BY <1>1, <1>2 DEF ListedInv, OnlyMoves

(* Quiet steps: only the count of a drain lets a process pop.               *)
LEMMA QuietKeepsLoad ==
  ASSUME Capped, TypeInv, LoadInv, NEW p \in Procs, QuietAction(p)
  PROVE  LoadInv'
<1> USE ConstantsAssumption
<1>1. QuietStep(p)
  BY QuietActions
<1>2. OnlyMoves(p) /\ Quiet(proc[p], proc'[p]) /\ records' = records
  BY <1>1 DEF QuietStep
<1>t. proc[p] \in Process /\ WellFormed(proc[p]) /\ proc \in [Procs -> Process]
  BY DEF TypeInv, ProcsOK
<1>3. Running' = Running
  BY <1>2 DEF Running
<1>4. Worked' \subseteq Worked
  <2>1. ASSUME NEW t \in Tasks, NEW q \in Procs, proc'[q].task = t, Works(proc'[q])
        PROVE  t \in Worked
    <3>1. CASE q = p
      <4>1. /\ proc[p].task = t /\ proc[p].at \notin Starting \cup {"park"}
            /\ proc[p].at \notin Deleting /\ proc[p].op # "cancelled"
        BY <1>2, <2>1, <3>1 DEF Quiet, Works
      <4>2. proc[p].at \notin NoTaskYet
        BY <1>t, <4>1 DEF WellFormed
      <4>3. Works(proc[p])
        BY <4>1, <4>2 DEF Works, Starting, NoTaskYet
      <4> QED
        BY <4>1, <4>3 DEF Worked
    <3>2. CASE q # p
      BY <1>2, <2>1, <3>2 DEF OnlyMoves, Worked
    <3> QED
      BY <3>1, <3>2
  <2> QED
    BY <2>1 DEF Worked, Works
<1>5. CASE DrainCount(p)
  <2>1. /\ Becomes(p, Idle) \/ (Becomes(p, Moved(p, "pop")) /\ ~ (Cardinality(ActiveTasks) >= MaxConcurrent))
        /\ proc[p].at = "drain" /\ ListForUser
    BY <1>5 DEF DrainCount, At
  <2>2. Idle.at = "idle" /\ Moved(p, "pop").at = "pop"
    BY <1>t DEF Idle, Moved, Process
  <2>3. ListedInv'
    BY <1>2, <2>1, <2>2, ListedKept DEF LoadInv, Deleting
  <2>4. CASE Becomes(p, Idle)
    <3>1. Counted' \subseteq Counted
      BY <1>2, <1>t, <2>2, <2>4 DEF Counted, OnlyMoves, Becomes
    <3> QED
      BY <1>3, <1>4, <2>3, <3>1, LoadKept DEF LoadInv
  <2>5. CASE ~ (Cardinality(ActiveTasks) >= MaxConcurrent)
    BY <1>2, <2>3, <2>5, CountKeepsBound DEF LoadInv
  <2> QED
    BY <2>1, <2>4, <2>5
<1>6. CASE ~ DrainCount(p)
  <2>1. proc'[p].at \notin Deleting \cup {"pop"}
    <3> USE DEF Deleting
    <3>1. \A s : Becomes(p, s) => proc'[p] = s
      BY <1>t DEF Becomes
    <3> DEFINE to(l, o) == [proc[p] EXCEPT !.at = l, !.op = o]
               with(o, i) == [proc[p] EXCEPT !.at = "fetch", !.op = o, !.row = i]
    <3>2. /\ Idle.at = "idle" /\ [Idle EXCEPT !.at = "drain"].at = "drain"
          /\ \A l, o, i : /\ Moved(p, l).at = l /\ to(l, o).at = l /\ with(o, i).at = "fetch"
      BY <1>t DEF Idle, Moved, Process
    <3> HIDE DEF to, with
    <3>3. CASE Fetch(p)
      <4>1. proc[p].op \in Ops \ {"none"}
        BY <1>t, <3>3 DEF Fetch, At, WellFormed, Writing, Process
      <4>2. Then(proc[p].op, proc[p]).at \notin Deleting \cup {"pop"}
        BY <1>t, <4>1 DEF Then, Ops, Idle, Process
      <4>3. PICK label \in {"flag", "store"} :
              label = IF proc[p].op = "cancelled" THEN "flag" ELSE "store"
        OBVIOUS
      <4>4. PICK s : s = [proc[p] EXCEPT !.at = label, !.snap = records[proc[p].task]]
        OBVIOUS
      <4>5. s.at = label
        BY <1>t, <4>4 DEF Process
      <4>6. proc'[p] = Then(proc[p].op, proc[p]) \/ proc'[p] = s
        BY <3>1, <3>3, <4>3, <4>4 DEF Fetch
      <4> QED
        BY <4>2, <4>5, <4>6
    <3>4. CASE \/ SetCancelFlag(p) \/ BeginResume(p)
               \/ MarkRowDrafting(p) \/ EngineDelivers(p) \/ DropResult(p) \/ Crash(p)
      <4>1. \/ Becomes(p, Idle) \/ Becomes(p, [Idle EXCEPT !.at = "drain"])
            \/ \E l \in {"store", "load", "engine", "row_cancelled", "row_completed"} :
                 Becomes(p, Moved(p, l))
        BY <3>4
           DEF SetCancelFlag, BeginResume, MarkRowDrafting, EngineDelivers, DropResult, Crash
      <4> QED
        BY <3>1, <3>2, <4>1
    <3>5. CASE BeginDraft(p) \/ DrainPeek(p) \/ EngineFails(p) \/ EngineAsks(p) \/ KeepResult(p)
      <4>1. Becomes(p, Idle) \/ \E o \in Ops : Becomes(p, to("fetch", o))
        BY <3>5
           DEF BeginDraft, DrainPeek, EngineFails, EngineAsks, EngineStops, KeepResult, to, Ops
      <4> QED
        BY <3>1, <3>2, <4>1
    <3>6. CASE LoadForResume(p) \/ CheckExisting(p)
      <4>1. Becomes(p, Idle) \/ Becomes(p, Moved(p, "insert")) \/ \E o, i : Becomes(p, with(o, i))
        BY <3>6 DEF LoadForResume, CheckExisting, with
      <4> QED
        BY <3>1, <3>2, <4>1
    <3>7. ~ FindForDelete(p)
      BY DEF FindForDelete, At, LoadInv, ListedInv
    <3> QED
      BY <1>6, <3>3, <3>4, <3>5, <3>6, <3>7 DEF QuietAction
  <2>2. listed' = listed
    BY <1>6 DEF QuietAction, SetCancelFlag, FindForDelete, Fetch, BeginDraft, BeginResume,
       LoadForResume, CheckExisting, MarkRowDrafting, EngineFails, EngineAsks, EngineStops,
       EngineDelivers, DropResult, KeepResult, DrainPeek, Crash, redis
  <2>3. ListedInv'
    BY <1>2, <2>1, <2>2 DEF LoadInv, ListedInv, Exists, OnlyMoves
  <2>4. Counted' \subseteq Counted
    BY <1>2, <2>1 DEF Counted, OnlyMoves
  <2> QED
    BY <1>3, <1>4, <2>3, <2>4, LoadKept DEF LoadInv
<1> QED
  BY <1>5, <1>6

(* Every step keeps the load within its bound.                              *)
LEMMA LoadNext ==
  ASSUME Capped
  PROVE  TypeInv /\ LoadInv /\ [Next]_vars => LoadInv'
<1> SUFFICES ASSUME TypeInv, LoadInv, [Next]_vars PROVE LoadInv'
  OBVIOUS
<1> USE ConstantsAssumption
<1>t. /\ \A p \in Procs : proc[p] \in Process /\ WellFormed(proc[p])
      /\ records \in [Tasks -> Records] /\ proc \in [Procs -> Process]
  BY DEF TypeInv, TypeOK, ProcsOK
<1>q. Requests \subseteq Procs /\ Jobs \subseteq Procs
  BY DEF Procs
<1>x. \A p \in Procs : proc[p].at \notin NoTaskYet => proc[p].task \in Tasks
  BY <1>t DEF WellFormed, Process
<1>r. records' = records => Running' = Running
  BY DEF Running
<1>i. Idle.at = "idle" /\ Idle.task \notin Tasks
  BY DEF Idle
<1>l. WithinBound /\ ListedInv
  BY DEF LoadInv
<1>0. CASE UNCHANGED vars
  <2>1. UNCHANGED <<records, proc, listed>>
    BY <1>0 DEF vars
  <2> QED
    BY <1>l, <2>1
       DEF LoadInv, WithinBound, Running, Worked, Works, Counted, Bound, ListedInv, Exists
(* A step of p that leaves the records alone and takes up no work.          *)
<1>1. ASSUME NEW p \in Procs, NEW s, Becomes(p, s), records' = records, listed' = listed \/ ListForUser,
             s.at \notin Deleting, s.at # "pop",
             s.task \in Tasks /\ Works(s) =>
               s.task \in Running \/ (proc[p].task = s.task /\ Works(proc[p]))
      PROVE  LoadInv'
  <2>1. WithinBound'
    BY <1>l, <1>r, <1>1, StepKeepsLoad
  <2>2. ListedInv'
    BY <1>l, <1>1, ListedKept
  <2> QED
    BY <2>1, <2>2 DEF LoadInv
<1>2. ASSUME NEW r \in Requests, NEW t \in Tasks, NEW skip \in BOOLEAN, Start(r, t, skip)
      PROVE  LoadInv'
  <2>1. PICK s : s = [Idle EXCEPT !.at = "count", !.task = t, !.skip = skip]
    OBVIOUS
  <2>2. /\ s.at = "count" /\ Becomes(r, s) /\ records' = records
        /\ listed' = listed \/ ListForUser
    BY <1>2, <2>1 DEF Start, Idle
  <2> QED
    BY <1>q, <1>1, <2>2 DEF Works, Deleting
<1>3. ASSUME NEW r \in Requests, NEW t \in Tasks, UseExisting(r, t) \/ Cancel(r, t) PROVE LoadInv'
  <2> DEFINE adopt == [Idle EXCEPT !.at = "fetch", !.op = "adopt", !.task = t,
                                   !.row = records[t].existing]
             stop == [Idle EXCEPT
                        !.at = IF records[t].status = "QUEUED" THEN "unpark_cancel"
                                                               ELSE "fetch",
                        !.op = "cancelled", !.task = t]
  <2>1. /\ adopt.at = "fetch" /\ adopt.task = t
        /\ stop.at \in {"unpark_cancel", "fetch"} /\ ~ Works(stop)
    BY DEF Idle, Works
  <2>2. \/ Becomes(r, adopt) /\ records[t].status = "EXISTING_FOUND"
        \/ Becomes(r, stop)
    BY <1>3 DEF UseExisting, Cancel
  <2>3. UNCHANGED <<records, listed>>
    BY <1>3 DEF UseExisting, Cancel, redis
  <2>4. records[t].status = "EXISTING_FOUND" => t \in Running
    BY DEF Running, Active
  <2> HIDE DEF adopt, stop
  <2> QED
    BY <1>q, <1>1, <2>1, <2>2, <2>3, <2>4 DEF Deleting
<1>4. ASSUME NEW r \in Requests, NEW t \in Tasks, Regenerate(r, t) \/ Dismiss(r, t) PROVE LoadInv'
  BY <1>4 DEF Regenerate, Dismiss, Capped
(* A message is about the task of its sender or one that awaits input.      *)
<1>5. ASSUME NEW p \in Procs, NEW label \in InBroker, NEW t \in Tasks, NEW skip,
             Kiq(p, label, t, skip), UNCHANGED <<records, listed>>,
             t \in Running \/ (proc[p].task = t /\ Works(proc[p]))
      PROVE  LoadInv'
  <2> DEFINE m == [Idle EXCEPT !.at = label, !.task = t, !.skip = skip]
  <2>1. PICK j \in Jobs : proc' = [proc EXCEPT ![p] = Idle, ![j] = m]
    BY <1>5 DEF Kiq
  <2>2. m.at = label /\ m.task = t
    BY DEF Idle
  <2> HIDE DEF m
  <2>3. \A q \in Procs : proc'[q] = m \/ proc'[q] = Idle \/ proc'[q] = proc[q]
    BY <1>t, <2>1
  <2>4. Counted' \subseteq Counted
    BY <1>i, <2>2, <2>3 DEF Counted, InBroker
  <2>5. Worked' \subseteq Running \cup Worked
    <3>1. \A u \in Tasks, q \in Procs : proc'[q].task = u /\ Works(proc'[q]) =>
             u = t \/ (proc[q].task = u /\ Works(proc[q]))
      BY <1>i, <2>2, <2>3
    <3>2. t \in Running \cup Worked
      BY <1>5 DEF Worked
    <3> QED
      BY <3>1, <3>2 DEF Worked, Works
  <2>6. WithinBound'
    BY <1>l, <1>r, <1>5, <2>4, <2>5, LoadKept
  <2>7. ListedInv'
    BY <1>5, <1>i, <1>l, <2>2, <2>3 DEF ListedInv, Exists, InBroker, Deleting
  <2> QED
    BY <2>6, <2>7 DEF LoadInv
<1>6. ASSUME NEW r \in Requests, NEW t \in Tasks, SubmitInput(r, t) PROVE LoadInv'
  <2>1. /\ Kiq(r, "queued_resume", t, FALSE) /\ UNCHANGED <<records, listed>>
        /\ records[t].status = "AWAITING_INPUT"
    BY <1>6 DEF SubmitInput, redis
  <2>2. t \in Running
    BY <2>1 DEF Running, Active
  <2> QED
    BY <1>q, <1>5, <2>1, <2>2 DEF InBroker
<1>7. ASSUME NEW p \in Procs, Kick(p) PROVE LoadInv'
  <2>1. /\ Kiq(p, "queued_draft", proc[p].task, proc[p].skip) /\ UNCHANGED <<records, listed>>
        /\ proc[p].at = "kick"
    BY <1>7 DEF Kick, At, redis
  <2>2. proc[p].task \in Tasks /\ Works(proc[p])
    BY <1>t, <1>x, <2>1 DEF NoTaskYet, Works, Deleting, WellFormed, Writing
  <2> QED
    BY <1>5, <2>1, <2>2 DEF InBroker
<1>8. ASSUME NEW r \in Requests, CountActive(r) PROVE LoadInv'
  <2>1. /\ \/ Becomes(r, Moved(r, "size"))
           \/ Becomes(r, Moved(r, "create_pending")) /\ ~ (Cardinality(ActiveTasks) >= MaxConcurrent)
        /\ records' = records /\ ListForUser
    BY <1>8 DEF CountActive
  <2>2. /\ Moved(r, "size").at = "size" /\ Moved(r, "create_pending").at = "create_pending"
    BY <1>q, <1>t DEF Moved, Process
  <2>3. CASE Becomes(r, Moved(r, "size"))
    BY <1>q, <1>1, <2>1, <2>2, <2>3 DEF Works, Deleting
  <2>4. CASE Becomes(r, Moved(r, "create_pending")) /\ ~ (Cardinality(ActiveTasks) >= MaxConcurrent)
    <3>1. WithinBound'
      BY <1>l, <2>1, <2>4, CountKeepsBound
    <3>2. ListedInv'
      BY <1>l, <1>q, <2>1, <2>2, <2>4, ListedKept DEF Deleting
    <3> QED
      BY <3>1, <3>2 DEF LoadInv
  <2> QED
    BY <2>1, <2>3, <2>4
<1>9. ASSUME NEW r \in Requests, CheckQueueSize(r) \/ Park(r) \/ RemoveFromQueue(r) PROVE LoadInv'
  <2>1. /\ UNCHANGED <<records, listed>>
        /\ \/ Becomes(r, Idle) \/ Becomes(r, Moved(r, "create_queued"))
           \/ Becomes(r, Moved(r, "fetch")) /\ proc[r].at = "unpark_cancel"
    BY <1>9 DEF CheckQueueSize, Park, RemoveFromQueue, At
  <2>2. /\ Moved(r, "create_queued").at = "create_queued"
        /\ Moved(r, "fetch").at = "fetch" /\ Moved(r, "fetch").op = proc[r].op
        /\ Moved(r, "fetch").task = proc[r].task
    BY <1>q, <1>t DEF Moved, Process
  <2>3. proc[r].at = "unpark_cancel" /\ Works(Moved(r, "fetch")) => Works(proc[r])
    BY <2>2 DEF Works, Deleting
  <2> QED
    BY <1>i, <1>q, <1>1, <2>1, <2>2, <2>3 DEF Works, Deleting
<1>10. ASSUME NEW r \in Requests, Create(r) PROVE LoadInv'
  <2>1. PICK t : t = proc[r].task
    OBVIOUS
  <2>2. PICK status \in {"PENDING", "QUEUED"}, label \in {"kick", "park"} :
          /\ records' = [records EXCEPT ![t] = [NoRecord EXCEPT !.status = status]]
          /\ Becomes(r, Moved(r, label)) /\ listed' = listed \cup {t}
          /\ \/ proc[r].at = "create_pending"
             \/ proc[r].at = "create_queued" /\ status = "QUEUED" /\ label = "park"
    BY <1>10, <2>1 DEF Create, At
  <2>3. t \in Tasks /\ proc[r].op = "none"
    BY <1>q, <1>t, <1>x, <2>1, <2>2 DEF NoTaskYet, WellFormed, Writing
  <2>4. PICK s : s = Moved(r, label) /\ s.at = label /\ s.task = t
    <3>1. Moved(r, label).at = label /\ Moved(r, label).task = t
      BY <1>q, <1>t, <2>1 DEF Moved, Process
    <3> QED
      BY <3>1
  <2>5. records'[t].status = status /\ \A u \in Tasks \ {t} : records'[u] = records[u]
    BY <1>t, <2>2, <2>3 DEF NoRecord
  <2>6. proc[r].at = "create_pending" => Works(proc[r])
    BY <2>3 DEF Works, Deleting
  <2>7. \A u \in Tasks : u \in Running' => u \in Running \/ (proc[r].task = u /\ Works(proc[r]))
    <3>1. ASSUME NEW u \in Tasks, u \in Running' PROVE u \in Running \/ (proc[r].task = u /\ Works(proc[r]))
      <4>1. records'[u].status \in Active \ {"QUEUED"}
        BY <3>1 DEF Running
      <4> QED
        BY <2>1, <2>2, <2>5, <2>6, <4>1 DEF Running
    <3> QED
      BY <3>1
  <2>8. WithinBound'
    <3>1. s.at # "pop" /\ (Works(s) => Works(proc[r]))
      BY <2>2, <2>4, <2>6 DEF Works
    <3> QED
      BY <1>l, <1>q, <2>1, <2>2, <2>4, <2>7, <3>1, StepKeepsLoad
  <2>9. ListedInv'
    <3>1. OnlyMoves(r) /\ proc'[r] = s
      BY <1>q, <2>2, <2>4, BecomesMoves
    <3>2. \A u \in Tasks : Exists(u)' => u \in listed'
      BY <1>l, <2>2, <2>5 DEF ListedInv, Exists
    <3> QED
      BY <1>l, <2>4, <3>1, <3>2 DEF ListedInv, OnlyMoves, Deleting
  <2> QED
    BY <2>8, <2>9 DEF LoadInv
<1>11. ASSUME NEW r \in Requests, Delete(r) PROVE LoadInv'
  BY <1>11, <1>l, <1>q DEF Delete, At, ListedInv, Deleting
<1>12. ASSUME NEW j \in Jobs, InsertRow(j) PROVE LoadInv'
  <2>1. PICK s : s = [proc[j] EXCEPT !.at = "fetch", !.op = "attach", !.row = Len(rows) + 1]
    OBVIOUS
  <2>2. /\ Becomes(j, s) /\ proc[j].at = "insert" /\ j \in Procs /\ UNCHANGED <<records, listed>>
    BY <1>12, <1>q, <2>1 DEF InsertRow, At, redis
  <2>3. s.at = "fetch" /\ s.task = proc[j].task /\ proc[j].op = "none"
    BY <1>t, <2>1, <2>2 DEF Process, WellFormed, Writing
  <2>4. Works(proc[j])
    BY <2>2, <2>3 DEF Works, Deleting
  <2> QED
    BY <1>1, <2>2, <2>3, <2>4 DEF Deleting
(* The write of a process at work is of a task it works on.                 *)
<1>13. ASSUME NEW p \in Procs, Store(p) PROVE LoadInv'
  <2>1. PICK t, o : t = proc[p].task /\ o = proc[p].op
    OBVIOUS
  <2>2. PICK b : b = [proc[p] EXCEPT !.snap = NoRecord]
    OBVIOUS
  <2>3. PICK s : s = Then(o, b)
    OBVIOUS
  <2>4. /\ Becomes(p, s) /\ proc[p].at = "store" /\ listed' = listed \cup {t}
        /\ records' = [records EXCEPT ![t] = Updated(o, proc[p].snap, proc[p].row)]
    BY <1>13, <2>1, <2>2, <2>3 DEF Store, At
  <2>5. t \in Tasks /\ o \in Ops \ {"none"}
    BY <1>t, <1>x, <2>1, <2>4 DEF NoTaskYet, WellFormed, Writing, Process
  <2>6. b \in Process /\ b.task = t
    BY <1>t, <2>1, <2>2, NoRecordType DEF Process
  <2>7. s.task \in Tasks => s.task = t /\ o # "cancelled"
    BY <2>3, <2>5, <2>6, ThenLine
  <2>8. s.at \notin Deleting \cup {"pop"}
    BY <2>3, <2>5, <2>6 DEF Then, Ops, Idle, Process, Deleting
  <2>9. o # "cancelled" => Works(proc[p])
    BY <2>1, <2>4 DEF Works, Deleting
  <2>10. o = "cancelled" => records'[t].status = "CANCELLED"
    <3>1. ASSUME o = "cancelled" PROVE Updated(o, proc[p].snap, proc[p].row).status = "CANCELLED"
      <4>1. proc[p].snap \in Records
        BY <1>t DEF Process
      <4> QED
        BY <3>1, <4>1 DEF Updated, Records
    <3> QED
      BY <1>t, <2>4, <2>5, <3>1
  <2>11. \A u \in Tasks \ {t} : records'[u] = records[u]
    BY <1>t, <2>4
  <2>12. ASSUME NEW u \in Tasks, u \in Running' PROVE u \in Running \/ (proc[p].task = u /\ Works(proc[p]))
    <3>1. records'[u].status \in Active \ {"QUEUED"}
      BY <2>12 DEF Running
    <3> QED
      BY <2>1, <2>9, <2>10, <2>11, <3>1 DEF Running, Active
  <2>13. WithinBound'
    BY <1>l, <2>1, <2>4, <2>7, <2>8, <2>9, <2>12, StepKeepsLoad
  <2>14. ListedInv'
    <3>1. OnlyMoves(p) /\ proc'[p] = s
      BY <2>4, BecomesMoves
    <3>2. \A u \in Tasks : Exists(u)' => u \in listed'
      BY <1>l, <2>4, <2>11 DEF ListedInv, Exists
    <3> QED
      BY <1>l, <2>8, <3>1, <3>2 DEF ListedInv, OnlyMoves
  <2> QED
    BY <2>13, <2>14 DEF LoadInv
(* A pop turns a drain that has counted into one that works on a task.      *)
<1>14. ASSUME NEW p \in Procs, DrainPop(p) PROVE LoadInv'
  <2>1. UNCHANGED <<records, listed>> /\ proc[p].at = "pop"
    BY <1>14 DEF DrainPop, At
  <2>2. CASE Becomes(p, Idle)
    BY <1>1, <1>i, <2>1, <2>2 DEF Deleting
  <2>3. CASE ~ Becomes(p, Idle)
    <3>1. PICK s : s = [Idle EXCEPT !.at = "peek", !.task = Head(queue)]
      OBVIOUS
    <3>2. Becomes(p, s) /\ s.at = "peek"
      BY <1>14, <2>3, <3>1 DEF DrainPop, Idle
    <3>3. PICK t : t = s.task
      OBVIOUS
    <3>4. OnlyMoves(p) /\ proc'[p] = s
      BY <3>2, BecomesMoves
    <3>5. Counted' = Counted \ {p} /\ p \in Counted
      BY <2>1, <3>2, <3>4 DEF Counted, OnlyMoves
    <3>6. (Running \cup Worked)' \subseteq (Running \cup Worked) \cup {t}
      <4>1. Running' = Running
        BY <1>r, <2>1
      <4>2. Worked' \subseteq Worked \cup {t}
        <5>1. ASSUME NEW u \in Tasks \ {t}, NEW q \in Procs, proc'[q].task = u, Works(proc'[q])
              PROVE  u \in Worked
          <6>1. q # p
            BY <3>3, <3>4, <5>1
          <6> QED
            BY <3>4, <5>1, <6>1 DEF OnlyMoves, Worked
        <5> QED
          BY <5>1 DEF Worked, Works
      <4> QED
        BY <4>1, <4>2
    <3> DEFINE load == Running \cup Worked
    <3>7. IsFiniteSet(load) /\ Cardinality(load) \in Nat /\ IsFiniteSet(Counted)
          /\ Cardinality(Counted) \in Nat /\ Bound \in Int
      BY LoadFinite
    <3>8. /\ IsFiniteSet(load \cup {t})
          /\ \/ Cardinality(load \cup {t}) = Cardinality(load)
             \/ Cardinality(load \cup {t}) = Cardinality(load) + 1
      BY <3>7, FS_AddElement
    <3>9. load' \subseteq load \cup {t}
      BY <3>6
    <3>10. IsFiniteSet(load') /\ Cardinality(load') <= Cardinality(load \cup {t})
      BY <3>8, <3>9, FS_Subset
    <3>11. Cardinality(load') \in Nat
      BY <3>10, FS_CardinalityType
    <3>12. Cardinality(Counted') = Cardinality(Counted) - 1
      BY <3>5, <3>7, FS_RemoveElement
    <3>13. Bound' = Bound
      BY DEF Bound
    <3>w. Cardinality(load) + Cardinality(Counted) <= Bound
      BY <1>l DEF WithinBound
    <3>14. WithinBound'
      <4>1. Cardinality(load') + Cardinality(Counted') <= Bound'
        <5> HIDE DEF load
        <5> QED
          BY <3>7, <3>8, <3>10, <3>11, <3>12, <3>13, <3>w
      <4> QED
        BY <4>1 DEF WithinBound
    <3>15. ListedInv'
      BY <1>l, <2>1, <3>2, ListedKept DEF Deleting
    <3> QED
      BY <3>14, <3>15 DEF LoadInv
  <2> QED
    BY <2>2, <2>3
<1>15. ASSUME NEW t \in Tasks, Expire(t) PROVE LoadInv'
  <2>1. UNCHANGED <<proc, listed>> /\ (records' = records \/ records' = [records EXCEPT ![t] = NoRecord])
    BY <1>15 DEF Expire
  <2>2. \A u \in Tasks : records'[u] = records[u] \/ records'[u].status = "NONE"
    BY <1>t, <2>1 DEF NoRecord
  <2>3. Running' \subseteq Running
    BY <2>2 DEF Running, Active
  <2>4. Worked' = Worked /\ Counted' = Counted
    BY <2>1 DEF Worked, Works, Counted
  <2>5. WithinBound'
    BY <1>l, <2>3, <2>4, LoadKept
  <2>6. ListedInv'
    BY <1>l, <2>1, <2>2 DEF ListedInv, Exists
  <2> QED
    BY <2>5, <2>6 DEF LoadInv
<1>16. ASSUME NEW p \in Procs, QuietAction(p) PROVE LoadInv'
  BY <1>16, QuietKeepsLoad
<1> QED
  BY <1>q, <1>0, <1>2, <1>3, <1>4, <1>6, <1>7, <1>8, <1>9, <1>10, <1>11, <1>12, <1>13, <1>14, <1>15,
     <1>16
     DEF Next, Call, Serve, Work, Share, QuietAction

(* The cap is passed by no more than the processes that counted at the same *)
(* time: however starts, drains, cancels, crashes and expiries interleave,  *)
(* at most MaxConcurrent + |Procs| - 1 drafts are active beside the parked. *)
THEOREM OvershootIsBoundedCorrect ==
  ASSUME Capped
  PROVE  Spec => []OvershootIsBounded
<1>1. Init => TypeInv /\ LoadInv
  BY TypeInit, LoadInit
<1>2. TypeInv /\ LoadInv /\ [Next]_vars => (TypeInv /\ LoadInv)'
  BY TypeNext, LoadNext
<1>3. TypeInv /\ LoadInv => OvershootIsBounded
  <2> SUFFICES ASSUME TypeInv, LoadInv PROVE OvershootIsBounded
    OBVIOUS
  <2> DEFINE shown == {t \in ActiveTasks : records[t].status # "QUEUED"}
             load == Running \cup Worked
  <2>1. shown \subseteq load
    BY DEF ActiveTasks, Visible, Running, TypeInv, TypeOK
  <2>2. /\ IsFiniteSet(load) /\ Cardinality(load) \in Nat /\ Cardinality(Counted) \in Nat
        /\ Cardinality(Procs) \in Nat
    BY LoadFinite
  <2>3. Cardinality(load) + Cardinality(Counted) <= Bound
    BY DEF LoadInv, WithinBound
  <2> HIDE DEF load
  <2>4. IsFiniteSet(shown) /\ Cardinality(shown) <= Cardinality(load)
    BY <2>1, <2>2, FS_Subset
  <2>5. Cardinality(shown) \in Nat
    BY <2>4, FS_CardinalityType
  <2> HIDE DEF shown
  <2>6. Cardinality(shown) <= MaxConcurrent + Cardinality(Procs) - 1
    BY <2>2, <2>3, <2>4, <2>5, ConstantsAssumption DEF Bound
  <2> QED
    BY <2>6 DEF OvershootIsBounded, shown
<1> QED
  BY <1>1, <1>2, <1>3, PTL DEF Spec
=============================================================================
