------------------------ MODULE PleadingTasks_proofs ------------------------
(***************************************************************************)
(* Theorems about PleadingTasks, for every choice of its constants.        *)
(***************************************************************************)
EXTENDS PleadingTasks, SequenceTheorems, TLAPS

USE PleadingAssumption DEF Procs

Labels == Updates \cup {"idle", "enqueue", "begin", "lookup", "recheck", "extract", "enrich",
                        "kick", "load", "generate"}
Process == [at : Labels, task : Tasks \cup {NoTask}, copy : Record \cup {Absent},
            job : JobKinds \cup {"none"}]

(* What the label of a process says of its other fields: it has a task      *)
(* unless it is idle, and a job where it runs or enqueues one.              *)
WithJob == {"submit", "regenerate", "enqueue", "begin"}
WellFormed(s) ==
  /\ s.at = "idle" <=> s.task = NoTask
  /\ s.at \in WithJob => s.job \in JobKinds

TypeInv ==
  /\ TypeOK
  /\ proc \in [Procs -> Process]
  /\ \A p \in Procs : WellFormed(proc[p])

(* An idle process is a process. *)
LEMMA IdleType == Idle \in Process /\ WellFormed(Idle)
BY DEF Idle, Process, Labels, WellFormed, WithJob

(* Tasks move between these labels only.                                    *)
LEMMA LabelsType ==
  /\ Updates \subseteq Labels \ {"idle"}
  /\ \A op \in Updates : AfterUpdate[op] \subseteq (Labels \ {"idle"}) \cup {"end"}
  /\ \A op \in Updates : \A next \in AfterUpdate[op] :
       next \in WithJob => op \in WithJob
  /\ \A kind \in JobKinds : FirstUpdate[kind] \in Labels \ (WithJob \cup {"idle"})
<1>1. Updates \subseteq Labels \ {"idle"}
  BY DEF Updates, Labels
<1>2. \A op \in Updates :
        AfterUpdate[op] \in {{"lookup"}, {"extract"}, {"ask_missing"}, {"kick", "enrich"},
                             {"load"}, {"enqueue"}, {"end"}}
  BY DEF AfterUpdate, Updates
<1>3. \A op \in Updates : "enqueue" \in AfterUpdate[op] => op \in {"submit", "regenerate"}
  BY DEF AfterUpdate, Updates
<1>4. \A kind \in JobKinds : FirstUpdate[kind] \in {"checking", "recheck", "extracting", "generating"}
  BY DEF JobKinds, FirstUpdate
<1> QED
  BY <1>1, <1>2, <1>3, <1>4 DEF Labels, Updates, WithJob

(* What an update writes is a record.                                       *)
LEMMA ChangedType ==
  ASSUME NEW op \in Updates, NEW copy \in Record
  PROVE  Changed(op, copy) \in Record
<1> DEFINE Statuses == Working \cup Asking \cup Terminal
<1>1. StatusAfter[op] \in Statuses \cup {"kept"}
  BY DEF StatusAfter, Updates, Working, Asking, Terminal
<1>2. copy.status \in Statuses /\ copy.payload \in BOOLEAN /\ copy.missing \in BOOLEAN
  BY DEF Record
<1> DEFINE status == IF StatusAfter[op] = "kept" THEN copy.status ELSE StatusAfter[op]
           payload == copy.payload \/ op \in {"store", "store_partial"}
           missing == IF op \in {"ask", "ask_missing"} THEN op = "ask_missing" ELSE copy.missing
<1>3. status \in Statuses /\ payload \in BOOLEAN /\ missing \in BOOLEAN
  BY <1>1, <1>2
<1>4. Changed(op, copy) = [status |-> status, payload |-> payload, missing |-> missing]
  BY DEF Changed
<1> HIDE DEF status, payload, missing
<1> QED
  BY <1>3, <1>4 DEF Record

(* Where a process goes when it moves on.                                   *)
LEMMA GoesType ==
  ASSUME TypeInv, NEW p \in Procs, proc[p].at # "idle",
         NEW label \in (Labels \ {"idle"}) \cup {"end"},
         label \in WithJob => proc[p].at \in WithJob, Goes(p, label)
  PROVE  /\ proc' \in [Procs -> Process] /\ \A q \in Procs : WellFormed(proc'[q])
         /\ \A q \in Procs : q # p => proc'[q] = proc[q]
         /\ proc'[p].task \in {proc[p].task, NoTask}
<1>1. proc \in [Procs -> Process] /\ \A q \in Procs : WellFormed(proc[q])
  BY DEF TypeInv
<1>2. CASE label = "end"
  <2>1. proc' = [proc EXCEPT ![p] = Idle]
    BY <1>2 DEF Goes, Moved, Becomes
  <2> QED
    BY <1>1, <2>1, IdleType DEF Idle
<1>3. CASE label # "end"
  <2> DEFINE s == [proc[p] EXCEPT !.at = label, !.copy = Absent]
  <2>1. proc' = [proc EXCEPT ![p] = s]
    BY <1>3 DEF Goes, Moved, Becomes
  <2>2. proc[p] \in Process /\ WellFormed(proc[p])
    BY <1>1
  <2>3. s \in Process /\ s.task = proc[p].task
    BY <1>3, <2>2 DEF Process
  <2>4. WellFormed(s)
    BY <1>3, <2>2 DEF Process, WellFormed
  <2> HIDE DEF s
  <2> QED
    BY <1>1, <2>1, <2>3, <2>4
<1> QED
  BY <1>2, <1>3

(* A call or a job that starts.                                             *)
LEMMA StartType ==
  ASSUME TypeInv, NEW p \in Procs, NEW s \in Process, WellFormed(s), Becomes(p, s)
  PROVE  /\ proc' \in [Procs -> Process] /\ \A q \in Procs : WellFormed(proc'[q])
         /\ \A q \in Procs : q # p => proc'[q] = proc[q]
BY DEF TypeInv, Becomes

(* So is one that runs a job. *)
LEMMA RunType ==
  ASSUME NEW t \in Tasks, NEW label \in Labels \ {"idle"}, NEW job \in JobKinds \cup {"none"},
         label \in WithJob => job \in JobKinds
  PROVE  Run(label, t, job) \in Process /\ WellFormed(Run(label, t, job))
         /\ Run(label, t, job).task = t /\ Run(label, t, job).at = label
<1>1. Run(label, t, job) \in Process
  BY IdleType DEF Run, Process
<1>2. /\ Run(label, t, job).task = t /\ Run(label, t, job).at = label
      /\ Run(label, t, job).job = job
  BY DEF Run, Idle
<1> QED
  BY <1>1, <1>2 DEF WellFormed

(* The types of the parts are the types of the whole. *)
LEMMA TypeParts ==
  ASSUME proc' \in [Procs -> Process], \A q \in Procs : WellFormed(proc'[q]),
         record' \in [Tasks -> Record \cup {Absent}], listed' \subseteq Tasks,
         queue' \in Seq(Job), Len(queue') <= MaxQueue, faults' \in 0 .. MaxFaults
  PROVE  TypeInv'
BY DEF TypeInv, TypeOK, Process

(* Jobs are added at the end of the broker's list and taken at its head.    *)
LEMMA AppendJob ==
  ASSUME TypeInv, NEW job \in Job, Len(queue) < MaxQueue
  PROVE  /\ Append(queue, job) \in Seq(Job) /\ Len(Append(queue, job)) <= MaxQueue
         /\ \A i \in DOMAIN Append(queue, job) :
              Append(queue, job)[i] = job \/ \E k \in DOMAIN queue : Append(queue, job)[i] = queue[k]
<1>1. queue \in Seq(Job) /\ Len(queue) \in Nat /\ DOMAIN queue = 1 .. Len(queue)
  BY LenProperties DEF TypeInv, TypeOK
<1>2. /\ Append(queue, job) \in Seq(Job) /\ Len(Append(queue, job)) = Len(queue) + 1
      /\ \A i \in 1 .. Len(queue) : Append(queue, job)[i] = queue[i]
      /\ Append(queue, job)[Len(queue) + 1] = job
  BY <1>1, AppendProperties
<1>3. DOMAIN Append(queue, job) = 1 .. Len(queue) + 1
  BY <1>2, LenProperties
<1> QED
  BY <1>1, <1>2, <1>3

(* The jobs behind the head are jobs of the queue. *)
LEMMA TailJobs ==
  ASSUME TypeInv, queue # <<>>
  PROVE  /\ Tail(queue) \in Seq(Job) /\ Len(Tail(queue)) <= MaxQueue
         /\ Head(queue) \in Job /\ 1 \in DOMAIN queue /\ Head(queue) = queue[1]
         /\ \A i \in DOMAIN Tail(queue) : \E k \in DOMAIN queue : Tail(queue)[i] = queue[k]
<1>1. /\ queue \in Seq(Job) /\ Len(queue) \in Nat /\ DOMAIN queue = 1 .. Len(queue)
      /\ Len(queue) <= MaxQueue
  BY LenProperties DEF TypeInv, TypeOK
<1>2. /\ Head(queue) \in Job /\ Head(queue) = queue[1] /\ Tail(queue) \in Seq(Job)
      /\ Len(Tail(queue)) = Len(queue) - 1 /\ Len(queue) # 0
      /\ \A i \in 1 .. Len(Tail(queue)) : Tail(queue)[i] = queue[i + 1]
  BY <1>1, HeadTailProperties, EmptySeq
<1>3. DOMAIN Tail(queue) = 1 .. Len(Tail(queue))
  BY <1>2, LenProperties
<1>4. 1 \in DOMAIN queue /\ \A i \in DOMAIN Tail(queue) : i + 1 \in DOMAIN queue
  BY <1>1, <1>2, <1>3
<1> QED
  BY <1>1, <1>2, <1>3, <1>4

(* The types hold at first. *)
LEMMA TypeInit == Init => TypeInv
<1> SUFFICES ASSUME Init PROVE TypeInv
  OBVIOUS
<1>1. proc \in [Procs -> Process] /\ \A p \in Procs : WellFormed(proc[p])
  BY IdleType DEF Init
<1>2. queue \in Seq(Job) /\ Len(queue) <= MaxQueue
  BY EmptySeq DEF Init
<1> QED
  BY <1>1, <1>2 DEF Init, TypeInv, TypeOK, Process
(* Every step keeps the types, action by action.                            *)
LEMMA TypeNext == TypeInv /\ [Next]_vars => TypeInv'
<1> SUFFICES ASSUME TypeInv, [Next]_vars PROVE TypeInv'
  OBVIOUS
<1> USE DEF vars
<1>t. /\ proc \in [Procs -> Process] /\ \A q \in Procs : WellFormed(proc[q])
      /\ record \in [Tasks -> Record \cup {Absent}] /\ listed \subseteq Tasks
      /\ queue \in Seq(Job) /\ Len(queue) <= MaxQueue /\ faults \in 0 .. MaxFaults
  BY DEF TypeInv, TypeOK
<1>w. \A p \in Procs : proc[p].at # "idle" => proc[p].task \in Tasks
  BY <1>t DEF WellFormed, Process
<1>l. /\ Updates \cap {"idle"} = {} /\ Updates \subseteq Labels
      /\ {"lookup", "recheck", "extract", "enrich", "kick", "load", "generate", "begin",
          "enqueue"} \subseteq Labels \ {"idle"}
      /\ {"worker_id", "found", "extracting", "ask", "ask_missing", "store", "store_partial",
          "error", "result", "stale", "cancel", "use_existing", "submit", "regenerate"}
         \subseteq Updates
  BY DEF Labels, Updates
<1>d. ASSUME NEW p \in Procs, Goes(p, "end"), proc[p].at # "idle",
             record' = record, listed' = listed, queue' = queue, faults' \in 0 .. MaxFaults
      PROVE  TypeInv'
  BY <1>d, <1>t, GoesType, TypeParts DEF WithJob
<1>g. ASSUME NEW p \in Procs, NEW label \in (Labels \ {"idle"}) \cup {"end"}, Goes(p, label),
             proc[p].at # "idle", label \notin WithJob,
             record' = record, listed' = listed, queue' = queue, faults' = faults
      PROVE  TypeInv'
  BY <1>g, <1>t, GoesType, TypeParts
<1>c. ASSUME NEW p \in Procs, NEW label \in Labels \ {"idle"}, Check(p, label),
             proc[p].at # "idle", label \notin WithJob
      PROVE  TypeInv'
  <2>1. PICK next \in {"end", label} : Goes(p, next)
    BY <1>c DEF Check
  <2>2. next \in (Labels \ {"idle"}) \cup {"end"} /\ next \notin WithJob
    BY <1>c, <2>1 DEF WithJob
  <2> QED
    BY <1>c, <1>g, <2>1, <2>2 DEF Check
<1>s. ASSUME NEW p \in Procs, NEW u \in Tasks, NEW label \in Labels \ {"idle"},
             NEW job \in JobKinds \cup {"none"}, label \in WithJob => job \in JobKinds,
             Becomes(p, Run(label, u, job)), queue' = queue, faults' = faults,
             record' \in [Tasks -> Record \cup {Absent}], listed' \subseteq Tasks
      PROVE  TypeInv'
  <2>1. Run(label, u, job) \in Process /\ WellFormed(Run(label, u, job))
    BY <1>s, RunType
  <2> QED
    BY <1>s, <1>t, <2>1, StartType, TypeParts
<1>0. CASE UNCHANGED vars
  BY <1>0, <1>t, TypeParts
<1>1. ASSUME NEW p \in Procs, Read(p) PROVE TypeInv'
  <2> DEFINE op == proc[p].at
             r  == record[proc[p].task]
  <2>1. op \in Updates /\ op # "idle" /\ r \in Record \cup {Absent} /\ proc[p] \in Process
    BY <1>1, <1>t, <1>l, <1>w DEF Read
  <2>2. CASE Becomes(p, [proc[p] EXCEPT !.copy = r])
    <3>1. PICK copy \in Record \cup {Absent} : copy = r
      BY <2>1
    <3> DEFINE s == [proc[p] EXCEPT !.copy = copy]
    <3>2. s \in Process
      BY <2>1 DEF Process
    <3>3. WellFormed(s)
      BY <1>t, <2>1 DEF WellFormed, Process
    <3>4. Becomes(p, s)
      BY <2>2, <3>1
    <3> HIDE DEF s
    <3> QED
      BY <1>1, <1>t, <3>2, <3>3, <3>4, StartType, TypeParts DEF Read
  <2>3. CASE \E next \in AfterUpdate[op] \cup {"end"} : Goes(p, next)
    <3>1. PICK next \in AfterUpdate[op] \cup {"end"} : Goes(p, next)
      BY <2>3
    <3>2. next \in (Labels \ {"idle"}) \cup {"end"} /\ (next \in WithJob => op \in WithJob)
      BY <2>1, <3>1, LabelsType DEF WithJob
    <3> QED
      BY <1>1, <1>t, <2>1, <3>1, <3>2, GoesType, TypeParts DEF Read
  <2> QED
    BY <1>1, <2>2, <2>3 DEF Read
<1>2. ASSUME NEW p \in Procs, Write(p) PROVE TypeInv'
  <2>1. PICK op \in Updates : op = proc[p].at
    BY <1>2 DEF Write
  <2>2. PICK t \in Tasks : t = proc[p].task
    BY <1>l, <1>w, <2>1
  <2>3. PICK copy \in Record : copy = proc[p].copy
    BY <1>2, <1>t DEF Write, Process
  <2>4. record' \in [Tasks -> Record \cup {Absent}] /\ listed' \subseteq Tasks
    BY <1>2, <1>t, <2>1, <2>2, <2>3, ChangedType DEF Write
  <2>5. PICK next \in AfterUpdate[op] : Goes(p, next)
    BY <1>2, <2>1 DEF Write
  <2>6. /\ next \in (Labels \ {"idle"}) \cup {"end"} /\ proc[p].at # "idle"
        /\ next \in WithJob => proc[p].at \in WithJob
    BY <1>l, <2>1, <2>5, LabelsType
  <2> QED
    BY <1>2, <1>t, <2>1, <2>4, <2>5, <2>6, GoesType, TypeParts DEF Write
<1>3. ASSUME NEW p \in Procs, Die(p) PROVE TypeInv'
  BY <1>3, <1>d, <1>t DEF Die, At
<1>4. ASSUME NEW p \in Workers, TakeJob(p) PROVE TypeInv'
  <2>1. /\ Head(queue) \in Job /\ Tail(queue) \in Seq(Job) /\ Len(Tail(queue)) <= MaxQueue
    BY <1>4, TailJobs DEF TakeJob
  <2>2. PICK t \in Tasks, job \in JobKinds : t = Head(queue).task /\ job = Head(queue).kind
    BY <2>1 DEF Job
  <2>3. Run("begin", t, job) \in Process /\ WellFormed(Run("begin", t, job))
    BY <1>l, RunType
  <2>4. Becomes(p, Run("begin", t, job))
    BY <1>4, <2>2 DEF TakeJob
  <2> QED
    BY <1>4, <1>t, <2>1, <2>3, <2>4, StartType, TypeParts DEF TakeJob
<1>5. ASSUME NEW p \in Workers, Begin(p) PROVE TypeInv'
  <2>1. proc[p].job \in JobKinds /\ proc[p].at # "idle"
    BY <1>5, <1>t DEF Begin, At, WellFormed, WithJob
  <2>2. PICK label \in Labels \ (WithJob \cup {"idle"}) : label = FirstUpdate[proc[p].job]
    BY <2>1, LabelsType
  <2> QED
    BY <1>5, <1>c, <2>1, <2>2 DEF Begin
<1>6. ASSUME NEW p \in Workers, Lookup(p) PROVE TypeInv'
  BY <1>6, <1>g, <1>l DEF Lookup, At, WithJob
<1>7. ASSUME NEW p \in Workers, Recheck(p) PROVE TypeInv'
  BY <1>7, <1>c, <1>l DEF Recheck, At, WithJob
<1>8. ASSUME NEW p \in Workers, Extract(p) PROVE TypeInv'
  <2>1. proc[p].at # "idle"
    BY <1>8 DEF Extract, At
  <2>2. ASSUME NEW next \in {"store_partial", "store", "error"}, Check(p, next) PROVE TypeInv'
    BY <1>c, <1>l, <2>1, <2>2 DEF WithJob
  <2>3. ASSUME Goes(p, "ask"), UNCHANGED <<record, listed, queue, faults>> PROVE TypeInv'
    BY <1>g, <1>l, <2>1, <2>3 DEF WithJob
  <2> QED
    BY <1>8, <2>2, <2>3 DEF Extract
<1>9. ASSUME NEW p \in Workers, Enrich(p) PROVE TypeInv'
  BY <1>9, <1>g, <1>l DEF Enrich, At, WithJob
<1>10. ASSUME NEW p \in Workers, Kick(p) PROVE TypeInv'
  <2>1. proc[p].at # "idle" /\ Len(queue) < MaxQueue
    BY <1>10 DEF Kick, At
  <2>2. PICK job \in Job : job = [kind |-> "generate", task |-> proc[p].task]
    BY <1>w, <2>1 DEF Job, JobKinds
  <2>3. queue' = Append(queue, job)
    BY <1>10, <2>2 DEF Kick
  <2> QED
    BY <1>10, <1>t, <2>1, <2>3, AppendJob, GoesType, TypeParts DEF Kick, WithJob
<1>11. ASSUME NEW p \in Workers, LoadPayloads(p) PROVE TypeInv'
  <2>1. proc[p].at # "idle"
    BY <1>11 DEF LoadPayloads, At
  <2>2. ASSUME Check(p, "generate") PROVE TypeInv'
    BY <1>c, <1>l, <2>1, <2>2 DEF WithJob
  <2>3. ASSUME Goes(p, "error"), UNCHANGED <<record, listed, queue, faults>> PROVE TypeInv'
    BY <1>g, <1>l, <2>1, <2>3 DEF WithJob
  <2> QED
    BY <1>11, <2>2, <2>3 DEF LoadPayloads
<1>12. ASSUME NEW p \in Workers, GenerateDocuments(p) PROVE TypeInv'
  <2>1. proc[p].at # "idle"
    BY <1>12 DEF GenerateDocuments, At
  <2>2. ASSUME Check(p, "result") PROVE TypeInv'
    BY <1>c, <1>l, <2>1, <2>2 DEF WithJob
  <2>3. ASSUME Goes(p, "error"), UNCHANGED <<record, listed, queue, faults>> PROVE TypeInv'
    BY <1>g, <1>l, <2>1, <2>3 DEF WithJob
  <2> QED
    BY <1>12, <2>2, <2>3 DEF GenerateDocuments
<1>13. ASSUME NEW p \in Workers, Raise(p) PROVE TypeInv'
  BY <1>13, <1>g, <1>l DEF Raise, WithJob
<1>14. ASSUME NEW p \in Requests, Enqueue(p) PROVE TypeInv'
  <2>1. /\ proc[p].at = "enqueue" /\ Len(queue) < MaxQueue /\ proc[p].job \in JobKinds
        /\ proc[p].task \in Tasks
    BY <1>14, <1>t, <1>w DEF Enqueue, At, WellFormed, WithJob
  <2>2. PICK job \in Job : job = [kind |-> proc[p].job, task |-> proc[p].task]
    BY <2>1 DEF Job
  <2>3. queue' = Append(queue, job)
    BY <1>14, <2>2 DEF Enqueue
  <2> QED
    BY <1>14, <1>t, <1>l, <2>1, <2>3, AppendJob, GoesType, TypeParts DEF Enqueue, WithJob
<1>15. ASSUME NEW p \in Requests, NEW u \in Tasks, Generate(p, u) PROVE TypeInv'
  <2>1. New \in Record
    BY DEF New, Record, Working
  <2>2. record' \in [Tasks -> Record \cup {Absent}] /\ listed' \subseteq Tasks
    BY <1>15, <1>t, <2>1 DEF Generate
  <2>3. PICK job \in {"extract", "extract_skip"} : Becomes(p, Run("enqueue", u, job))
    BY <1>15 DEF Generate
  <2> QED
    BY <1>15, <1>s, <1>l, <2>2, <2>3 DEF Generate, JobKinds
<1>16. ASSUME NEW p \in Requests, NEW u \in Tasks, SubmitInput(p, u) PROVE TypeInv'
  <2>1. PICK job \in {"resume", "generate"} : Becomes(p, Run("submit", u, job))
    BY <1>16 DEF SubmitInput
  <2> QED
    BY <1>16, <1>s, <1>l, <1>t, <2>1 DEF SubmitInput, JobKinds
<1>17. ASSUME NEW p \in Requests, NEW u \in Tasks, Regenerate(p, u) PROVE TypeInv'
  BY <1>17, <1>s, <1>l, <1>t DEF Regenerate, JobKinds
<1>18. ASSUME NEW p \in Requests, NEW u \in Tasks, UseExisting(p, u) PROVE TypeInv'
  BY <1>18, <1>s, <1>l, <1>t DEF UseExisting, WithJob
<1>19. ASSUME NEW p \in Requests, NEW u \in Tasks, Cancel(p, u) PROVE TypeInv'
  BY <1>19, <1>s, <1>l, <1>t DEF Cancel, WithJob
<1>20. ASSUME NEW p \in Requests, NEW u \in Tasks, Dismiss(p, u) PROVE TypeInv'
  <2>1. record' \in [Tasks -> Record \cup {Absent}] /\ listed' \subseteq Tasks
    BY <1>20, <1>t DEF Dismiss
  <2> QED
    BY <1>20, <1>t, <2>1, TypeParts DEF Dismiss
<1>21. ASSUME NEW u \in Tasks, FindStale(u) PROVE TypeInv'
  <2>1. Run("stale", u, "none") \in Process /\ WellFormed(Run("stale", u, "none"))
    BY <1>l, RunType DEF WithJob
  <2>2. PICK copy \in Record \cup {Absent} : copy = record[u]
    BY <1>t
  <2> DEFINE s == [Run("stale", u, "none") EXCEPT !.copy = copy]
  <2>3. s \in Process
    BY <2>1 DEF Process
  <2>4. WellFormed(s)
    BY <2>1 DEF Process, WellFormed
  <2>5. Becomes(Cleaner, s)
    BY <1>21, <2>2 DEF FindStale
  <2> HIDE DEF s
  <2> QED
    BY <1>21, <1>t, <2>3, <2>4, <2>5, StartType, TypeParts DEF FindStale
<1> QED
  BY <1>0, <1>1, <1>2, <1>3, <1>4, <1>5, <1>6, <1>7, <1>8, <1>9, <1>10, <1>11, <1>12, <1>13,
     <1>14, <1>15, <1>16, <1>17, <1>18, <1>19, <1>20, <1>21
     DEF Next, Progress, JobStep, UserActs

(* The types always hold. *)
LEMMA TypeInvCorrect == Spec => []TypeInv
BY TypeInit, TypeNext, PTL DEF Spec

(* The values of all variables are of their types.                          *)
THEOREM TypeCorrect == Spec => []TypeOK
<1>1. TypeInv => TypeOK
  BY DEF TypeInv
<1> QED
  BY <1>1, TypeInvCorrect, PTL

-----------------------------------------------------------------------------
(* Only create_task lists a task: one the user cancelled or dismissed is    *)
(* not listed again by a job that undoes the cancellation or writes the     *)
(* deleted record back.                                                     *)
THEOREM NeverRelistedCorrect == Spec => NeverRelisted
<1>1. ASSUME TypeInv, [Next]_vars, NEW t \in listed' \ listed PROVE record'[t] = New
  <2>1. \A p : ~ (Write(p) \/ Read(p) \/ Die(p) \/ TakeJob(p) \/ Begin(p) \/ Lookup(p) \/ Recheck(p)
                  \/ Extract(p) \/ Enrich(p) \/ Kick(p) \/ LoadPayloads(p)
                  \/ GenerateDocuments(p) \/ Raise(p) \/ Enqueue(p))
    BY <1>1 DEF Write, Read, Die, TakeJob, Begin, Lookup, Recheck, Extract, Enrich, Kick,
                LoadPayloads, GenerateDocuments, Raise, Enqueue, Check
  <2>2. \A p, u : ~ (SubmitInput(p, u) \/ Regenerate(p, u) \/ UseExisting(p, u) \/ Cancel(p, u)
                     \/ Dismiss(p, u) \/ FindStale(u))
    BY <1>1 DEF SubmitInput, Regenerate, UseExisting, Cancel, Dismiss, FindStale
  <2>3. PICK p \in Requests, u \in Tasks : Generate(p, u)
    BY <1>1, <2>1, <2>2 DEF Next, Progress, JobStep, UserActs, vars
  <2> QED
    BY <1>1, <2>3 DEF Generate, TypeInv, TypeOK
<1>2. TypeInv /\ [Next]_vars => [\A t \in listed' \ listed : record'[t] = New]_vars
  BY <1>1
<1> QED
  BY <1>2, TypeInvCorrect, PTL DEF Spec, NeverRelisted

(* A task stays at rest in a step that keeps its record, adds no job of it  *)
(* and starts nothing about it but a job that will end at its first check.  *)
LEMMA RestKept ==
  ASSUME TypeInv, NEW t \in Tasks, AtRest(t), record'[t] = record[t],
         \A p \in Procs : proc'[p].task = t =>
            (proc[p].task = t /\ proc'[p] = proc[p]) \/ (proc'[p].at = "begin" /\ IsCancelled(t)),
         \A i \in DOMAIN queue' : queue'[i].task = t =>
            \E k \in DOMAIN queue : queue'[i] = queue[k]
  PROVE  AtRest(t)' /\ record'[t] = record[t]
<1>1. IsCancelled(t)' <=> IsCancelled(t)
  BY DEF IsCancelled
<1>2. record'[t].status \in Terminal
  BY DEF AtRest
<1>3. \A p \in Procs : proc'[p].task = t => proc'[p].at = "begin" /\ IsCancelled(t)'
  BY <1>1 DEF AtRest, At
<1>4. \A i \in DOMAIN queue' : queue'[i].task = t => IsCancelled(t)'
  BY <1>1 DEF AtRest
<1> QED
  BY <1>2, <1>3, <1>4 DEF AtRest, At

(* Every step is one of these for a task at rest, or dismisses it.          *)
LEMMA RestStep ==
  ASSUME TypeInv, [Next]_vars, NEW t \in Tasks, AtRest(t)
  PROVE  (AtRest(t)' /\ record'[t] = record[t]) \/ ~ Exists(t)'
<1> DEFINE Rests == AtRest(t)' /\ record'[t] = record[t]
<1> USE DEF vars
<1>t. /\ proc \in [Procs -> Process] /\ \A q \in Procs : WellFormed(proc[q])
      /\ record \in [Tasks -> Record \cup {Absent}]
  BY DEF TypeInv, TypeOK
<1>r. /\ record[t].status \in Terminal /\ Exists(t)
      /\ \A p \in Procs : proc[p].task = t => proc[p].at = "begin" /\ IsCancelled(t)
      /\ \A i \in DOMAIN queue : queue[i].task = t => IsCancelled(t)
  BY DEF AtRest, At, Terminal, Absent, Exists
<1>q. \A i \in DOMAIN queue : \E k \in DOMAIN queue : queue[i] = queue[k]
  OBVIOUS
(* A process of another task moves on and leaves t's record and jobs alone. *)
<1>m. ASSUME NEW p \in Procs, proc[p].task # t, record'[t] = record[t], queue' = queue,
             \A q \in Procs : q # p => proc'[q] = proc[q],
             proc'[p].task \in {proc[p].task, NoTask}
      PROVE  Rests
  BY <1>m, <1>q, RestKept
<1>o. ASSUME NEW p \in Procs, NEW u \in Tasks, u # t, record'[t] = record[t], queue' = queue,
             \A q \in Procs : q # p => proc'[q] = proc[q], proc'[p].task = u
      PROVE  Rests
  BY <1>o, <1>q, RestKept
<1>g. ASSUME NEW p \in Procs, NEW label, Goes(p, label), proc[p].task # t,
             record'[t] = record[t], queue' = queue
      PROVE  Rests
  <2>1. proc[p] \in Process
    BY <1>t
  <2>2. proc'[p].task \in {proc[p].task, NoTask} /\ \A q \in Procs : q # p => proc'[q] = proc[q]
    BY <1>t, <1>g, <2>1 DEF Goes, Becomes, Moved, Idle, Process
  <2> QED
    BY <1>g, <1>m, <2>2
<1>e. \A p \in Procs : proc[p].at # "begin" => proc[p].task # t
  BY <1>r
<1>c. ASSUME NEW p \in Procs, NEW label, Check(p, label), proc[p].at # "begin" PROVE Rests
  BY <1>c, <1>g, <1>e DEF Check
<1>0. CASE UNCHANGED vars
  BY <1>0, <1>q, <1>r, RestKept
<1>1. ASSUME NEW p \in Procs, Read(p) PROVE Rests
  <2>1. proc[p].at # "begin" /\ proc[p] \in Process
    BY <1>1, <1>t DEF Read, Updates
  <2>2. CASE Becomes(p, [proc[p] EXCEPT !.copy = record[proc[p].task]])
    <3>1. proc'[p].task = proc[p].task /\ \A q \in Procs : q # p => proc'[q] = proc[q]
      BY <1>t, <2>1, <2>2 DEF Becomes, Process
    <3> QED
      BY <1>1, <1>e, <1>m, <2>1, <3>1 DEF Read
  <2>3. CASE \E next : Goes(p, next)
    BY <1>1, <1>e, <1>g, <2>1, <2>3 DEF Read
  <2> QED
    BY <1>1, <2>2, <2>3 DEF Read
<1>2. ASSUME NEW p \in Procs, Write(p) PROVE Rests
  <2>1. proc[p].at # "begin" /\ proc[p].task # t
    BY <1>2, <1>e DEF Write, Updates
  <2>2. record'[t] = record[t] /\ queue' = queue
    BY <1>2, <1>t, <2>1 DEF Write
  <2>3. PICK next : Goes(p, next)
    BY <1>2 DEF Write
  <2> QED
    BY <1>g, <2>1, <2>2, <2>3
<1>3. ASSUME NEW p \in Procs, Die(p) PROVE Rests
  <2>1. record'[t] = record[t] /\ queue' = queue /\ proc' = [proc EXCEPT ![p] = Idle]
    BY <1>3 DEF Die, Goes, Moved, Becomes
  <2>2. \A q \in Procs : proc'[q].task = t => proc'[q] = proc[q]
    BY <1>t, <2>1 DEF Idle
  <2> QED
    BY <1>q, <2>1, <2>2, RestKept
<1>4. ASSUME NEW w \in Workers, TakeJob(w) PROVE Rests
  <2>1. /\ queue # <<>> /\ queue' = Tail(queue) /\ record' = record
        /\ \A q \in Procs : q # w => proc'[q] = proc[q]
    BY <1>4, <1>t DEF TakeJob, Becomes
  <2>2. Head(queue) \in Job /\ 1 \in DOMAIN queue /\ Head(queue) = queue[1]
    BY <2>1, TailJobs
  <2>3. PICK u \in Tasks, job \in JobKinds : u = Head(queue).task /\ job = Head(queue).kind
    BY <2>2 DEF Job
  <2>4. Run("begin", u, job).task = u /\ Run("begin", u, job).at = "begin"
    BY RunType DEF Labels
  <2>5. proc'[w] = Run("begin", u, job)
    BY <1>4, <1>t, <2>3 DEF TakeJob, Becomes
  <2>6. u = t => IsCancelled(t)
    BY <1>r, <2>2, <2>3
  <2>7. \A i \in DOMAIN queue' : \E k \in DOMAIN queue : queue'[i] = queue[k]
    BY <2>1, TailJobs
  <2>8. \A q \in Procs : proc'[q].task = t =>
          (proc[q].task = t /\ proc'[q] = proc[q]) \/ (proc'[q].at = "begin" /\ IsCancelled(t))
    BY <2>1, <2>4, <2>5, <2>6
  <2> QED
    BY <2>1, <2>7, <2>8, RestKept
<1>5. ASSUME NEW w \in Workers, Begin(w) PROVE Rests
  <2>1. CASE proc[w].task = t
    <3>1. record'[t] = record[t] /\ queue' = queue /\ proc' = [proc EXCEPT ![w] = Idle]
      BY <1>5, <1>r, <2>1 DEF Begin, Check, Goes, Moved, Becomes
    <3>2. \A q \in Procs : proc'[q].task = t => proc'[q] = proc[q]
      BY <1>t, <3>1 DEF Idle
    <3> QED
      BY <1>q, <3>1, <3>2, RestKept
  <2>2. CASE proc[w].task # t
    BY <1>5, <1>g, <2>2 DEF Begin, Check
  <2> QED
    BY <2>1, <2>2
<1>6. ASSUME NEW w \in Workers, Lookup(w) \/ Recheck(w) \/ Extract(w) \/ Enrich(w) PROVE Rests
  BY <1>6, <1>g, <1>c, <1>e DEF Lookup, Recheck, Extract, Enrich, At
<1>7. ASSUME NEW w \in Workers, LoadPayloads(w) \/ GenerateDocuments(w) \/ Raise(w) PROVE Rests
  BY <1>7, <1>g, <1>c, <1>e DEF LoadPayloads, GenerateDocuments, Raise, At
(* What is enqueued is a job of another task.                               *)
<1>8. ASSUME NEW p \in Procs, NEW job \in Job, Len(queue) < MaxQueue, job.task # t,
             queue' = Append(queue, job), record' = record, proc[p].task # t,
             NEW label, Goes(p, label)
      PROVE  Rests
  <2>1. \A i \in DOMAIN queue' : queue'[i] = job \/ \E k \in DOMAIN queue : queue'[i] = queue[k]
    BY <1>8, AppendJob
  <2>2. proc[p] \in Process
    BY <1>t
  <2>3. proc'[p].task \in {proc[p].task, NoTask} /\ \A q \in Procs : q # p => proc'[q] = proc[q]
    BY <1>t, <1>8, <2>2 DEF Goes, Becomes, Moved, Idle, Process
  <2> QED
    BY <1>8, <2>1, <2>3, RestKept
<1>9. ASSUME NEW w \in Workers, Kick(w) PROVE Rests
  <2>1. proc[w].at = "kick" /\ Len(queue) < MaxQueue /\ proc[w].task # t /\ proc[w].task \in Tasks
    BY <1>9, <1>e, <1>t DEF Kick, At, WellFormed, Process
  <2>2. PICK job \in Job : job = [kind |-> "generate", task |-> proc[w].task]
    BY <2>1 DEF Job, JobKinds
  <2>3. queue' = Append(queue, job) /\ job.task # t
    BY <1>9, <2>1, <2>2 DEF Kick
  <2> QED
    BY <1>9, <1>8, <2>1, <2>3 DEF Kick
<1>10. ASSUME NEW r \in Requests, Enqueue(r) PROVE Rests
  <2>1. /\ proc[r].at = "enqueue" /\ Len(queue) < MaxQueue /\ proc[r].task # t
        /\ proc[r].task \in Tasks /\ proc[r].job \in JobKinds
    BY <1>10, <1>e, <1>t DEF Enqueue, At, WellFormed, Process, WithJob
  <2>2. PICK job \in Job : job = [kind |-> proc[r].job, task |-> proc[r].task]
    BY <2>1 DEF Job
  <2>3. queue' = Append(queue, job) /\ job.task # t
    BY <1>10, <2>1, <2>2 DEF Enqueue
  <2> QED
    BY <1>10, <1>8, <2>1, <2>3 DEF Enqueue
(* A call, or the clean-up, starts about another task.                      *)
<1>11. ASSUME NEW p \in Procs, NEW u \in Tasks, u # t, NEW label, NEW job,
              Becomes(p, Run(label, u, job)), record'[t] = record[t], queue' = queue
       PROVE  Rests
  <2>1. proc'[p].task = u /\ \A q \in Procs : q # p => proc'[q] = proc[q]
    BY <1>t, <1>11 DEF Becomes, Run, Idle
  <2> QED
    BY <1>11, <1>o, <2>1
<1>12. ASSUME NEW r \in Requests, NEW u \in Tasks, Generate(r, u) PROVE Rests
  <2>1. u # t
    BY <1>12, <1>r DEF Generate
  <2>2. record'[t] = record[t] /\ queue' = queue
    BY <1>12, <1>t, <2>1 DEF Generate
  <2> QED
    BY <1>12, <1>11, <2>1, <2>2 DEF Generate
<1>13. ASSUME NEW r \in Requests, NEW u \in Tasks,
              SubmitInput(r, u) \/ Regenerate(r, u) \/ UseExisting(r, u) \/ Cancel(r, u)
       PROVE  Rests
  <2>1. u # t
    BY <1>13, <1>r DEF SubmitInput, Regenerate, UseExisting, Cancel, Terminal
  <2> QED
    BY <1>13, <1>11, <2>1 DEF SubmitInput, Regenerate, UseExisting, Cancel
<1>14. ASSUME NEW r \in Requests, NEW u \in Tasks, Dismiss(r, u) PROVE Rests \/ ~ Exists(t)'
  <2>1. CASE u = t
    BY <1>14, <1>t, <2>1 DEF Dismiss, Exists
  <2>2. CASE u # t
    <3>1. record'[t] = record[t] /\ queue' = queue /\ proc' = proc
      BY <1>14, <1>t, <2>2 DEF Dismiss
    <3> QED
      BY <1>q, <3>1, RestKept
  <2> QED
    BY <2>1, <2>2
<1>15. ASSUME NEW u \in Tasks, FindStale(u) PROVE Rests
  <2>1. u # t
    BY <1>15, <1>r DEF FindStale, Active, Working, Asking, Terminal
  <2>2. Run("stale", u, "none") \in Process /\ Run("stale", u, "none").task = u
    BY RunType DEF Labels, Updates, WithJob
  <2>3. proc'[Cleaner].task = u /\ \A q \in Procs : q # Cleaner => proc'[q] = proc[q]
    BY <1>15, <1>t, <2>2 DEF FindStale, Becomes, Process
  <2> QED
    BY <1>15, <1>o, <2>1, <2>3 DEF FindStale
<1> QED
  BY <1>0, <1>1, <1>2, <1>3, <1>4, <1>5, <1>6, <1>7, <1>9, <1>10, <1>12, <1>13, <1>14, <1>15
     DEF Next, Progress, JobStep, UserActs

(* A finished task stays as it is until it is dismissed, if nothing was     *)
(* under way about it, and a cancelled one even if jobs of it wait in the   *)
(* broker (their first check ends them; no route and no clean-up starts     *)
(* anything new).                                                           *)
THEOREM FinishedIsFinalCorrect == Spec => FinishedIsFinal
<1>1. TypeInv /\ [Next]_vars
        => [\A t \in Tasks : AtRest(t) => (AtRest(t)' /\ record'[t] = record[t]) \/ ~ Exists(t)']_vars
  BY RestStep
<1> QED
  BY <1>1, TypeInvCorrect, PTL DEF Spec, FinishedIsFinal
=============================================================================
