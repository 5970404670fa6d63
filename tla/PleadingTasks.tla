---------------------------- MODULE PleadingTasks ----------------------------
(***************************************************************************)
(* The v1 pleading tasks: PleadingTaskState of tasks/task_state.py, which  *)
(* keeps a task as one JSON value in Redis, the two-phase jobs of          *)
(* tasks/pleading_tasks_taskiq.py, the routes of routes/pleadings.py and   *)
(* the scheduled clean-up.                                                 *)
(*                                                                         *)
(* Every method that changes a task reads the value, changes the copy and  *)
(* writes the whole copy back.  Nothing locks or compares, so a write can  *)
(* undo what another process wrote after the copy was read.                *)
(***************************************************************************)
EXTENDS Naturals, Sequences, FiniteSets

CONSTANTS
  Tasks,      (* ids a user's tasks can get                                 *)
  Requests,   (* calls of the routes under way at one time                  *)
  Workers,    (* jobs the TaskIQ workers run at one time                    *)
  MaxQueue,   (* bound: jobs in the broker's list                           *)
  MaxFaults   (* bound: enqueues that fail and processes that die           *)

NoTask  == "no task"
Cleaner == "cleaner"

ASSUME PleadingAssumption ==
  /\ Requests \cap Workers = {}
  /\ Cleaner \notin Requests \cup Workers
  /\ NoTask \notin Tasks
  /\ MaxQueue \in Nat \ {0} /\ MaxFaults \in Nat

-----------------------------------------------------------------------------
(* Task records.                                                            *)
Working  == {"PENDING", "CHECKING_EXISTING", "EXTRACTING", "GENERATING"}
Asking   == {"EXISTING_FOUND", "AWAITING_INPUT"}
Terminal == {"COMPLETED", "FAILED", "CANCELLED"}
Active   == Working \cup Asking

(* What the control reads of a record: its status, whether payloads are     *)
(* stored, and whether input_required names a missing_field.                *)
Record == [status : Working \cup Asking \cup Terminal,
           payload : BOOLEAN, missing : BOOLEAN]
Absent == [status |-> "absent", payload |-> FALSE, missing |-> FALSE]
New    == [status |-> "PENDING", payload |-> FALSE, missing |-> FALSE]

(* The methods that read, change and write, each with the field it sets.    *)
Updates == {"checking", "found", "extracting", "store", "ask", "ask_missing",
            "store_partial", "error", "generating", "result", "use_existing",
            "submit", "regenerate", "cancel", "worker_id", "stale"}

StatusAfter == [op \in Updates |->
  CASE op = "checking"                       -> "CHECKING_EXISTING"
    [] op = "found"                          -> "EXISTING_FOUND"
    [] op \in {"extracting", "regenerate"}   -> "EXTRACTING"
    [] op \in {"ask", "ask_missing"}         -> "AWAITING_INPUT"
    [] op \in {"generating", "submit"}       -> "GENERATING"
    [] op \in {"result", "use_existing"}     -> "COMPLETED"
    [] op \in {"error", "stale"}             -> "FAILED"
    [] op = "cancel"                         -> "CANCELLED"
    [] op \in {"store", "store_partial", "worker_id"} -> "kept"]

Changed(op, copy) ==
  [status  |-> IF StatusAfter[op] = "kept" THEN copy.status ELSE StatusAfter[op],
   payload |-> copy.payload \/ op \in {"store", "store_partial"},
   missing |-> IF op \in {"ask", "ask_missing"} THEN op = "ask_missing"
                                               ELSE copy.missing]

(* What a method asks of the copy before it changes it.                     *)
Accepts(op, copy) ==
  CASE op = "submit"     -> copy.status = "AWAITING_INPUT"
    [] op = "regenerate" -> copy.status = "EXISTING_FOUND"
    [] op = "cancel"     -> copy.status \notin Terminal
    [] op = "stale"      -> copy.status \in Active
    [] OTHER             -> TRUE

-----------------------------------------------------------------------------
(* The jobs.  After an update a job goes on with one of these; what the     *)
(* extractors and generators return is left open.  "end" is a return.       *)
AfterUpdate == [op \in Updates |->
  CASE op = "checking"      -> {"lookup"}
    [] op = "extracting"    -> {"extract"}
    [] op = "store_partial" -> {"ask_missing"}
    [] op = "store"         -> {"kick", "enrich"}
    [] op = "generating"    -> {"load"}
    [] op \in {"submit", "regenerate"} -> {"enqueue"}
    [] OTHER                -> {"end"}]

JobKinds == {"extract", "extract_skip", "resume", "generate"}
Job      == [kind : JobKinds, task : Tasks]

VARIABLES
  record,   (* pleading_task:{id}                                           *)
  listed,   (* user_tasks:{user}                                            *)
  queue,    (* the broker's list                                            *)
  proc,     (* routes, jobs and the clean-up: the point each has reached,   *)
            (* its task, the copy it holds and the job it runs or enqueues  *)
  faults

vars == <<record, listed, queue, proc, faults>>

Procs == Requests \cup Workers \cup {Cleaner}
Idle  == [at |-> "idle", task |-> NoTask, copy |-> Absent, job |-> "none"]
Run(label, t, j) == [Idle EXCEPT !.at = label, !.task = t, !.job = j]

Exists(t)     == record[t] # Absent
At(p, label)  == proc[p].at = label
Becomes(p, q) == proc' = [proc EXCEPT ![p] = q]
(* Process p goes on to label, or returns.                                  *)
Moved(p, label) ==
  IF label = "end" THEN Idle ELSE [proc[p] EXCEPT !.at = label, !.copy = Absent]
Goes(p, label)  == Becomes(p, Moved(p, label))

(* is_cancelled.                                                            *)
IsCancelled(t) == record[t].status \in {"CANCELLED", "absent"}

-----------------------------------------------------------------------------
(* Updates: the GET ...  A method that finds no record, or one it does not  *)
(* accept, returns False: a job ignores that and goes on, a route answers   *)
(* with an error.                                                           *)
Read(p) ==
  LET op == proc[p].at
      r  == record[proc[p].task]
  IN  /\ op \in Updates /\ proc[p].copy = Absent
      /\ IF r # Absent /\ Accepts(op, r)
         THEN Becomes(p, [proc[p] EXCEPT !.copy = r])
         ELSE \E next \in IF p \in Workers THEN AfterUpdate[op] ELSE {"end"} :
                Goes(p, next)
      /\ UNCHANGED <<record, listed, queue, faults>>

(* Mutant: every write puts the task on the user's list, as _persist of v2  *)
(* does.                                                                    *)
WriteAndList(p) ==
  LET op == proc[p].at
      t  == proc[p].task
  IN  /\ op \in Updates /\ proc[p].copy # Absent
      /\ record' = [record EXCEPT ![t] = Changed(op, proc[p].copy)]
      /\ listed' = IF op \in {"cancel", "stale"} THEN listed \ {t} ELSE listed \cup {t}
      /\ \E next \in AfterUpdate[op] : Goes(p, next)
      /\ UNCHANGED <<queue, faults>>

(* ... and the SETEX of the changed copy.  cancel_task and the clean-up     *)
(* take the task off the user's list.                                       *)
Write(p) ==
  LET op == proc[p].at
      t  == proc[p].task
  IN  /\ op \in Updates /\ proc[p].copy # Absent
      /\ record' = [record EXCEPT ![t] = Changed(op, proc[p].copy)]
      /\ listed' = IF op \in {"cancel", "stale"} THEN listed \ {t} ELSE listed
      /\ \E next \in AfterUpdate[op] : Goes(p, next)
      /\ UNCHANGED <<queue, faults>>

-----------------------------------------------------------------------------
(* The routes.                                                              *)

(* POST /generate: create_task; then the job is enqueued.                   *)
Generate(r, t) ==
  /\ At(r, "idle") /\ ~ Exists(t) /\ t \notin listed
  /\ \A p \in Procs : proc[p].task # t
  /\ \A i \in DOMAIN queue : queue[i].task # t
  /\ record' = [record EXCEPT ![t] = New]
  /\ listed' = listed \cup {t}
  /\ \E kind \in {"extract", "extract_skip"} : Becomes(r, Run("enqueue", t, kind))
  /\ UNCHANGED <<queue, faults>>

(* POST /input looks at the task, and at whether a field was missing, before *)
(* submit_input reads it again.                                             *)
SubmitInput(r, t) ==
  /\ At(r, "idle") /\ record[t].status = "AWAITING_INPUT"
  /\ Becomes(r, Run("submit", t, IF record[t].missing THEN "resume" ELSE "generate"))
  /\ UNCHANGED <<record, listed, queue, faults>>

Regenerate(r, t) ==
  /\ At(r, "idle") /\ record[t].status = "EXISTING_FOUND"
  /\ Becomes(r, Run("regenerate", t, "extract_skip"))
  /\ UNCHANGED <<record, listed, queue, faults>>

(* POST /use-existing: set_result asks nothing of the record it reads.      *)
UseExisting(r, t) ==
  /\ At(r, "idle") /\ record[t].status = "EXISTING_FOUND"
  /\ Becomes(r, Run("use_existing", t, "none"))
  /\ UNCHANGED <<record, listed, queue, faults>>

Cancel(r, t) ==
  /\ At(r, "idle") /\ Exists(t) /\ record[t].status \notin Terminal
  /\ Becomes(r, Run("cancel", t, "none"))
  /\ UNCHANGED <<record, listed, queue, faults>>

(* DELETE: delete_task reads the task, deletes it and takes it off the list. *)
Dismiss(r, t) ==
  /\ At(r, "idle") /\ Exists(t)
  /\ record' = [record EXCEPT ![t] = Absent]
  /\ listed' = listed \ {t}
  /\ UNCHANGED <<queue, proc, faults>>

(* Mutant: the message carries the task's id only.                          *)
EnqueueTaskOnly(r) ==
  /\ At(r, "enqueue")
  /\ queue' = Append(queue, proc[r].task)
  /\ Goes(r, "worker_id")
  /\ UNCHANGED <<record, listed, faults>>

(* The kiq of a route; set_worker_task_id follows with a read and a write   *)
(* of its own, while the job may run.                                       *)
Enqueue(r) ==
  /\ At(r, "enqueue") /\ Len(queue) < MaxQueue
  /\ queue' = Append(queue, [kind |-> proc[r].job, task |-> proc[r].task])
  /\ Goes(r, "worker_id")
  /\ UNCHANGED <<record, listed, faults>>

-----------------------------------------------------------------------------
(* The workers.                                                             *)
TakeJob(w) ==
  /\ At(w, "idle") /\ queue # <<>>
  /\ Becomes(w, Run("begin", Head(queue).task, Head(queue).kind))
  /\ queue' = Tail(queue)
  /\ UNCHANGED <<record, listed, faults>>

(* A check of is_cancelled ends the job or lets it go on.                   *)
FirstUpdate == [kind \in JobKinds |->
  CASE kind = "extract"                   -> "checking"
    [] kind = "extract_skip"              -> "recheck"
    [] kind = "resume"                    -> "extracting"
    [] kind = "generate"                  -> "generating"]

Check(w, next) ==
  /\ Goes(w, IF IsCancelled(proc[w].task) THEN "end" ELSE next)
  /\ UNCHANGED <<record, listed, queue, faults>>

(* Mutant: without the check a job starts with.                             *)
BeginUnchecked(w) ==
  /\ At(w, "begin")
  /\ Goes(w, FirstUpdate[proc[w].job])
  /\ UNCHANGED <<record, listed, queue, faults>>

Begin(w) == At(w, "begin") /\ Check(w, FirstUpdate[proc[w].job])

(* _check_existing_documents.                                               *)
Lookup(w) ==
  /\ At(w, "lookup")
  /\ \E next \in {"found", "recheck"} : Goes(w, next)
  /\ UNCHANGED <<record, listed, queue, faults>>

(* The check before the extraction, repeated after an ingestion of mail;    *)
(* the EXTRACTING that the ingestion writes is the one written here.        *)
Recheck(w) == At(w, "recheck") /\ Check(w, "extracting")

(* The extractor returns, and then cancellation is looked at again; a       *)
(* resumed order-delay asks at once.                                        *)
Extract(w) ==
  /\ At(w, "extract")
  /\ \/ \E next \in {"store_partial", "store", "error"} : Check(w, next)
     \/ /\ proc[w].job = "resume"
        /\ Goes(w, "ask")
        /\ UNCHANGED <<record, listed, queue, faults>>

(* _enrich_prefilled asks the model for suggestions; nothing looks at       *)
(* cancellation after it.  Without chips order-delay asks for a document.   *)
Enrich(w) ==
  /\ At(w, "enrich")
  /\ \E next \in {"ask", "ask_missing"} : Goes(w, next)
  /\ UNCHANGED <<record, listed, queue, faults>>

(* A motion without input fields goes on to generation by itself.           *)
Kick(w) ==
  /\ At(w, "kick") /\ Len(queue) < MaxQueue
  /\ queue' = Append(queue, [kind |-> "generate", task |-> proc[w].task])
  /\ Goes(w, "end")
  /\ UNCHANGED <<record, listed, faults>>

(* get_extracted_payloads, and the check that follows.                      *)
LoadPayloads(w) ==
  /\ At(w, "load")
  /\ IF record[proc[w].task].payload THEN Check(w, "generate")
     ELSE Goes(w, "error") /\ UNCHANGED <<record, listed, queue, faults>>

(* The documents are made and logged, in motion_draft_logs, which is not    *)
(* modelled.                                                                *)
GenerateDocuments(w) ==
  /\ At(w, "generate")
  /\ \/ Check(w, "result")
     \/ Goes(w, "error") /\ UNCHANGED <<record, listed, queue, faults>>

(* An exception in a job: set_error, and the job is over; the broker has no *)
(* retry middleware.                                                        *)
Raise(w) ==
  /\ proc[w].at \in {"lookup", "extract", "enrich", "kick", "load", "generate"}
  /\ Goes(w, "error")
  /\ UNCHANGED <<record, listed, queue, faults>>

(* A process dies, or a route cannot reach the broker: the call or job is   *)
(* lost, for a job leaves the broker's list when it is taken.               *)
Die(p) ==
  /\ ~ At(p, "idle") /\ faults < MaxFaults
  /\ faults' = faults + 1
  /\ Goes(p, "end")
  /\ UNCHANGED <<record, listed, queue>>

(* Mutant: only the tasks a job has begun on.                               *)
FindStaleBegun(t) ==
  /\ At(Cleaner, "idle") /\ record[t].status \in Active \ {"PENDING"}
  /\ Becomes(Cleaner, [Run("stale", t, "none") EXCEPT !.copy = record[t]])
  /\ UNCHANGED <<record, listed, queue, faults>>

(* cleanup_stale_tasks finds an active task that nobody has written for 15  *)
(* minutes; which one that is depends on how long the jobs take, so it can  *)
(* be any.                                                                  *)
FindStale(t) ==
  /\ At(Cleaner, "idle") /\ record[t].status \in Active
  /\ Becomes(Cleaner, [Run("stale", t, "none") EXCEPT !.copy = record[t]])
  /\ UNCHANGED <<record, listed, queue, faults>>

-----------------------------------------------------------------------------
Init ==
  /\ record = [t \in Tasks |-> Absent] /\ listed = {} /\ queue = <<>>
  /\ proc = [p \in Procs |-> Idle] /\ faults = 0

UserActs(r, t) ==
  \/ Generate(r, t) \/ SubmitInput(r, t) \/ Regenerate(r, t)
  \/ UseExisting(r, t) \/ Cancel(r, t) \/ Dismiss(r, t)

JobStep(w) ==
  \/ TakeJob(w) \/ Begin(w) \/ Lookup(w) \/ Recheck(w) \/ Extract(w) \/ Enrich(w)
  \/ Kick(w) \/ LoadPayloads(w) \/ GenerateDocuments(w) \/ Raise(w)

Progress(p) == Read(p) \/ Write(p)

Next ==
  \/ \E p \in Procs : Progress(p) \/ Die(p)
  \/ \E w \in Workers : JobStep(w)
  \/ \E r \in Requests : Enqueue(r)
  \/ \E r \in Requests, t \in Tasks : UserActs(r, t)
  \/ \E t \in Tasks : FindStale(t)

Fairness ==
  /\ \A w \in Workers : WF_vars(JobStep(w) \/ Progress(w))
  /\ \A r \in Requests : WF_vars(Enqueue(r) \/ Progress(r))
  /\ WF_vars(Progress(Cleaner))
  /\ \A t \in Tasks : WF_vars(FindStale(t))

Spec == Init /\ [][Next]_vars /\ Fairness

-----------------------------------------------------------------------------
(* Type invariant.                                                          *)
TypeOK ==
  /\ record \in [Tasks -> Record \cup {Absent}]
  /\ listed \subseteq Tasks
  /\ queue \in Seq(Job) /\ Len(queue) <= MaxQueue
  /\ \A p \in Procs :
       /\ proc[p].task \in Tasks \cup {NoTask}
       /\ proc[p].copy \in Record \cup {Absent}
       /\ proc[p].job \in JobKinds \cup {"none"}
  /\ faults \in 0 .. MaxFaults

(* No task works for ever: whatever is lost, a job, the enqueueing of one,  *)
(* or a write that another undid, the task comes to an end, to a question   *)
(* to the user or to its removal.  (cleanup_stale_tasks makes good what the *)
(* unlocked updates and the broker without acknowledgement break.)          *)
NeverStuck == \A t \in Tasks : []<>(record[t].status \notin Working)

(* A task the user cancelled or dismissed is not listed to him again, even  *)
(* when a job undoes the cancellation or writes the deleted record back.    *)
(* (Only create_task adds to user_tasks.)                                   *)
NeverRelisted ==
  [][\A t \in listed' \ listed : record'[t] = New]_vars

(* A finished task stays as it is until it is dismissed, if nothing was     *)
(* under way about it, and a cancelled one even if jobs of it wait in the   *)
(* broker: they end at their first check, and no route or clean-up starts   *)
(* anything new.  What is under way already can still undo the end.         *)
AtRest(t) ==
  /\ record[t].status \in Terminal
  /\ \A p \in Procs : proc[p].task = t => At(p, "begin") /\ IsCancelled(t)
  /\ \A i \in DOMAIN queue : queue[i].task = t => IsCancelled(t)
FinishedIsFinal ==
  [][\A t \in Tasks : AtRest(t) =>
       (AtRest(t)' /\ record'[t] = record[t]) \/ ~ Exists(t)']_vars
=============================================================================
