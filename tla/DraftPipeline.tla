---------------------------- MODULE DraftPipeline ----------------------------
(***************************************************************************)
(* The v2 template-draft pipeline of one user                              *)
(* (backend/src/core/components/pleading): the HTTP handlers of router.py, *)
(* the two taskiq jobs of tasks.py and the Redis task store of state.py.   *)
(*                                                                         *)
(* Every operation of state.py is a GET, a change of the Python object and *)
(* a SETEX, with an await between them and no lock.  A handler or a job is *)
(* therefore a process, and one action is one call to Redis, Postgres or   *)
(* the broker: between two of them any other process may run.  All keys    *)
(* carry the user id, so users do not interact and one user is modelled.   *)
(***************************************************************************)
EXTENDS Naturals, Sequences, FiniteSets, WaitingLine

CONSTANTS
  Tasks,          (* uuids handed out by state.create                       *)
  NoTask,         (* the task of a process that is idle                     *)
  Drafts,         (* (case_id, template_id) pairs                           *)
  DraftOf,        (* the draft that the request which creates a task names  *)
  Requests,       (* HTTP requests the API can be serving at one time       *)
  Jobs,           (* taskiq messages and job executions alive at one time   *)
  Api,            (* the routes that the user calls                         *)
  MaxConcurrent,  (* MAX_CONCURRENT_TEMPLATE_DRAFTS                         *)
  MaxQueued,      (* MAX_QUEUED_TEMPLATE_DRAFTS                             *)
  MaxRegens,      (* bound: accepted /regenerate calls per task             *)
  MaxCrashes,     (* bound: processes that die between two calls            *)
  MaxExpiries     (* bound: Redis keys that reach their TTL                 *)

Procs == Requests \cup Jobs

Routes == {"start", "start_skip", "submit", "adopt", "regenerate", "cancel",
           "dismiss", "dismiss_active"}

ASSUME ConstantsAssumption ==
  /\ NoTask \notin Tasks
  /\ DraftOf \in [Tasks -> Drafts]
  /\ Requests \cap Jobs = {}
  /\ Api \subseteq Routes
  /\ MaxConcurrent \in Nat \ {0}
  /\ MaxQueued \in Nat
  /\ MaxRegens \in Nat
  /\ MaxCrashes \in Nat
  /\ MaxExpiries \in Nat

(* schemas.py: V2TaskStatus.  "NONE" stands for a Redis key that is absent. *)
Active   == {"QUEUED", "PENDING", "CHECKING_EXISTING", "EXISTING_FOUND",
             "DRAFTING", "AWAITING_INPUT"}
Terminal == {"COMPLETED", "FAILED", "CANCELLED"}
Statuses == Active \cup Terminal

(* A case_generation_logs row; doc says that r2_object_key is set.          *)
RowStatuses == {"DRAFTING", "AWAITING_INPUT", "COMPLETED", "FAILED", "CANCELLED"}
Rows == [task : Tasks, status : RowStatuses, doc : BOOLEAN]

(* The fields of a task record that handlers branch on; row ids are         *)
(* positions in rows, 0 is None.                                            *)
Records  == [status : Statuses \cup {"NONE"}, log : Nat, existing : Nat]
NoRecord == [status |-> "NONE", log |-> 0, existing |-> 0]

(* The writes that a process can be about to make with state.set_*.         *)
Ops == {"none", "checking", "existing", "attach", "drafting", "redrafting",
        "awaiting", "completed", "failed", "adopt", "cancelled", "promote",
        "reset"}

(* Where a process stands: the call it makes next.                          *)
InBroker == {"queued_draft", "queued_resume"}
Labels   == {"idle", "count", "size", "create_pending", "create_queued",
             "park", "kick", "fetch", "flag", "store", "load", "lookup",
             "insert", "row_drafting", "engine", "row_completed",
             "row_cancelled", "drain", "pop", "peek", "unpark_cancel",
             "find", "delete", "unlist", "unflag", "unpark"} \cup InBroker

Process == [at : Labels, task : Tasks \cup {NoTask}, op : Ops,
            snap : Records, row : Nat, skip : BOOLEAN]
Idle == [at |-> "idle", task |-> NoTask, op |-> "none", snap |-> NoRecord,
         row |-> 0, skip |-> FALSE]

VARIABLES
  records,   (* core:pleading:task:{id}, one record per task id             *)
  listed,    (* core:pleading:user_tasks:{user}                             *)
  flags,     (* ids whose core:pleading:task:{id}:cancelled key is set      *)
  queue,     (* core:pleading:queue:{user}                                  *)
  rows,      (* case_generation_logs, in order of created_at                *)
  proc,      (* every request and job: its next call and its locals         *)
  issued,    (* ids taken: uuid4 never repeats                              *)
  regens,    (* accepted /regenerate calls per task                         *)
  crashes, expiries

redis  == <<records, listed, flags, queue>>
bounds == <<regens, crashes, expiries>>
vars   == <<records, listed, flags, queue, rows, proc, issued, regens, crashes,
            expiries>>

-----------------------------------------------------------------------------
Exists(t)   == records[t].status # "NONE"
Visible     == {t \in listed : Exists(t)}
ActiveTasks == {t \in Visible : records[t].status \in Active}
InQueue(t)  == \E i \in DOMAIN queue : queue[i] = t

(* list_for_user also drops the ids whose record is gone from the set.  Its *)
(* SMEMBERS, GETs and SREM are one step.                                    *)
ListForUser == listed' = Visible

(* Mutant: the lookup takes the latest row whatever its status.             *)
AnyRows(d) == {i \in DOMAIN rows : DraftOf[rows[i].task] = d}

(* CaseGenerationLogRepository.find_latest_completed.                       *)
CompletedRows(d) ==
  {i \in DOMAIN rows : rows[i].status = "COMPLETED" /\ DraftOf[rows[i].task] = d}
Latest(i, S) == i \in S /\ \A k \in S : k <= i

(* What state.set_* and the reset in regenerate make of the record read.    *)
Updated(op, rec, row) ==
  CASE op = "checking"   -> [rec EXCEPT !.status = "CHECKING_EXISTING"]
    [] op = "existing"   -> [rec EXCEPT !.status = "EXISTING_FOUND", !.existing = row]
    [] op = "attach"     -> [rec EXCEPT !.log = row]
    [] op \in {"drafting", "redrafting"} -> [rec EXCEPT !.status = "DRAFTING"]
    [] op = "awaiting"   -> [rec EXCEPT !.status = "AWAITING_INPUT"]
    [] op \in {"completed", "adopt"} ->
         [rec EXCEPT !.status = "COMPLETED", !.log = IF row = 0 THEN @ ELSE row]
    [] op = "failed"     -> [rec EXCEPT !.status = "FAILED"]
    [] op = "cancelled"  -> [rec EXCEPT !.status = "CANCELLED"]
    [] op = "promote"    -> [rec EXCEPT !.status = "PENDING"]
    [] op = "reset"      -> [status |-> "PENDING", log |-> 0, existing |-> 0]

(* The state of a process after the write op (made or skipped).             *)
Then(op, p) ==
  CASE op = "checking"   -> [p EXCEPT !.at = IF p.skip THEN "insert" ELSE "lookup",
                                      !.op = "none", !.skip = FALSE]
    [] op \in {"existing", "awaiting"} -> Idle
    [] op = "attach"     -> [p EXCEPT !.at = "fetch", !.op = "drafting"]
    [] op = "drafting"   -> [p EXCEPT !.at = "engine", !.op = "none"]
    [] op = "redrafting" -> [p EXCEPT !.at = "row_drafting", !.op = "none"]
    [] op \in {"completed", "failed", "adopt", "cancelled"} ->
         [Idle EXCEPT !.at = "drain"]
    [] op = "promote"    -> [p EXCEPT !.at = "kick", !.op = "none"]
    [] op = "reset"      -> [p EXCEPT !.at = "kick", !.op = "none"]

(* CaseGenerationLogRepository.update_status; a resumed job whose record has*)
(* no log_id skips it.  Only a COMPLETED update carries an r2_object_key.   *)
RowSet(r, status) ==
  IF r = 0 THEN rows
  ELSE [rows EXCEPT ![r] = [task |-> @.task, status |-> status,
                            doc |-> @.doc \/ status = "COMPLETED"]]

(* Process p goes on as q; everything else that is not named is unchanged.  *)
Becomes(p, q) == proc' = [proc EXCEPT ![p] = q]
At(p, label)  == proc[p].at = label
Moved(p, label) == [proc[p] EXCEPT !.at = label]

(* A taskiq kiq is the last call of whoever makes it: the message waits in  *)
(* the broker as a job that has not started, in the place of the job that   *)
(* sent it or, for a request, in a free one.                                *)
Kiq(p, label, t, skip) ==
  \E j \in Jobs :
    /\ j = p \/ (p \in Requests /\ At(j, "idle"))
    /\ proc' = [proc EXCEPT ![p] = Idle,
                            ![j] = [Idle EXCEPT !.at = label, !.task = t,
                                                !.skip = skip]]

-----------------------------------------------------------------------------
(* Requests.  A request that its first read refuses (404, 409, 429) has no  *)
(* effect that the next one would not have and is not a step.               *)

(* POST /start up to the dedup guard, which skip_existing_check skips.      *)
Start(r, t, skip) ==
  /\ At(r, "idle") /\ t \notin issued
  /\ issued' = issued \cup {t}
  /\ Becomes(r, [Idle EXCEPT !.at = "count", !.task = t, !.skip = skip])
  /\ \/ skip /\ "start_skip" \in Api /\ UNCHANGED listed
     \/ /\ ~ skip /\ "start" \in Api
        /\ ~ \E u \in ActiveTasks : DraftOf[u] = DraftOf[t]
        /\ ListForUser
  /\ UNCHANGED <<records, flags, queue, rows, bounds>>

(* Mutant: the cap is off by one.                                           *)
CountActiveOffByOne(r) ==
  /\ At(r, "count")
  /\ Becomes(r, Moved(r, IF Cardinality(ActiveTasks) > MaxConcurrent
                         THEN "size" ELSE "create_pending"))
  /\ ListForUser
  /\ UNCHANGED <<records, flags, queue, rows, issued, bounds>>

(* state.count_active_for_user against the cap.                             *)
CountActive(r) ==
  /\ At(r, "count")
  /\ Becomes(r, Moved(r, IF Cardinality(ActiveTasks) >= MaxConcurrent
                         THEN "size" ELSE "create_pending"))
  /\ ListForUser
  /\ UNCHANGED <<records, flags, queue, rows, issued, bounds>>

(* state.queue_size against the hard cap: 429 QUEUE_FULL or park.  Only the *)
(* id of a created task is taken.                                           *)
CheckQueueSize(r) ==
  /\ At(r, "size")
  /\ IF Len(queue) >= MaxQueued
     THEN Becomes(r, Idle) /\ issued' = issued \ {proc[r].task}
     ELSE Becomes(r, Moved(r, "create_queued")) /\ UNCHANGED issued
  /\ UNCHANGED <<records, listed, flags, queue, rows, bounds>>

(* state.create with status PENDING or QUEUED.                              *)
Create(r) ==
  LET t == proc[r].task
      NewTask(status, label) ==
        /\ records' = [records EXCEPT ![t] = [NoRecord EXCEPT !.status = status]]
        /\ Becomes(r, Moved(r, label))
  IN  /\ \/ At(r, "create_pending") /\ NewTask("PENDING", "kick")
         \/ At(r, "create_queued")  /\ NewTask("QUEUED", "park")
      /\ listed' = listed \cup {t}
      /\ UNCHANGED <<flags, queue, rows, issued, bounds>>

(* Mutant: LPUSH for RPUSH.                                                 *)
ParkInFront(r) ==
  /\ At(r, "park")
  /\ queue' = <<proc[r].task>> \o queue
  /\ Becomes(r, Idle)
  /\ UNCHANGED <<records, listed, flags, rows, issued, bounds>>

(* state.enqueue.                                                           *)
Park(r) ==
  /\ At(r, "park")
  /\ queue' = Append(queue, proc[r].task)
  /\ Becomes(r, Idle)
  /\ UNCHANGED <<records, listed, flags, rows, issued, bounds>>

(* run_template_draft.kiq, the last call of /start, /regenerate and of a    *)
(* drain.                                                                   *)
Kick(p) ==
  /\ At(p, "kick")
  /\ Kiq(p, "queued_draft", proc[p].task, proc[p].skip)
  /\ UNCHANGED <<redis, rows, issued, bounds>>

(* POST /submit-input.  The status is left alone.                           *)
SubmitInput(r, t) ==
  /\ At(r, "idle") /\ "submit" \in Api
  /\ records[t].status = "AWAITING_INPUT"
  /\ Kiq(r, "queued_resume", t, FALSE)
  /\ UNCHANGED <<redis, rows, issued, bounds>>

(* POST /use-existing up to set_completed; log rows are never deleted.      *)
UseExisting(r, t) ==
  /\ At(r, "idle") /\ "adopt" \in Api
  /\ records[t].status = "EXISTING_FOUND" /\ records[t].existing # 0
  /\ Becomes(r, [Idle EXCEPT !.at = "fetch", !.op = "adopt", !.task = t,
                             !.row = records[t].existing])
  /\ UNCHANGED <<redis, rows, issued, bounds>>

(* Mutant: a cancelled task may be regenerated.                             *)
RegenerateAnyFinished(r, t) ==
  /\ At(r, "idle") /\ "regenerate" \in Api
  /\ records[t].status \in Terminal \cup {"EXISTING_FOUND"}
  /\ regens[t] < MaxRegens
  /\ regens' = [regens EXCEPT ![t] = @ + 1]
  /\ Becomes(r, [Idle EXCEPT !.at = "store", !.op = "reset", !.task = t,
                             !.snap = records[t], !.skip = TRUE])
  /\ UNCHANGED <<redis, rows, issued, crashes, expiries>>

(* POST /regenerate up to _persist: the reset is made on the record that    *)
(* the ownership check read.                                                *)
Regenerate(r, t) ==
  /\ At(r, "idle") /\ "regenerate" \in Api
  /\ records[t].status \in {"EXISTING_FOUND", "COMPLETED", "FAILED"}
  /\ regens[t] < MaxRegens
  /\ regens' = [regens EXCEPT ![t] = @ + 1]
  /\ Becomes(r, [Idle EXCEPT !.at = "store", !.op = "reset", !.task = t,
                             !.snap = records[t], !.skip = TRUE])
  /\ UNCHANGED <<redis, rows, issued, crashes, expiries>>

(* POST /cancel: a QUEUED task is first taken out of the queue.             *)
Cancel(r, t) ==
  /\ At(r, "idle") /\ "cancel" \in Api
  /\ records[t].status \in Active
  /\ Becomes(r, [Idle EXCEPT
                   !.at = IF records[t].status = "QUEUED" THEN "unpark_cancel"
                                                          ELSE "fetch",
                   !.op = "cancelled", !.task = t])
  /\ UNCHANGED <<redis, rows, issued, bounds>>

(* Mutant: a task that was only parked needs no set_cancelled.              *)
RemoveAndReturn(r) ==
  /\ At(r, "unpark_cancel")
  /\ queue' = Without(queue, proc[r].task)
  /\ Becomes(r, Idle)
  /\ UNCHANGED <<records, listed, flags, rows, issued, bounds>>

(* state.remove_from_queue.                                                 *)
RemoveFromQueue(r) ==
  /\ At(r, "unpark_cancel")
  /\ queue' = Without(queue, proc[r].task)
  /\ Becomes(r, Moved(r, "fetch"))
  /\ UNCHANGED <<records, listed, flags, rows, issued, bounds>>

(* state.set_cancelled sets the flag between its GET and its SETEX.         *)
SetCancelFlag(r) ==
  /\ At(r, "flag")
  /\ flags' = flags \cup {proc[r].task}
  /\ Becomes(r, Moved(r, "store"))
  /\ UNCHANGED <<records, listed, queue, rows, issued, bounds>>

(* DELETE /{task_id}.  The route takes any status; the UI offers it for     *)
(* finished tasks.  No drain follows.                                       *)
Dismiss(r, t) ==
  /\ At(r, "idle")
  /\ \/ "dismiss" \in Api /\ records[t].status \in Terminal
     \/ "dismiss_active" \in Api /\ records[t].status \in Active
  /\ Becomes(r, [Idle EXCEPT !.at = "find", !.task = t])
  /\ UNCHANGED <<redis, rows, issued, bounds>>

(* state.delete reads the record once more and gives up if it is gone ...   *)
FindForDelete(r) ==
  /\ At(r, "find")
  /\ Becomes(r, IF Exists(proc[r].task) THEN Moved(r, "delete") ELSE Idle)
  /\ UNCHANGED <<redis, rows, issued, bounds>>

(* ... and then makes four calls.                                           *)
Delete(r) ==
  LET t == proc[r].task
  IN  /\ \/ /\ At(r, "delete")
            /\ records' = [records EXCEPT ![t] = NoRecord]
            /\ Becomes(r, Moved(r, "unlist"))
            /\ UNCHANGED <<listed, flags, queue>>
         \/ /\ At(r, "unlist")
            /\ listed' = listed \ {t}
            /\ Becomes(r, Moved(r, "unflag"))
            /\ UNCHANGED <<records, flags, queue>>
         \/ /\ At(r, "unflag")
            /\ flags' = flags \ {t}
            /\ Becomes(r, Moved(r, "unpark"))
            /\ UNCHANGED <<records, listed, queue>>
         \/ /\ At(r, "unpark")
            /\ queue' = Without(queue, t)
            /\ Becomes(r, Idle)
            /\ UNCHANGED <<records, listed, flags>>
      /\ UNCHANGED <<rows, issued, bounds>>

-----------------------------------------------------------------------------
(* The two halves of every state.set_*.                                     *)

(* The GET.  A record that is gone is not written and the caller goes on.   *)
Fetch(p) ==
  /\ At(p, "fetch")
  /\ LET op  == proc[p].op
         rec == records[proc[p].task]
     IN  Becomes(p, IF ~ Exists(proc[p].task) THEN Then(op, proc[p])
                    ELSE [proc[p] EXCEPT
                           !.at = IF op = "cancelled" THEN "flag" ELSE "store",
                           !.snap = rec])
  /\ UNCHANGED <<redis, rows, issued, bounds>>

(* _persist: the record read by Fetch, with the change, overwrites whatever *)
(* the key holds by now; the id is listed again (the SADD is part of the    *)
(* step: nothing but list_for_user depends on it).                          *)
Store(p) ==
  /\ At(p, "store")
  /\ records' = [records EXCEPT ![proc[p].task] =
                   Updated(proc[p].op, proc[p].snap, proc[p].row)]
  /\ listed' = listed \cup {proc[p].task}
  /\ Becomes(p, Then(proc[p].op, [proc[p] EXCEPT !.snap = NoRecord]))
  /\ UNCHANGED <<flags, queue, rows, issued, bounds>>

-----------------------------------------------------------------------------
(* Draft and resume jobs.                                                   *)

(* Mutant: a resume does not check the flag before it loads the record.     *)
ResumeUnchecked(j) ==
  /\ At(j, "queued_resume")
  /\ Becomes(j, Moved(j, "load"))
  /\ UNCHANGED <<redis, rows, issued, bounds>>

(* The first call of a job is state.is_cancelled: it reads the flag, not    *)
(* the status.                                                              *)
BeginDraft(j) ==
  /\ At(j, "queued_draft")
  /\ Becomes(j, IF proc[j].task \in flags THEN Idle
                ELSE [proc[j] EXCEPT !.at = "fetch", !.op = "checking"])
  /\ UNCHANGED <<redis, rows, issued, bounds>>

BeginResume(j) ==
  /\ At(j, "queued_resume")
  /\ Becomes(j, IF proc[j].task \in flags THEN Idle ELSE Moved(j, "load"))
  /\ UNCHANGED <<redis, rows, issued, bounds>>

(* The record that run_template_draft_resume keeps for its log_id.          *)
LoadForResume(j) ==
  /\ At(j, "load")
  /\ Becomes(j, IF ~ Exists(proc[j].task) THEN Idle
                ELSE [proc[j] EXCEPT !.at = "fetch", !.op = "redrafting",
                                     !.row = records[proc[j].task].log])
  /\ UNCHANGED <<redis, rows, issued, bounds>>

(* find_latest_completed decides between EXISTING_FOUND and a new row.      *)
CheckExisting(j) ==
  LET done == CompletedRows(DraftOf[proc[j].task])
  IN  /\ At(j, "lookup")
      /\ \/ done = {} /\ Becomes(j, Moved(j, "insert"))
         \/ \E i \in done : /\ Latest(i, done)
                           /\ Becomes(j, [proc[j] EXCEPT !.at = "fetch",
                                                         !.op = "existing", !.row = i])
      /\ UNCHANGED <<redis, rows, issued, bounds>>

(* CaseGenerationLogRepository.create.                                      *)
InsertRow(j) ==
  /\ At(j, "insert")
  /\ rows' = Append(rows, [task |-> proc[j].task, status |-> "DRAFTING",
                          doc |-> FALSE])
  /\ Becomes(j, [proc[j] EXCEPT !.at = "fetch", !.op = "attach",
                                !.row = Len(rows) + 1])
  /\ UNCHANGED <<redis, issued, bounds>>

(* CaseGenerationLogRepository.update_status by a resumed job.              *)
MarkRowDrafting(j) ==
  /\ At(j, "row_drafting")
  /\ rows' = RowSet(proc[j].row, "DRAFTING")
  /\ Becomes(j, Moved(j, "engine"))
  /\ UNCHANGED <<redis, issued, bounds>>

(* The engine (execute_draft_for_case, resume_draft) raises, or asks the    *)
(* user for input: the row is updated, then the record.  Neither branch     *)
(* looks at the cancel flag.                                                *)
EngineStops(j, status, op) ==
  /\ At(j, "engine")
  /\ rows' = RowSet(proc[j].row, status)
  /\ Becomes(j, [proc[j] EXCEPT !.at = "fetch", !.op = op])
  /\ UNCHANGED <<redis, issued, bounds>>

(* Mutants: the exception restarts the draft; only the row is marked.       *)
RetryFromInsert(j) ==
  /\ At(j, "engine")
  /\ Becomes(j, Moved(j, "insert"))
  /\ UNCHANGED <<redis, rows, issued, bounds>>

FailRowOnly(j) ==
  /\ At(j, "engine")
  /\ rows' = RowSet(proc[j].row, "FAILED")
  /\ Becomes(j, [Idle EXCEPT !.at = "drain"])
  /\ UNCHANGED <<redis, issued, bounds>>

EngineFails(j) == EngineStops(j, "FAILED", "failed")
EngineAsks(j)  == EngineStops(j, "AWAITING_INPUT", "awaiting")

(* The engine returns a document and state.is_cancelled decides its fate.   *)
EngineDelivers(j) ==
  /\ At(j, "engine")
  /\ Becomes(j, Moved(j, IF proc[j].task \in flags THEN "row_cancelled"
                         ELSE "row_completed"))
  /\ UNCHANGED <<redis, rows, issued, bounds>>

DropResult(j) ==
  /\ At(j, "row_cancelled")
  /\ rows' = RowSet(proc[j].row, "CANCELLED")
  /\ Becomes(j, [Idle EXCEPT !.at = "drain"])
  /\ UNCHANGED <<redis, issued, bounds>>

KeepResult(j) ==
  /\ At(j, "row_completed")
  /\ rows' = RowSet(proc[j].row, "COMPLETED")
  /\ Becomes(j, [proc[j] EXCEPT !.at = "fetch", !.op = "completed"])
  /\ UNCHANGED <<redis, issued, bounds>>

-----------------------------------------------------------------------------
(* _try_drain_user_queue, run by jobs and by /cancel and /use-existing.     *)

(* state.drain_queue counts the active tasks, QUEUED ones included ...      *)
DrainCount(p) ==
  /\ At(p, "drain")
  /\ Becomes(p, IF Cardinality(ActiveTasks) >= MaxConcurrent THEN Idle
                ELSE Moved(p, "pop"))
  /\ ListForUser
  /\ UNCHANGED <<records, flags, queue, rows, issued, bounds>>

(* Mutant: LINDEX for LPOP.                                                 *)
DrainLook(p) ==
  /\ At(p, "pop")
  /\ Becomes(p, IF queue = <<>> THEN Idle
                ELSE [Idle EXCEPT !.at = "peek", !.task = Head(queue)])
  /\ UNCHANGED <<redis, rows, issued, bounds>>

(* ... and pops the oldest id.                                              *)
DrainPop(p) ==
  /\ At(p, "pop")
  /\ IF queue = <<>> THEN Becomes(p, Idle) /\ UNCHANGED queue
     ELSE /\ queue' = Tail(queue)
          /\ Becomes(p, [Idle EXCEPT !.at = "peek", !.task = Head(queue)])
  /\ UNCHANGED <<records, listed, flags, rows, issued, bounds>>

(* The popped task is promoted whatever its status, unless it vanished.     *)
DrainPeek(p) ==
  /\ At(p, "peek")
  /\ Becomes(p, IF ~ Exists(proc[p].task) THEN Idle
                ELSE [proc[p] EXCEPT !.at = "fetch", !.op = "promote"])
  /\ UNCHANGED <<redis, rows, issued, bounds>>

-----------------------------------------------------------------------------
(* Environment.                                                             *)

(* A process dies between two calls: a worker or API restart, or an         *)
(* exception that no handler of the job catches.  ListQueueBroker removes a *)
(* message when it hands it out and no retry middleware is installed.       *)
Crash(p) ==
  /\ proc[p].at \notin InBroker \cup {"idle"}
  /\ crashes < MaxCrashes
  /\ crashes' = crashes + 1
  /\ Becomes(p, Idle)
  /\ UNCHANGED <<redis, rows, issued, regens, expiries>>

(* TASK_TTL_SECONDS after its last write a record is gone.  The cancel flag *)
(* was written before the record and never outlives it; the queue and the   *)
(* set of ids are written after it and do.  Only a task that waits (for its *)
(* user, the broker or the engine) waits for two hours.                     *)
Expire(t) ==
  /\ Exists(t) /\ expiries < MaxExpiries
  /\ \A p \in Procs : proc[p].task = t => proc[p].at \in InBroker \cup {"engine"}
  /\ expiries' = expiries + 1
  /\ flags' = flags \ {t}
  /\ \/ t \in flags /\ UNCHANGED records
     \/ records' = [records EXCEPT ![t] = NoRecord]
  /\ UNCHANGED <<listed, queue, rows, proc, issued, regens, crashes>>

-----------------------------------------------------------------------------
Init ==
  /\ records = [t \in Tasks |-> NoRecord]
  /\ listed = {}
  /\ flags = {}
  /\ queue = <<>>
  /\ rows = <<>>
  /\ proc = [p \in Procs |-> Idle]
  /\ issued = {}
  /\ regens = [t \in Tasks |-> 0]
  /\ crashes = 0
  /\ expiries = 0

(* A new call of the user: never owed by anybody.                           *)
Call(r) ==
  \E t \in Tasks :
    \/ \E skip \in BOOLEAN : Start(r, t, skip)
    \/ SubmitInput(r, t)
    \/ UseExisting(r, t)
    \/ Regenerate(r, t)
    \/ Cancel(r, t)
    \/ Dismiss(r, t)

(* The next call of a request that is being served.                         *)
Serve(r) ==
  \/ CountActive(r) \/ CheckQueueSize(r) \/ Create(r) \/ Park(r)
  \/ RemoveFromQueue(r) \/ SetCancelFlag(r) \/ FindForDelete(r) \/ Delete(r)

(* The next call of a job.                                                  *)
Work(j) ==
  \/ BeginDraft(j) \/ BeginResume(j) \/ LoadForResume(j) \/ CheckExisting(j)
  \/ InsertRow(j) \/ MarkRowDrafting(j) \/ EngineFails(j) \/ EngineAsks(j)
  \/ EngineDelivers(j) \/ DropResult(j) \/ KeepResult(j)

(* Calls that both make.                                                    *)
Share(p) ==
  \/ Fetch(p) \/ Store(p) \/ Kick(p)
  \/ DrainCount(p) \/ DrainPop(p) \/ DrainPeek(p)

Next ==
  \/ \E r \in Requests : Call(r) \/ Serve(r)
  \/ \E j \in Jobs : Work(j)
  \/ \E p \in Procs : Share(p) \/ Crash(p)
  \/ \E t \in Tasks : Expire(t)

Spec == Init /\ [][Next]_vars

(* The event loop of the API and of the workers keeps running every         *)
(* coroutine it has started, and a worker that polls takes every message.   *)
(* Calls, crashes and expiries are not fair.  A kiq is an LPUSH and never   *)
(* waits, so the bound on Jobs may delay a request but not for ever.        *)
Fairness ==
  /\ \A r \in Requests : WF_vars(Serve(r) \/ Share(r))
  /\ \A j \in Jobs : WF_vars(Work(j) \/ Share(j))
  /\ \A r \in Requests : SF_vars(Kick(r))

FairSpec == Spec /\ Fairness

-----------------------------------------------------------------------------
(* Properties.                                                              *)

TypeOK ==
  /\ records \in [Tasks -> Records]
  /\ listed \subseteq Tasks
  /\ flags \subseteq Tasks
  /\ queue \in Seq(Tasks)
  /\ rows \in Seq(Rows)
  /\ proc \in [Procs -> Process]
  /\ issued \subseteq Tasks
  /\ regens \in [Tasks -> 0..MaxRegens]
  /\ crashes \in 0..MaxCrashes
  /\ expiries \in 0..MaxExpiries

(* A parked draft is parked once and has not been started: no job was kicked*)
(* for it and no log row belongs to it.  Drains, cancels, dismissals and    *)
(* regenerations of other requests never break this, so the LPOP of one     *)
(* drain hands the draft to exactly one job.                                *)
ParkedOnce ==
  /\ \A i, k \in DOMAIN queue : queue[i] = queue[k] => i = k
  /\ \A i \in DOMAIN queue :
       /\ \A j \in Jobs : proc[j].task # queue[i]
       /\ \A k \in DOMAIN rows : rows[k].task # queue[i]

(* Process p is about to park t, to promote it, or to cancel it.            *)
InTransit(p, t) ==
  /\ proc[p].task = t
  /\ \/ proc[p].at \in {"park", "peek"}
     \/ proc[p].op \in {"promote", "cancelled"}

(* A QUEUED record is in the FIFO or on its way in or out of it: no order of*)
(* starts, drains, cancels and dismissals makes a draft that waits for a    *)
(* slot which no drain will ever find.  A process that dies may lose it.    *)
QueuedIsFindable ==
  crashes = 0 =>
    \A t \in Tasks : records[t].status = "QUEUED" =>
       InQueue(t) \/ \E p \in Procs : InTransit(p, t)

(* The cap is counted before the task is created or promoted, so it can be  *)
(* passed; but only by the processes that counted at the same time, however *)
(* many starts, drains and cancels follow.  (/regenerate asks no cap, and a *)
(* dismissed task whose job still runs is not counted.)                     *)
OvershootIsBounded ==
  Cardinality({t \in ActiveTasks : records[t].status # "QUEUED"})
    <= MaxConcurrent + Cardinality(Procs) - 1

(* One log row, that is one engine run, per request that asked for one:     *)
(* neither a drain racing another drain nor a cancel racing a drain drafts a*)
(* task twice.                                                              *)
RowPerRequest ==
  \A t \in Tasks : Cardinality({i \in DOMAIN rows : rows[i].task = t}) <= 1 + regens[t]

(* A COMPLETED task shows a log row of its own case and template that holds *)
(* a document, whether its own job or /use-existing completed it, whatever  *)
(* cancels and second resumes raced with it.  Routes that take a log_id away*)
(* from a running job (/regenerate, a dismissal) and the TTL are excluded.  *)
CompletedHasDocument ==
  \A t \in Tasks : records[t].status = "COMPLETED" =>
     /\ records[t].log \in DOMAIN rows
     /\ rows[records[t].log].doc
     /\ DraftOf[rows[records[t].log].task] = DraftOf[t]

(* A cancelled task at which nothing is at work is never taken up again,    *)
(* whatever the user calls and whatever messages for it are still in the    *)
(* broker, until it is dismissed or its keys expire.                        *)
Resting(t) ==
  /\ records[t].status = "CANCELLED" /\ t \in flags /\ ~ InQueue(t)
  /\ \A p \in Procs :
       proc[p].task = t => proc[p].at \in InBroker \cup {"find", "delete"}
CancelledStays ==
  [][\A t \in Tasks :
       Resting(t) => Resting(t)' \/ ~ Exists(t)' \/ expiries' # expiries]_vars

(* If the flag of a task stays up, work on it ends for good: the jobs at    *)
(* work run out and what is kicked afterwards returns at its first call.    *)
CancelStopsWork ==
  \A t \in Tasks :
    <>[](t \in flags) =>
      <>[](\A j \in Jobs : proc[j].task = t => proc[j].at \in InBroker)

(* Without dismissals a task that was handed to a worker does not stay in a *)
(* working status, unless its cancel flag is up.                            *)
Working == {"PENDING", "CHECKING_EXISTING", "DRAFTING"}
WorkEnds ==
  \A t \in Tasks :
    records[t].status \in Working ~> records[t].status \notin Working \/ t \in flags

(* The pipeline implements the waiting line of AdmissionQueue: a draft that  *)
(* was promoted, cancelled or dismissed never waits again, drains promote in*)
(* the order of the starts that parked, and only what waited is promoted.   *)
Placing(t) ==
  \E r \in Requests :
    proc[r].task = t /\ proc[r].at \in {"count", "size", "create_pending",
                                        "create_queued", "park"}
Serving(t) ==
  \E p \in Procs : proc[p].task = t /\ (proc[p].at = "peek" \/ proc[p].op = "promote")

PhaseOf(t) == IF InQueue(t) THEN "waiting"
              ELSE IF Placing(t) THEN "placing"
              ELSE IF Serving(t) THEN "serving"
              ELSE IF t \in issued THEN "placed"
              ELSE "new"

Line == INSTANCE AdmissionQueue WITH fifo <- queue,
                                     phase <- [t \in Tasks |-> PhaseOf(t)]
WaitsInLine == Line!Spec

(* What a comment of the code says and the code does not do.                *)

(* "At every terminal transition, see if a QUEUED task is waiting for a     *)
(* slot": nothing runs, nothing waits for the user, yet drafts are parked.  *)
NobodyStranded ==
  (\A p \in Procs : proc[p].at = "idle") =>
     (queue = <<>> \/ \E t \in ActiveTasks : records[t].status # "QUEUED")

=============================================================================
