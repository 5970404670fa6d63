------------------------------ MODULE StudioRuns ------------------------------
(***************************************************************************)
(* The two background services of the template studio, as one user sees    *)
(* them: composer/async_run, which generates a template from an uploaded   *)
(* document or regenerates one, and dry_run/async_run, which fills a       *)
(* template for a case and may pause for input.  Their state.py, router.py *)
(* and tasks.py mirror each other, and the draft pipeline; they share no   *)
(* key, so a behaviour follows one of them.                                *)
(*                                                                         *)
(* One action is one call to Redis, Postgres or the broker.  A process     *)
(* holds the record it read until it writes it back.                       *)
(***************************************************************************)
EXTENDS Naturals, Sequences, FiniteSets, WaitingLine

CONSTANTS
  Tasks,          (* uuids handed out by state.create                       *)
  Services,       (* "composer", "dry_run": which the behaviours follow     *)
  Api,            (* "submit", "cancel", "dismiss": routes called after /start *)
  Requests,       (* HTTP requests the API can be serving at one time       *)
  Jobs,           (* taskiq messages and job executions alive at one time   *)
  MaxConcurrent,  (* MAX_CONCURRENT_*_TASKS                                 *)
  MaxQueued,      (* MAX_QUEUED_*_TASKS                                     *)
  MaxExpiries     (* bound: uploads that outlive their TTL                  *)

Procs  == Requests \cup Jobs
NoTask == "no task"

ASSUME StudioAssumption ==
  /\ Services \subseteq {"composer", "dry_run"}
  /\ Api \subseteq {"submit", "cancel", "dismiss"}
  /\ Requests \cap Jobs = {} /\ NoTask \notin Tasks
  /\ MaxConcurrent \in Nat \ {0} /\ MaxQueued \in Nat /\ MaxExpiries \in Nat

KindsOf(s) == IF s = "composer" THEN {"generate", "regenerate"} ELSE {"dry_run"}
Kinds      == {"generate", "regenerate", "dry_run"}

(* schemas.py; "NONE" stands for a key that is absent.  paused: the record  *)
(* holds resolved_values; picks: it holds user_picks.                       *)
Working  == {"PENDING", "RUNNING", "RESUMING"}
Active   == Working \cup {"QUEUED", "AWAITING_INPUT"}
Terminal == {"COMPLETED", "FAILED", "CANCELLED"}
NoRecord == [status |-> "NONE", kind |-> "none", paused |-> FALSE, picks |-> FALSE]
Records  == [status : Active \cup Terminal, kind : Kinds,
             paused : BOOLEAN, picks : BOOLEAN] \cup {NoRecord}

(* What state.create and the state.set_* write, by the status they set.     *)
Sets == Active \cup Terminal
Updated(op, rec) ==
  [rec EXCEPT !.status = op,
              !.paused = @ \/ op = "AWAITING_INPUT",
              !.picks  = @ \/ op = "RESUMING"]

InBroker == {"queued_run", "queued_resume"}
Labels   == {"idle", "count", "size", "stage", "create", "park", "kick",
             "kick_resume", "unpark", "fetch", "flag", "store", "find", "delete",
             "clear", "upload", "work", "work_resume", "fields", "discard", "check",
             "check_paused", "drain", "pop", "peek", "finally"} \cup InBroker
Process  == [at : Labels, task : Tasks \cup {NoTask}, kind : Kinds \cup {"none"},
             op : Sets \cup {"none"}, snap : Records, drop : Tasks \cup {NoTask}]
Idle     == [at |-> "idle", task |-> NoTask, kind |-> "none", op |-> "none",
             snap |-> NoRecord, drop |-> NoTask]

VARIABLES
  service,    (* the service of this behaviour                              *)
  records,    (* core:{service}:task:{id}                                   *)
  listed,     (* core:{service}:user_tasks:{user}                           *)
  flags,      (* ids with a core:{service}:task:{id}:cancelled key          *)
  queue,      (* core:{service}:queue:{user}                                *)
  uploads,    (* tasks whose core:composer:upload:{blob_key} is there       *)
  templates,  (* what a generate job left in the database: no row, a row    *)
              (* of templates_v2 without its fields, or both                *)
  proc,       (* every request and job: its next call and its locals; op is *)
              (* the status it is to write, drop the upload its finally     *)
              (* clause deletes                                             *)
  issued,     (* ids taken                                                  *)
  dismissed,  (* history: ids whose keys a DELETE began to remove           *)
  expired     (* history: tasks whose upload outlived UPLOAD_TTL_SECONDS    *)

keys  == <<records, listed, flags, queue, uploads>>
fixed == <<service, dismissed, expired>>
vars  == <<keys, templates, proc, issued, fixed>>

-----------------------------------------------------------------------------
Exists(t)   == records[t].status # "NONE"
Visible     == {t \in listed : Exists(t)}
ActiveTasks == {t \in Visible : records[t].status \in Active}
InQueue(t)  == \E i \in DOMAIN queue : queue[i] = t

Becomes(p, q)   == proc' = [proc EXCEPT ![p] = q]
At(p, label)    == proc[p].at = label
Moved(p, label) == [proc[p] EXCEPT !.at = label]
Writes(p, op)   == [proc[p] EXCEPT !.at = "fetch", !.op = op]

(* Mutant: the finally clause deletes the upload of the task just drained.  *)
DropDrained(p) == IF proc[p].drop = NoTask THEN Idle
                  ELSE [Idle EXCEPT !.at = "finally", !.drop = proc[p].task]

(* A job that returns runs the finally clause it may still be in.           *)
Ends(p) == IF proc[p].drop = NoTask THEN Idle
           ELSE [Idle EXCEPT !.at = "finally", !.drop = proc[p].drop]

(* Where a process goes after it made, or skipped, the write of its op.     *)
Continues(p) ==
  LET Goes(label) == [proc[p] EXCEPT !.at = label, !.op = "none", !.snap = NoRecord]
  IN  CASE proc[p].op = "RUNNING"               -> Goes("work")
        [] proc[p].op = "PENDING"               -> Goes("kick")
        [] proc[p].op = "RESUMING"              -> Goes("kick_resume")
        [] proc[p].op \in {"COMPLETED", "FAILED"} ->
             [Idle EXCEPT !.at = "drain", !.drop = proc[p].drop]
        [] OTHER                                -> Idle

(* kiq.  Where it is the last call of a job, the message takes its place.   *)
Kiq(p, label) ==
  \E j \in Jobs :
    /\ j = p \/ At(j, "idle")
    /\ j = p => Ends(p) = Idle
    /\ proc' = [proc EXCEPT ![p] = Ends(p),
                            ![j] = [Idle EXCEPT !.at = label, !.task = proc[p].task,
                                                !.kind = proc[p].kind]]

-----------------------------------------------------------------------------
(* Requests.                                                                *)

(* POST /generate, /regenerate, /start.                                     *)
Start(r, t, kind) ==
  /\ At(r, "idle") /\ t \notin issued /\ kind \in KindsOf(service)
  /\ issued' = issued \cup {t}
  /\ Becomes(r, [Idle EXCEPT !.at = "count", !.task = t, !.kind = kind])
  /\ UNCHANGED <<keys, templates, fixed>>

Settles(r, status) ==
  Becomes(r, [proc[r] EXCEPT !.op = status,
                !.at = IF proc[r].kind = "generate" THEN "stage" ELSE "create"])

(* _enforce_queue_caps counts the active tasks, QUEUED ones included, and   *)
(* drops the ids of records that are gone ...                               *)
CountActive(r) ==
  /\ At(r, "count")
  /\ IF Cardinality(ActiveTasks) >= MaxConcurrent THEN Becomes(r, Moved(r, "size"))
     ELSE Settles(r, "PENDING")
  /\ listed' = Visible
  /\ UNCHANGED <<records, flags, queue, uploads, templates, issued, fixed>>

(* ... and then the queue: 429 or QUEUED.                                   *)
CheckQueueSize(r) ==
  /\ At(r, "size")
  /\ IF Len(queue) >= MaxQueued
     THEN Becomes(r, Idle) /\ issued' = issued \ {proc[r].task}
     ELSE Settles(r, "QUEUED") /\ UNCHANGED issued
  /\ UNCHANGED <<keys, templates, fixed>>

(* stage_upload_blob, for UPLOAD_TTL_SECONDS ...                            *)
Stage(r) ==
  /\ At(r, "stage")
  /\ uploads' = uploads \cup {proc[r].task}
  /\ Becomes(r, Moved(r, "create"))
  /\ UNCHANGED <<records, listed, flags, queue, templates, issued, fixed>>

(* ... which nothing renews: a task may wait for longer.                    *)
Expire(t) ==
  /\ t \in uploads /\ Cardinality(expired) < MaxExpiries
  /\ uploads' = uploads \ {t} /\ expired' = expired \cup {t}
  /\ UNCHANGED <<records, listed, flags, queue, templates, proc, issued, service, dismissed>>

(* state.create.                                                            *)
Create(r) ==
  /\ At(r, "create")
  /\ records' = [records EXCEPT ![proc[r].task] =
                   [NoRecord EXCEPT !.status = proc[r].op, !.kind = proc[r].kind]]
  /\ listed' = listed \cup {proc[r].task}
  /\ Becomes(r, [proc[r] EXCEPT !.at = IF proc[r].op = "QUEUED" THEN "park" ELSE "kick",
                                !.op = "none"])
  /\ UNCHANGED <<flags, queue, uploads, templates, issued, fixed>>

(* state.enqueue.                                                           *)
Park(r) ==
  /\ At(r, "park")
  /\ queue' = Append(queue, proc[r].task)
  /\ Becomes(r, Idle)
  /\ UNCHANGED <<records, listed, flags, uploads, templates, issued, fixed>>

(* The kiq of a start, of a drain and of /submit-input.                     *)
Kick(p) ==
  /\ \/ At(p, "kick") /\ Kiq(p, "queued_run")
     \/ At(p, "kick_resume") /\ Kiq(p, "queued_resume")
  /\ UNCHANGED <<keys, templates, issued, fixed>>

(* Mutant: the resume job is kicked before the picks are stored.            *)
KickFirst(r, t) ==
  /\ At(r, "idle") /\ records[t].status = "AWAITING_INPUT"
  /\ Becomes(r, [Idle EXCEPT !.at = "kick_resume", !.task = t, !.kind = "dry_run"])
  /\ UNCHANGED <<keys, templates, issued, fixed>>

(* POST /submit-input of a dry run, up to its state.set_user_picks.         *)
SubmitInput(r, t) ==
  /\ At(r, "idle") /\ records[t].status = "AWAITING_INPUT"
  /\ Becomes(r, [Idle EXCEPT !.at = "fetch", !.op = "RESUMING", !.task = t,
                             !.kind = "dry_run"])
  /\ UNCHANGED <<keys, templates, issued, fixed>>

(* POST /cancel.  No drain follows.                                         *)
Cancel(r, t) ==
  /\ At(r, "idle") /\ records[t].status \in Active
  /\ Becomes(r, [Idle EXCEPT
                   !.at = IF records[t].status = "QUEUED" THEN "unpark" ELSE "fetch",
                   !.op = "CANCELLED", !.task = t])
  /\ UNCHANGED <<keys, templates, issued, fixed>>

RemoveFromQueue(r) ==
  /\ At(r, "unpark")
  /\ queue' = Without(queue, proc[r].task)
  /\ Becomes(r, Moved(r, "fetch"))
  /\ UNCHANGED <<records, listed, flags, uploads, templates, issued, fixed>>

(* DELETE /{task_id}, whatever the status.                                  *)
Dismiss(r, t) ==
  /\ At(r, "idle") /\ Exists(t)
  /\ Becomes(r, [Idle EXCEPT !.at = "find", !.task = t])
  /\ UNCHANGED <<keys, templates, issued, fixed>>

(* state.delete reads the record once more ...                              *)
FindForDelete(r) ==
  /\ At(r, "find")
  /\ Becomes(r, IF Exists(proc[r].task) THEN Moved(r, "delete") ELSE Idle)
  /\ UNCHANGED <<keys, templates, issued, fixed>>

(* ... and deletes it, and then every other key of the task.  These are one *)
(* step: an id without a record is passed over wherever it is found.        *)
Delete(r) ==
  LET t == proc[r].task
  IN  /\ At(r, "delete")
      /\ records' = [records EXCEPT ![t] = NoRecord]
      /\ dismissed' = dismissed \cup {t}
      /\ Becomes(r, Moved(r, "clear"))
      /\ UNCHANGED <<listed, flags, queue, uploads, templates, issued, service, expired>>

Clear(r) ==
  LET t == proc[r].task
  IN  /\ At(r, "clear")
      /\ listed' = listed \ {t} /\ flags' = flags \ {t} /\ uploads' = uploads \ {t}
      /\ queue' = Without(queue, t)
      /\ dismissed' = dismissed \cup {t}
      /\ Becomes(r, Idle)
      /\ UNCHANGED <<records, templates, issued, service, expired>>

(* Mutant: a record that is gone is not noticed.                            *)
FetchBlind(p) ==
  /\ At(p, "fetch")
  /\ Becomes(p, [proc[p] EXCEPT !.at = IF proc[p].op = "CANCELLED" THEN "flag" ELSE "store",
                                !.snap = records[proc[p].task]])
  /\ UNCHANGED <<keys, templates, issued, fixed>>

-----------------------------------------------------------------------------
(* state.set_*: a GET, which ends the call if the record is gone; for       *)
(* set_cancelled the flag; and the SETEX of the copy with the SADD.         *)
Fetch(p) ==
  LET rec == records[proc[p].task]
  IN  /\ At(p, "fetch")
      /\ Becomes(p, IF rec.status = "NONE" THEN Continues(p)
                    ELSE [proc[p] EXCEPT
                            !.at = IF proc[p].op = "CANCELLED" THEN "flag" ELSE "store",
                            !.snap = rec])
      /\ UNCHANGED <<keys, templates, issued, fixed>>

SetCancelFlag(r) ==
  /\ At(r, "flag")
  /\ flags' = flags \cup {proc[r].task}
  /\ Becomes(r, Moved(r, "store"))
  /\ UNCHANGED <<records, listed, queue, uploads, templates, issued, fixed>>

Store(p) ==
  LET t == proc[p].task
  IN  /\ At(p, "store")
      /\ records' = [records EXCEPT ![t] = Updated(proc[p].op, proc[p].snap)]
      /\ listed' = listed \cup {t}
      /\ Becomes(p, Continues(p))
      /\ UNCHANGED <<flags, queue, uploads, templates, issued, fixed>>

-----------------------------------------------------------------------------
(* Jobs.                                                                    *)

(* run_composer_generate, run_composer_regenerate and run_dry_run_initial   *)
(* return if the record is gone or the flag is up, and then do not drain.   *)
BeginRun(j) ==
  /\ At(j, "queued_run")
  /\ Becomes(j, IF ~ Exists(proc[j].task) \/ proc[j].task \in flags THEN Idle
                ELSE IF proc[j].kind = "generate" THEN Moved(j, "upload")
                ELSE Writes(j, "RUNNING"))
  /\ UNCHANGED <<keys, templates, issued, fixed>>

(* fetch_upload_blob: "Staged upload expired or missing" if it is gone.     *)
FetchUpload(j) ==
  /\ At(j, "upload")
  /\ Becomes(j, Writes(j, IF proc[j].task \in uploads THEN "RUNNING" ELSE "FAILED"))
  /\ UNCHANGED <<keys, templates, issued, fixed>>

(* Mutant: a failure is logged and the record left as it is.                *)
RaisesSilently(j) ==
  Becomes(j, [Idle EXCEPT !.at = "drain",
                !.drop = IF proc[j].kind = "generate" THEN proc[j].task ELSE NoTask])

(* The except clause; that of a generate job leaves its finally clause for  *)
(* after the drain.                                                         *)
Raises(j) ==
  Becomes(j, [Writes(j, "FAILED") EXCEPT
                !.drop = IF proc[j].kind = "generate" THEN proc[j].task ELSE NoTask])

(* parse_document_v2 and generate_template_v2 up to the templates_v2 row;   *)
(* regenerate_template_v2; execute_dry_run_v2, which may pause;             *)
(* resume_dry_run_v2, which may not.                                        *)
Work(j) ==
  /\ At(j, "work") \/ At(j, "work_resume")
  /\ \/ Raises(j) /\ UNCHANGED templates
     \/ /\ proc[j].kind = "generate"
        /\ templates' = [templates EXCEPT ![proc[j].task] = "bare"]
        /\ Becomes(j, Moved(j, "fields"))
     \/ /\ proc[j].kind # "generate"
        /\ \/ Becomes(j, Moved(j, "check"))
           \/ proc[j].kind = "dry_run" /\ At(j, "work") /\ Becomes(j, Moved(j, "check_paused"))
        /\ UNCHANGED templates
  /\ UNCHANGED <<keys, issued, fixed>>

(* Mutant: an error of the second transaction is swallowed.                 *)
FieldsMayFail(j) ==
  /\ At(j, "fields")
  /\ \/ UNCHANGED templates
     \/ templates' = [templates EXCEPT ![proc[j].task] = "full"]
  /\ Becomes(j, Moved(j, "discard"))
  /\ UNCHANGED <<keys, issued, fixed>>

(* The fields of the template are a second transaction.                     *)
InsertFields(j) ==
  /\ At(j, "fields")
  /\ \/ Raises(j) /\ UNCHANGED templates
     \/ /\ templates' = [templates EXCEPT ![proc[j].task] = "full"]
        /\ Becomes(j, Moved(j, "discard"))
  /\ UNCHANGED <<keys, issued, fixed>>

(* discard_upload_blob, on the way to the last is_cancelled or, from a      *)
(* failure, as the last call of the job.                                    *)
Discard(j) ==
  /\ \/ At(j, "discard") /\ uploads' = uploads \ {proc[j].task} /\ Becomes(j, Moved(j, "check"))
     \/ At(j, "finally") /\ uploads' = uploads \ {proc[j].drop} /\ Becomes(j, Idle)
  /\ UNCHANGED <<records, listed, flags, queue, templates, issued, fixed>>

(* The last is_cancelled: a flagged result is dropped.  A pause keeps its   *)
(* slot and drains nothing.                                                 *)
Check(j) ==
  /\ At(j, "check") \/ At(j, "check_paused")
  /\ Becomes(j, IF proc[j].task \in flags THEN [Idle EXCEPT !.at = "drain"]
                ELSE Writes(j, IF At(j, "check") THEN "COMPLETED" ELSE "AWAITING_INPUT"))
  /\ UNCHANGED <<keys, templates, issued, fixed>>

(* run_dry_run_resume reads the picks off the record.                       *)
BeginResume(j) ==
  LET rec == records[proc[j].task]
  IN  /\ At(j, "queued_resume")
      /\ Becomes(j, IF rec.status = "NONE" \/ proc[j].task \in flags THEN Idle
                    ELSE IF rec.picks /\ rec.paused THEN Moved(j, "work_resume")
                    ELSE Writes(j, "FAILED"))
      /\ UNCHANGED <<keys, templates, issued, fixed>>

(* _try_drain_user_queue: the count, the LPOP, the look at the record.  The *)
(* popped task is promoted whatever its status.                             *)
DrainCount(j) ==
  /\ At(j, "drain")
  /\ Becomes(j, IF Cardinality(ActiveTasks) >= MaxConcurrent THEN Ends(j)
                ELSE Moved(j, "pop"))
  /\ listed' = Visible
  /\ UNCHANGED <<records, flags, queue, uploads, templates, issued, fixed>>

DrainPop(j) ==
  /\ At(j, "pop")
  /\ IF queue = <<>> THEN Becomes(j, Ends(j)) /\ UNCHANGED queue
     ELSE /\ queue' = Tail(queue)
          /\ Becomes(j, [proc[j] EXCEPT !.at = "peek", !.task = Head(queue)])
  /\ UNCHANGED <<records, listed, flags, uploads, templates, issued, fixed>>

DrainPeek(j) ==
  LET rec == records[proc[j].task]
  IN  /\ At(j, "peek")
      /\ Becomes(j, IF rec.status = "NONE" THEN Ends(j)
                    ELSE [Writes(j, "PENDING") EXCEPT !.kind = rec.kind])
      /\ UNCHANGED <<keys, templates, issued, fixed>>

-----------------------------------------------------------------------------
Init ==
  /\ service \in Services
  /\ records = [t \in Tasks |-> NoRecord]
  /\ listed = {} /\ flags = {} /\ queue = <<>> /\ uploads = {}
  /\ templates = [t \in Tasks |-> "none"]
  /\ proc = [p \in Procs |-> Idle]
  /\ issued = {} /\ dismissed = {} /\ expired = {}

Call(r) ==
  \E t \in Tasks : \/ \E kind \in Kinds : Start(r, t, kind)
                   \/ "submit" \in Api /\ SubmitInput(r, t)
                   \/ "cancel" \in Api /\ Cancel(r, t)
                   \/ "dismiss" \in Api /\ Dismiss(r, t)

Serve(r) ==
  \/ CountActive(r) \/ CheckQueueSize(r) \/ Stage(r) \/ Create(r) \/ Park(r)
  \/ RemoveFromQueue(r) \/ SetCancelFlag(r) \/ FindForDelete(r) \/ Delete(r)
  \/ Clear(r)

Run(j) ==
  \/ BeginRun(j) \/ FetchUpload(j) \/ Work(j) \/ InsertFields(j) \/ Discard(j)
  \/ Check(j) \/ BeginResume(j) \/ DrainCount(j) \/ DrainPop(j) \/ DrainPeek(j)

Share(p) == Fetch(p) \/ Store(p) \/ Kick(p)

Next ==
  \/ \E r \in Requests : Call(r) \/ Serve(r)
  \/ \E j \in Jobs : Run(j)
  \/ \E p \in Procs : Share(p)
  \/ \E t \in Tasks : Expire(t)

Spec == Init /\ [][Next]_vars

(* Every coroutine that was started goes on and every message is taken; a   *)
(* kiq never waits, so the bound on Jobs may delay it but not for ever.     *)
(* Calls are not fair.                                                      *)
FairSpec ==
  /\ Spec
  /\ \A r \in Requests : WF_vars(Serve(r) \/ Share(r)) /\ SF_vars(Kick(r))
  /\ \A j \in Jobs : WF_vars(Run(j) \/ Share(j)) /\ SF_vars(Kick(j))

-----------------------------------------------------------------------------
(* Properties.                                                              *)

TypeOK ==
  /\ service \in Services
  /\ records \in [Tasks -> Records]
  /\ listed \subseteq Tasks /\ flags \subseteq Tasks /\ uploads \subseteq Tasks
  /\ queue \in Seq(Tasks)
  /\ templates \in [Tasks -> {"none", "bare", "full"}]
  /\ proc \in [Procs -> Process]
  /\ issued \subseteq Tasks /\ dismissed \subseteq Tasks /\ expired \subseteq Tasks

(* The upload of a generate task is in Redis until the task's own job has   *)
(* run, whichever jobs fail, finish or drain meanwhile: only a dismissal of *)
(* the task or the upload's own TTL, which neither parking nor promotion    *)
(* renews, may take it away before.                                         *)
UploadWaits ==
  \A t \in Tasks \ (dismissed \cup expired) :
    records[t].kind = "generate" /\ records[t].status \in {"QUEUED", "PENDING"}
      => t \in uploads

(* A generate task that is COMPLETED has its template row and its fields.   *)
CompletedHasTemplate ==
  \A t \in Tasks :
    records[t].kind = "generate" /\ records[t].status = "COMPLETED"
      => templates[t] = "full"

(* A resume job that a worker may act on finds the values of the pause and  *)
(* the user's picks in the record, whatever requests rewrite it meanwhile:  *)
(* "user_picks / resolved_values missing on record" is reported of dismissed*)
(* tasks at most.                                                           *)
ResumeComplete ==
  \A j \in Jobs :
    LET rec == records[proc[j].task]
    IN  At(j, "queued_resume") /\ proc[j].task \notin flags \cup dismissed /\ rec.status # "NONE"
          => rec.paused /\ rec.picks

(* A task handed to a worker does not stay in a working status, unless its  *)
(* flag is up or it was dismissed.                                          *)
RunsEnd ==
  \A t \in Tasks :
    records[t].status \in Working
      ~> \/ records[t].status \notin Working
         \/ t \in flags \cup dismissed
=============================================================================
