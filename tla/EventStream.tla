----------------------------- MODULE EventStream -----------------------------
(***************************************************************************)
(* How one browser tab follows the template-draft tasks of its user:       *)
(* emit and emit_removed of components/pleading/events.py append to a      *)
(* Redis stream, stream_events of sse.py sends a snapshot and then the     *)
(* entries of the stream, and the store useTemplateDraftStore.ts merges    *)
(* these with the answers of its own calls.                                *)
(*                                                                         *)
(* A record is represented by its updated_at: _persist stamps every write  *)
(* and the store compares nothing else.  Stamps are ticks of one clock;    *)
(* the clocks of browser and servers are taken to agree.                   *)
(***************************************************************************)
EXTENDS Naturals, Sequences, FiniteSets

CONSTANTS
  MaxTasks,    (* bound: tasks created; they are numbered as created        *)
  Workers,     (* jobs of tasks.py that write records of these tasks        *)
  Requests,    (* REST calls of this tab that can be under way at one time  *)
  StreamMax,   (* STREAM_MAXLEN: XADD trims older entries when it likes     *)
  MaxClock,    (* bound: stamps given out                                   *)
  MaxDrops     (* bound: connections lost, page changes and reloads         *)

Tasks  == 1 .. MaxTasks
NoTask == 0
Procs  == Workers \cup Requests
Stamps == 0 .. MaxClock

ASSUME StreamAssumption ==
  /\ MaxTasks \in Nat
  /\ Workers \cap Requests = {}
  /\ StreamMax \in Nat \ {0}
  /\ MaxClock \in Nat /\ MaxDrops \in Nat

Labels == {"idle", "create", "load", "store", "emit_read", "emit_append", "answer",
           "delete", "unlist", "emit_removed"}
Ops    == {"none", "write", "create", "submit", "dismiss"}
Process == [at : Labels, op : Ops, task : 0 .. MaxTasks,
            stamp : Stamps, payload : Stamps]
Idle    == [at |-> "idle", op |-> "none", task |-> NoTask, stamp |-> 0,
            payload |-> 0]
Doing(op, label, t) == [Idle EXCEPT !.op = op, !.at = label, !.task = t]

Entry(kind, t, s) == [kind |-> kind, task |-> t, stamp |-> s]

(* What a snapshot or a list shows of the tasks; 0: not in it.              *)
Nothing == [t \in Tasks |-> 0]
Listing(at, tasks) == [at |-> at, tasks |-> tasks]

VARIABLES
  clock,    (* the last stamp given out                                     *)
  record,   (* core:pleading:task:{id}: its updated_at, 0 if absent         *)
  listed,   (* core:pleading:user_tasks:{user}                              *)
  issued,   (* how many ids state.create has handed out                     *)
  proc,     (* workers and REST calls                                       *)
  conn,     (* "down", "opening" (start_id is chosen), "sent" (the snapshot *)
            (* is on its way), "live" or "closed" (EventSource has given up) *)
  unread,   (* the stream from where the tab is to go on: the entries after *)
            (* current_id or, between connections, after Last-Event-ID      *)
  resumes,  (* the tab's EventSource has a Last-Event-ID                    *)
  snapshot, (* the snapshot on its way                                      *)
  listing,  (* GET /tasks of loadActive: where it is, and its answer        *)
  local,    (* tasks of the store, by updated_at; 0 if absent               *)
  tombs,    (* dismissedTaskIds; its eviction beyond 200 is not modelled    *)
  drops

server == <<clock, record, listed, issued>>
tab    == <<conn, snapshot, resumes, drops>>
client == <<local, tombs, listing>>
vars   == <<clock, record, listed, issued, proc, conn, unread,
            snapshot, resumes, listing, local, tombs, drops>>

-----------------------------------------------------------------------------
Exists(t)  == record[t] # 0
Visible(t) == t \in listed /\ Exists(t)
(* state.list_for_user, by which the SREM of stale ids is not observable.   *)
ListForUser == [t \in Tasks |-> IF Visible(t) THEN record[t] ELSE 0]

Tombed(t) == t \in tombs
Shown(t)  == local[t] # 0

Becomes(p, q)   == proc' = [proc EXCEPT ![p] = q]
At(p, label)    == proc[p].at = label
Moved(p, label) == [proc[p] EXCEPT !.at = label]

(* Where a process goes when its write, if any, and its emit are over: only *)
(* a REST call has an answer to give.                                       *)
Finished(p) == IF p \in Requests THEN Moved(p, "answer") ELSE Idle

(* Mutant: XREAD starts at "$", what is new when it is first called.        *)
XAddFromNow(e) ==
  unread' = IF conn = "live" THEN Append(unread, e) ELSE unread

Unconnected == conn \in {"down", "closed"}

(* XADD with MAXLEN ~, and the EXPIRE that follows.  Without a              *)
(* Last-Event-ID the next connection starts at the newest entry, whatever   *)
(* is added before.  Trimming may be late; it is assumed not to pass an     *)
(* open connection, which would have to lag by StreamMax entries.           *)
XAdd(e) ==
  IF Unconnected /\ ~ resumes THEN UNCHANGED unread
  ELSE LET all == Append(unread, e)
       IN  unread' \in {all} \cup {SubSeq(all, k, Len(all)) :
                          k \in {i \in DOMAIN all : /\ conn = "down"
                                                   /\ Len(all) - i + 1 >= StreamMax}}

-----------------------------------------------------------------------------
(* The writers.                                                             *)

(* A job of tasks.py starts one of its writes.                              *)
WorkerWrites(w, t) ==
  /\ At(w, "idle") /\ t <= issued /\ clock < MaxClock
  /\ Becomes(w, Doing("write", "load", t))
  /\ UNCHANGED <<server, unread, tab, client>>

(* The GET of state.set_* and of _load_owned_task, and the stamp that       *)
(* _persist takes.  A missing record ends a call with 404; a job goes on to *)
(* emit, which reads again.  A call can also be refused by a status (409).  *)
Load(p) ==
  LET t == proc[p].task
  IN  /\ At(p, "load")
      /\ \/ /\ Exists(t) /\ proc[p].op = "write" /\ clock < MaxClock
            /\ clock' = clock + 1
            /\ Becomes(p, [proc[p] EXCEPT !.at = "store", !.stamp = clock + 1])
         \/ /\ Exists(t) /\ proc[p].op = "submit"
            /\ Becomes(p, [proc[p] EXCEPT !.at = "answer", !.stamp = record[t]])
            /\ UNCHANGED clock
         \/ /\ ~ Exists(t) /\ p \in Workers
            /\ Becomes(p, Moved(p, "emit_read"))
            /\ UNCHANGED clock
         \/ /\ p \in Requests
            /\ Becomes(p, Idle)
            /\ UNCHANGED clock
      /\ UNCHANGED <<record, listed, issued, unread, tab, client>>

(* The SETEX and SADD of _persist.                                          *)
Store(p) ==
  /\ At(p, "store")
  /\ record' = [record EXCEPT ![proc[p].task] = proc[p].stamp]
  /\ listed' = listed \cup {proc[p].task}
  /\ Becomes(p, Moved(p, "emit_read"))
  /\ UNCHANGED <<clock, issued, unread, tab, client>>

(* emit: the GET of the latest record ...                                   *)
EmitRead(p) ==
  LET t == proc[p].task
  IN  /\ At(p, "emit_read")
      /\ Becomes(p, IF Exists(t)
                    THEN [proc[p] EXCEPT !.at = "emit_append", !.payload = record[t]]
                    ELSE Finished(p))
      /\ UNCHANGED <<server, unread, tab, client>>

(* ... and its XADD.                                                        *)
EmitAppend(p) ==
  /\ At(p, "emit_append")
  /\ XAdd(Entry("task", proc[p].task, proc[p].payload))
  /\ Becomes(p, Finished(p))
  /\ UNCHANGED <<server, tab, client>>

(* Mutant: a created task is not announced.                                 *)
CreateQuietly(r) ==
  LET t == proc[r].task
  IN  /\ At(r, "create")
      /\ clock < MaxClock
      /\ clock' = clock + 1
      /\ record' = [record EXCEPT ![t] = clock + 1]
      /\ listed' = listed \cup {t}
      /\ Becomes(r, [proc[r] EXCEPT !.at = "answer", !.stamp = clock + 1])
      /\ UNCHANGED <<issued, unread, tab, client>>

(* POST /start creates the record: state.create stamps and persists it.     *)
Create(r) ==
  LET t == proc[r].task
  IN  /\ At(r, "create")
      /\ clock < MaxClock
      /\ clock' = clock + 1
      /\ record' = [record EXCEPT ![t] = clock + 1]
      /\ listed' = listed \cup {t}
      /\ Becomes(r, [proc[r] EXCEPT !.at = "emit_read", !.stamp = clock + 1])
      /\ UNCHANGED <<issued, unread, tab, client>>

(* DELETE /{task_id}: state.delete removes the record and then the id;      *)
(* emit_removed follows.                                                    *)
Delete(r) ==
  /\ At(r, "delete")
  /\ record' = [record EXCEPT ![proc[r].task] = 0]
  /\ Becomes(r, Moved(r, "unlist"))
  /\ UNCHANGED <<clock, listed, issued, unread, tab, client>>

Unlist(r) ==
  /\ At(r, "unlist")
  /\ listed' = listed \ {proc[r].task}
  /\ Becomes(r, Moved(r, "emit_removed"))
  /\ UNCHANGED <<clock, record, issued, unread, tab, client>>

(* Mutant: the event does not say which task is gone.                       *)
EmitRemovedNameless(r) ==
  /\ At(r, "emit_removed")
  /\ XAdd(Entry("removed", NoTask, 0))
  /\ Becomes(r, Moved(r, "answer"))
  /\ UNCHANGED <<server, tab, client>>

EmitRemoved(r) ==
  /\ At(r, "emit_removed")
  /\ XAdd(Entry("removed", proc[r].task, 0))
  /\ Becomes(r, Moved(r, "answer"))
  /\ UNCHANGED <<server, tab, client>>

-----------------------------------------------------------------------------
(* The store.                                                               *)

(* applySnapshot: what the snapshot leaves out is dropped.                  *)
ApplySnapshot(tasks) ==
  /\ local' = [t \in Tasks |->
       IF tasks[t] = 0 \/ Tombed(t) THEN 0
       ELSE IF local[t] > tasks[t] THEN local[t] ELSE tasks[t]]
  /\ UNCHANGED tombs

(* Mutants: the last event wins; a dismissed task is let in.                *)
UpsertLast(t, s) ==
  /\ local' = IF Tombed(t) THEN local ELSE [local EXCEPT ![t] = s]
  /\ UNCHANGED tombs

UpsertDismissed(t, s) ==
  /\ local' = IF local[t] > s THEN local ELSE [local EXCEPT ![t] = s]
  /\ UNCHANGED tombs

(* upsertTask, on an event and on the answer of a call.                     *)
UpsertTask(t, s) ==
  /\ local' = IF Tombed(t) \/ local[t] > s THEN local
              ELSE [local EXCEPT ![t] = s]
  /\ UNCHANGED tombs

(* removeTask.                                                              *)
RemoveTask(t) ==
  /\ local' = [local EXCEPT ![t] = 0]
  /\ tombs' = tombs \cup {t}

Handle(e) == IF e.kind = "removed" THEN RemoveTask(e.task)
                                   ELSE UpsertTask(e.task, e.stamp)

-----------------------------------------------------------------------------
(* The user acts.  submitInput, useExisting and regenerate change the store *)
(* at once, stamped by the browser; cancelTask does not.  The calls that do *)
(* not are taken to read the record as they are made.                       *)

(* startDraft; its placeholder is gone when the answer is merged.           *)
StartDraft(r) ==
  /\ At(r, "idle") /\ issued < MaxTasks /\ clock < MaxClock
  /\ issued' = issued + 1
  /\ Becomes(r, Doing("create", "create", issued + 1))
  /\ UNCHANGED <<clock, record, listed, unread, tab, client>>

CancelTask(r, t) ==
  /\ At(r, "idle") /\ Shown(t) /\ Exists(t) /\ clock < MaxClock
  /\ clock' = clock + 1
  /\ Becomes(r, [Doing("write", "store", t) EXCEPT !.stamp = clock + 1])
  /\ UNCHANGED <<record, listed, issued, unread, tab, client>>

Optimistic(r, t, op) ==
  /\ At(r, "idle") /\ Shown(t) /\ clock < MaxClock
  /\ clock' = clock + 1
  /\ local' = [local EXCEPT ![t] = clock + 1]
  /\ Becomes(r, Doing(op, "load", t))
  /\ UNCHANGED <<record, listed, issued, unread, tab, tombs, listing>>

UseExistingOrRegenerate(r, t) == Optimistic(r, t, "write")
SubmitInput(r, t)             == Optimistic(r, t, "submit")

(* dismiss_task answers at once when the record is gone.                    *)
DismissTask(r, t) ==
  /\ At(r, "idle") /\ Shown(t)
  /\ Becomes(r, Doing("dismiss", IF Exists(t) THEN "delete" ELSE "answer", t))
  /\ UNCHANGED <<server, unread, tab, client>>

(* A call returns: its answer is merged like an event.                      *)
Answer(r) ==
  LET p == proc[r]
  IN  /\ At(r, "answer")
      /\ IF p.op = "dismiss" THEN RemoveTask(p.task) ELSE UpsertTask(p.task, p.stamp)
      /\ Becomes(r, Idle)
      /\ UNCHANGED <<server, unread, tab, listing>>

(* The answer is lost: the call failed for the tab, which rolls nothing     *)
(* back.                                                                    *)
AnswerLost(r) ==
  /\ At(r, "answer")
  /\ Becomes(r, Idle)
  /\ UNCHANGED <<server, unread, tab, client>>

-----------------------------------------------------------------------------
(* The connection.                                                          *)

(* stream_events: start_id is Last-Event-ID, else the newest entry ...      *)
Connect ==
  /\ conn = "down"
  /\ conn' = "opening"
  /\ UNCHANGED <<server, proc, unread, snapshot, resumes, client, drops>>

(* ... then the snapshot is taken, an event without an id ...               *)
SendSnapshot ==
  /\ conn = "opening"
  /\ conn' = "sent" /\ snapshot' = ListForUser
  /\ UNCHANGED <<server, proc, unread, resumes, client, drops>>

HandleSnapshot ==
  /\ conn = "sent"
  /\ conn' = "live" /\ snapshot' = Nothing
  /\ ApplySnapshot(snapshot)
  /\ UNCHANGED <<server, proc, unread, resumes, listing, drops>>

(* ... and then what XREAD returns.  One step takes an entry from the       *)
(* stream to the store: an entry on the connection is like one not read     *)
(* yet, for when the connection is lost it is read again.  EventSource      *)
(* remembers the id.                                                        *)
HandleEntry ==
  /\ conn = "live" /\ unread # <<>>
  /\ Handle(Head(unread))
  /\ unread' = Tail(unread) /\ resumes' = TRUE
  /\ UNCHANGED <<server, proc, conn, snapshot, listing, drops>>

(* The connection ends; only a Last-Event-ID makes the next one go on here. *)
Cut(resume) ==
  /\ conn' = "down" /\ snapshot' = Nothing
  /\ unread' = IF resume THEN unread ELSE <<>>

(* An XREAD error or a network failure; EventSource tries to reconnect by   *)
(* itself ...                                                               *)
LoseConnection ==
  /\ ~ Unconnected /\ drops < MaxDrops
  /\ drops' = drops + 1
  /\ Cut(resumes)
  /\ UNCHANGED <<server, proc, resumes, client>>

(* ... and gives up for good when the answer is not a stream (not 200): the *)
(* handler of onerror drops it, and nothing opens another one.              *)
GiveUp ==
  /\ conn = "down"
  /\ conn' = "closed" /\ resumes' = FALSE /\ unread' = <<>>
  /\ UNCHANGED <<server, proc, snapshot, client, drops>>

(* The case page is left and entered again: a new EventSource, and          *)
(* loadActive; the store survives.                                          *)
Remount ==
  /\ drops < MaxDrops /\ listing.at = "none"
  /\ drops' = drops + 1
  /\ Cut(FALSE)
  /\ resumes' = FALSE /\ listing' = Listing("asked", Nothing)
  /\ UNCHANGED <<server, proc, local, tombs>>

(* The page is reloaded: nothing of the tab survives.                       *)
Reload ==
  /\ drops < MaxDrops
  /\ drops' = drops + 1
  /\ Cut(FALSE)
  /\ resumes' = FALSE /\ listing' = Listing("asked", Nothing)
  /\ local' = Nothing /\ tombs' = {}
  /\ proc' = [p \in Procs |-> IF p \in Requests /\ At(p, "answer")
                             THEN Idle ELSE proc[p]]
  /\ UNCHANGED server

(* GET /tasks of loadActive and the merge of its answer, which does not     *)
(* look at dismissedTaskIds.                                                *)
ListTasks ==
  /\ listing.at = "asked"
  /\ listing' = Listing("answered", ListForUser)
  /\ UNCHANGED <<server, proc, unread, tab, local, tombs>>

LoadActive ==
  /\ listing.at = "answered"
  /\ local' = [t \in Tasks |->
       IF listing.tasks[t] # 0 /\ local[t] <= listing.tasks[t]
       THEN listing.tasks[t] ELSE local[t]]
  /\ listing' = Listing("none", Nothing)
  /\ UNCHANGED <<server, proc, unread, tab, tombs>>

-----------------------------------------------------------------------------
Init ==
  /\ clock = 0 /\ record = [t \in Tasks |-> 0] /\ listed = {} /\ issued = 0
  /\ proc = [p \in Procs |-> Idle]
  /\ conn = "down" /\ unread = <<>> /\ snapshot = Nothing /\ resumes = FALSE /\ drops = 0
  /\ listing = Listing("none", Nothing)
  /\ local = Nothing /\ tombs = {}

(* The next call of a process that is under way.                            *)
Step(p) ==
  \/ Load(p) \/ Store(p) \/ EmitRead(p) \/ EmitAppend(p)
  \/ Create(p) \/ Delete(p) \/ Unlist(p) \/ EmitRemoved(p)
  \/ Answer(p)

UserActs(r, t) ==
  \/ CancelTask(r, t) \/ UseExistingOrRegenerate(r, t)
  \/ SubmitInput(r, t) \/ DismissTask(r, t)

Follow == Connect \/ SendSnapshot \/ HandleSnapshot \/ HandleEntry

Next ==
  \/ \E p \in Procs : Step(p)
  \/ \E w \in Workers, t \in Tasks : WorkerWrites(w, t)
  \/ \E r \in Requests, t \in Tasks : UserActs(r, t)
  \/ \E r \in Requests : StartDraft(r) \/ AnswerLost(r)
  \/ Follow
  \/ LoseConnection \/ GiveUp \/ Remount \/ Reload \/ ListTasks \/ LoadActive

Fairness ==
  /\ \A p \in Procs : WF_vars(Step(p))
  /\ WF_vars(Follow) /\ WF_vars(ListTasks \/ LoadActive)

Spec == Init /\ [][Next]_vars /\ Fairness

-----------------------------------------------------------------------------
(* Type invariant.                                                          *)
Entries == [kind : {"task", "removed"}, task : Tasks, stamp : Stamps]
TypeOK ==
  /\ clock \in Stamps /\ record \in [Tasks -> Stamps]
  /\ listed \subseteq Tasks /\ issued \in 0 .. MaxTasks
  /\ \A i \in DOMAIN unread : unread[i] \in Entries
  /\ proc \in [Procs -> Process]
  /\ conn \in {"down", "opening", "sent", "live", "closed"}
  /\ snapshot \in [Tasks -> Stamps]
  /\ resumes \in BOOLEAN /\ drops \in 0 .. MaxDrops
  /\ listing \in [at : {"none", "asked", "answered"}, tasks : [Tasks -> Stamps]]
  /\ local \in [Tasks -> Stamps]
  /\ tombs \subseteq Tasks

(* What the tab shows of a task never becomes older: an event, a snapshot,  *)
(* a list or an answer that was overtaken changes nothing.  (The guards of  *)
(* upsertTask, applySnapshot and loadActive together.)                      *)
NeverOlder ==
  [][\A t \in Tasks : Shown(t) /\ Shown(t)' => local[t] <= local'[t]]_vars

(* A task that was removed in this session comes back only by loadActive,   *)
(* which alone does not ask dismissedTaskIds: no event that was under way   *)
(* when the DELETE landed, and no answer, brings it back.                   *)
RemovedStaysAway ==
  [][\A t \in Tasks : Tombed(t) /\ Tombed(t)' /\ ~ Shown(t) /\ Shown(t)'
                        => listing.at = "answered" /\ listing'.at = "none"]_vars

(* Nothing is lost between start_id, the snapshot and the stream: a tab     *)
(* that has handled all that its connection brought shows every listed task *)
(* as it is in Redis or newer, unless it saw the task removed or somebody   *)
(* has written it and not emitted yet.                                      *)
Emitting(t) == \E p \in Procs : proc[p].task = t /\ proc[p].at \in {"emit_read", "emit_append"}
CaughtUp ==
  conn = "live" /\ unread = <<>> =>
    \A t \in Tasks : Visible(t) /\ ~ Tombed(t) /\ ~ Emitting(t)
                        => local[t] >= record[t]

(* Once the writers and the network come to rest, the tab shows every       *)
(* listed task that it did not see removed, and not an older copy, unless   *)
(* its EventSource has given up: then nothing reads the stream until the    *)
(* case page is entered again.                                              *)
Converges ==
  \A t \in Tasks : <>[](\/ conn = "closed"
                       \/ (Visible(t) /\ ~ Tombed(t) => local[t] >= record[t]))
=============================================================================
