------------------------- MODULE EventStream_proofs -------------------------
(***************************************************************************)
(* Theorems about EventStream, for every choice of its constants.          *)
(***************************************************************************)
EXTENDS EventStream, SequenceTheorems, TLAPS

USE DEF Procs

(* The stamps and tasks there are. *)
LEMMA Bounds ==
  /\ 0 \in Stamps /\ Stamps \subseteq Nat
  /\ Tasks \subseteq 0 .. MaxTasks /\ NoTask \in 0 .. MaxTasks /\ NoTask \notin Tasks
  /\ \A c \in Stamps : c < MaxClock => c + 1 \in Stamps
  /\ \A i \in 0 .. MaxTasks : i < MaxTasks => i + 1 \in Tasks /\ i + 1 \in 0 .. MaxTasks
  /\ 0 \in 0 .. MaxDrops /\ \A i \in 0 .. MaxDrops : i < MaxDrops => i + 1 \in 0 .. MaxDrops
BY StreamAssumption DEF Stamps, Tasks, NoTask

(* The stream is a sequence of entries, and a process that is under way has *)
(* a task.                                                                  *)
TypeInv ==
  /\ TypeOK
  /\ unread \in Seq(Entries)
  /\ \A p \in Procs : proc[p].at # "idle" => proc[p].task \in Tasks

(* The list holds stamps, and the current one of every visible task. *)
LEMMA ListType ==
  ASSUME TypeInv
  PROVE  /\ ListForUser \in [Tasks -> Stamps]
         /\ \A t \in Tasks : /\ ListForUser[t] <= record[t]
                             /\ Visible(t) => ListForUser[t] = record[t]
<1> USE DEF TypeInv, TypeOK
<1>1. ListForUser \in [Tasks -> Stamps]
  BY Bounds DEF ListForUser
<1>2. \A t \in Tasks : ListForUser[t] = IF Visible(t) THEN record[t] ELSE 0
  BY DEF ListForUser
<1>3. \A t \in Tasks : record[t] \in Nat
  BY Bounds
<1> QED
  BY <1>1, <1>2, <1>3

(* An empty list holds no stamp. *)
LEMMA NothingType == Nothing \in [Tasks -> Stamps] /\ \A t \in Tasks : Nothing[t] = 0
BY Bounds DEF Nothing

(* An XADD adds its entry at the end, and trims only what no connection     *)
(* reads.                                                                   *)
LEMMA XAddFacts ==
  ASSUME TypeInv, NEW e \in Entries, XAdd(e)
  PROVE  /\ unread' \in Seq(Entries)
         /\ ~ Unconnected => unread' = Append(unread, e)
         /\ \A i \in DOMAIN unread' : unread'[i] = e \/ \E k \in DOMAIN unread : unread'[i] = unread[k]
<1> DEFINE all == Append(unread, e)
<1>1. unread \in Seq(Entries) /\ DOMAIN unread = 1 .. Len(unread) /\ Len(unread) \in Nat
  BY DEF TypeInv
<1>2. /\ all \in Seq(Entries) /\ Len(all) = Len(unread) + 1 /\ all[Len(unread) + 1] = e
      /\ \A i \in 1 .. Len(unread) : all[i] = unread[i]
  BY <1>1, AppendProperties
<1>3. DOMAIN all = 1 .. Len(all)
  BY <1>2, LenProperties
<1> HIDE DEF all
<1>4. \A i \in DOMAIN all : all[i] \in Entries /\ (all[i] = e \/ \E k \in DOMAIN unread : all[i] = unread[k])
  BY <1>1, <1>2, <1>3, ElementOfSeq
<1>5. CASE unread' = unread /\ Unconnected
  BY <1>1, <1>5
<1>6. CASE unread' = all
  BY <1>2, <1>4, <1>6 DEF all
<1>7. CASE \E k \in DOMAIN all : conn = "down" /\ unread' = SubSeq(all, k, Len(all))
  <2>1. PICK k \in DOMAIN all : conn = "down" /\ unread' = SubSeq(all, k, Len(all))
    BY <1>7
  <2>2. k \in Int /\ Len(all) \in Int /\ k >= 1 /\ k <= Len(all)
    BY <1>1, <1>2, <1>3
  <2>3. \A i \in k .. Len(all) : all[i] \in Entries
    BY <1>3, <1>4, <2>2
  <2>4. /\ SubSeq(all, k, Len(all)) \in Seq(Entries)
        /\ Len(SubSeq(all, k, Len(all))) = IF k <= Len(all) THEN Len(all) - k + 1 ELSE 0
        /\ \A i \in 1 .. Len(all) - k + 1 : SubSeq(all, k, Len(all))[i] = all[k + i - 1]
    BY ONLY <2>2, <2>3, SubSeqProperties
  <2>5. DOMAIN unread' = 1 .. (Len(all) - k + 1)
    BY <2>1, <2>2, <2>4, LenProperties
  <2>6. ASSUME NEW i \in DOMAIN unread'
        PROVE  unread'[i] = e \/ \E m \in DOMAIN unread : unread'[i] = unread[m]
    <3>1. i \in 1 .. (Len(all) - k + 1) /\ k + i - 1 \in DOMAIN all
      BY <1>3, <2>2, <2>5
    <3>2. unread'[i] = all[k + i - 1]
      BY <2>1, <2>4, <3>1
    <3> QED
      BY <1>4, <3>1, <3>2
  <2> QED
    BY <2>1, <2>4, <2>6 DEF Unconnected
<1> QED
  BY <1>5, <1>6, <1>7 DEF XAdd, Unconnected, all

(* A step of one process.                                                   *)
LEMMA ProcStep ==
  ASSUME TypeInv, NEW p \in Procs, NEW s, Becomes(p, s), s \in Process,
         s.at # "idle" => s.task \in Tasks
  PROVE  /\ proc' \in [Procs -> Process]
         /\ \A q \in Procs : proc'[q].at # "idle" => proc'[q].task \in Tasks
         /\ proc'[p] = s /\ \A q \in Procs : q # p => proc'[q] = proc[q]
BY DEF TypeInv, TypeOK, Becomes

(* An idle process is a process. *)
LEMMA IdleType == Idle \in Process /\ Idle.at = "idle"
BY Bounds DEF Idle, Process, Labels, Ops

(* Merging an event or an answer.                                           *)
LEMMA MergeType ==
  ASSUME NEW t \in Tasks, NEW s \in Stamps, TypeInv, UpsertTask(t, s) \/ RemoveTask(t)
  PROVE  local' \in [Tasks -> Stamps] /\ tombs' \subseteq Tasks
<1>1. local \in [Tasks -> Stamps] /\ tombs \subseteq Tasks /\ 0 \in Stamps
  BY Bounds DEF TypeInv, TypeOK
<1>2. [local EXCEPT ![t] = s] \in [Tasks -> Stamps] /\ [local EXCEPT ![t] = 0] \in [Tasks -> Stamps]
  BY <1>1
<1> QED
  BY <1>1, <1>2 DEF UpsertTask, RemoveTask

(* The types hold at first. *)
LEMMA TypeInit == Init => TypeInv
<1> SUFFICES ASSUME Init PROVE TypeInv
  OBVIOUS
<1>1. clock \in Stamps /\ record \in [Tasks -> Stamps] /\ issued \in 0 .. MaxTasks
      /\ drops \in 0 .. MaxDrops
  BY Bounds DEF Init, NoTask
<1>2. unread \in Seq(Entries) /\ \A i \in DOMAIN unread : unread[i] \in Entries
  BY DEF Init
<1>3. proc \in [Procs -> Process] /\ \A p \in Procs : proc[p].at = "idle"
  BY IdleType DEF Init
<1>4. listing \in [at : {"none", "asked", "answered"}, tasks : [Tasks -> Stamps]]
  BY NothingType DEF Init, Listing
<1> QED
  BY <1>1, <1>2, <1>3, <1>4, NothingType DEF Init, TypeInv, TypeOK

(* TypeInv in three parts.                                                  *)
DataType ==
  /\ clock \in Stamps /\ record \in [Tasks -> Stamps]
  /\ listed \subseteq Tasks /\ issued \in 0 .. MaxTasks
  /\ conn \in {"down", "opening", "sent", "live", "closed"}
  /\ snapshot \in [Tasks -> Stamps]
  /\ resumes \in BOOLEAN /\ drops \in 0 .. MaxDrops
  /\ listing \in [at : {"none", "asked", "answered"}, tasks : [Tasks -> Stamps]]
  /\ local \in [Tasks -> Stamps] /\ tombs \subseteq Tasks
ProcType ==
  proc \in [Procs -> Process] /\ \A q \in Procs : proc[q].at # "idle" => proc[q].task \in Tasks
StreamType ==
  unread \in Seq(Entries) /\ \A i \in DOMAIN unread : unread[i] \in Entries

(* The types of the parts are the types of the whole. *)
LEMMA TypeParts == DataType' /\ ProcType' /\ StreamType' => TypeInv'
BY DEF DataType, ProcType, StreamType, TypeInv, TypeOK

(* Every action keeps the types. *)
LEMMA TypeNext == TypeInv /\ [Next]_vars => TypeInv'
<1> SUFFICES ASSUME TypeInv, [Next]_vars PROVE TypeInv'
  OBVIOUS
<1> USE DEF server, tab, client, vars
<1>0. CASE UNCHANGED vars
  BY <1>0 DEF TypeInv, TypeOK
<1>t. /\ clock \in Stamps /\ record \in [Tasks -> Stamps]
      /\ listed \subseteq Tasks /\ issued \in 0 .. MaxTasks
      /\ unread \in Seq(Entries)
      /\ \A i \in DOMAIN unread : unread[i] \in Entries
      /\ proc \in [Procs -> Process]
      /\ \A p \in Procs : proc[p].at # "idle" => proc[p].task \in Tasks
      /\ conn \in {"down", "opening", "sent", "live", "closed"}
      /\ snapshot \in [Tasks -> Stamps]
      /\ resumes \in BOOLEAN /\ drops \in 0 .. MaxDrops
      /\ listing \in [at : {"none", "asked", "answered"}, tasks : [Tasks -> Stamps]]
      /\ local \in [Tasks -> Stamps] /\ tombs \subseteq Tasks
  BY DEF TypeInv, TypeOK
<1>s. ASSUME NEW q \in Seq(Entries) PROVE \A i \in DOMAIN q : q[i] \in Entries
  BY ElementOfSeq, LenProperties
<1>i. Idle \in Process /\ Idle.at = "idle"
  BY IdleType
<1>a. \A p \in Procs : ~ At(p, "idle") => proc[p].task \in Tasks
  BY <1>t DEF At
<1>l. /\ "idle" \in Labels /\ "create" \in Labels /\ "load" \in Labels /\ "store" \in Labels
      /\ "emit_read" \in Labels /\ "emit_append" \in Labels /\ "answer" \in Labels
      /\ "delete" \in Labels /\ "unlist" \in Labels /\ "emit_removed" \in Labels
      /\ "none" \in Ops /\ "write" \in Ops /\ "create" \in Ops /\ "submit" \in Ops
      /\ "dismiss" \in Ops
  BY DEF Labels, Ops

<1>1. ASSUME NEW p \in Procs, Load(p) PROVE TypeInv'
  <2>1. ProcType'
    <3>1. ASSUME Becomes(p, [proc[p] EXCEPT !.at = "store", !.stamp = clock + 1]), clock < MaxClock PROVE ProcType'
      <4>0. proc[p] \in Process /\ proc[p].task \in Tasks /\ clock + 1 \in Stamps
        BY <1>1, <1>t, <1>a, <3>1, Bounds DEF Load, At
      <4>c. PICK c \in Stamps : c = clock + 1
        BY <4>0
      <4>1. [proc[p] EXCEPT !.at = "store", !.stamp = c] \in Process
        BY <1>l, <4>0 DEF Process
      <4>2. [proc[p] EXCEPT !.at = "store", !.stamp = c].task \in Tasks
        BY <4>0 DEF Process
      <4>3. Becomes(p, [proc[p] EXCEPT !.at = "store", !.stamp = c])
        BY <3>1, <4>c
      <4> QED
        BY <4>1, <4>2, <4>3, ProcStep DEF ProcType
    <3>2. ASSUME Becomes(p, [proc[p] EXCEPT !.at = "answer", !.stamp = record[proc[p].task]]) PROVE ProcType'
      <4>0. proc[p] \in Process /\ proc[p].task \in Tasks /\ record[proc[p].task] \in Stamps
        BY <1>1, <1>t, <1>a, <3>2, Bounds DEF Load, At
      <4>c. PICK c \in Stamps : c = record[proc[p].task]
        BY <4>0
      <4>1. [proc[p] EXCEPT !.at = "answer", !.stamp = c] \in Process
        BY <1>l, <4>0 DEF Process
      <4>2. [proc[p] EXCEPT !.at = "answer", !.stamp = c].task \in Tasks
        BY <4>0 DEF Process
      <4>3. Becomes(p, [proc[p] EXCEPT !.at = "answer", !.stamp = c])
        BY <3>2, <4>c
      <4> QED
        BY <4>1, <4>2, <4>3, ProcStep DEF ProcType
    <3>3. ASSUME Becomes(p, [proc[p] EXCEPT !.at = "emit_read"]) PROVE ProcType'
      <4>0. proc[p] \in Process /\ proc[p].task \in Tasks /\ 0 \in Stamps
        BY <1>1, <1>t, <1>a, <3>3, Bounds DEF Load, At
      <4>1. [proc[p] EXCEPT !.at = "emit_read"] \in Process
        BY <1>l, <4>0 DEF Process
      <4>2. [proc[p] EXCEPT !.at = "emit_read"].task \in Tasks
        BY <4>0 DEF Process
      <4> QED
        BY <3>3, <4>1, <4>2, ProcStep DEF ProcType
    <3>4. ASSUME Becomes(p, Idle) PROVE ProcType'
      BY <3>4, <1>i, ProcStep DEF ProcType
    <3> QED
      BY <1>1, <3>1, <3>2, <3>3, <3>4 DEF Load, Finished, Moved, Doing
  <2>2. DataType'
    BY <1>1, <1>t, <1>a, Bounds DEF Load, At, DataType
  <2>3. StreamType'
    BY <1>1, <1>t DEF Load, StreamType
  <2> QED
    BY <2>1, <2>2, <2>3, TypeParts
<1>2. ASSUME NEW p \in Procs, Store(p) PROVE TypeInv'
  <2>1. ProcType'
    <3>1. ASSUME Becomes(p, [proc[p] EXCEPT !.at = "emit_read"]) PROVE ProcType'
      <4>0. proc[p] \in Process /\ proc[p].task \in Tasks /\ 0 \in Stamps
        BY <1>2, <1>t, <1>a, <3>1, Bounds DEF Store, At
      <4>1. [proc[p] EXCEPT !.at = "emit_read"] \in Process
        BY <1>l, <4>0 DEF Process
      <4>2. [proc[p] EXCEPT !.at = "emit_read"].task \in Tasks
        BY <4>0 DEF Process
      <4> QED
        BY <3>1, <4>1, <4>2, ProcStep DEF ProcType
    <3> QED
      BY <1>2, <3>1 DEF Store, Finished, Moved, Doing
  <2>2. DataType'
    BY <1>2, <1>t, <1>a DEF Store, At, Process, DataType
  <2>3. StreamType'
    BY <1>2, <1>t DEF Store, StreamType
  <2> QED
    BY <2>1, <2>2, <2>3, TypeParts
<1>3. ASSUME NEW p \in Procs, EmitRead(p) PROVE TypeInv'
  <2>1. ProcType'
    <3>1. ASSUME Becomes(p, [proc[p] EXCEPT !.at = "emit_append", !.payload = record[proc[p].task]]) PROVE ProcType'
      <4>0. proc[p] \in Process /\ proc[p].task \in Tasks /\ record[proc[p].task] \in Stamps
        BY <1>3, <1>t, <1>a, <3>1, Bounds DEF EmitRead, Exists, At
      <4>c. PICK c \in Stamps : c = record[proc[p].task]
        BY <4>0
      <4>1. [proc[p] EXCEPT !.at = "emit_append", !.payload = c] \in Process
        BY <1>l, <4>0 DEF Process
      <4>2. [proc[p] EXCEPT !.at = "emit_append", !.payload = c].task \in Tasks
        BY <4>0 DEF Process
      <4>3. Becomes(p, [proc[p] EXCEPT !.at = "emit_append", !.payload = c])
        BY <3>1, <4>c
      <4> QED
        BY <4>1, <4>2, <4>3, ProcStep DEF ProcType
    <3>2. ASSUME Becomes(p, [proc[p] EXCEPT !.at = "answer"]) PROVE ProcType'
      <4>0. proc[p] \in Process /\ proc[p].task \in Tasks /\ 0 \in Stamps
        BY <1>3, <1>t, <1>a, <3>2, Bounds DEF EmitRead, Exists, At
      <4>1. [proc[p] EXCEPT !.at = "answer"] \in Process
        BY <1>l, <4>0 DEF Process
      <4>2. [proc[p] EXCEPT !.at = "answer"].task \in Tasks
        BY <4>0 DEF Process
      <4> QED
        BY <3>2, <4>1, <4>2, ProcStep DEF ProcType
    <3>3. ASSUME Becomes(p, Idle) PROVE ProcType'
      BY <3>3, <1>i, ProcStep DEF ProcType
    <3> QED
      BY <1>3, <3>1, <3>2, <3>3 DEF EmitRead, Exists, Finished, Moved, Doing
  <2>2. DataType'
    BY <1>3, <1>t, <1>a, Bounds DEF EmitRead, Exists, At, DataType
  <2>3. StreamType'
    BY <1>3, <1>t DEF EmitRead, Exists, StreamType
  <2> QED
    BY <2>1, <2>2, <2>3, TypeParts
<1>4. ASSUME NEW p \in Procs, EmitAppend(p) PROVE TypeInv'
  <2>0. Entry("task", proc[p].task, proc[p].payload) \in Entries
    BY <1>4, <1>t, <1>a, Bounds DEF EmitAppend, At, Entry, Entries, Process
  <2>1. ProcType'
    <3>1. ASSUME Becomes(p, [proc[p] EXCEPT !.at = "answer"]) PROVE ProcType'
      <4>0. proc[p] \in Process /\ proc[p].task \in Tasks /\ 0 \in Stamps
        BY <1>4, <1>t, <1>a, <3>1, Bounds DEF EmitAppend, At
      <4>1. [proc[p] EXCEPT !.at = "answer"] \in Process
        BY <1>l, <4>0 DEF Process
      <4>2. [proc[p] EXCEPT !.at = "answer"].task \in Tasks
        BY <4>0 DEF Process
      <4> QED
        BY <3>1, <4>1, <4>2, ProcStep DEF ProcType
    <3>2. ASSUME Becomes(p, Idle) PROVE ProcType'
      BY <3>2, <1>i, ProcStep DEF ProcType
    <3> QED
      BY <1>4, <3>1, <3>2 DEF EmitAppend, Finished, Moved, Doing
  <2>2. DataType'
    BY <1>4, <1>t, <1>a, Bounds DEF EmitAppend, At, DataType
  <2>3. StreamType'
    BY <1>4, <1>s, <2>0, XAddFacts DEF EmitAppend, StreamType
  <2> QED
    BY <2>1, <2>2, <2>3, TypeParts
<1>5. ASSUME NEW p \in Procs, EmitRemoved(p) PROVE TypeInv'
  <2>0. Entry("removed", proc[p].task, 0) \in Entries
    BY <1>5, <1>t, <1>a, Bounds DEF EmitRemoved, At, Entry, Entries, Process
  <2>1. ProcType'
    <3>1. ASSUME Becomes(p, [proc[p] EXCEPT !.at = "answer"]) PROVE ProcType'
      <4>0. proc[p] \in Process /\ proc[p].task \in Tasks /\ 0 \in Stamps
        BY <1>5, <1>t, <1>a, <3>1, Bounds DEF EmitRemoved, At
      <4>1. [proc[p] EXCEPT !.at = "answer"] \in Process
        BY <1>l, <4>0 DEF Process
      <4>2. [proc[p] EXCEPT !.at = "answer"].task \in Tasks
        BY <4>0 DEF Process
      <4> QED
        BY <3>1, <4>1, <4>2, ProcStep DEF ProcType
    <3>2. ASSUME Becomes(p, Idle) PROVE ProcType'
      BY <3>2, <1>i, ProcStep DEF ProcType
    <3> QED
      BY <1>5, <3>1, <3>2 DEF EmitRemoved, Finished, Moved, Doing
  <2>2. DataType'
    BY <1>5, <1>t, <1>a, Bounds DEF EmitRemoved, At, DataType
  <2>3. StreamType'
    BY <1>5, <1>s, <2>0, XAddFacts DEF EmitRemoved, StreamType
  <2> QED
    BY <2>1, <2>2, <2>3, TypeParts
<1>6. ASSUME NEW p \in Procs, Create(p) PROVE TypeInv'
  <2>1. ProcType'
    <3>1. ASSUME Becomes(p, [proc[p] EXCEPT !.at = "emit_read", !.stamp = clock + 1]) PROVE ProcType'
      <4>0. proc[p] \in Process /\ proc[p].task \in Tasks /\ clock + 1 \in Stamps
        BY <1>6, <1>t, <1>a, <3>1, Bounds DEF Create, At
      <4>c. PICK c \in Stamps : c = clock + 1
        BY <4>0
      <4>1. [proc[p] EXCEPT !.at = "emit_read", !.stamp = c] \in Process
        BY <1>l, <4>0 DEF Process
      <4>2. [proc[p] EXCEPT !.at = "emit_read", !.stamp = c].task \in Tasks
        BY <4>0 DEF Process
      <4>3. Becomes(p, [proc[p] EXCEPT !.at = "emit_read", !.stamp = c])
        BY <3>1, <4>c
      <4> QED
        BY <4>1, <4>2, <4>3, ProcStep DEF ProcType
    <3> QED
      BY <1>6, <3>1 DEF Create, Finished, Moved, Doing
  <2>2. DataType'
    BY <1>6, <1>t, <1>a, Bounds DEF Create, At, DataType
  <2>3. StreamType'
    BY <1>6, <1>t DEF Create, StreamType
  <2> QED
    BY <2>1, <2>2, <2>3, TypeParts
<1>7. ASSUME NEW p \in Procs, Delete(p) PROVE TypeInv'
  <2>1. ProcType'
    <3>1. ASSUME Becomes(p, [proc[p] EXCEPT !.at = "unlist"]) PROVE ProcType'
      <4>0. proc[p] \in Process /\ proc[p].task \in Tasks /\ 0 \in Stamps
        BY <1>7, <1>t, <1>a, <3>1, Bounds DEF Delete, At
      <4>1. [proc[p] EXCEPT !.at = "unlist"] \in Process
        BY <1>l, <4>0 DEF Process
      <4>2. [proc[p] EXCEPT !.at = "unlist"].task \in Tasks
        BY <4>0 DEF Process
      <4> QED
        BY <3>1, <4>1, <4>2, ProcStep DEF ProcType
    <3> QED
      BY <1>7, <3>1 DEF Delete, Finished, Moved, Doing
  <2>2. DataType'
    BY <1>7, <1>t, <1>a, Bounds DEF Delete, At, DataType
  <2>3. StreamType'
    BY <1>7, <1>t DEF Delete, StreamType
  <2> QED
    BY <2>1, <2>2, <2>3, TypeParts
<1>8. ASSUME NEW p \in Procs, Unlist(p) PROVE TypeInv'
  <2>1. ProcType'
    <3>1. ASSUME Becomes(p, [proc[p] EXCEPT !.at = "emit_removed"]) PROVE ProcType'
      <4>0. proc[p] \in Process /\ proc[p].task \in Tasks /\ 0 \in Stamps
        BY <1>8, <1>t, <1>a, <3>1, Bounds DEF Unlist, At
      <4>1. [proc[p] EXCEPT !.at = "emit_removed"] \in Process
        BY <1>l, <4>0 DEF Process
      <4>2. [proc[p] EXCEPT !.at = "emit_removed"].task \in Tasks
        BY <4>0 DEF Process
      <4> QED
        BY <3>1, <4>1, <4>2, ProcStep DEF ProcType
    <3> QED
      BY <1>8, <3>1 DEF Unlist, Finished, Moved, Doing
  <2>2. DataType'
    BY <1>8, <1>t, <1>a, Bounds DEF Unlist, At, DataType
  <2>3. StreamType'
    BY <1>8, <1>t DEF Unlist, StreamType
  <2> QED
    BY <2>1, <2>2, <2>3, TypeParts
<1>9. ASSUME NEW p \in Procs, Answer(p) PROVE TypeInv'
  <2>0. proc[p].task \in Tasks /\ proc[p].stamp \in Stamps
    BY <1>9, <1>t, <1>a DEF Answer, At, Process
  <2>1. ProcType'
    <3>1. ASSUME Becomes(p, Idle) PROVE ProcType'
      BY <3>1, <1>i, ProcStep DEF ProcType
    <3> QED
      BY <1>9, <3>1 DEF Answer, RemoveTask, UpsertTask, Finished, Moved, Doing
  <2>2. DataType'
    BY <1>9, <1>t, <2>0, MergeType DEF Answer, DataType
  <2>3. StreamType'
    BY <1>9, <1>t DEF Answer, RemoveTask, UpsertTask, StreamType
  <2> QED
    BY <2>1, <2>2, <2>3, TypeParts
<1>10. ASSUME NEW p \in Procs, NEW t \in Tasks, WorkerWrites(p, t) PROVE TypeInv'
  <2>1. ProcType'
    <3>1. ASSUME Becomes(p, [Idle EXCEPT !.op = "write", !.at = "load", !.task = t]) PROVE ProcType'
      <4>1. [Idle EXCEPT !.op = "write", !.at = "load", !.task = t] \in Process
        BY <1>10, <1>t, <1>a, <1>l, <3>1, Bounds DEF WorkerWrites, At, Process, Idle
      <4>2. [Idle EXCEPT !.op = "write", !.at = "load", !.task = t].task \in Tasks
        BY <1>10, <1>t, <1>a, <3>1 DEF WorkerWrites, At, Process, Idle
      <4> QED
        BY <3>1, <4>1, <4>2, ProcStep DEF ProcType
    <3> QED
      BY <1>10, <3>1 DEF WorkerWrites, Finished, Moved, Doing
  <2>2. DataType'
    BY <1>10, <1>t, <1>a, Bounds DEF WorkerWrites, At, DataType
  <2>3. StreamType'
    BY <1>10, <1>t DEF WorkerWrites, StreamType
  <2> QED
    BY <2>1, <2>2, <2>3, TypeParts
<1>11. ASSUME NEW p \in Procs, NEW t \in Tasks, CancelTask(p, t) PROVE TypeInv'
  <2>1. ProcType'
    <3>1. ASSUME Becomes(p, [[Idle EXCEPT !.op = "write", !.at = "store", !.task = t] EXCEPT !.stamp = clock + 1]) PROVE ProcType'
      <4>1. [[Idle EXCEPT !.op = "write", !.at = "store", !.task = t] EXCEPT !.stamp = clock + 1] \in Process
        BY <1>11, <1>t, <1>a, <1>l, <3>1, Bounds DEF CancelTask, At, Process, Idle
      <4>2. [[Idle EXCEPT !.op = "write", !.at = "store", !.task = t] EXCEPT !.stamp = clock + 1].task \in Tasks
        BY <1>11, <1>t, <1>a, <3>1 DEF CancelTask, At, Process, Idle
      <4> QED
        BY <3>1, <4>1, <4>2, ProcStep DEF ProcType
    <3> QED
      BY <1>11, <3>1 DEF CancelTask, Finished, Moved, Doing
  <2>2. DataType'
    BY <1>11, <1>t, <1>a, Bounds DEF CancelTask, At, DataType
  <2>3. StreamType'
    BY <1>11, <1>t DEF CancelTask, StreamType
  <2> QED
    BY <2>1, <2>2, <2>3, TypeParts
<1>12. ASSUME NEW p \in Procs, NEW t \in Tasks, NEW op \in {"write", "submit"}, Optimistic(p, t, op) PROVE TypeInv'
  <2>1. ProcType'
    <3>1. ASSUME Becomes(p, [Idle EXCEPT !.op = op, !.at = "load", !.task = t]) PROVE ProcType'
      <4>1. [Idle EXCEPT !.op = op, !.at = "load", !.task = t] \in Process
        BY <1>12, <1>t, <1>a, <1>l, <3>1, Bounds DEF Optimistic, At, Process, Idle
      <4>2. [Idle EXCEPT !.op = op, !.at = "load", !.task = t].task \in Tasks
        BY <1>12, <1>t, <1>a, <3>1 DEF Optimistic, At, Process, Idle
      <4> QED
        BY <3>1, <4>1, <4>2, ProcStep DEF ProcType
    <3> QED
      BY <1>12, <3>1 DEF Optimistic, Finished, Moved, Doing
  <2>2. DataType'
    BY <1>12, <1>t, <1>a, Bounds DEF Optimistic, At, DataType
  <2>3. StreamType'
    BY <1>12, <1>t DEF Optimistic, StreamType
  <2> QED
    BY <2>1, <2>2, <2>3, TypeParts
<1>13. ASSUME NEW p \in Procs, NEW t \in Tasks, DismissTask(p, t) PROVE TypeInv'
  <2>1. ProcType'
    <3>1. ASSUME Becomes(p, [Idle EXCEPT !.op = "dismiss", !.at = IF Exists(t) THEN "delete" ELSE "answer", !.task = t]) PROVE ProcType'
      <4>1. [Idle EXCEPT !.op = "dismiss", !.at = IF Exists(t) THEN "delete" ELSE "answer", !.task = t] \in Process
        BY <1>13, <1>t, <1>a, <1>l, <3>1, Bounds DEF DismissTask, At, Process, Idle
      <4>2. [Idle EXCEPT !.op = "dismiss", !.at = IF Exists(t) THEN "delete" ELSE "answer", !.task = t].task \in Tasks
        BY <1>13, <1>t, <1>a, <3>1 DEF DismissTask, At, Process, Idle
      <4> QED
        BY <3>1, <4>1, <4>2, ProcStep DEF ProcType
    <3> QED
      BY <1>13, <3>1 DEF DismissTask, Finished, Moved, Doing
  <2>2. DataType'
    BY <1>13, <1>t, <1>a, Bounds DEF DismissTask, At, DataType
  <2>3. StreamType'
    BY <1>13, <1>t DEF DismissTask, StreamType
  <2> QED
    BY <2>1, <2>2, <2>3, TypeParts
<1>14. ASSUME NEW p \in Procs, StartDraft(p) PROVE TypeInv'
  <2>1. ProcType'
    <3>1. ASSUME Becomes(p, [Idle EXCEPT !.op = "create", !.at = "create", !.task = issued + 1]) PROVE ProcType'
      <4>1. [Idle EXCEPT !.op = "create", !.at = "create", !.task = issued + 1] \in Process
        BY <1>14, <1>t, <1>a, <1>l, <3>1, Bounds DEF StartDraft, At, Process, Idle
      <4>2. [Idle EXCEPT !.op = "create", !.at = "create", !.task = issued + 1].task \in Tasks
        BY <1>14, <1>t, <1>a, <3>1, Bounds DEF StartDraft, At, Process, Idle
      <4> QED
        BY <3>1, <4>1, <4>2, ProcStep DEF ProcType
    <3> QED
      BY <1>14, <3>1 DEF StartDraft, Finished, Moved, Doing
  <2>2. DataType'
    BY <1>14, <1>t, <1>a, Bounds DEF StartDraft, At, DataType
  <2>3. StreamType'
    BY <1>14, <1>t DEF StartDraft, StreamType
  <2> QED
    BY <2>1, <2>2, <2>3, TypeParts
<1>15. ASSUME NEW p \in Procs, AnswerLost(p) PROVE TypeInv'
  <2>1. ProcType'
    <3>1. ASSUME Becomes(p, Idle) PROVE ProcType'
      BY <3>1, <1>i, ProcStep DEF ProcType
    <3> QED
      BY <1>15, <3>1 DEF AnswerLost, Finished, Moved, Doing
  <2>2. DataType'
    BY <1>15, <1>t, <1>a, Bounds DEF AnswerLost, At, DataType
  <2>3. StreamType'
    BY <1>15, <1>t DEF AnswerLost, StreamType
  <2> QED
    BY <2>1, <2>2, <2>3, TypeParts
<1>16. ASSUME Connect PROVE TypeInv'
  <2>1. ProcType'
    BY <1>16, <1>t, <1>i DEF Connect, ProcType
  <2>2. DataType'
    BY <1>16, <1>t, <1>a, Bounds DEF Connect, At, DataType
  <2>3. StreamType'
    BY <1>16, <1>t DEF Connect, StreamType
  <2> QED
    BY <2>1, <2>2, <2>3, TypeParts
<1>17. ASSUME SendSnapshot PROVE TypeInv'
  <2>1. ProcType'
    BY <1>17, <1>t, <1>i DEF SendSnapshot, ProcType
  <2>2. DataType'
    BY <1>17, <1>t, ListType DEF SendSnapshot, DataType
  <2>3. StreamType'
    BY <1>17, <1>t DEF SendSnapshot, StreamType
  <2> QED
    BY <2>1, <2>2, <2>3, TypeParts
<1>18. ASSUME HandleSnapshot PROVE TypeInv'
  <2>1. ProcType'
    BY <1>18, <1>t, <1>i DEF HandleSnapshot, ProcType
  <2>2. DataType'
    BY <1>18, <1>t, Bounds, NothingType DEF HandleSnapshot, ApplySnapshot, DataType
  <2>3. StreamType'
    BY <1>18, <1>t DEF HandleSnapshot, StreamType
  <2> QED
    BY <2>1, <2>2, <2>3, TypeParts
<1>19. ASSUME HandleEntry PROVE TypeInv'
  <2>0. /\ Head(unread) \in Entries /\ Tail(unread) \in Seq(Entries)
        /\ Head(unread).task \in Tasks /\ Head(unread).stamp \in Stamps
    BY <1>19, <1>t, HeadTailProperties DEF HandleEntry, Entries
  <2>1. ProcType'
    BY <1>19, <1>t, <1>i DEF HandleEntry, ProcType
  <2>2. DataType'
    BY <1>19, <1>t, <2>0, MergeType DEF HandleEntry, Handle, DataType
  <2>3. StreamType'
    BY <1>19, <1>t, <1>s, <2>0 DEF HandleEntry, StreamType
  <2> QED
    BY <2>1, <2>2, <2>3, TypeParts
<1>20. ASSUME LoseConnection PROVE TypeInv'
  <2>1. ProcType'
    BY <1>20, <1>t, <1>i DEF LoseConnection, Unconnected, ProcType
  <2>2. DataType'
    BY <1>20, <1>t, Bounds, NothingType DEF LoseConnection, Unconnected, Cut, DataType
  <2>3. StreamType'
    BY <1>20, <1>t, EmptySeq DEF LoseConnection, Unconnected, Cut, StreamType
  <2> QED
    BY <2>1, <2>2, <2>3, TypeParts
<1>21. ASSUME Remount PROVE TypeInv'
  <2>1. ProcType'
    BY <1>21, <1>t, <1>i DEF Remount, ProcType
  <2>2. DataType'
    BY <1>21, <1>t, Bounds, NothingType DEF Remount, Cut, Listing, DataType
  <2>3. StreamType'
    BY <1>21, <1>t, EmptySeq DEF Remount, Cut, StreamType
  <2> QED
    BY <2>1, <2>2, <2>3, TypeParts
<1>22. ASSUME Reload PROVE TypeInv'
  <2>1. ProcType'
    BY <1>22, <1>t, <1>i DEF Reload, ProcType
  <2>2. DataType'
    BY <1>22, <1>t, Bounds, NothingType DEF Reload, Cut, Listing, DataType
  <2>3. StreamType'
    BY <1>22, <1>t, EmptySeq DEF Reload, Cut, StreamType
  <2> QED
    BY <2>1, <2>2, <2>3, TypeParts
<1>23. ASSUME ListTasks PROVE TypeInv'
  <2>1. ProcType'
    BY <1>23, <1>t, <1>i DEF ListTasks, ProcType
  <2>2. DataType'
    BY <1>23, <1>t, ListType DEF ListTasks, Listing, DataType
  <2>3. StreamType'
    BY <1>23, <1>t DEF ListTasks, StreamType
  <2> QED
    BY <2>1, <2>2, <2>3, TypeParts
<1>24. ASSUME LoadActive PROVE TypeInv'
  <2>1. ProcType'
    BY <1>24, <1>t, <1>i DEF LoadActive, ProcType
  <2>2. DataType'
    BY <1>24, <1>t, NothingType DEF LoadActive, Listing, DataType
  <2>3. StreamType'
    BY <1>24, <1>t DEF LoadActive, StreamType
  <2> QED
    BY <2>1, <2>2, <2>3, TypeParts
<1>25. ASSUME GiveUp PROVE TypeInv'
  <2>1. ProcType'
    BY <1>25, <1>t, <1>i DEF GiveUp, ProcType
  <2>2. DataType'
    BY <1>25, <1>t, Bounds, NothingType DEF GiveUp, DataType
  <2>3. StreamType'
    BY <1>25, <1>t, EmptySeq DEF GiveUp, StreamType
  <2> QED
    BY <2>1, <2>2, <2>3, TypeParts
<1> QED
  BY <1>0, <1>1, <1>2, <1>3, <1>4, <1>5, <1>6, <1>7, <1>8, <1>9, <1>10, <1>11, <1>12, <1>13, <1>14, <1>15, <1>16, <1>17, <1>18, <1>19, <1>20, <1>21, <1>22, <1>23, <1>24, <1>25
     DEF Next, Step, UserActs, UseExistingOrRegenerate, SubmitInput, Follow

(* The types always hold. *)
LEMMA TypeInvCorrect == Spec => []TypeInv
<1>1. Init => TypeInv
  BY TypeInit
<1>2. TypeInv /\ [Next]_vars => TypeInv'
  BY TypeNext
<1> QED
  BY <1>1, <1>2, PTL DEF Spec

(* The values of all variables are of their types.                          *)
THEOREM TypeCorrect == Spec => []TypeOK
<1>1. TypeInv => TypeOK
  BY DEF TypeInv
<1> QED
  BY <1>1, TypeInvCorrect, PTL

-----------------------------------------------------------------------------
(* Everything that carries a stamp carries one that was given out.          *)
ClockInv ==
  /\ \A t \in Tasks : /\ record[t] <= clock /\ local[t] <= clock
                      /\ snapshot[t] <= clock /\ listing.tasks[t] <= clock
  /\ \A p \in Procs : proc[p].stamp <= clock /\ proc[p].payload <= clock
  /\ \A i \in DOMAIN unread : unread[i].stamp <= clock

(* Where the latest record of a listed task is on its way to a connected    *)
(* tab: with a process that will emit it or holds it to be appended, in the *)
(* stream, in the snapshot under way, or in the store.                      *)
WillEmit(p, t) ==
  /\ proc[p].task = t
  /\ proc[p].at = "emit_read" \/ (proc[p].at = "emit_append" /\ proc[p].payload = record[t])
InStream(i, t) ==
  unread[i].kind = "task" /\ unread[i].task = t /\ unread[i].stamp >= record[t]
OnItsWay(t) ==
  \/ \E p \in Procs : WillEmit(p, t)
  \/ \E i \in DOMAIN unread : InStream(i, t)
  \/ conn = "sent" /\ snapshot[t] >= record[t]
  \/ conn = "live" /\ local[t] >= record[t]
DeliverInv ==
  conn \in {"sent", "live"} =>
    \A t \in Tasks : Visible(t) /\ ~ Tombed(t) => OnItsWay(t)


(* ClockInv survives a step in which what is new was stamped by then.       *)
LEMMA ClockKeeps ==
  ASSUME TypeInv, TypeInv', ClockInv, clock <= clock',
         \A t \in Tasks : record'[t] = record[t] \/ record'[t] <= clock',
         \A t \in Tasks : local'[t] = local[t] \/ local'[t] <= clock',
         \A t \in Tasks : snapshot'[t] = snapshot[t] \/ snapshot'[t] <= clock',
         \A t \in Tasks : listing'.tasks[t] = listing.tasks[t] \/ listing'.tasks[t] <= clock',
         \A p \in Procs : /\ proc'[p].stamp = proc[p].stamp \/ proc'[p].stamp <= clock'
                          /\ proc'[p].payload = proc[p].payload \/ proc'[p].payload <= clock',
         \A i \in DOMAIN unread' : \/ unread'[i].stamp <= clock'
                                   \/ \E k \in DOMAIN unread : unread'[i] = unread[k]
  PROVE  ClockInv'
<1>0. clock \in Nat /\ clock' \in Nat
  BY Bounds DEF TypeInv, TypeOK
<1>1. \A t \in Tasks : /\ record[t] \in Nat /\ local[t] \in Nat /\ snapshot[t] \in Nat
                       /\ listing.tasks[t] \in Nat
  BY Bounds DEF TypeInv, TypeOK
<1>2. \A p \in Procs : proc[p].stamp \in Nat /\ proc[p].payload \in Nat
  BY Bounds DEF TypeInv, TypeOK, Process
<1>3. \A i \in DOMAIN unread : unread[i].stamp \in Nat
  BY Bounds DEF TypeInv, TypeOK, Entries
<1>4. \A t \in Tasks : /\ record'[t] <= clock' /\ local'[t] <= clock'
                       /\ snapshot'[t] <= clock' /\ listing'.tasks[t] <= clock'
  BY <1>0, <1>1 DEF ClockInv
<1>5. \A p \in Procs : proc'[p].stamp <= clock' /\ proc'[p].payload <= clock'
  BY <1>0, <1>2 DEF ClockInv
<1>6. \A i \in DOMAIN unread' : unread'[i].stamp <= clock'
  BY <1>0, <1>3 DEF ClockInv
<1> QED
  BY <1>4, <1>5, <1>6 DEF ClockInv

(* The clock is ahead of nothing at first. *)
LEMMA ClockInit == Init => ClockInv
<1> SUFFICES ASSUME Init PROVE ClockInv
  OBVIOUS
<1>1. \A t \in Tasks : /\ record[t] = 0 /\ local[t] = 0 /\ snapshot[t] = 0
                       /\ listing.tasks[t] = 0
  BY NothingType DEF Init, Listing
<1>2. \A p \in Procs : proc[p].stamp = 0 /\ proc[p].payload = 0
  BY DEF Init, Idle
<1>3. unread = <<>> /\ clock = 0
  BY DEF Init
<1> QED
  BY <1>1, <1>2, <1>3 DEF ClockInv

(* Every action keeps the clock ahead of the stamps. *)
LEMMA ClockNext == TypeInv /\ TypeInv' /\ ClockInv /\ [Next]_vars => ClockInv'
<1> SUFFICES ASSUME TypeInv, TypeInv', ClockInv, [Next]_vars PROVE ClockInv'
  OBVIOUS
<1> USE DEF server, tab, client, vars
<1>0. CASE UNCHANGED vars
  BY <1>0 DEF ClockInv
<1>t. /\ clock \in Nat /\ 0 <= clock /\ clock <= clock /\ clock < clock + 1 /\ clock <= clock + 1
      /\ record \in [Tasks -> Stamps] /\ local \in [Tasks -> Stamps]
      /\ snapshot \in [Tasks -> Stamps]
      /\ listing.tasks \in [Tasks -> Stamps]
      /\ proc \in [Procs -> Process]
      /\ unread \in Seq(Entries)
      /\ \A c \in Stamps : c \in Nat
      /\ \A p \in Procs : proc[p].stamp <= clock /\ proc[p].payload <= clock
      /\ \A t \in Tasks : record[t] <= clock /\ local[t] <= clock
      /\ \A t \in Tasks : snapshot[t] <= clock /\ listing.tasks[t] <= clock
  BY Bounds DEF TypeInv, TypeOK, ClockInv
<1>a. \A p \in Procs : ~ At(p, "idle") => proc[p].task \in Tasks
  BY DEF At, TypeInv
<1>f. \A t \in Tasks : ListForUser[t] <= clock
  <2>1. \A t \in Tasks : ListForUser[t] \in Nat /\ ListForUser[t] <= record[t] /\ record[t] \in Nat
    BY <1>t, ListType
  <2> QED
    BY <1>t, <2>1
<1>i. Idle.stamp = 0 /\ Idle.payload = 0
  BY DEF Idle
<1>1. ASSUME NEW p \in Procs, Load(p) PROVE ClockInv'
  <2>x. \A q \in Procs : /\ proc'[q].stamp = proc[q].stamp \/ proc'[q].stamp <= clock'
                         /\ proc'[q].payload = proc[q].payload \/ proc'[q].payload <= clock'
    <3>1. proc[p] \in Process /\ record[proc[p].task] <= clock
      BY <1>1, <1>t, <1>a DEF Load, At
    <3>2. CASE Becomes(p, [proc[p] EXCEPT !.at = "store", !.stamp = clock + 1]) /\ clock' = clock + 1
      BY <1>t, <3>1, <3>2 DEF Becomes, Process
    <3>3. CASE Becomes(p, [proc[p] EXCEPT !.at = "answer", !.stamp = record[proc[p].task]]) /\ clock' = clock
      BY <1>t, <3>1, <3>3 DEF Becomes, Process
    <3>4. CASE Becomes(p, Moved(p, "emit_read")) /\ clock' = clock
      BY <1>t, <3>1, <3>4 DEF Becomes, Process, Moved
    <3>5. CASE Becomes(p, Idle) /\ clock' = clock
      BY <1>t, <1>i, <3>5 DEF Becomes
    <3> QED
      BY <1>1, <3>2, <3>3, <3>4, <3>5 DEF Load
  <2>c. clock <= clock'
    BY <1>1, <1>t DEF Load
  <2>r. \A u \in Tasks : record'[u] = record[u] \/ record'[u] <= clock'
    BY <1>1 DEF Load
  <2>l. \A u \in Tasks : local'[u] = local[u] \/ local'[u] <= clock'
    BY <1>1 DEF Load
  <2>s. \A u \in Tasks : snapshot'[u] = snapshot[u] \/ snapshot'[u] <= clock'
    BY <1>1 DEF Load
  <2>g. \A u \in Tasks : listing'.tasks[u] = listing.tasks[u] \/ listing'.tasks[u] <= clock'
    BY <1>1 DEF Load
  <2>p. \A q \in Procs : /\ proc'[q].stamp = proc[q].stamp \/ proc'[q].stamp <= clock'
                         /\ proc'[q].payload = proc[q].payload \/ proc'[q].payload <= clock'
    BY <2>x
  <2>u. \A i \in DOMAIN unread' : \/ unread'[i].stamp <= clock'
                                  \/ \E k \in DOMAIN unread : unread'[i] = unread[k]
    BY <1>1 DEF Load
  <2> QED
    BY <2>c, <2>r, <2>l, <2>s, <2>g, <2>p, <2>u, ClockKeeps
<1>2. ASSUME NEW p \in Procs, Store(p) PROVE ClockInv'
  <2>c. clock <= clock'
    BY <1>2, <1>t DEF Store
  <2>r. \A u \in Tasks : record'[u] = record[u] \/ record'[u] <= clock'
    BY <1>2, <1>t DEF Store
  <2>l. \A u \in Tasks : local'[u] = local[u] \/ local'[u] <= clock'
    BY <1>2 DEF Store
  <2>s. \A u \in Tasks : snapshot'[u] = snapshot[u] \/ snapshot'[u] <= clock'
    BY <1>2 DEF Store
  <2>g. \A u \in Tasks : listing'.tasks[u] = listing.tasks[u] \/ listing'.tasks[u] <= clock'
    BY <1>2 DEF Store
  <2>p. \A q \in Procs : /\ proc'[q].stamp = proc[q].stamp \/ proc'[q].stamp <= clock'
                         /\ proc'[q].payload = proc[q].payload \/ proc'[q].payload <= clock'
    BY <1>2, <1>t, <1>i DEF Becomes, Store, Moved, Process
  <2>u. \A i \in DOMAIN unread' : \/ unread'[i].stamp <= clock'
                                  \/ \E k \in DOMAIN unread : unread'[i] = unread[k]
    BY <1>2 DEF Store
  <2> QED
    BY <2>c, <2>r, <2>l, <2>s, <2>g, <2>p, <2>u, ClockKeeps
<1>3. ASSUME NEW p \in Procs, EmitRead(p) PROVE ClockInv'
  <2>c. clock <= clock'
    BY <1>3, <1>t DEF EmitRead
  <2>r. \A u \in Tasks : record'[u] = record[u] \/ record'[u] <= clock'
    BY <1>3 DEF EmitRead
  <2>l. \A u \in Tasks : local'[u] = local[u] \/ local'[u] <= clock'
    BY <1>3 DEF EmitRead
  <2>s. \A u \in Tasks : snapshot'[u] = snapshot[u] \/ snapshot'[u] <= clock'
    BY <1>3 DEF EmitRead
  <2>g. \A u \in Tasks : listing'.tasks[u] = listing.tasks[u] \/ listing'.tasks[u] <= clock'
    BY <1>3 DEF EmitRead
  <2>p. \A q \in Procs : /\ proc'[q].stamp = proc[q].stamp \/ proc'[q].stamp <= clock'
                         /\ proc'[q].payload = proc[q].payload \/ proc'[q].payload <= clock'
    BY <1>3, <1>t, <1>a, <1>i DEF Becomes, EmitRead, At, Finished, Moved, Process
  <2>u. \A i \in DOMAIN unread' : \/ unread'[i].stamp <= clock'
                                  \/ \E k \in DOMAIN unread : unread'[i] = unread[k]
    BY <1>3 DEF EmitRead
  <2> QED
    BY <2>c, <2>r, <2>l, <2>s, <2>g, <2>p, <2>u, ClockKeeps
<1>4. ASSUME NEW p \in Procs, EmitAppend(p) PROVE ClockInv'
  <2>e. /\ Entry("task", proc[p].task, proc[p].payload) \in Entries
        /\ Entry("task", proc[p].task, proc[p].payload).stamp <= clock
    BY <1>4, <1>t, <1>a, Bounds DEF EmitAppend, At, Entry, Entries, Process
  <2>c. clock <= clock'
    BY <1>4, <1>t DEF EmitAppend
  <2>r. \A u \in Tasks : record'[u] = record[u] \/ record'[u] <= clock'
    BY <1>4 DEF EmitAppend
  <2>l. \A u \in Tasks : local'[u] = local[u] \/ local'[u] <= clock'
    BY <1>4 DEF EmitAppend
  <2>s. \A u \in Tasks : snapshot'[u] = snapshot[u] \/ snapshot'[u] <= clock'
    BY <1>4 DEF EmitAppend
  <2>g. \A u \in Tasks : listing'.tasks[u] = listing.tasks[u] \/ listing'.tasks[u] <= clock'
    BY <1>4 DEF EmitAppend
  <2>p. \A q \in Procs : /\ proc'[q].stamp = proc[q].stamp \/ proc'[q].stamp <= clock'
                         /\ proc'[q].payload = proc[q].payload \/ proc'[q].payload <= clock'
    BY <1>4, <1>t, <1>i DEF Becomes, EmitAppend, Finished, Moved, Process
  <2>u. \A i \in DOMAIN unread' : \/ unread'[i].stamp <= clock'
                                  \/ \E k \in DOMAIN unread : unread'[i] = unread[k]
    BY <1>4, <1>t, <2>e, XAddFacts DEF EmitAppend
  <2> QED
    BY <2>c, <2>r, <2>l, <2>s, <2>g, <2>p, <2>u, ClockKeeps
<1>5. ASSUME NEW p \in Procs, Create(p) PROVE ClockInv'
  <2>c. clock <= clock'
    BY <1>5, <1>t DEF Create
  <2>r. \A u \in Tasks : record'[u] = record[u] \/ record'[u] <= clock'
    BY <1>5, <1>t DEF Create
  <2>l. \A u \in Tasks : local'[u] = local[u] \/ local'[u] <= clock'
    BY <1>5 DEF Create
  <2>s. \A u \in Tasks : snapshot'[u] = snapshot[u] \/ snapshot'[u] <= clock'
    BY <1>5 DEF Create
  <2>g. \A u \in Tasks : listing'.tasks[u] = listing.tasks[u] \/ listing'.tasks[u] <= clock'
    BY <1>5 DEF Create
  <2>p. \A q \in Procs : /\ proc'[q].stamp = proc[q].stamp \/ proc'[q].stamp <= clock'
                         /\ proc'[q].payload = proc[q].payload \/ proc'[q].payload <= clock'
    BY <1>5, <1>t, <1>i DEF Becomes, Create, Process
  <2>u. \A i \in DOMAIN unread' : \/ unread'[i].stamp <= clock'
                                  \/ \E k \in DOMAIN unread : unread'[i] = unread[k]
    BY <1>5 DEF Create
  <2> QED
    BY <2>c, <2>r, <2>l, <2>s, <2>g, <2>p, <2>u, ClockKeeps
<1>6. ASSUME NEW p \in Procs, Delete(p) PROVE ClockInv'
  <2>c. clock <= clock'
    BY <1>6, <1>t DEF Delete
  <2>r. \A u \in Tasks : record'[u] = record[u] \/ record'[u] <= clock'
    BY <1>6, <1>t DEF Delete
  <2>l. \A u \in Tasks : local'[u] = local[u] \/ local'[u] <= clock'
    BY <1>6 DEF Delete
  <2>s. \A u \in Tasks : snapshot'[u] = snapshot[u] \/ snapshot'[u] <= clock'
    BY <1>6 DEF Delete
  <2>g. \A u \in Tasks : listing'.tasks[u] = listing.tasks[u] \/ listing'.tasks[u] <= clock'
    BY <1>6 DEF Delete
  <2>p. \A q \in Procs : /\ proc'[q].stamp = proc[q].stamp \/ proc'[q].stamp <= clock'
                         /\ proc'[q].payload = proc[q].payload \/ proc'[q].payload <= clock'
    BY <1>6, <1>t, <1>i DEF Becomes, Delete, Moved, Process
  <2>u. \A i \in DOMAIN unread' : \/ unread'[i].stamp <= clock'
                                  \/ \E k \in DOMAIN unread : unread'[i] = unread[k]
    BY <1>6 DEF Delete
  <2> QED
    BY <2>c, <2>r, <2>l, <2>s, <2>g, <2>p, <2>u, ClockKeeps
<1>7. ASSUME NEW p \in Procs, Unlist(p) PROVE ClockInv'
  <2>c. clock <= clock'
    BY <1>7, <1>t DEF Unlist
  <2>r. \A u \in Tasks : record'[u] = record[u] \/ record'[u] <= clock'
    BY <1>7 DEF Unlist
  <2>l. \A u \in Tasks : local'[u] = local[u] \/ local'[u] <= clock'
    BY <1>7 DEF Unlist
  <2>s. \A u \in Tasks : snapshot'[u] = snapshot[u] \/ snapshot'[u] <= clock'
    BY <1>7 DEF Unlist
  <2>g. \A u \in Tasks : listing'.tasks[u] = listing.tasks[u] \/ listing'.tasks[u] <= clock'
    BY <1>7 DEF Unlist
  <2>p. \A q \in Procs : /\ proc'[q].stamp = proc[q].stamp \/ proc'[q].stamp <= clock'
                         /\ proc'[q].payload = proc[q].payload \/ proc'[q].payload <= clock'
    BY <1>7, <1>t, <1>i DEF Becomes, Unlist, Moved, Process
  <2>u. \A i \in DOMAIN unread' : \/ unread'[i].stamp <= clock'
                                  \/ \E k \in DOMAIN unread : unread'[i] = unread[k]
    BY <1>7 DEF Unlist
  <2> QED
    BY <2>c, <2>r, <2>l, <2>s, <2>g, <2>p, <2>u, ClockKeeps
<1>8. ASSUME NEW p \in Procs, EmitRemoved(p) PROVE ClockInv'
  <2>e. /\ Entry("removed", proc[p].task, 0) \in Entries
        /\ Entry("removed", proc[p].task, 0).stamp <= clock
    BY <1>8, <1>t, <1>a, Bounds DEF EmitRemoved, At, Entry, Entries, Process
  <2>c. clock <= clock'
    BY <1>8, <1>t DEF EmitRemoved
  <2>r. \A u \in Tasks : record'[u] = record[u] \/ record'[u] <= clock'
    BY <1>8 DEF EmitRemoved
  <2>l. \A u \in Tasks : local'[u] = local[u] \/ local'[u] <= clock'
    BY <1>8 DEF EmitRemoved
  <2>s. \A u \in Tasks : snapshot'[u] = snapshot[u] \/ snapshot'[u] <= clock'
    BY <1>8 DEF EmitRemoved
  <2>g. \A u \in Tasks : listing'.tasks[u] = listing.tasks[u] \/ listing'.tasks[u] <= clock'
    BY <1>8 DEF EmitRemoved
  <2>p. \A q \in Procs : /\ proc'[q].stamp = proc[q].stamp \/ proc'[q].stamp <= clock'
                         /\ proc'[q].payload = proc[q].payload \/ proc'[q].payload <= clock'
    BY <1>8, <1>t, <1>i DEF Becomes, EmitRemoved, Moved, Process
  <2>u. \A i \in DOMAIN unread' : \/ unread'[i].stamp <= clock'
                                  \/ \E k \in DOMAIN unread : unread'[i] = unread[k]
    BY <1>8, <1>t, <2>e, XAddFacts DEF EmitRemoved
  <2> QED
    BY <2>c, <2>r, <2>l, <2>s, <2>g, <2>p, <2>u, ClockKeeps
<1>9. ASSUME NEW p \in Procs, Answer(p) PROVE ClockInv'
  <2>c. clock <= clock'
    BY <1>9, <1>t DEF Answer
  <2>r. \A u \in Tasks : record'[u] = record[u] \/ record'[u] <= clock'
    BY <1>9 DEF Answer
  <2>l. \A u \in Tasks : local'[u] = local[u] \/ local'[u] <= clock'
    BY <1>9, <1>t, <1>a DEF Answer, UpsertTask, RemoveTask, At
  <2>s. \A u \in Tasks : snapshot'[u] = snapshot[u] \/ snapshot'[u] <= clock'
    BY <1>9 DEF Answer
  <2>g. \A u \in Tasks : listing'.tasks[u] = listing.tasks[u] \/ listing'.tasks[u] <= clock'
    BY <1>9 DEF Answer
  <2>p. \A q \in Procs : /\ proc'[q].stamp = proc[q].stamp \/ proc'[q].stamp <= clock'
                         /\ proc'[q].payload = proc[q].payload \/ proc'[q].payload <= clock'
    BY <1>9, <1>t, <1>i DEF Becomes, Answer
  <2>u. \A i \in DOMAIN unread' : \/ unread'[i].stamp <= clock'
                                  \/ \E k \in DOMAIN unread : unread'[i] = unread[k]
    BY <1>9 DEF Answer
  <2> QED
    BY <2>c, <2>r, <2>l, <2>s, <2>g, <2>p, <2>u, ClockKeeps
<1>10. ASSUME NEW p \in Procs, NEW t \in Tasks, WorkerWrites(p, t) PROVE ClockInv'
  <2>c. clock <= clock'
    BY <1>10, <1>t DEF WorkerWrites
  <2>r. \A u \in Tasks : record'[u] = record[u] \/ record'[u] <= clock'
    BY <1>10 DEF WorkerWrites
  <2>l. \A u \in Tasks : local'[u] = local[u] \/ local'[u] <= clock'
    BY <1>10 DEF WorkerWrites
  <2>s. \A u \in Tasks : snapshot'[u] = snapshot[u] \/ snapshot'[u] <= clock'
    BY <1>10 DEF WorkerWrites
  <2>g. \A u \in Tasks : listing'.tasks[u] = listing.tasks[u] \/ listing'.tasks[u] <= clock'
    BY <1>10 DEF WorkerWrites
  <2>p. \A q \in Procs : /\ proc'[q].stamp = proc[q].stamp \/ proc'[q].stamp <= clock'
                         /\ proc'[q].payload = proc[q].payload \/ proc'[q].payload <= clock'
    BY <1>10, <1>t, <1>i DEF Becomes, WorkerWrites, Doing, Process, Idle
  <2>u. \A i \in DOMAIN unread' : \/ unread'[i].stamp <= clock'
                                  \/ \E k \in DOMAIN unread : unread'[i] = unread[k]
    BY <1>10 DEF WorkerWrites
  <2> QED
    BY <2>c, <2>r, <2>l, <2>s, <2>g, <2>p, <2>u, ClockKeeps
<1>11. ASSUME NEW p \in Procs, NEW t \in Tasks, CancelTask(p, t) PROVE ClockInv'
  <2>c. clock <= clock'
    BY <1>11, <1>t DEF CancelTask
  <2>r. \A u \in Tasks : record'[u] = record[u] \/ record'[u] <= clock'
    BY <1>11 DEF CancelTask
  <2>l. \A u \in Tasks : local'[u] = local[u] \/ local'[u] <= clock'
    BY <1>11 DEF CancelTask
  <2>s. \A u \in Tasks : snapshot'[u] = snapshot[u] \/ snapshot'[u] <= clock'
    BY <1>11 DEF CancelTask
  <2>g. \A u \in Tasks : listing'.tasks[u] = listing.tasks[u] \/ listing'.tasks[u] <= clock'
    BY <1>11 DEF CancelTask
  <2>p. \A q \in Procs : /\ proc'[q].stamp = proc[q].stamp \/ proc'[q].stamp <= clock'
                         /\ proc'[q].payload = proc[q].payload \/ proc'[q].payload <= clock'
    BY <1>11, <1>t, <1>i DEF Becomes, CancelTask, Doing, Process, Idle
  <2>u. \A i \in DOMAIN unread' : \/ unread'[i].stamp <= clock'
                                  \/ \E k \in DOMAIN unread : unread'[i] = unread[k]
    BY <1>11 DEF CancelTask
  <2> QED
    BY <2>c, <2>r, <2>l, <2>s, <2>g, <2>p, <2>u, ClockKeeps
<1>12. ASSUME NEW p \in Procs, NEW t \in Tasks, NEW op, Optimistic(p, t, op) PROVE ClockInv'
  <2>c. clock <= clock'
    BY <1>12, <1>t DEF Optimistic
  <2>r. \A u \in Tasks : record'[u] = record[u] \/ record'[u] <= clock'
    BY <1>12 DEF Optimistic
  <2>l. \A u \in Tasks : local'[u] = local[u] \/ local'[u] <= clock'
    BY <1>12, <1>t DEF Optimistic
  <2>s. \A u \in Tasks : snapshot'[u] = snapshot[u] \/ snapshot'[u] <= clock'
    BY <1>12 DEF Optimistic
  <2>g. \A u \in Tasks : listing'.tasks[u] = listing.tasks[u] \/ listing'.tasks[u] <= clock'
    BY <1>12 DEF Optimistic
  <2>p. \A q \in Procs : /\ proc'[q].stamp = proc[q].stamp \/ proc'[q].stamp <= clock'
                         /\ proc'[q].payload = proc[q].payload \/ proc'[q].payload <= clock'
    BY <1>12, <1>t, <1>i DEF Becomes, Optimistic, Doing, Process, Idle
  <2>u. \A i \in DOMAIN unread' : \/ unread'[i].stamp <= clock'
                                  \/ \E k \in DOMAIN unread : unread'[i] = unread[k]
    BY <1>12 DEF Optimistic
  <2> QED
    BY <2>c, <2>r, <2>l, <2>s, <2>g, <2>p, <2>u, ClockKeeps
<1>13. ASSUME NEW p \in Procs, NEW t \in Tasks, DismissTask(p, t) PROVE ClockInv'
  <2>c. clock <= clock'
    BY <1>13, <1>t DEF DismissTask
  <2>r. \A u \in Tasks : record'[u] = record[u] \/ record'[u] <= clock'
    BY <1>13 DEF DismissTask
  <2>l. \A u \in Tasks : local'[u] = local[u] \/ local'[u] <= clock'
    BY <1>13 DEF DismissTask
  <2>s. \A u \in Tasks : snapshot'[u] = snapshot[u] \/ snapshot'[u] <= clock'
    BY <1>13 DEF DismissTask
  <2>g. \A u \in Tasks : listing'.tasks[u] = listing.tasks[u] \/ listing'.tasks[u] <= clock'
    BY <1>13 DEF DismissTask
  <2>p. \A q \in Procs : /\ proc'[q].stamp = proc[q].stamp \/ proc'[q].stamp <= clock'
                         /\ proc'[q].payload = proc[q].payload \/ proc'[q].payload <= clock'
    BY <1>13, <1>t, <1>i DEF Becomes, DismissTask, Doing, Process, Idle
  <2>u. \A i \in DOMAIN unread' : \/ unread'[i].stamp <= clock'
                                  \/ \E k \in DOMAIN unread : unread'[i] = unread[k]
    BY <1>13 DEF DismissTask
  <2> QED
    BY <2>c, <2>r, <2>l, <2>s, <2>g, <2>p, <2>u, ClockKeeps
<1>14. ASSUME NEW p \in Procs, StartDraft(p) PROVE ClockInv'
  <2>c. clock <= clock'
    BY <1>14, <1>t DEF StartDraft
  <2>r. \A u \in Tasks : record'[u] = record[u] \/ record'[u] <= clock'
    BY <1>14 DEF StartDraft
  <2>l. \A u \in Tasks : local'[u] = local[u] \/ local'[u] <= clock'
    BY <1>14 DEF StartDraft
  <2>s. \A u \in Tasks : snapshot'[u] = snapshot[u] \/ snapshot'[u] <= clock'
    BY <1>14 DEF StartDraft
  <2>g. \A u \in Tasks : listing'.tasks[u] = listing.tasks[u] \/ listing'.tasks[u] <= clock'
    BY <1>14 DEF StartDraft
  <2>p. \A q \in Procs : /\ proc'[q].stamp = proc[q].stamp \/ proc'[q].stamp <= clock'
                         /\ proc'[q].payload = proc[q].payload \/ proc'[q].payload <= clock'
    BY <1>14, <1>t, <1>i DEF Becomes, StartDraft, Doing, Process, Idle
  <2>u. \A i \in DOMAIN unread' : \/ unread'[i].stamp <= clock'
                                  \/ \E k \in DOMAIN unread : unread'[i] = unread[k]
    BY <1>14 DEF StartDraft
  <2> QED
    BY <2>c, <2>r, <2>l, <2>s, <2>g, <2>p, <2>u, ClockKeeps
<1>15. ASSUME NEW p \in Procs, AnswerLost(p) PROVE ClockInv'
  <2>c. clock <= clock'
    BY <1>15, <1>t DEF AnswerLost
  <2>r. \A u \in Tasks : record'[u] = record[u] \/ record'[u] <= clock'
    BY <1>15 DEF AnswerLost
  <2>l. \A u \in Tasks : local'[u] = local[u] \/ local'[u] <= clock'
    BY <1>15 DEF AnswerLost
  <2>s. \A u \in Tasks : snapshot'[u] = snapshot[u] \/ snapshot'[u] <= clock'
    BY <1>15 DEF AnswerLost
  <2>g. \A u \in Tasks : listing'.tasks[u] = listing.tasks[u] \/ listing'.tasks[u] <= clock'
    BY <1>15 DEF AnswerLost
  <2>p. \A q \in Procs : /\ proc'[q].stamp = proc[q].stamp \/ proc'[q].stamp <= clock'
                         /\ proc'[q].payload = proc[q].payload \/ proc'[q].payload <= clock'
    BY <1>15, <1>t, <1>i DEF Becomes, AnswerLost
  <2>u. \A i \in DOMAIN unread' : \/ unread'[i].stamp <= clock'
                                  \/ \E k \in DOMAIN unread : unread'[i] = unread[k]
    BY <1>15 DEF AnswerLost
  <2> QED
    BY <2>c, <2>r, <2>l, <2>s, <2>g, <2>p, <2>u, ClockKeeps
<1>16. ASSUME Connect PROVE ClockInv'
  <2>c. clock <= clock'
    BY <1>16, <1>t DEF Connect
  <2>r. \A u \in Tasks : record'[u] = record[u] \/ record'[u] <= clock'
    BY <1>16 DEF Connect
  <2>l. \A u \in Tasks : local'[u] = local[u] \/ local'[u] <= clock'
    BY <1>16 DEF Connect
  <2>s. \A u \in Tasks : snapshot'[u] = snapshot[u] \/ snapshot'[u] <= clock'
    BY <1>16 DEF Connect
  <2>g. \A u \in Tasks : listing'.tasks[u] = listing.tasks[u] \/ listing'.tasks[u] <= clock'
    BY <1>16 DEF Connect
  <2>p. \A q \in Procs : /\ proc'[q].stamp = proc[q].stamp \/ proc'[q].stamp <= clock'
                         /\ proc'[q].payload = proc[q].payload \/ proc'[q].payload <= clock'
    BY <1>16 DEF Connect
  <2>u. \A i \in DOMAIN unread' : \/ unread'[i].stamp <= clock'
                                  \/ \E k \in DOMAIN unread : unread'[i] = unread[k]
    BY <1>16 DEF Connect
  <2> QED
    BY <2>c, <2>r, <2>l, <2>s, <2>g, <2>p, <2>u, ClockKeeps
<1>17. ASSUME SendSnapshot PROVE ClockInv'
  <2>c. clock <= clock'
    BY <1>17, <1>t DEF SendSnapshot
  <2>r. \A u \in Tasks : record'[u] = record[u] \/ record'[u] <= clock'
    BY <1>17 DEF SendSnapshot
  <2>l. \A u \in Tasks : local'[u] = local[u] \/ local'[u] <= clock'
    BY <1>17 DEF SendSnapshot
  <2>s. \A u \in Tasks : snapshot'[u] = snapshot[u] \/ snapshot'[u] <= clock'
    BY <1>17, <1>t, <1>f DEF SendSnapshot
  <2>g. \A u \in Tasks : listing'.tasks[u] = listing.tasks[u] \/ listing'.tasks[u] <= clock'
    BY <1>17 DEF SendSnapshot
  <2>p. \A q \in Procs : /\ proc'[q].stamp = proc[q].stamp \/ proc'[q].stamp <= clock'
                         /\ proc'[q].payload = proc[q].payload \/ proc'[q].payload <= clock'
    BY <1>17 DEF SendSnapshot
  <2>u. \A i \in DOMAIN unread' : \/ unread'[i].stamp <= clock'
                                  \/ \E k \in DOMAIN unread : unread'[i] = unread[k]
    BY <1>17 DEF SendSnapshot
  <2> QED
    BY <2>c, <2>r, <2>l, <2>s, <2>g, <2>p, <2>u, ClockKeeps
<1>18. ASSUME HandleSnapshot PROVE ClockInv'
  <2>c. clock <= clock'
    BY <1>18, <1>t DEF HandleSnapshot
  <2>r. \A u \in Tasks : record'[u] = record[u] \/ record'[u] <= clock'
    BY <1>18 DEF HandleSnapshot
  <2>l. \A u \in Tasks : local'[u] = local[u] \/ local'[u] <= clock'
    BY <1>18, <1>t DEF HandleSnapshot, ApplySnapshot
  <2>s. \A u \in Tasks : snapshot'[u] = snapshot[u] \/ snapshot'[u] <= clock'
    BY <1>18, <1>t, NothingType DEF HandleSnapshot
  <2>g. \A u \in Tasks : listing'.tasks[u] = listing.tasks[u] \/ listing'.tasks[u] <= clock'
    BY <1>18 DEF HandleSnapshot
  <2>p. \A q \in Procs : /\ proc'[q].stamp = proc[q].stamp \/ proc'[q].stamp <= clock'
                         /\ proc'[q].payload = proc[q].payload \/ proc'[q].payload <= clock'
    BY <1>18 DEF HandleSnapshot
  <2>u. \A i \in DOMAIN unread' : \/ unread'[i].stamp <= clock'
                                  \/ \E k \in DOMAIN unread : unread'[i] = unread[k]
    BY <1>18 DEF HandleSnapshot
  <2> QED
    BY <2>c, <2>r, <2>l, <2>s, <2>g, <2>p, <2>u, ClockKeeps
<1>19. ASSUME HandleEntry PROVE ClockInv'
  <2>e. /\ Head(unread).stamp <= clock /\ Tail(unread) \in Seq(Entries)
        /\ \A i \in DOMAIN Tail(unread) : \E k \in DOMAIN unread : Tail(unread)[i] = unread[k]
    <3>1. unread \in Seq(Entries) /\ unread # <<>>
      BY <1>19, <1>t DEF HandleEntry
    <3>2. /\ Head(unread) = unread[1] /\ Tail(unread) \in Seq(Entries)
          /\ Len(Tail(unread)) = Len(unread) - 1
          /\ \A i \in 1 .. Len(Tail(unread)) : Tail(unread)[i] = unread[i + 1]
          /\ Len(unread) \in Nat /\ Len(unread) # 0
      BY <3>1, HeadTailProperties, EmptySeq
    <3>3. DOMAIN unread = 1 .. Len(unread) /\ DOMAIN Tail(unread) = 1 .. Len(Tail(unread))
      BY <3>1, <3>2, LenProperties
    <3>4. 1 \in DOMAIN unread /\ \A i \in DOMAIN Tail(unread) : i + 1 \in DOMAIN unread
      BY <3>2, <3>3
    <3> QED
      BY <3>2, <3>3, <3>4 DEF ClockInv
  <2>c. clock <= clock'
    BY <1>19, <1>t DEF HandleEntry
  <2>r. \A u \in Tasks : record'[u] = record[u] \/ record'[u] <= clock'
    BY <1>19 DEF HandleEntry
  <2>l. \A u \in Tasks : local'[u] = local[u] \/ local'[u] <= clock'
    BY <1>19, <1>t, <2>e DEF HandleEntry, Handle, UpsertTask, RemoveTask
  <2>s. \A u \in Tasks : snapshot'[u] = snapshot[u] \/ snapshot'[u] <= clock'
    BY <1>19 DEF HandleEntry
  <2>g. \A u \in Tasks : listing'.tasks[u] = listing.tasks[u] \/ listing'.tasks[u] <= clock'
    BY <1>19 DEF HandleEntry
  <2>p. \A q \in Procs : /\ proc'[q].stamp = proc[q].stamp \/ proc'[q].stamp <= clock'
                         /\ proc'[q].payload = proc[q].payload \/ proc'[q].payload <= clock'
    BY <1>19 DEF HandleEntry
  <2>u. \A i \in DOMAIN unread' : \/ unread'[i].stamp <= clock'
                                  \/ \E k \in DOMAIN unread : unread'[i] = unread[k]
    BY <1>19, <1>t, <2>e DEF HandleEntry
  <2> QED
    BY <2>c, <2>r, <2>l, <2>s, <2>g, <2>p, <2>u, ClockKeeps
<1>20. ASSUME LoseConnection PROVE ClockInv'
  <2>c. clock <= clock'
    BY <1>20, <1>t DEF LoseConnection, Unconnected
  <2>r. \A u \in Tasks : record'[u] = record[u] \/ record'[u] <= clock'
    BY <1>20 DEF LoseConnection, Unconnected
  <2>l. \A u \in Tasks : local'[u] = local[u] \/ local'[u] <= clock'
    BY <1>20 DEF LoseConnection, Unconnected
  <2>s. \A u \in Tasks : snapshot'[u] = snapshot[u] \/ snapshot'[u] <= clock'
    BY <1>20, <1>t, NothingType DEF LoseConnection, Unconnected, Cut
  <2>g. \A u \in Tasks : listing'.tasks[u] = listing.tasks[u] \/ listing'.tasks[u] <= clock'
    BY <1>20 DEF LoseConnection, Unconnected
  <2>p. \A q \in Procs : /\ proc'[q].stamp = proc[q].stamp \/ proc'[q].stamp <= clock'
                         /\ proc'[q].payload = proc[q].payload \/ proc'[q].payload <= clock'
    BY <1>20 DEF LoseConnection, Unconnected
  <2>u. \A i \in DOMAIN unread' : \/ unread'[i].stamp <= clock'
                                  \/ \E k \in DOMAIN unread : unread'[i] = unread[k]
    BY <1>20, <1>t, EmptySeq DEF LoseConnection, Unconnected, Cut
  <2> QED
    BY <2>c, <2>r, <2>l, <2>s, <2>g, <2>p, <2>u, ClockKeeps
<1>21. ASSUME Remount PROVE ClockInv'
  <2>c. clock <= clock'
    BY <1>21, <1>t DEF Remount
  <2>r. \A u \in Tasks : record'[u] = record[u] \/ record'[u] <= clock'
    BY <1>21 DEF Remount
  <2>l. \A u \in Tasks : local'[u] = local[u] \/ local'[u] <= clock'
    BY <1>21 DEF Remount
  <2>s. \A u \in Tasks : snapshot'[u] = snapshot[u] \/ snapshot'[u] <= clock'
    BY <1>21, <1>t, NothingType DEF Remount, Cut
  <2>g. \A u \in Tasks : listing'.tasks[u] = listing.tasks[u] \/ listing'.tasks[u] <= clock'
    BY <1>21, <1>t, NothingType DEF Remount, Listing
  <2>p. \A q \in Procs : /\ proc'[q].stamp = proc[q].stamp \/ proc'[q].stamp <= clock'
                         /\ proc'[q].payload = proc[q].payload \/ proc'[q].payload <= clock'
    BY <1>21 DEF Remount
  <2>u. \A i \in DOMAIN unread' : \/ unread'[i].stamp <= clock'
                                  \/ \E k \in DOMAIN unread : unread'[i] = unread[k]
    BY <1>21, <1>t, EmptySeq DEF Remount, Cut
  <2> QED
    BY <2>c, <2>r, <2>l, <2>s, <2>g, <2>p, <2>u, ClockKeeps
<1>22. ASSUME Reload PROVE ClockInv'
  <2>c. clock <= clock'
    BY <1>22, <1>t DEF Reload
  <2>r. \A u \in Tasks : record'[u] = record[u] \/ record'[u] <= clock'
    BY <1>22 DEF Reload
  <2>l. \A u \in Tasks : local'[u] = local[u] \/ local'[u] <= clock'
    BY <1>22, <1>t, NothingType DEF Reload
  <2>s. \A u \in Tasks : snapshot'[u] = snapshot[u] \/ snapshot'[u] <= clock'
    BY <1>22, <1>t, NothingType DEF Reload, Cut
  <2>g. \A u \in Tasks : listing'.tasks[u] = listing.tasks[u] \/ listing'.tasks[u] <= clock'
    BY <1>22, <1>t, NothingType DEF Reload, Listing
  <2>p. \A q \in Procs : /\ proc'[q].stamp = proc[q].stamp \/ proc'[q].stamp <= clock'
                         /\ proc'[q].payload = proc[q].payload \/ proc'[q].payload <= clock'
    BY <1>22, <1>t, <1>i DEF Reload
  <2>u. \A i \in DOMAIN unread' : \/ unread'[i].stamp <= clock'
                                  \/ \E k \in DOMAIN unread : unread'[i] = unread[k]
    BY <1>22, <1>t, EmptySeq DEF Reload, Cut
  <2> QED
    BY <2>c, <2>r, <2>l, <2>s, <2>g, <2>p, <2>u, ClockKeeps
<1>23. ASSUME ListTasks PROVE ClockInv'
  <2>c. clock <= clock'
    BY <1>23, <1>t DEF ListTasks
  <2>r. \A u \in Tasks : record'[u] = record[u] \/ record'[u] <= clock'
    BY <1>23 DEF ListTasks
  <2>l. \A u \in Tasks : local'[u] = local[u] \/ local'[u] <= clock'
    BY <1>23 DEF ListTasks
  <2>s. \A u \in Tasks : snapshot'[u] = snapshot[u] \/ snapshot'[u] <= clock'
    BY <1>23 DEF ListTasks
  <2>g. \A u \in Tasks : listing'.tasks[u] = listing.tasks[u] \/ listing'.tasks[u] <= clock'
    BY <1>23, <1>t, <1>f DEF ListTasks, Listing
  <2>p. \A q \in Procs : /\ proc'[q].stamp = proc[q].stamp \/ proc'[q].stamp <= clock'
                         /\ proc'[q].payload = proc[q].payload \/ proc'[q].payload <= clock'
    BY <1>23 DEF ListTasks
  <2>u. \A i \in DOMAIN unread' : \/ unread'[i].stamp <= clock'
                                  \/ \E k \in DOMAIN unread : unread'[i] = unread[k]
    BY <1>23 DEF ListTasks
  <2> QED
    BY <2>c, <2>r, <2>l, <2>s, <2>g, <2>p, <2>u, ClockKeeps
<1>24. ASSUME LoadActive PROVE ClockInv'
  <2>c. clock <= clock'
    BY <1>24, <1>t DEF LoadActive
  <2>r. \A u \in Tasks : record'[u] = record[u] \/ record'[u] <= clock'
    BY <1>24 DEF LoadActive
  <2>l. \A u \in Tasks : local'[u] = local[u] \/ local'[u] <= clock'
    BY <1>24, <1>t DEF LoadActive
  <2>s. \A u \in Tasks : snapshot'[u] = snapshot[u] \/ snapshot'[u] <= clock'
    BY <1>24 DEF LoadActive
  <2>g. \A u \in Tasks : listing'.tasks[u] = listing.tasks[u] \/ listing'.tasks[u] <= clock'
    BY <1>24, <1>t, NothingType DEF LoadActive, Listing
  <2>p. \A q \in Procs : /\ proc'[q].stamp = proc[q].stamp \/ proc'[q].stamp <= clock'
                         /\ proc'[q].payload = proc[q].payload \/ proc'[q].payload <= clock'
    BY <1>24 DEF LoadActive
  <2>u. \A i \in DOMAIN unread' : \/ unread'[i].stamp <= clock'
                                  \/ \E k \in DOMAIN unread : unread'[i] = unread[k]
    BY <1>24 DEF LoadActive
  <2> QED
    BY <2>c, <2>r, <2>l, <2>s, <2>g, <2>p, <2>u, ClockKeeps
<1>25. ASSUME GiveUp PROVE ClockInv'
  <2>c. clock <= clock'
    BY <1>25, <1>t DEF GiveUp
  <2>r. \A u \in Tasks : record'[u] = record[u] \/ record'[u] <= clock'
    BY <1>25 DEF GiveUp
  <2>l. \A u \in Tasks : local'[u] = local[u] \/ local'[u] <= clock'
    BY <1>25 DEF GiveUp
  <2>s. \A u \in Tasks : snapshot'[u] = snapshot[u] \/ snapshot'[u] <= clock'
    BY <1>25, <1>t, NothingType DEF GiveUp
  <2>g. \A u \in Tasks : listing'.tasks[u] = listing.tasks[u] \/ listing'.tasks[u] <= clock'
    BY <1>25 DEF GiveUp
  <2>p. \A q \in Procs : /\ proc'[q].stamp = proc[q].stamp \/ proc'[q].stamp <= clock'
                         /\ proc'[q].payload = proc[q].payload \/ proc'[q].payload <= clock'
    BY <1>25 DEF GiveUp
  <2>u. \A i \in DOMAIN unread' : \/ unread'[i].stamp <= clock'
                                  \/ \E k \in DOMAIN unread : unread'[i] = unread[k]
    BY <1>25, <1>t, EmptySeq DEF GiveUp
  <2> QED
    BY <2>c, <2>r, <2>l, <2>s, <2>g, <2>p, <2>u, ClockKeeps
<1> QED
  BY <1>0, <1>1, <1>2, <1>3, <1>4, <1>5, <1>6, <1>7, <1>8, <1>9, <1>10, <1>11, <1>12, <1>13, <1>14, <1>15, <1>16, <1>17, <1>18, <1>19, <1>20, <1>21, <1>22, <1>23, <1>24, <1>25
     DEF Next, Step, UserActs, UseExistingOrRegenerate, SubmitInput, Follow


-----------------------------------------------------------------------------
(* The latest record of t stays on its way in a step that does not write    *)
(* it, keeps the connection and keeps what carries it.                      *)
LEMMA Carry ==
  ASSUME TypeInv, TypeInv', NEW t \in Tasks, OnItsWay(t),
         record'[t] = record[t], conn' = conn, snapshot' = snapshot,
         local'[t] >= local[t],
         \A p \in Procs : WillEmit(p, t) => WillEmit(p, t)' \/ OnItsWay(t)',
         \A i \in DOMAIN unread : \E j \in DOMAIN unread' : unread'[j] = unread[i]
  PROVE  OnItsWay(t)'
<1>1. CASE \E p \in Procs : WillEmit(p, t)
  BY <1>1 DEF OnItsWay
<1>2. CASE \E i \in DOMAIN unread : InStream(i, t)
  <2>1. PICK i \in DOMAIN unread : InStream(i, t)
    BY <1>2
  <2>2. PICK j \in DOMAIN unread' : unread'[j] = unread[i]
    OBVIOUS
  <2>3. InStream(j, t)'
    BY <2>1, <2>2 DEF InStream
  <2> QED
    BY <2>2, <2>3 DEF OnItsWay
<1>3. CASE conn = "sent" /\ snapshot[t] >= record[t]
  BY <1>3 DEF OnItsWay
<1>4. CASE conn = "live" /\ local[t] >= record[t]
  <2>1. local[t] \in Nat /\ local'[t] \in Nat /\ record[t] \in Nat
    BY Bounds DEF TypeInv, TypeOK
  <2> QED
    BY <1>4, <2>1 DEF OnItsWay
<1> QED
  BY <1>1, <1>2, <1>3, <1>4 DEF OnItsWay

(* An entry is added behind the others. *)
LEMMA AppendKeeps ==
  ASSUME NEW q \in Seq(Entries), NEW e \in Entries
  PROVE  /\ Len(q) + 1 \in DOMAIN Append(q, e) /\ Append(q, e)[Len(q) + 1] = e
         /\ \A i \in DOMAIN q : i \in DOMAIN Append(q, e) /\ Append(q, e)[i] = q[i]
<1>1. DOMAIN q = 1 .. Len(q) /\ Len(q) \in Nat
  BY LenProperties
<1>2. /\ Append(q, e) \in Seq(Entries) /\ Len(Append(q, e)) = Len(q) + 1
      /\ Append(q, e)[Len(q) + 1] = e
      /\ \A i \in 1 .. Len(q) : Append(q, e)[i] = q[i]
  BY AppendProperties
<1>3. DOMAIN Append(q, e) = 1 .. Len(q) + 1
  BY <1>2, LenProperties
<1> QED
  BY <1>1, <1>2, <1>3

(* Merging an event or an answer makes no task older that is not removed.   *)
LEMMA MergeKeeps ==
  ASSUME TypeInv, NEW t \in Tasks, NEW u \in Tasks, NEW s \in Stamps, t \notin tombs',
         UpsertTask(u, s) \/ RemoveTask(u)
  PROVE  local'[t] >= local[t]
<1>1. local \in [Tasks -> Stamps] /\ local[t] \in Nat /\ s \in Nat
  BY Bounds DEF TypeInv, TypeOK
<1>2. CASE UpsertTask(u, s)
  BY <1>1, <1>2 DEF UpsertTask
<1>3. CASE RemoveTask(u)
  BY <1>1, <1>3 DEF RemoveTask
<1> QED
  BY <1>2, <1>3

(* Every action keeps every change on its way to the client. *)
LEMMA DeliverNext == TypeInv /\ TypeInv' /\ ClockInv /\ DeliverInv /\ [Next]_vars => DeliverInv'
<1> SUFFICES ASSUME TypeInv, TypeInv', ClockInv, DeliverInv, [Next]_vars,
                    conn' \in {"sent", "live"},
                    NEW t \in Tasks, Visible(t)', ~ Tombed(t)'
             PROVE  OnItsWay(t)'
  BY DEF DeliverInv
<1> USE DEF server, tab, client, vars
<1>0. CASE UNCHANGED vars
  BY <1>0 DEF DeliverInv, OnItsWay, Visible, Exists, Tombed, WillEmit, InStream
<1>t. /\ record \in [Tasks -> Stamps] /\ local \in [Tasks -> Stamps]
      /\ proc \in [Procs -> Process]
      /\ unread \in Seq(Entries)
      /\ \A c \in Stamps : c \in Nat
      /\ local[t] \in Nat /\ record[t] \in Nat /\ snapshot[t] \in Nat /\ listing.tasks[t] \in Nat
  BY Bounds DEF TypeInv, TypeOK
<1>c. local[t] >= local[t] /\ clock \in Nat /\ local[t] <= clock /\ record[t] <= clock
  BY <1>t, Bounds DEF TypeInv, TypeOK, ClockInv
<1>a. \A p \in Procs : ~ At(p, "idle") => proc[p].task \in Tasks
  BY DEF At, TypeInv
<1>h. Visible(t)' => t \in listed' /\ record'[t] # 0
  BY DEF Visible, Exists
<1>v. conn \in {"sent", "live"} /\ t \in listed /\ record[t] # 0 /\ t \notin tombs => OnItsWay(t)
  BY DEF DeliverInv, Visible, Exists, Tombed
<1>n. t \in listed' /\ record'[t] # 0 /\ t \notin tombs'
  BY DEF Visible, Exists, Tombed
<1>1. ASSUME NEW p \in Procs, Load(p) PROVE OnItsWay(t)'
  <2>v. OnItsWay(t)
    BY <1>1, <1>t, <1>c, <1>n, <1>v DEF Load
  <2>r. record'[t] = record[t] /\ conn' = conn /\ snapshot' = snapshot
    BY <1>1, <1>t, <1>c DEF Load
  <2>l. local'[t] >= local[t]
    BY <1>1, <1>t, <1>c DEF Load
  <2>p. \A q \in Procs : WillEmit(q, t) => WillEmit(q, t)' \/ OnItsWay(t)'
    BY <1>1, <1>t, <1>c, <2>r DEF WillEmit, Load, At, Becomes, Moved
  <2>u. \A i \in DOMAIN unread : \E j \in DOMAIN unread' : unread'[j] = unread[i]
    BY <1>1, <1>t, <1>c DEF Load
  <2> QED
    BY <2>v, <2>r, <2>l, <2>p, <2>u, Carry
<1>2. ASSUME NEW p \in Procs, Store(p) PROVE OnItsWay(t)'
  <2>y. CASE proc[p].task = t
    <3>1. proc[p] \in Process
      BY <1>t
    <3>2. proc'[p].task = t /\ proc'[p].at = "emit_read"
      BY <1>2, <1>t, <2>y, <3>1 DEF Store, Becomes, Moved, Process
    <3> QED
      BY <3>2 DEF OnItsWay, WillEmit
  <2>n. CASE ~ (proc[p].task = t)
    <3>v. OnItsWay(t)
      BY <1>2, <1>t, <1>c, <2>n, <1>n, <1>v DEF Store
    <3>r. record'[t] = record[t] /\ conn' = conn /\ snapshot' = snapshot
      BY <1>2, <1>t, <1>c, <2>n DEF Store
    <3>l. local'[t] >= local[t]
      BY <1>2, <1>t, <1>c, <2>n DEF Store
    <3>p. \A q \in Procs : WillEmit(q, t) => WillEmit(q, t)' \/ OnItsWay(t)'
      BY <1>2, <1>t, <1>c, <2>n, <3>r DEF WillEmit, Store, At, Becomes, Moved, Process
    <3>u. \A i \in DOMAIN unread : \E j \in DOMAIN unread' : unread'[j] = unread[i]
      BY <1>2, <1>t, <1>c, <2>n DEF Store
    <3> QED
      BY <3>v, <3>r, <3>l, <3>p, <3>u, Carry
  <2> QED
    BY <2>y, <2>n
<1>3. ASSUME NEW p \in Procs, EmitRead(p) PROVE OnItsWay(t)'
  <2>y. CASE proc[p].task = t
    <3>1. proc[p] \in Process /\ Exists(proc[p].task)
      BY <1>3, <1>t, <1>n, <2>y DEF EmitRead, Exists
    <3>2. Becomes(p, [proc[p] EXCEPT !.at = "emit_append", !.payload = record[t]])
      BY <1>3, <2>y, <3>1 DEF EmitRead
    <3>c. PICK c \in Stamps : c = record[t]
      BY <1>t
    <3>3. proc'[p] = [proc[p] EXCEPT !.at = "emit_append", !.payload = c]
      BY <1>t, <3>2, <3>c DEF Becomes
    <3>4. proc'[p].task = t /\ proc'[p].at = "emit_append" /\ proc'[p].payload = c /\ record'[t] = c
      BY <1>3, <2>y, <3>1, <3>3, <3>c DEF Process, EmitRead
    <3> QED
      BY <3>4 DEF OnItsWay, WillEmit
  <2>n. CASE ~ (proc[p].task = t)
    <3>v. OnItsWay(t)
      BY <1>3, <1>t, <1>c, <2>n, <1>n, <1>v DEF EmitRead
    <3>r. record'[t] = record[t] /\ conn' = conn /\ snapshot' = snapshot
      BY <1>3, <1>t, <1>c, <2>n DEF EmitRead
    <3>l. local'[t] >= local[t]
      BY <1>3, <1>t, <1>c, <2>n DEF EmitRead
    <3>p. \A q \in Procs : WillEmit(q, t) => WillEmit(q, t)' \/ OnItsWay(t)'
      BY <1>3, <1>t, <1>c, <2>n, <3>r DEF WillEmit, EmitRead, At, Becomes, Moved, Process, Exists
    <3>u. \A i \in DOMAIN unread : \E j \in DOMAIN unread' : unread'[j] = unread[i]
      BY <1>3, <1>t, <1>c, <2>n DEF EmitRead
    <3> QED
      BY <3>v, <3>r, <3>l, <3>p, <3>u, Carry
  <2> QED
    BY <2>y, <2>n
<1>4. ASSUME NEW p \in Procs, EmitAppend(p) PROVE OnItsWay(t)'
  <2>e. unread' = Append(unread, Entry("task", proc[p].task, proc[p].payload))
        /\ Entry("task", proc[p].task, proc[p].payload) \in Entries
    <3>1. ~ Unconnected /\ Entry("task", proc[p].task, proc[p].payload) \in Entries
      BY <1>4, <1>t, <1>a DEF Unconnected, EmitAppend, At, Entry, Entries, Process
    <3> QED
      BY <1>4, <3>1, XAddFacts DEF EmitAppend
  <2>y. CASE proc[p].task = t /\ proc[p].payload = record[t]
    <3>1. /\ unread'[Len(unread) + 1] = Entry("task", t, record[t])
          /\ Len(unread) + 1 \in DOMAIN unread'
      BY <1>t, <2>y, <2>e, AppendKeeps
    <3>2. PICK j \in DOMAIN unread' : unread'[j] = Entry("task", t, record[t])
      BY <3>1
    <3>3. InStream(j, t)'
      BY <1>4, <1>t, <3>2 DEF InStream, Entry, EmitAppend
    <3> QED
      BY <3>2, <3>3 DEF OnItsWay
  <2>n. CASE ~ (proc[p].task = t /\ proc[p].payload = record[t])
    <3>v. OnItsWay(t)
      BY <1>4, <1>t, <1>c, <2>n, <1>n, <1>v DEF EmitAppend
    <3>r. record'[t] = record[t] /\ conn' = conn /\ snapshot' = snapshot
      BY <1>4, <1>t, <1>c, <2>n DEF EmitAppend
    <3>l. local'[t] >= local[t]
      BY <1>4, <1>t, <1>c, <2>n DEF EmitAppend
    <3>p. \A q \in Procs : WillEmit(q, t) => WillEmit(q, t)' \/ OnItsWay(t)'
      BY <1>4, <1>t, <1>c, <2>n, <3>r DEF WillEmit, EmitAppend, At, Becomes, Moved, Process, Finished
    <3>u. \A i \in DOMAIN unread : \E j \in DOMAIN unread' : unread'[j] = unread[i]
      BY <1>t, <2>e, AppendKeeps
    <3> QED
      BY <3>v, <3>r, <3>l, <3>p, <3>u, Carry
  <2> QED
    BY <2>y, <2>n
<1>5. ASSUME NEW p \in Procs, Create(p) PROVE OnItsWay(t)'
  <2>y. CASE proc[p].task = t
    <3>1. proc[p] \in Process
      BY <1>t
    <3>2. proc'[p].task = t /\ proc'[p].at = "emit_read"
      BY <1>5, <1>t, <2>y, <3>1 DEF Create, Becomes, Process
    <3> QED
      BY <3>2 DEF OnItsWay, WillEmit
  <2>n. CASE ~ (proc[p].task = t)
    <3>v. OnItsWay(t)
      BY <1>5, <1>t, <1>c, <2>n, <1>n, <1>v DEF Create
    <3>r. record'[t] = record[t] /\ conn' = conn /\ snapshot' = snapshot
      BY <1>5, <1>t, <1>c, <2>n DEF Create
    <3>l. local'[t] >= local[t]
      BY <1>5, <1>t, <1>c, <2>n DEF Create
    <3>p. \A q \in Procs : WillEmit(q, t) => WillEmit(q, t)' \/ OnItsWay(t)'
      BY <1>5, <1>t, <1>c, <2>n, <3>r DEF WillEmit, Create, At, Becomes, Moved, Process
    <3>u. \A i \in DOMAIN unread : \E j \in DOMAIN unread' : unread'[j] = unread[i]
      BY <1>5, <1>t, <1>c, <2>n DEF Create
    <3> QED
      BY <3>v, <3>r, <3>l, <3>p, <3>u, Carry
  <2> QED
    BY <2>y, <2>n
<1>6. ASSUME NEW p \in Procs, Delete(p) PROVE OnItsWay(t)'
  <2>e. proc[p].task # t /\ proc[p].task \in Tasks
    BY <1>6, <1>t, <1>a, <1>n DEF Delete, At
  <2>v. OnItsWay(t)
    BY <1>6, <2>e, <1>t, <1>c, <1>n, <1>v DEF Delete
  <2>r. record'[t] = record[t] /\ conn' = conn /\ snapshot' = snapshot
    BY <1>6, <2>e, <1>t, <1>c DEF Delete
  <2>l. local'[t] >= local[t]
    BY <1>6, <2>e, <1>t, <1>c DEF Delete
  <2>p. \A q \in Procs : WillEmit(q, t) => WillEmit(q, t)' \/ OnItsWay(t)'
    BY <1>6, <2>e, <1>t, <1>c, <2>r DEF WillEmit, Delete, At, Becomes, Moved
  <2>u. \A i \in DOMAIN unread : \E j \in DOMAIN unread' : unread'[j] = unread[i]
    BY <1>6, <2>e, <1>t, <1>c DEF Delete
  <2> QED
    BY <2>v, <2>r, <2>l, <2>p, <2>u, Carry
<1>7. ASSUME NEW p \in Procs, Unlist(p) PROVE OnItsWay(t)'
  <2>v. OnItsWay(t)
    BY <1>7, <1>t, <1>c, <1>n, <1>v DEF Unlist
  <2>r. record'[t] = record[t] /\ conn' = conn /\ snapshot' = snapshot
    BY <1>7, <1>t, <1>c DEF Unlist
  <2>l. local'[t] >= local[t]
    BY <1>7, <1>t, <1>c DEF Unlist
  <2>p. \A q \in Procs : WillEmit(q, t) => WillEmit(q, t)' \/ OnItsWay(t)'
    BY <1>7, <1>t, <1>c, <2>r DEF WillEmit, Unlist, At, Becomes, Moved
  <2>u. \A i \in DOMAIN unread : \E j \in DOMAIN unread' : unread'[j] = unread[i]
    BY <1>7, <1>t, <1>c DEF Unlist
  <2> QED
    BY <2>v, <2>r, <2>l, <2>p, <2>u, Carry
<1>8. ASSUME NEW p \in Procs, EmitRemoved(p) PROVE OnItsWay(t)'
  <2>e. unread' = Append(unread, Entry("removed", proc[p].task, 0))
        /\ Entry("removed", proc[p].task, 0) \in Entries
    <3>1. ~ Unconnected /\ Entry("removed", proc[p].task, 0) \in Entries
      BY <1>8, <1>t, <1>a, Bounds DEF Unconnected, EmitRemoved, At, Entry, Entries, Process
    <3> QED
      BY <1>8, <3>1, XAddFacts DEF EmitRemoved
  <2>v. OnItsWay(t)
    BY <1>8, <1>t, <1>c, <1>n, <1>v DEF EmitRemoved
  <2>r. record'[t] = record[t] /\ conn' = conn /\ snapshot' = snapshot
    BY <1>8, <1>t, <1>c DEF EmitRemoved
  <2>l. local'[t] >= local[t]
    BY <1>8, <1>t, <1>c DEF EmitRemoved
  <2>p. \A q \in Procs : WillEmit(q, t) => WillEmit(q, t)' \/ OnItsWay(t)'
    BY <1>8, <1>t, <1>c, <2>r DEF WillEmit, EmitRemoved, At, Becomes, Moved, Process
  <2>u. \A i \in DOMAIN unread : \E j \in DOMAIN unread' : unread'[j] = unread[i]
    BY <1>t, <2>e, AppendKeeps
  <2> QED
    BY <2>v, <2>r, <2>l, <2>p, <2>u, Carry
<1>9. ASSUME NEW p \in Procs, Answer(p) PROVE OnItsWay(t)'
  <2>e. proc[p].task \in Tasks /\ proc[p].stamp \in Stamps
    BY <1>9, <1>t, <1>a DEF Answer, At, Process
  <2>f. UpsertTask(proc[p].task, proc[p].stamp) \/ RemoveTask(proc[p].task)
    BY <1>9 DEF Answer
  <2>v. OnItsWay(t)
    BY <1>9, <1>t, <1>c, <1>n, <1>v DEF Answer, UpsertTask, RemoveTask
  <2>r. record'[t] = record[t] /\ conn' = conn /\ snapshot' = snapshot
    BY <1>9, <1>t, <1>c DEF Answer
  <2>l. local'[t] >= local[t]
    BY <1>n, <2>e, <2>f, MergeKeeps
  <2>p. \A q \in Procs : WillEmit(q, t) => WillEmit(q, t)' \/ OnItsWay(t)'
    BY <1>9, <1>t, <1>c, <2>r DEF WillEmit, Answer, At, Becomes
  <2>u. \A i \in DOMAIN unread : \E j \in DOMAIN unread' : unread'[j] = unread[i]
    BY <1>9, <1>t, <1>c DEF Answer
  <2> QED
    BY <2>v, <2>r, <2>l, <2>p, <2>u, Carry
<1>10. ASSUME NEW p \in Procs, NEW u \in Tasks, WorkerWrites(p, u) PROVE OnItsWay(t)'
  <2>v. OnItsWay(t)
    BY <1>10, <1>t, <1>c, <1>n, <1>v DEF WorkerWrites
  <2>r. record'[t] = record[t] /\ conn' = conn /\ snapshot' = snapshot
    BY <1>10, <1>t, <1>c DEF WorkerWrites
  <2>l. local'[t] >= local[t]
    BY <1>10, <1>t, <1>c DEF WorkerWrites
  <2>p. \A q \in Procs : WillEmit(q, t) => WillEmit(q, t)' \/ OnItsWay(t)'
    BY <1>10, <1>t, <1>c, <2>r DEF WillEmit, WorkerWrites, At, Becomes
  <2>u. \A i \in DOMAIN unread : \E j \in DOMAIN unread' : unread'[j] = unread[i]
    BY <1>10, <1>t, <1>c DEF WorkerWrites
  <2> QED
    BY <2>v, <2>r, <2>l, <2>p, <2>u, Carry
<1>11. ASSUME NEW p \in Procs, NEW u \in Tasks, CancelTask(p, u) PROVE OnItsWay(t)'
  <2>v. OnItsWay(t)
    BY <1>11, <1>t, <1>c, <1>n, <1>v DEF CancelTask
  <2>r. record'[t] = record[t] /\ conn' = conn /\ snapshot' = snapshot
    BY <1>11, <1>t, <1>c DEF CancelTask
  <2>l. local'[t] >= local[t]
    BY <1>11, <1>t, <1>c DEF CancelTask
  <2>p. \A q \in Procs : WillEmit(q, t) => WillEmit(q, t)' \/ OnItsWay(t)'
    BY <1>11, <1>t, <1>c, <2>r DEF WillEmit, CancelTask, At, Becomes
  <2>u. \A i \in DOMAIN unread : \E j \in DOMAIN unread' : unread'[j] = unread[i]
    BY <1>11, <1>t, <1>c DEF CancelTask
  <2> QED
    BY <2>v, <2>r, <2>l, <2>p, <2>u, Carry
<1>12. ASSUME NEW p \in Procs, NEW u \in Tasks, NEW op, Optimistic(p, u, op) PROVE OnItsWay(t)'
  <2>v. OnItsWay(t)
    BY <1>12, <1>t, <1>c, <1>n, <1>v DEF Optimistic
  <2>r. record'[t] = record[t] /\ conn' = conn /\ snapshot' = snapshot
    BY <1>12, <1>t, <1>c DEF Optimistic
  <2>l. local'[t] >= local[t]
    BY <1>12, <1>t, <1>c DEF Optimistic
  <2>p. \A q \in Procs : WillEmit(q, t) => WillEmit(q, t)' \/ OnItsWay(t)'
    BY <1>12, <1>t, <1>c, <2>r DEF WillEmit, Optimistic, At, Becomes
  <2>u. \A i \in DOMAIN unread : \E j \in DOMAIN unread' : unread'[j] = unread[i]
    BY <1>12, <1>t, <1>c DEF Optimistic
  <2> QED
    BY <2>v, <2>r, <2>l, <2>p, <2>u, Carry
<1>13. ASSUME NEW p \in Procs, NEW u \in Tasks, DismissTask(p, u) PROVE OnItsWay(t)'
  <2>v. OnItsWay(t)
    BY <1>13, <1>t, <1>c, <1>n, <1>v DEF DismissTask
  <2>r. record'[t] = record[t] /\ conn' = conn /\ snapshot' = snapshot
    BY <1>13, <1>t, <1>c DEF DismissTask
  <2>l. local'[t] >= local[t]
    BY <1>13, <1>t, <1>c DEF DismissTask
  <2>p. \A q \in Procs : WillEmit(q, t) => WillEmit(q, t)' \/ OnItsWay(t)'
    BY <1>13, <1>t, <1>c, <2>r DEF WillEmit, DismissTask, At, Becomes
  <2>u. \A i \in DOMAIN unread : \E j \in DOMAIN unread' : unread'[j] = unread[i]
    BY <1>13, <1>t, <1>c DEF DismissTask
  <2> QED
    BY <2>v, <2>r, <2>l, <2>p, <2>u, Carry
<1>14. ASSUME NEW p \in Procs, StartDraft(p) PROVE OnItsWay(t)'
  <2>v. OnItsWay(t)
    BY <1>14, <1>t, <1>c, <1>n, <1>v DEF StartDraft
  <2>r. record'[t] = record[t] /\ conn' = conn /\ snapshot' = snapshot
    BY <1>14, <1>t, <1>c DEF StartDraft
  <2>l. local'[t] >= local[t]
    BY <1>14, <1>t, <1>c DEF StartDraft
  <2>p. \A q \in Procs : WillEmit(q, t) => WillEmit(q, t)' \/ OnItsWay(t)'
    BY <1>14, <1>t, <1>c, <2>r DEF WillEmit, StartDraft, At, Becomes
  <2>u. \A i \in DOMAIN unread : \E j \in DOMAIN unread' : unread'[j] = unread[i]
    BY <1>14, <1>t, <1>c DEF StartDraft
  <2> QED
    BY <2>v, <2>r, <2>l, <2>p, <2>u, Carry
<1>15. ASSUME NEW p \in Procs, AnswerLost(p) PROVE OnItsWay(t)'
  <2>v. OnItsWay(t)
    BY <1>15, <1>t, <1>c, <1>n, <1>v DEF AnswerLost
  <2>r. record'[t] = record[t] /\ conn' = conn /\ snapshot' = snapshot
    BY <1>15, <1>t, <1>c DEF AnswerLost
  <2>l. local'[t] >= local[t]
    BY <1>15, <1>t, <1>c DEF AnswerLost
  <2>p. \A q \in Procs : WillEmit(q, t) => WillEmit(q, t)' \/ OnItsWay(t)'
    BY <1>15, <1>t, <1>c, <2>r DEF WillEmit, AnswerLost, At, Becomes
  <2>u. \A i \in DOMAIN unread : \E j \in DOMAIN unread' : unread'[j] = unread[i]
    BY <1>15, <1>t, <1>c DEF AnswerLost
  <2> QED
    BY <2>v, <2>r, <2>l, <2>p, <2>u, Carry
<1>16. ASSUME Connect PROVE OnItsWay(t)'
  BY <1>16 DEF Connect
<1>17. ASSUME SendSnapshot PROVE OnItsWay(t)'
  <2>1. Visible(t) /\ snapshot' = ListForUser /\ conn' = "sent" /\ record' = record
    BY <1>17, <1>n DEF SendSnapshot, Visible, Exists
  <2>2. snapshot'[t] = record'[t]
    BY <2>1, ListType
  <2> QED
    BY <1>t, <2>1, <2>2 DEF OnItsWay
<1>18. ASSUME HandleSnapshot PROVE OnItsWay(t)'
  <2>s. /\ record' = record /\ proc' = proc
        /\ OnItsWay(t) /\ ~ Tombed(t)
    BY <1>18, <1>n, <1>v DEF HandleSnapshot, ApplySnapshot, Handle, UpsertTask, RemoveTask, Tombed
  <2>1. CASE \E p \in Procs : WillEmit(p, t)
    BY <2>s, <2>1 DEF OnItsWay, WillEmit
  <2>2. CASE \E i \in DOMAIN unread : InStream(i, t)
    BY <1>18, <2>s, <2>2 DEF OnItsWay, InStream, HandleSnapshot
  <2>3. CASE conn = "sent" /\ snapshot[t] >= record[t]
    <3>1. snapshot[t] # 0 /\ record[t] # 0
      BY <1>n, <1>t, <2>s, <2>3
    <3>2. local'[t] >= record'[t]
      BY <1>18, <1>t, <2>s, <2>3, <3>1 DEF HandleSnapshot, ApplySnapshot
    <3> QED
      BY <1>18, <3>2 DEF OnItsWay, HandleSnapshot
  <2> QED
    BY <1>18, <2>s, <2>1, <2>2, <2>3 DEF OnItsWay, HandleSnapshot
<1>19. ASSUME HandleEntry PROVE OnItsWay(t)'
  <2>h. /\ unread \in Seq(Entries) /\ unread # <<>>
        /\ Head(unread) = unread[1] /\ Tail(unread) \in Seq(Entries)
        /\ Len(Tail(unread)) = Len(unread) - 1
        /\ \A i \in 1 .. Len(Tail(unread)) : Tail(unread)[i] = unread[i + 1]
        /\ Len(unread) \in Nat /\ Len(unread) # 0
        /\ DOMAIN unread = 1 .. Len(unread) /\ DOMAIN Tail(unread) = 1 .. Len(Tail(unread))
    BY <1>19, <1>t, HeadTailProperties, EmptySeq, LenProperties DEF HandleEntry
  <2>k. Head(unread).task \in Tasks /\ Head(unread).stamp \in Stamps /\ Head(unread).stamp \in Nat
    <3>1. Head(unread) \in Entries
      BY <2>h, HeadTailProperties
    <3> QED
      BY <1>t, <3>1 DEF Entries
  <2>s. /\ record' = record /\ proc' = proc
        /\ OnItsWay(t) /\ ~ Tombed(t)
    BY <1>19, <1>n, <1>v DEF HandleEntry, ApplySnapshot, Handle, UpsertTask, RemoveTask, Tombed
  <2>1. CASE \E p \in Procs : WillEmit(p, t)
    BY <2>s, <2>1 DEF OnItsWay, WillEmit
  <2>2. CASE \E i \in DOMAIN unread : InStream(i, t)
    <3>1. PICK i \in DOMAIN unread : InStream(i, t)
      BY <2>2
    <3>2. CASE i = 1
      <4>1. Head(unread).kind = "task" /\ Head(unread).task = t /\ Head(unread).stamp >= record[t]
        BY <2>h, <3>1, <3>2 DEF InStream
      <4>2. UpsertTask(t, Head(unread).stamp)
        BY <1>19, <4>1 DEF HandleEntry, Handle
      <4>3. local'[t] >= record'[t]
        BY <1>t, <2>s, <2>k, <4>1, <4>2 DEF UpsertTask
      <4> QED
        BY <1>19, <4>3 DEF OnItsWay, HandleEntry
    <3>3. CASE i # 1
      <4>1. i - 1 \in DOMAIN unread' /\ unread'[i - 1] = unread[i]
        <5>1. i \in 1 .. Len(unread) /\ unread' = Tail(unread)
          BY <1>19, <2>h DEF HandleEntry
        <5>2. i - 1 \in 1 .. Len(Tail(unread)) /\ (i - 1) + 1 = i
          <6> DEFINE n == Len(unread)
          <6>1. n \in Nat /\ i \in 1 .. n /\ i # 1 /\ Len(Tail(unread)) = n - 1
            BY <2>h, <3>3, <5>1
          <6> HIDE DEF n
          <6>2. i - 1 \in 1 .. (n - 1) /\ (i - 1) + 1 = i
            BY <6>1
          <6> QED
            BY <6>1, <6>2
        <5> QED
          BY <2>h, <5>1, <5>2
      <4>2. PICK j \in DOMAIN unread' : unread'[j] = unread[i]
        BY <4>1
      <4>3. InStream(j, t)'
        BY <2>s, <3>1, <4>2 DEF InStream
      <4> QED
        BY <4>2, <4>3 DEF OnItsWay
    <3> QED
      BY <3>2, <3>3
  <2>3. CASE conn = "live" /\ local[t] >= record[t]
    <3>1. UpsertTask(Head(unread).task, Head(unread).stamp) \/ RemoveTask(Head(unread).task)
      BY <1>19 DEF HandleEntry, Handle
    <3>2. local'[t] >= local[t] /\ local'[t] \in Nat
      BY <1>n, <2>k, <3>1, MergeKeeps, Bounds DEF TypeInv, TypeOK
    <3>3. local'[t] >= record'[t]
      BY <1>t, <2>s, <2>3, <3>2
    <3> QED
      BY <1>19, <3>3 DEF OnItsWay, HandleEntry
  <2> QED
    BY <1>19, <2>s, <2>1, <2>2, <2>3 DEF OnItsWay, HandleEntry
<1>20. ASSUME LoseConnection PROVE OnItsWay(t)'
  BY <1>20 DEF LoseConnection, Unconnected, Cut
<1>21. ASSUME Remount PROVE OnItsWay(t)'
  BY <1>21 DEF Remount, Cut
<1>22. ASSUME Reload PROVE OnItsWay(t)'
  BY <1>22 DEF Reload, Cut
<1>23. ASSUME ListTasks PROVE OnItsWay(t)'
  <2>v. OnItsWay(t)
    BY <1>23, <1>t, <1>c, <1>n, <1>v DEF ListTasks
  <2>r. record'[t] = record[t] /\ conn' = conn /\ snapshot' = snapshot
    BY <1>23, <1>t, <1>c DEF ListTasks
  <2>l. local'[t] >= local[t]
    BY <1>23, <1>t, <1>c DEF ListTasks
  <2>p. \A q \in Procs : WillEmit(q, t) => WillEmit(q, t)' \/ OnItsWay(t)'
    BY <1>23, <1>t, <1>c, <2>r DEF WillEmit, ListTasks
  <2>u. \A i \in DOMAIN unread : \E j \in DOMAIN unread' : unread'[j] = unread[i]
    BY <1>23, <1>t, <1>c DEF ListTasks
  <2> QED
    BY <2>v, <2>r, <2>l, <2>p, <2>u, Carry
<1>24. ASSUME LoadActive PROVE OnItsWay(t)'
  <2>v. OnItsWay(t)
    BY <1>24, <1>t, <1>c, <1>n, <1>v DEF LoadActive
  <2>r. record'[t] = record[t] /\ conn' = conn /\ snapshot' = snapshot
    BY <1>24, <1>t, <1>c DEF LoadActive
  <2>l. local'[t] >= local[t]
    BY <1>24, <1>t, <1>c DEF LoadActive
  <2>p. \A q \in Procs : WillEmit(q, t) => WillEmit(q, t)' \/ OnItsWay(t)'
    BY <1>24, <1>t, <1>c, <2>r DEF WillEmit, LoadActive
  <2>u. \A i \in DOMAIN unread : \E j \in DOMAIN unread' : unread'[j] = unread[i]
    BY <1>24, <1>t, <1>c DEF LoadActive
  <2> QED
    BY <2>v, <2>r, <2>l, <2>p, <2>u, Carry
<1>25. ASSUME GiveUp PROVE OnItsWay(t)'
  BY <1>25 DEF GiveUp
<1> QED
  BY <1>0, <1>1, <1>2, <1>3, <1>4, <1>5, <1>6, <1>7, <1>8, <1>9, <1>10, <1>11, <1>12, <1>13, <1>14, <1>15, <1>16, <1>17, <1>18, <1>19, <1>20, <1>21, <1>22, <1>23, <1>24, <1>25
     DEF Next, Step, UserActs, UseExistingOrRegenerate, SubmitInput, Follow

(* The three invariants always hold. *)
LEMMA InvCorrect == Spec => [](TypeInv /\ ClockInv /\ DeliverInv)
<1>1. Init => TypeInv /\ ClockInv
  BY TypeInit, ClockInit
<1>2. Init => DeliverInv
  BY DEF Init, DeliverInv
<1>3. TypeInv /\ ClockInv /\ DeliverInv /\ [Next]_vars => (TypeInv /\ ClockInv /\ DeliverInv)'
  BY TypeNext, ClockNext, DeliverNext
<1> QED
  BY <1>1, <1>2, <1>3, PTL DEF Spec

(* Nothing is lost between start_id, the snapshot and the stream: a tab     *)
(* that has handled all that its connection brought shows every listed task *)
(* as it is in Redis or newer, unless it saw the task removed or a process  *)
(* has yet to emit it (stream_events of sse.py and the store together).     *)
THEOREM CaughtUpCorrect == Spec => []CaughtUp
<1>1. ASSUME DeliverInv PROVE CaughtUp
  <2> SUFFICES ASSUME conn = "live", unread = <<>>, NEW t \in Tasks,
                      Visible(t), ~ Tombed(t), ~ Emitting(t)
               PROVE  local[t] >= record[t]
    BY DEF CaughtUp
  <2>1. OnItsWay(t)
    BY <1>1 DEF DeliverInv
  <2>2. ~ \E p \in Procs : WillEmit(p, t)
    BY DEF Emitting, WillEmit
  <2> QED
    BY <2>1, <2>2 DEF OnItsWay
<1> QED
  BY <1>1, InvCorrect, PTL

-----------------------------------------------------------------------------
(* What the tab shows of a task never becomes older (the guards of          *)
(* upsertTask, applySnapshot and loadActive; an optimistic change of the    *)
(* store is stamped later than anything that was ever written).             *)
THEOREM NeverOlderCorrect == Spec => NeverOlder
<1>1. ASSUME TypeInv, ClockInv, [Next]_vars, NEW t \in Tasks, Shown(t), Shown(t)'
      PROVE  local[t] <= local'[t]
  <2> USE DEF server, tab, client, vars
  <2>t. /\ local \in [Tasks -> Stamps] /\ local[t] \in Nat /\ clock \in Nat
        /\ local[t] <= local[t] /\ local[t] <= clock
        /\ \A c \in Stamps : c \in Nat
        /\ listing.tasks[t] \in Nat /\ snapshot[t] \in Nat
    <3>1. local \in [Tasks -> Stamps] /\ clock \in Nat
      BY <1>1, Bounds DEF TypeInv, TypeOK
    <3>2. local[t] \in Nat /\ local[t] <= clock /\ listing.tasks[t] \in Nat /\ snapshot[t] \in Nat
      BY <1>1, <3>1, Bounds DEF ClockInv, TypeInv, TypeOK
    <3>3. \A c \in Stamps : c \in Nat
      BY Bounds
    <3>4. local[t] <= local[t]
      BY <3>2
    <3> QED
      BY <3>1, <3>2, <3>3, <3>4
  <2>s. local'[t] # 0
    BY <1>1 DEF Shown
  <2>m. ASSUME NEW u \in Tasks, NEW s \in Stamps, UpsertTask(u, s) \/ RemoveTask(u)
        PROVE  local[t] <= local'[t]
    BY <2>t, <2>s, <2>m DEF UpsertTask, RemoveTask
  <2>1. CASE local' = local
    BY <2>1, <2>t
  <2>2. ASSUME NEW p \in Procs, Answer(p) PROVE local[t] <= local'[t]
    <3>1. proc[p].task \in Tasks /\ proc[p].stamp \in Stamps
      BY <1>1, <2>2 DEF Answer, At, TypeInv, TypeOK, Process
    <3> QED
      BY <2>2, <2>m, <3>1 DEF Answer
  <2>3. ASSUME NEW p \in Procs, NEW u \in Tasks, NEW op, Optimistic(p, u, op)
        PROVE  local[t] <= local'[t]
    BY <2>3, <2>t DEF Optimistic
  <2>4. CASE HandleSnapshot
    BY <2>4, <2>t, <2>s DEF HandleSnapshot, ApplySnapshot
  <2>5. CASE HandleEntry
    <3>1. Head(unread) \in Entries
      BY <1>1, <2>5, HeadTailProperties DEF HandleEntry, TypeInv
    <3>2. Head(unread).task \in Tasks /\ Head(unread).stamp \in Stamps
      BY <3>1 DEF Entries
    <3> QED
      BY <2>5, <2>m, <3>2 DEF HandleEntry, Handle
  <2>6. CASE Reload
    BY <2>6, <2>s, NothingType DEF Reload
  <2>7. CASE LoadActive
    BY <2>7, <2>t DEF LoadActive
  <2>8. [Next]_vars => \/ local' = local \/ HandleSnapshot \/ HandleEntry \/ Reload \/ LoadActive
                       \/ \E p \in Procs : Answer(p)
                       \/ \E p \in Procs, u \in Tasks, op \in Ops : Optimistic(p, u, op)
    BY DEF Next, Step, UserActs, UseExistingOrRegenerate, SubmitInput, Follow, Ops,
           Load, Store, EmitRead, EmitAppend, Create, Delete, Unlist, EmitRemoved, WorkerWrites,
           CancelTask, DismissTask, StartDraft, AnswerLost, Connect, SendSnapshot,
           LoseConnection, GiveUp, Remount, ListTasks
  <2> QED
    BY <1>1, <2>1, <2>2, <2>3, <2>4, <2>5, <2>6, <2>7, <2>8
<1>2. TypeInv /\ ClockInv /\ [Next]_vars
        => [\A t \in Tasks : Shown(t) /\ Shown(t)' => local[t] <= local'[t]]_vars
  BY <1>1
<1> QED
  BY <1>2, InvCorrect, PTL DEF Spec, NeverOlder

(* A task that was removed in this session comes back only by loadActive    *)
(* (applySnapshot and upsertTask ask dismissedTaskIds, loadActive does not). *)
THEOREM RemovedStaysAwayCorrect == Spec => RemovedStaysAway
<1>1. ASSUME TypeInv, [Next]_vars, NEW t \in Tasks, Tombed(t), Tombed(t)', ~ Shown(t), Shown(t)'
      PROVE  listing.at = "answered" /\ listing'.at = "none"
  <2> USE DEF server, tab, client, vars
  <2>t. local \in [Tasks -> Stamps] /\ local[t] = 0 /\ local'[t] # 0 /\ t \in tombs /\ t \in tombs'
    BY <1>1 DEF TypeInv, TypeOK, Shown, Tombed
  <2>m. ASSUME NEW u \in Tasks, NEW s, UpsertTask(u, s) \/ RemoveTask(u)
        PROVE  FALSE
    BY <2>t, <2>m DEF UpsertTask, RemoveTask, Tombed
  <2>1. local' # local
    BY <2>t
  <2>2. ASSUME NEW p \in Procs, Answer(p) PROVE FALSE
    <3>1. proc[p].task \in Tasks
      BY <1>1, <2>2 DEF Answer, At, TypeInv
    <3> QED
      BY <2>2, <2>m, <3>1 DEF Answer
  <2>3. ASSUME NEW p \in Procs, NEW u \in Tasks, NEW op, Optimistic(p, u, op)
        PROVE  FALSE
    BY <2>3, <2>t DEF Optimistic, Shown
  <2>4. CASE HandleSnapshot
    BY <2>4, <2>t DEF HandleSnapshot, ApplySnapshot, Tombed
  <2>5. CASE HandleEntry
    <3>1. Head(unread) \in Entries
      BY <1>1, <2>5, HeadTailProperties DEF HandleEntry, TypeInv
    <3>2. Head(unread).task \in Tasks
      BY <3>1 DEF Entries
    <3> QED
      BY <2>5, <2>m, <3>2 DEF HandleEntry, Handle
  <2>6. CASE Reload
    BY <2>6, <2>t DEF Reload
  <2>7. CASE LoadActive
    BY <2>7 DEF LoadActive, Listing
  <2>8. [Next]_vars => \/ local' = local \/ HandleSnapshot \/ HandleEntry \/ Reload \/ LoadActive
                       \/ \E p \in Procs : Answer(p)
                       \/ \E p \in Procs, u \in Tasks, op \in Ops : Optimistic(p, u, op)
    BY DEF Next, Step, UserActs, UseExistingOrRegenerate, SubmitInput, Follow, Ops,
           Load, Store, EmitRead, EmitAppend, Create, Delete, Unlist, EmitRemoved, WorkerWrites,
           CancelTask, DismissTask, StartDraft, AnswerLost, Connect, SendSnapshot,
           LoseConnection, GiveUp, Remount, ListTasks
  <2> QED
    BY <1>1, <2>1, <2>2, <2>3, <2>4, <2>5, <2>6, <2>7, <2>8
<1>2. TypeInv /\ [Next]_vars
        => [\A t \in Tasks : Tombed(t) /\ Tombed(t)' /\ ~ Shown(t) /\ Shown(t)'
              => listing.at = "answered" /\ listing'.at = "none"]_vars
  BY <1>1
<1> QED
  BY <1>2, InvCorrect, PTL DEF Spec, RemovedStaysAway


=============================================================================
