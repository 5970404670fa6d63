------------------------------ MODULE CaseInbox ------------------------------
(***************************************************************************)
(* The firm's court inbox: scheduled cycles download the petitions that    *)
(* e-mailed notices link to and file them as case_inbox rows; members      *)
(* accept, summon or dismiss the rows, which creates a case or promotes an *)
(* unfiled one, and upload petitions of their own.  Every repository call, *)
(* download, upload and deletion is one action, with those of other cycles *)
(* and members in between; any of them may be a process's last.            *)
(*                                                                         *)
(* One firm.  A petition is a model value; its client stands for the SSN   *)
(* digits and the name the matcher compares.                               *)
(***************************************************************************)
EXTENDS Naturals, FiniteSets, Sequences

CONSTANTS
    Docs,       \* petitions
    Uploads,    \* those members upload themselves
    Messages,   \* court notices
    LinksOf,    \* the petitions each notice links to, in order
    ClientOf,   \* whose petition it is, as far as its SSN can be read
    Reads,      \* the case numbers the agent may read in it
    Numbers, Clients,
    NoNumber, NoClient, NoDoc, NoMessage,
    Cycles,     \* worker processes running an ingest cycle
    Members,    \* members of the firm
    MaxRows, MaxCases,      \* bounds: ids of either table
    Budgets                 \* bounds: notices taken up and requests made

Budget == [notices : Nat, requests : Nat]
RowIds == 1 .. MaxRows
CaseIds == 1 .. MaxCases
Places == CaseIds \cup Numbers
Found == Clients \cup {NoClient}
Read == Numbers \cup {NoNumber}

ASSUME LinksAssumption == LinksOf \in [Messages -> Seq(Docs)]
ASSUME PetitionsAssumption ==
    /\ Uploads \subseteq Docs
    /\ ClientOf \in [Docs -> Found] /\ Reads \in [Docs -> SUBSET Read]
ASSUME BoundsAssumption == 
    {MaxRows, MaxCases} \subseteq Nat /\ Budgets \subseteq Budget
ASSUME NamesAssumption ==
    /\ NoNumber \notin Numbers /\ NoClient \notin Clients
    /\ NoDoc \notin Docs /\ NoMessage \notin Messages
    /\ CaseIds \cap Numbers = {}

VARIABLES
    rows,       \* the case_inbox table
    cases,      \* the cases table
    inbox,      \* rows whose petition is in R2
    files,      \* the petitions under cases/ in R2, by case number or case id
    used,       \* links that were downloaded
    cycle,      \* the ingest cycles
    member,     \* the members' requests
    left        \* what is left of either bound

vars == <<rows, cases, inbox, files, used, cycle, member, left>>

Settled == {"accepted", "failed_ingest"}
Statuses == {"none", "ingesting", "ready", "archived"} \cup Settled

Row == [status : Statuses, msg : Messages \cup {NoMessage},
        doc : Docs \cup {NoDoc}, case : CaseIds \cup {0}]
NoRow == [status |-> "none", msg |-> NoMessage, doc |-> NoDoc, case |-> 0]

Case == [status : {"none", "unfiled", "filed"}, client : Found, number : Read]
NoCase == [status |-> "none", client |-> NoClient, number |-> NoNumber]

(* A cycle at a label is about to make that call.  "gone": its worker died *)
(* there, or an exception took it out of the notice; what that worker does *)
(* next is another cycle.                                                  *)
Cycle == [at : {"idle", "probe", "download", "fingerprint", "insert",
                "upload", "ready", "failed", "gone"},
          msg : Messages \cup {NoMessage}, n : Nat, row : RowIds \cup {0}]
CycleIdle == [at |-> "idle", msg |-> NoMessage, n |-> 0, row |-> 0]

Member == [at : {"idle", "match", "target", "fetch", "open", "shelve",
                 "exists", "store", "create", "drop", "promote",
                 "mark", "clean"},
           op : {"accept", "dismiss", "upload"}, row : RowIds \cup {0},
           doc : Docs \cup {NoDoc}, case : CaseIds \cup {0}, number : Read]
MemberIdle == [at |-> "idle", op |-> "upload", row |-> 0, doc |-> NoDoc,
               case |-> 0, number |-> NoNumber]

Stored == {r \in RowIds : rows[r].status # "none"}

(* Only what is archived can be summoned; accept does both. *)
Open(op) == IF op = "accept" THEN {"ready", "archived"} ELSE {"ready"}

-----------------------------------------------------------------------------
(* Ingest. *)

Link(c) == <<cycle[c].msg, cycle[c].n>>
DocOf(c) == LinksOf[cycle[c].msg][cycle[c].n]

Moves(c, label) == cycle' = [cycle EXCEPT ![c].at = label]

Probing(m, n) == [at |-> "probe", msg |-> m, n |-> n, row |-> 0]

(* Done with this link: the notice's next one, if it has one. *)
NextLink(c) ==
    cycle' = [cycle EXCEPT ![c] =
        IF cycle[c].n < Len(LinksOf[cycle[c].msg])
        THEN Probing(cycle[c].msg, cycle[c].n + 1)
        ELSE CycleIdle]

Ingests == UNCHANGED <<cases, files, member, left>>

(* A cycle takes up a notice Gmail still returns. *)
Poll(c, m) ==
    /\ cycle[c] = CycleIdle /\ LinksOf[m] # <<>>
    /\ cycle' = [cycle EXCEPT ![c] = Probing(m, 1)]
    /\ left.notices > 0 /\ left' = [left EXCEPT !.notices = @ - 1]
    /\ UNCHANGED <<rows, cases, inbox, files, used, member>>

(* Any row of the notice counts as already processed. *)
Probe(c) ==
    /\ cycle[c].at = "probe"
    /\ IF \E r \in Stored : rows[r].msg = cycle[c].msg
       THEN NextLink(c)
       ELSE Moves(c, "download")
    /\ Ingests /\ UNCHANGED <<rows, inbox, used>>

(* A link answers once; it may be dead before. *)
Download(c) ==
    /\ cycle[c].at = "download"
    /\ \/ /\ Link(c) \notin used
          /\ used' = used \cup {Link(c)}
          /\ Moves(c, "fingerprint")
       \/ used' = used /\ NextLink(c)
    /\ Ingests /\ UNCHANGED <<rows, inbox>>

Fingerprint(c) ==
    /\ cycle[c].at = "fingerprint"
    /\ IF \E r \in Stored : rows[r].doc = DocOf(c)
       THEN NextLink(c)
       ELSE Moves(c, "insert")
    /\ Ingests /\ UNCHANGED <<rows, inbox, used>>

(* The unique indexes on case_inbox. *)
Taken(c) == \E r \in Stored : rows[r].msg = cycle[c].msg \/ rows[r].doc = DocOf(c)

Inserts(c) ==
    \E r \in RowIds :
        /\ r \notin Stored /\ 1 .. r - 1 \subseteq Stored
        /\ rows' = [rows EXCEPT ![r] = [NoRow EXCEPT
               !.status = "ingesting", !.msg = cycle[c].msg, !.doc = DocOf(c)]]
        /\ cycle' = [cycle EXCEPT ![c].at = "upload", ![c].row = r]

(* The probes alone are to keep petitions apart. *)
InsertUnindexed(c) ==
    /\ cycle[c].at = "insert"
    /\ Inserts(c)
    /\ Ingests /\ UNCHANGED <<inbox, used>>

(* create_ingesting; a lost race, and a failed insert, skip the link. *)
Insert(c) ==
    /\ cycle[c].at = "insert"
    /\ \/ ~Taken(c) /\ Inserts(c)
       \/ rows' = rows /\ NextLink(c)
    /\ Ingests /\ UNCHANGED <<inbox, used>>

(* The row is ready whatever became of its petition. *)
UploadUnchecked(c) ==
    /\ cycle[c].at = "upload"
    /\ \/ inbox' = inbox \cup {cycle[c].row}
       \/ inbox' = inbox
    /\ Moves(c, "ready")
    /\ Ingests /\ UNCHANGED <<rows, used>>

(* After its attempts the upload raises, out of the link. *)
UploadRaises(c) ==
    /\ cycle[c].at = "upload"
    /\ \/ inbox' = inbox \cup {cycle[c].row} /\ Moves(c, "ready")
       \/ inbox' = inbox /\ NextLink(c)
    /\ Ingests /\ UNCHANGED <<rows, used>>

(* Three attempts; all may fail. *)
Upload(c) ==
    /\ cycle[c].at = "upload"
    /\ \/ inbox' = inbox \cup {cycle[c].row} /\ Moves(c, "ready")
       \/ inbox' = inbox /\ Moves(c, "failed")
    /\ Ingests /\ UNCHANGED <<rows, used>>

(* mark_ready and mark_failed_ingest: only a row still ingesting. *)
Settle(c) ==
    /\ cycle[c].at \in {"ready", "failed"}
    /\ rows' = [rows EXCEPT ![cycle[c].row].status =
           IF @ # "ingesting" THEN @
           ELSE IF cycle[c].at = "ready" THEN "ready" ELSE "failed_ingest"]
    /\ NextLink(c)
    /\ Ingests /\ UNCHANGED <<inbox, used>>

Abandon(c) ==
    /\ cycle[c].at \notin {"idle", "gone"}
    /\ Moves(c, "gone")
    /\ Ingests /\ UNCHANGED <<rows, inbox, used>>

(* archive_stale_inbox: the ready rows that are 48 hours old. *)
Archive(S) ==
    /\ S # {} /\ \A r \in S : rows[r].status = "ready"
    /\ rows' = [r \in RowIds |-> IF r \in S
                   THEN [rows[r] EXCEPT !.status = "archived"] ELSE rows[r]]
    /\ UNCHANGED <<cases, inbox, files, used, cycle, member, left>>

-----------------------------------------------------------------------------
(* The members. *)

Goes(u, p) == member' = [member EXCEPT ![u] = p]
Then(u, label) == Goes(u, [member[u] EXCEPT !.at = label])
Ends(u) == Goes(u, MemberIdle)
Serves == UNCHANGED <<used, cycle>> /\ left' = left
Looks == Serves /\ UNCHANGED <<rows, cases, inbox, files>>
Asks == /\ left.requests > 0 /\ left' = [left EXCEPT !.requests = @ - 1]
        /\ UNCHANGED <<rows, cases, inbox, files, used, cycle>>

(* Accept or dismiss a row: its status decides, and whether the matcher    *)
(* has anything to go by.                                                  *)
Handle(u, op, r) ==
    /\ member[u] = MemberIdle
    /\ rows[r].status \in Open(op)
    /\ Goes(u, [MemberIdle EXCEPT
           !.op = op, !.row = r, !.doc = rows[r].doc,
           !.at = IF ClientOf[rows[r].doc] # NoClient THEN "match"
                  ELSE IF op = "accept" THEN "fetch" ELSE "mark"])
    /\ Asks

(* POST /cases. *)
UploadPetition(u, d) ==
    /\ member[u] = MemberIdle
    /\ Goes(u, [MemberIdle EXCEPT !.at = "fetch", !.doc = d])
    /\ Asks

UnfiledOf(d) ==
    {k \in CaseIds : cases[k].status = "unfiled" /\ cases[k].client = ClientOf[d]}

Targets(u) ==
    \E k \in UnfiledOf(member[u].doc) :
        Goes(u, [member[u] EXCEPT !.at = "target", !.case = k])

(* find_unfiled_match: one of the client's unfiled cases, if there is one. *)
Match(u) ==
    /\ member[u].at = "match"
    /\ \/ Targets(u)
       \/ /\ UnfiledOf(member[u].doc) = {}
          /\ Then(u, IF member[u].op = "accept" THEN "fetch" ELSE "mark")
    /\ Looks

(* The target is read again before anything is moved. *)
Target(u) ==
    /\ member[u].at = "target"
    /\ IF cases[member[u].case].status = "unfiled"
       THEN Then(u, "fetch") ELSE Ends(u)
    /\ Looks

(* The row's petition and what the agent reads in it; an unfiled case is   *)
(* not promoted without a number.                                          *)
Fetch(u) ==
    LET p == member[u] IN
    /\ p.at = "fetch"
    /\ IF p.op # "upload" /\ p.row \notin inbox
       THEN Ends(u)
       ELSE \E n \in Reads[p.doc] :
                Goes(u, IF p.case # 0
                        THEN IF n = NoNumber THEN MemberIdle
                             ELSE [p EXCEPT !.at = "store", !.number = n]
                        ELSE [p EXCEPT !.at = IF n = NoNumber THEN "open" ELSE "exists",
                                       !.number = n])
    /\ Looks

NewCase(u, k) ==
    /\ cases[k].status = "none"
    /\ \A j \in 1 .. k - 1 : cases[j].status # "none"
    /\ cases' = [cases EXCEPT ![k] =
           [status |-> IF member[u].number = NoNumber THEN "unfiled" ELSE "filed",
            client |-> ClientOf[member[u].doc], number |-> member[u].number]]

(* No number: an unfiled case, and then its document. *)
CreateUnfiled(u) ==
    /\ member[u].at = "open"
    /\ \E k \in CaseIds :
           /\ NewCase(u, k)
           /\ Goes(u, [member[u] EXCEPT !.at = "shelve", !.case = k])
    /\ Serves /\ UNCHANGED <<rows, inbox, files>>

(* The case is indexed, which may raise, and returned. *)
Returns(u, k) ==
    IF member[u].op = "upload" THEN Ends(u)
    ELSE Goes(u, [member[u] EXCEPT !.at = "mark", !.case = k, !.number = NoNumber])

Shelve(u) ==
    /\ member[u].at = "shelve"
    /\ files' = [files EXCEPT ![member[u].case] = member[u].doc]
    /\ Returns(u, member[u].case)
    /\ Serves /\ UNCHANGED <<rows, cases, inbox>>

NumberTaken(n) == \E k \in CaseIds : cases[k].number = n

Exists(u) ==
    /\ member[u].at = "exists"
    /\ IF NumberTaken(member[u].number) THEN Ends(u) ELSE Then(u, "store")
    /\ Looks

(* The petition goes to its place under the case number, over the one that *)
(* is there: a merge asks for no other case of that number, and a new case *)
(* may have lost the race since it did.                                    *)
Store(u) ==
    /\ member[u].at = "store"
    /\ files' = [files EXCEPT ![member[u].number] = member[u].doc]
    /\ Then(u, IF member[u].case = 0 THEN "create" ELSE "drop")
    /\ Serves /\ UNCHANGED <<rows, cases, inbox>>

(* Here the unique index on case_number decides. *)
Create(u) ==
    /\ member[u].at = "create"
    /\ IF NumberTaken(member[u].number)
       THEN Ends(u) /\ cases' = cases
       ELSE \E k \in CaseIds :
                NewCase(u, k) /\ Returns(u, k)
    /\ Serves /\ UNCHANGED <<rows, inbox, files>>

(* The old key is derived from the number the case will have. *)
DropByNumber(u) ==
    /\ member[u].at = "drop"
    /\ files' = [files EXCEPT ![member[u].case] = NoDoc, ![member[u].number] = NoDoc]
    /\ Then(u, "promote")
    /\ Serves /\ UNCHANGED <<rows, cases, inbox>>

(* The draft the unfiled case had; a failure is only logged. *)
Drop(u) ==
    /\ member[u].at = "drop"
    /\ files' \in {files, [files EXCEPT ![member[u].case] = NoDoc]}
    /\ Then(u, "promote")
    /\ Serves /\ UNCHANGED <<rows, cases, inbox>>

Promoted(u) ==
    /\ cases' = [cases EXCEPT ![member[u].case].status = "filed",
                              ![member[u].case].number = member[u].number]
    /\ Returns(u, member[u].case)

(* The earlier look at the target is trusted. *)
PromoteTrusting(u) ==
    /\ member[u].at = "promote"
    /\ IF \A k \in CaseIds \ {member[u].case} : cases[k].number # member[u].number
       THEN Promoted(u)
       ELSE Ends(u) /\ cases' = cases
    /\ Serves /\ UNCHANGED <<rows, inbox, files>>

(* promote_unfiled: UPDATE ... WHERE status = 'unfiled'. *)
Promote(u) ==
    /\ member[u].at = "promote"
    /\ IF cases[member[u].case].status = "unfiled" /\ ~NumberTaken(member[u].number)
       THEN Promoted(u)
       ELSE Ends(u) /\ cases' = cases
    /\ Serves /\ UNCHANGED <<rows, inbox, files>>

Marked(u) ==
    LET p == member[u] IN
    IF p.op = "accept"
    THEN /\ rows' = [rows EXCEPT ![p.row].status = "accepted", ![p.row].case = p.case]
         /\ Goes(u, [MemberIdle EXCEPT !.at = "clean", !.row = p.row])
    ELSE rows' = [rows EXCEPT ![p.row].status = "archived"] /\ Ends(u)

(* The status was looked at when the request began. *)
MarkTrusting(u) ==
    /\ member[u].at = "mark"
    /\ Marked(u)
    /\ Serves /\ UNCHANGED <<cases, inbox, files>>

(* mark_accepted, mark_dismissed_to_archive: from these statuses only. *)
Mark(u) ==
    LET p == member[u] IN
    /\ p.at = "mark"
    /\ IF rows[p.row].status \notin Open(p.op)
       THEN rows' = rows /\ Ends(u)
       ELSE Marked(u)
    /\ Serves /\ UNCHANGED <<cases, inbox, files>>

(* An accepted row's copy is deleted; a failure is only logged. *)
Clean(u) ==
    /\ member[u].at = "clean"
    /\ inbox' \in {inbox, inbox \ {member[u].row}}
    /\ Ends(u)
    /\ Serves /\ UNCHANGED <<rows, cases, files>>

(* A call raises, or the API process dies. *)
Raise(u) ==
    /\ member[u].at # "idle"
    /\ Ends(u)
    /\ Looks

-----------------------------------------------------------------------------
Init ==
    /\ rows = [r \in RowIds |-> NoRow]
    /\ cases = [k \in CaseIds |-> NoCase]
    /\ inbox = {} /\ used = {}
    /\ files = [p \in Places |-> NoDoc]
    /\ cycle = [c \in Cycles |-> CycleIdle]
    /\ left \in Budgets
    /\ member = [u \in Members |-> MemberIdle]

Ingest(c) ==
    \/ \E m \in Messages : Poll(c, m)
    \/ Probe(c) \/ Download(c) \/ Fingerprint(c) \/ Insert(c)
    \/ Upload(c) \/ Settle(c) \/ Abandon(c)

Serve(u) ==
    \/ \E op \in {"accept", "dismiss"}, r \in RowIds : Handle(u, op, r)
    \/ \E d \in Uploads : UploadPetition(u, d)
    \/ Match(u) \/ Target(u) \/ Fetch(u) \/ CreateUnfiled(u) \/ Shelve(u)
    \/ Exists(u) \/ Store(u) \/ Create(u) \/ Drop(u) \/ Promote(u)
    \/ Mark(u) \/ Clean(u) \/ Raise(u)

Next ==
    \/ \E c \in Cycles : Ingest(c)
    \/ \E S \in SUBSET RowIds : Archive(S)
    \/ \E u \in Members : Serve(u)

Spec == Init /\ [][Next]_vars

-----------------------------------------------------------------------------
(* Types.  A row has a case exactly when it was accepted, a case a number  *)
(* exactly when it is filed.                                               *)
TypeOK ==
    /\ rows \in [RowIds -> Row]
    /\ cases \in [CaseIds -> Case]
    /\ inbox \subseteq RowIds
    /\ files \in [Places -> Docs \cup {NoDoc}]
    /\ used \subseteq Messages \X Nat
    /\ cycle \in [Cycles -> Cycle]
    /\ member \in [Members -> Member]
    /\ left \in Budget
    /\ \A r \in RowIds : rows[r].status = "accepted" <=> rows[r].case # 0
    /\ \A k \in CaseIds : cases[k].status = "filed" <=> cases[k].number # NoNumber

(* However many cycles overlap and however many notices enclose it, a      *)
(* petition has one row, and a notice one: a firm never sees a petition    *)
(* twice (case_inbox's unique indexes, behind the two probes).             *)
OneRowPerPetition ==
    \A q, r \in Stored :
        q # r => rows[q].msg # rows[r].msg /\ rows[q].doc # rows[r].doc

(* A row is left ingesting only while a cycle is at work on it, or by one  *)
(* that died or raised at work: overlapping cycles never leave one behind  *)
(* to each other, and an upload given up settles it (nothing else would:   *)
(* the probe takes the notice for processed).                              *)
NoLimbo ==
    \A r \in RowIds :
        rows[r].status = "ingesting" =>
            \E c \in Cycles :
                /\ cycle[c].row = r
                /\ cycle[c].at \in {"upload", "ready", "failed", "gone"}

(* A row the inbox or the archive lists can be accepted or summoned: its   *)
(* petition is in R2, whatever other members did with it meanwhile.        *)
SummonableHasPetition ==
    \A r \in RowIds : rows[r].status \in {"ready", "archived"} => r \in inbox

(* The numbers under which there is a petition they were read in. *)
Documented(fs) == {n \in Numbers : fs[n] # NoDoc /\ n \in Reads[fs[n]]}

(* A filed case has in R2, under its case number, a petition in which that *)
(* number was read, wherever the requests that wrote it there stopped: its *)
(* own, or that of a request that lost the race to it or tried to merge    *)
(* into its number (cases/service.py:132, case_inbox/service.py:335).      *)
FiledHasPetition ==
    \A k \in CaseIds : cases[k].status = "filed" =>
        cases[k].number \in Documented(files)

(* Accepted and failed rows are final: of several members who accept,      *)
(* summon or dismiss a row at once, one wins, and the others, and the      *)
(* archiver, change nothing.                                               *)
SettledIsFinal ==
    [][\A r \in RowIds : rows[r].status \in Settled => rows'[r] = rows[r]]_vars

(* A filed case keeps its number: a second promotion never overwrites it.  *)
FiledIsFinal ==
    [][\A k \in CaseIds : cases[k].status = "filed" => cases'[k] = cases[k]]_vars
=============================================================================
