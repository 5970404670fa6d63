-------------------------- MODULE CaseInbox_proofs ---------------------------
(***************************************************************************)
(* Safety of the court inbox for any number of petitions, notices, cycles, *)
(* members and requests.                                                   *)
(***************************************************************************)
EXTENDS CaseInbox, TLAPS

Holding == {"upload", "ready", "failed"}

(* A cycle at work has a link; one that inserted a row has it to itself    *)
(* until it settles it, and one that will call it ready has uploaded it.   *)
CyclesSafe ==
    \A c \in Cycles :
        /\ cycle[c].at \notin {"idle", "gone"} =>
              /\ cycle[c].msg \in Messages
              /\ cycle[c].n \in 1 .. Len(LinksOf[cycle[c].msg])
        /\ cycle[c].at \in Holding =>
              /\ cycle[c].row \in RowIds
              /\ rows[cycle[c].row].status = "ingesting"
              /\ \A d \in Cycles \ {c} :
                    cycle[d].at \in Holding => cycle[d].row # cycle[c].row
        /\ cycle[c].at = "ready" => cycle[c].row \in inbox

(* A row is of a petition. *)
RowsSafe == \A r \in Stored : rows[r].doc \in Docs

(* What a request has in hand at each call. *)
RequestSafe(p, fs, rs) ==
    /\ p.at \notin {"idle", "clean"} => p.doc \in Docs
    /\ p.op # "upload" \/ p.at \in {"mark", "clean"} => p.row \in RowIds
    /\ p.at \in {"target", "shelve", "drop", "promote"} => p.case \in CaseIds
    /\ p.at = "mark" => p.op # "upload" /\ (p.op = "accept" => p.case \in CaseIds)
    /\ p.at = "match" => p.op # "upload"
    /\ p.at = "open" => p.number = NoNumber
    /\ p.at \in {"exists", "store", "create", "drop", "promote"} => p.number \in Numbers
    /\ p.at \in {"exists", "store"} => p.number \in Reads[p.doc]
    /\ p.at \in {"create", "drop", "promote"} => p.number \in Documented(fs)
    /\ p.at = "clean" => rs[p.row].status = "accepted"

MembersSafe == \A u \in Members : RequestSafe(member[u], files, rows)

IInv ==
    /\ TypeOK /\ RowsSafe /\ CyclesSafe /\ MembersSafe
    /\ OneRowPerPetition /\ NoLimbo
    /\ SummonableHasPetition /\ FiledHasPetition

-----------------------------------------------------------------------------
(* Cycles. *)

(* Leaving a link, a cycle is idle or about to probe the next one. *)
LEMMA NextLinkLeaves ==
    ASSUME IInv, NEW c \in Cycles, cycle[c].at \notin {"idle", "gone"}, NextLink(c)
    PROVE  /\ cycle' \in [Cycles -> Cycle]
           /\ \A d \in Cycles \ {c} : cycle'[d] = cycle[d]
           /\ \/ cycle'[c] = CycleIdle
              \/ /\ cycle'[c].at = "probe" /\ cycle'[c].msg \in Messages
                 /\ cycle'[c].n \in 1 .. Len(LinksOf[cycle'[c].msg])
<1>1. /\ cycle[c].msg \in Messages
      /\ cycle[c].n \in 1 .. Len(LinksOf[cycle[c].msg])
      /\ cycle \in [Cycles -> Cycle] /\ cycle[c] \in Cycle
    BY DEF IInv, TypeOK, CyclesSafe
<1>2. Len(LinksOf[cycle[c].msg]) \in Nat
    BY <1>1, LinksAssumption
<1>3. CASE cycle[c].n < Len(LinksOf[cycle[c].msg])
    <2> DEFINE p == Probing(cycle[c].msg, cycle[c].n + 1)
    <2>2. p \in Cycle
        BY <1>1 DEF Cycle, Probing
    <2>3. cycle' = [cycle EXCEPT ![c] = p]
        BY <1>3 DEF NextLink
    <2>4. p.at = "probe" /\ p.msg = cycle[c].msg /\ p.n = cycle[c].n + 1
        BY DEF Probing
    <2> HIDE DEF p
    <2> QED BY <1>1, <1>2, <1>3, <2>2, <2>3, <2>4
<1>4. CASE ~(cycle[c].n < Len(LinksOf[cycle[c].msg]))
    <2>1. cycle' = [cycle EXCEPT ![c] = CycleIdle]
        BY <1>4 DEF NextLink
    <2> QED BY <1>1, <2>1 DEF Cycle, CycleIdle
<1> QED BY <1>3, <1>4

(* What a cycle does, no request notices. *)
LEMMA CycleFrame ==
    ASSUME IInv, Ingests,
           \A r \in RowIds : rows[r].status = "accepted" => rows'[r].status = "accepted"
    PROVE  MembersSafe' /\ FiledHasPetition'
<1>1. UNCHANGED <<cases, files, member>>
    BY DEF Ingests
<1>2. FiledHasPetition'
    BY <1>1 DEF IInv, FiledHasPetition
<1>3. MembersSafe'
    BY <1>1 DEF IInv, MembersSafe, RequestSafe
<1> QED BY <1>2, <1>3

(* A step that only moves a cycle that holds no row. *)
LEMMA CycleMoves ==
    ASSUME IInv, NEW c \in Cycles, cycle[c].at \notin Holding,
           UNCHANGED <<rows, inbox, cases, files, member>>,
           left' \in Budget, used' \subseteq Messages \X Nat,
           cycle' \in [Cycles -> Cycle],
           \A d \in Cycles \ {c} : cycle'[d] = cycle[d],
           cycle'[c].at \notin Holding,
           cycle'[c].at \notin {"idle", "gone"} =>
               /\ cycle'[c].msg \in Messages
               /\ cycle'[c].n \in 1 .. Len(LinksOf[cycle'[c].msg]),
           cycle[c].at = "gone" => cycle'[c] = cycle[c]
    PROVE  IInv'
<1>1. TypeOK'
    BY DEF IInv, TypeOK
<1>2. CyclesSafe'
    BY DEF IInv, CyclesSafe, Holding
<1>3. NoLimbo'
    BY DEF IInv, NoLimbo, Holding
<1>4. /\ MembersSafe' /\ OneRowPerPetition' /\ RowsSafe'
      /\ SummonableHasPetition' /\ FiledHasPetition'
    BY DEF IInv, MembersSafe, RequestSafe, OneRowPerPetition, RowsSafe, SummonableHasPetition,
           FiledHasPetition, Stored
<1> QED BY <1>1, <1>2, <1>3, <1>4 DEF IInv

(* A poll only puts a cycle to work. *)
LEMMA PollSafe ==
    ASSUME IInv, NEW c \in Cycles, NEW m \in Messages, Poll(c, m)
    PROVE  IInv'
<1> DEFINE p == Probing(m, 1)
<1>1. cycle \in [Cycles -> Cycle] /\ left \in Budget /\ used \subseteq Messages \X Nat
    BY DEF IInv, TypeOK
<1>2. p \in Cycle /\ p.at = "probe" /\ p.msg = m /\ p.n = 1
    BY DEF Probing, Cycle
<1>3. 1 \in 1 .. Len(LinksOf[m])
    BY LinksAssumption DEF Poll
<1>4. left' \in Budget
    BY <1>1 DEF Poll, Budget
<1>5. cycle' = [cycle EXCEPT ![c] = p] /\ cycle[c].at = "idle"
    BY DEF Poll, CycleIdle
<1> HIDE DEF p
<1>6. UNCHANGED <<rows, inbox, cases, files, member, used>>
    BY DEF Poll
<1> QED BY <1>1, <1>2, <1>3, <1>4, <1>5, <1>6, CycleMoves DEF Holding

(* The link is left, or the cycle goes on to the next call about it. *)
LEMMA LookSafe ==
    ASSUME IInv, NEW c \in Cycles,
           \/ Probe(c) \/ Download(c) \/ Fingerprint(c)
           \/ Insert(c) /\ rows' = rows /\ NextLink(c)
    PROVE  IInv'
<1>1. /\ cycle \in [Cycles -> Cycle] /\ left \in Budget /\ used \subseteq Messages \X Nat
      /\ cycle[c] \in Cycle
    BY DEF IInv, TypeOK
<1>2. cycle[c].at \in {"probe", "download", "fingerprint", "insert"}
    BY DEF Probe, Download, Fingerprint, Insert
<1>3. cycle[c].msg \in Messages /\ cycle[c].n \in 1 .. Len(LinksOf[cycle[c].msg])
    BY <1>2 DEF IInv, CyclesSafe
<1>4. left' \in Budget /\ used' \subseteq Messages \X Nat
    BY <1>1, <1>3 DEF Probe, Download, Fingerprint, Insert, Ingests, Link, Cycle
<1>5. UNCHANGED <<rows, inbox, cases, files, member>>
    BY DEF Probe, Download, Fingerprint, Insert, Ingests
<1>6. CASE NextLink(c)
    BY <1>1, <1>2, <1>4, <1>5, <1>6, NextLinkLeaves, CycleMoves DEF Holding, CycleIdle
<1>7. CASE \E l \in {"download", "fingerprint", "insert"} : Moves(c, l)
    <2> PICK l \in {"download", "fingerprint", "insert"} : Moves(c, l)
        BY <1>7
    <2>1. [cycle[c] EXCEPT !.at = l] \in Cycle
        BY <1>1 DEF Cycle
    <2>2. cycle' = [cycle EXCEPT ![c] = [cycle[c] EXCEPT !.at = l]]
        BY <1>1 DEF Moves
    <2>3. cycle'[c].at = l /\ cycle'[c].msg = cycle[c].msg /\ cycle'[c].n = cycle[c].n
        BY <1>1, <2>2 DEF Cycle
    <2> QED BY <1>1, <1>2, <1>3, <1>4, <1>5, <2>1, <2>2, <2>3, CycleMoves DEF Holding
<1> QED BY <1>6, <1>7 DEF Probe, Download, Fingerprint, Insert

(* A row is inserted only if none is there for its notice. *)
LEMMA InsertSafe ==
    ASSUME IInv, NEW c \in Cycles, Insert(c), ~Taken(c), Inserts(c)
    PROVE  IInv'
<1> DEFINE new(r) == [NoRow EXCEPT !.status = "ingesting", !.msg = cycle[c].msg,
                                   !.doc = DocOf(c)]
<1>1. PICK r \in RowIds :
          /\ r \notin Stored
          /\ rows' = [rows EXCEPT ![r] = new(r)]
          /\ cycle' = [cycle EXCEPT ![c].at = "upload", ![c].row = r]
    BY DEF Inserts
<1>2. /\ cycle \in [Cycles -> Cycle] /\ cycle[c] \in Cycle
      /\ rows \in [RowIds -> Row] /\ cycle[c].at = "insert"
    BY DEF IInv, TypeOK, Insert
<1>3. /\ cycle[c].msg \in Messages /\ cycle[c].n \in 1 .. Len(LinksOf[cycle[c].msg])
      /\ DocOf(c) \in Docs
    BY <1>2, LinksAssumption DEF IInv, CyclesSafe, DocOf
<1>4. /\ new(r) \in Row /\ new(r).status = "ingesting" /\ new(r).case = 0
      /\ new(r).msg = cycle[c].msg /\ new(r).doc = DocOf(c)
    BY <1>3 DEF Row, NoRow, Statuses
<1> HIDE DEF new
<1>5. /\ rows'[r] = new(r) /\ rows' \in [RowIds -> Row]
      /\ \A q \in RowIds \ {r} : rows'[q] = rows[q]
    BY <1>1, <1>2, <1>4
<1>6. /\ cycle' \in [Cycles -> Cycle]
      /\ cycle'[c].at = "upload" /\ cycle'[c].row = r
      /\ cycle'[c].msg = cycle[c].msg /\ cycle'[c].n = cycle[c].n
      /\ \A d \in Cycles \ {c} : cycle'[d] = cycle[d]
    BY <1>1, <1>2 DEF Cycle
<1>7. rows[r].status = "none"
    BY <1>1 DEF Stored
<1>8. UNCHANGED <<inbox, used, cases, files, member, left>>
    BY DEF Insert, Ingests
<1>9. TypeOK'
    BY <1>4, <1>5, <1>6, <1>8 DEF IInv, TypeOK
<1>10. CyclesSafe'
    BY <1>2, <1>3, <1>4, <1>5, <1>6, <1>7, <1>8 DEF IInv, CyclesSafe, Holding
<1>11. OneRowPerPetition' /\ RowsSafe'
    <2>1. Stored' = Stored \cup {r}
        BY <1>4, <1>5 DEF Stored
    <2>2. \A q \in Stored : rows[q].msg # new(r).msg /\ rows[q].doc # new(r).doc
        BY <1>4 DEF Taken
    <2> QED BY <1>1, <1>3, <1>4, <1>5, <2>1, <2>2 DEF IInv, OneRowPerPetition, RowsSafe, Stored
<1>12. NoLimbo'
    BY <1>2, <1>4, <1>5, <1>6 DEF IInv, NoLimbo
<1>13. SummonableHasPetition'
    BY <1>4, <1>5, <1>8 DEF IInv, SummonableHasPetition
<1>14. MembersSafe' /\ FiledHasPetition'
    BY <1>5, <1>7, CycleFrame DEF Insert
<1> QED BY <1>9, <1>10, <1>11, <1>12, <1>13, <1>14 DEF IInv

(* An upload adds a petition and loses none. *)
LEMMA UploadSafe ==
    ASSUME IInv, NEW c \in Cycles, Upload(c)
    PROVE  IInv'
<1>1. /\ cycle \in [Cycles -> Cycle] /\ cycle[c] \in Cycle /\ cycle[c].at = "upload"
      /\ inbox \subseteq RowIds /\ cycle[c].row \in RowIds
    BY DEF IInv, TypeOK, Upload, CyclesSafe, Holding
<1>2. PICK l \in {"ready", "failed"} :
          /\ Moves(c, l)
          /\ inbox' = IF l = "ready" THEN inbox \cup {cycle[c].row} ELSE inbox
    BY DEF Upload
<1>3. [cycle[c] EXCEPT !.at = l] \in Cycle
    BY <1>1 DEF Cycle
<1>4. cycle' = [cycle EXCEPT ![c] = [cycle[c] EXCEPT !.at = l]]
    BY <1>1, <1>2 DEF Moves
<1>5. /\ cycle' \in [Cycles -> Cycle] /\ cycle'[c].at = l
      /\ cycle'[c].row = cycle[c].row /\ cycle'[c].msg = cycle[c].msg
      /\ cycle'[c].n = cycle[c].n
      /\ \A d \in Cycles \ {c} : cycle'[d] = cycle[d]
    BY <1>1, <1>3, <1>4 DEF Cycle
<1>6. UNCHANGED <<rows, used, cases, files, member, left>>
    BY DEF Upload, Ingests
<1>7. inbox \subseteq inbox' /\ inbox' \subseteq RowIds
    BY <1>1, <1>2
<1>8. TypeOK'
    BY <1>5, <1>6, <1>7 DEF IInv, TypeOK
<1>9. CyclesSafe'
    BY <1>1, <1>2, <1>5, <1>6, <1>7 DEF IInv, CyclesSafe, Holding
<1>10. OneRowPerPetition' /\ RowsSafe' /\ SummonableHasPetition'
    BY <1>6, <1>7 DEF IInv, OneRowPerPetition, RowsSafe, Stored, SummonableHasPetition
<1>11. NoLimbo'
    BY <1>1, <1>5, <1>6 DEF IInv, NoLimbo
<1>12. MembersSafe' /\ FiledHasPetition'
    BY <1>6, CycleFrame DEF Upload
<1> QED BY <1>8, <1>9, <1>10, <1>11, <1>12 DEF IInv

(* A cycle settles its own row. *)
LEMMA SettleSafe ==
    ASSUME IInv, NEW c \in Cycles, Settle(c)
    PROVE  IInv'
<1> DEFINE r == cycle[c].row
           to == IF cycle[c].at = "ready" THEN "ready" ELSE "failed_ingest"
<1>1. /\ cycle \in [Cycles -> Cycle] /\ cycle[c].at \in {"ready", "failed"}
      /\ rows \in [RowIds -> Row] /\ r \in RowIds /\ rows[r].status = "ingesting"
    BY DEF IInv, TypeOK, Settle, CyclesSafe, Holding
<1>2. /\ cycle' \in [Cycles -> Cycle]
      /\ \A d \in Cycles \ {c} : cycle'[d] = cycle[d]
      /\ cycle'[c].at \in {"idle", "probe"}
      /\ cycle'[c].at = "probe" =>
            /\ cycle'[c].msg \in Messages
            /\ cycle'[c].n \in 1 .. Len(LinksOf[cycle'[c].msg])
    BY <1>1, NextLinkLeaves DEF Settle, CycleIdle
<1>3. rows' = [rows EXCEPT ![r].status = to]
    BY <1>1 DEF Settle
<1>4. /\ rows' \in [RowIds -> Row] /\ rows'[r].status = to
      /\ rows'[r].case = rows[r].case /\ rows'[r].msg = rows[r].msg
      /\ rows'[r].doc = rows[r].doc
      /\ \A q \in RowIds \ {r} : rows'[q] = rows[q]
    BY <1>1, <1>3 DEF Row, Statuses, Settled
<1>5. UNCHANGED <<inbox, used, cases, files, member, left>>
    BY DEF Settle, Ingests
<1>6. TypeOK'
    BY <1>1, <1>2, <1>4, <1>5 DEF IInv, TypeOK
<1>7. CyclesSafe'
    BY <1>1, <1>2, <1>4, <1>5 DEF IInv, CyclesSafe, Holding
<1>8. OneRowPerPetition' /\ RowsSafe'
    BY <1>1, <1>4 DEF IInv, OneRowPerPetition, RowsSafe, Stored
<1>9. NoLimbo'
    <2> SUFFICES ASSUME NEW q \in RowIds, rows'[q].status = "ingesting"
                 PROVE  \E d \in Cycles : /\ cycle'[d].row = q
                            /\ cycle'[d].at \in {"upload", "ready", "failed", "gone"}
        BY DEF NoLimbo
    <2>1. q # r /\ rows[q].status = "ingesting"
        BY <1>4
    <2>2. PICK d \in Cycles : /\ cycle[d].row = q
                              /\ cycle[d].at \in {"upload", "ready", "failed", "gone"}
        BY <2>1 DEF IInv, NoLimbo
    <2> QED BY <1>2, <2>1, <2>2
<1>10. SummonableHasPetition'
    BY <1>1, <1>4, <1>5 DEF IInv, SummonableHasPetition, CyclesSafe
<1>11. MembersSafe' /\ FiledHasPetition'
    BY <1>1, <1>4, CycleFrame DEF Settle
<1> QED BY <1>6, <1>7, <1>8, <1>9, <1>10, <1>11 DEF IInv

(* A cycle that dies accounts for the row it was at work on. *)
LEMMA AbandonSafe ==
    ASSUME IInv, NEW c \in Cycles, Abandon(c)
    PROVE  IInv'
<1>1. /\ cycle \in [Cycles -> Cycle] /\ cycle[c] \in Cycle
      /\ cycle[c].at \notin {"idle", "gone"}
    BY DEF IInv, TypeOK, Abandon
<1>2. [cycle[c] EXCEPT !.at = "gone"] \in Cycle
    BY <1>1 DEF Cycle
<1>3. cycle' = [cycle EXCEPT ![c] = [cycle[c] EXCEPT !.at = "gone"]]
    BY <1>1 DEF Abandon, Moves
<1>4. /\ cycle' \in [Cycles -> Cycle] /\ cycle'[c].at = "gone"
      /\ cycle'[c].row = cycle[c].row
      /\ \A d \in Cycles \ {c} : cycle'[d] = cycle[d]
    BY <1>1, <1>2, <1>3 DEF Cycle
<1>5. UNCHANGED <<rows, inbox, used, cases, files, member, left>>
    BY DEF Abandon, Ingests
<1>6. TypeOK'
    BY <1>4, <1>5 DEF IInv, TypeOK
<1>7. CyclesSafe'
    BY <1>4, <1>5 DEF IInv, CyclesSafe, Holding
<1>8. NoLimbo'
    BY <1>4, <1>5 DEF IInv, NoLimbo
<1>9. OneRowPerPetition' /\ RowsSafe' /\ SummonableHasPetition'
    BY <1>5 DEF IInv, OneRowPerPetition, RowsSafe, Stored, SummonableHasPetition
<1>10. MembersSafe' /\ FiledHasPetition'
    BY <1>5, CycleFrame DEF Abandon
<1> QED BY <1>6, <1>7, <1>8, <1>9, <1>10 DEF IInv

-----------------------------------------------------------------------------
(* Rows that change under the members. *)

(* Archived rows were ready. *)
LEMMA ArchiveSafe ==
    ASSUME IInv, NEW S \in SUBSET RowIds, Archive(S)
    PROVE  IInv'
<1>1. rows \in [RowIds -> Row] /\ \A r \in S : rows[r].status = "ready"
    BY DEF IInv, TypeOK, Archive
<1>2. \A r \in S : [rows[r] EXCEPT !.status = "archived"] \in Row
    BY <1>1 DEF Row, Statuses
<1>3. /\ rows' \in [RowIds -> Row]
      /\ \A r \in RowIds : /\ rows'[r].case = rows[r].case
                           /\ rows'[r].msg = rows[r].msg /\ rows'[r].doc = rows[r].doc
      /\ \A r \in S : rows'[r].status = "archived"
      /\ \A r \in RowIds \ S : rows'[r] = rows[r]
    BY <1>1, <1>2 DEF Archive, Row
<1>4. UNCHANGED <<inbox, used, cases, files, member, left, cycle>>
    BY DEF Archive
<1>5. TypeOK'
    BY <1>1, <1>3, <1>4 DEF IInv, TypeOK
<1>6. CyclesSafe'
    BY <1>1, <1>3, <1>4 DEF IInv, CyclesSafe, Holding
<1>7. MembersSafe'
    BY <1>1, <1>3, <1>4 DEF IInv, MembersSafe, RequestSafe
<1>8. OneRowPerPetition' /\ RowsSafe'
    BY <1>1, <1>3 DEF IInv, OneRowPerPetition, RowsSafe, Stored
<1>9. NoLimbo' /\ SummonableHasPetition' /\ FiledHasPetition'
    BY <1>1, <1>3, <1>4 DEF IInv, NoLimbo, SummonableHasPetition, FiledHasPetition
<1> QED BY <1>5, <1>6, <1>7, <1>8, <1>9 DEF IInv

-----------------------------------------------------------------------------
(* Requests. *)

(* A request's step that writes neither rows nor their petitions. *)
LEMMA MemberMoves ==
    ASSUME IInv, NEW u \in Members, NEW p \in Member,
           member' = [member EXCEPT ![u] = p], RequestSafe(p, files', rows),
           UNCHANGED <<rows, inbox, cycle, used>>, left' \in Budget,
           cases' \in [CaseIds -> Case],
           \A k \in CaseIds : cases'[k].status = "filed" <=> cases'[k].number # NoNumber,
           FiledHasPetition',
           files' \in [Places -> Docs \cup {NoDoc}],
           Documented(files) \subseteq Documented(files')
    PROVE  IInv'
<1>1. member \in [Members -> Member]
    BY DEF IInv, TypeOK
<1>2. TypeOK'
    BY <1>1 DEF IInv, TypeOK
<1>3. MembersSafe'
    <2> SUFFICES ASSUME NEW v \in Members PROVE RequestSafe(member'[v], files', rows)
        BY DEF MembersSafe
    <2>1. CASE v = u
        BY <1>1, <2>1
    <2>2. CASE v # u
        <3>1. member'[v] = member[v] /\ RequestSafe(member[v], files, rows)
            BY <1>1, <2>2 DEF IInv, MembersSafe
        <3> QED BY <3>1 DEF RequestSafe
    <2> QED BY <2>1, <2>2
<1>4. /\ RowsSafe' /\ CyclesSafe' /\ OneRowPerPetition' /\ NoLimbo'
      /\ SummonableHasPetition'
    BY DEF IInv, RowsSafe, CyclesSafe, Holding, OneRowPerPetition, Stored, NoLimbo,
           SummonableHasPetition
<1> QED BY <1>2, <1>3, <1>4 DEF IInv

(* One that writes nothing. *)
LEMMA MemberLooks ==
    ASSUME IInv, NEW u \in Members, NEW p \in Member,
           member' = [member EXCEPT ![u] = p], RequestSafe(p, files', rows),
           UNCHANGED <<rows, inbox, cycle, used, cases, files>>, left' \in Budget
    PROVE  IInv'
BY MemberMoves DEF IInv, TypeOK, FiledHasPetition

(* A request that ends leaves nothing behind. *)
LEMMA IdleSafe == MemberIdle \in Member /\ \A fs, rs : RequestSafe(MemberIdle, fs, rs)
BY DEF MemberIdle, Member, Read, RequestSafe

(* A member's request begins with nothing in hand. *)
LEMMA HandleSafe ==
    ASSUME IInv, NEW u \in Members, NEW op \in {"accept", "dismiss"}, NEW r \in RowIds,
           Handle(u, op, r)
    PROVE  IInv'
<1> DEFINE l == IF ClientOf[rows[r].doc] # NoClient THEN "match"
                ELSE IF op = "accept" THEN "fetch" ELSE "mark"
           p == [MemberIdle EXCEPT !.op = op, !.row = r, !.doc = rows[r].doc, !.at = l]
<1>1. rows[r] \in Row /\ left \in Budget
    BY DEF IInv, TypeOK
<1>2. rows[r].doc \in Docs /\ rows[r].status \in Open(op)
    BY DEF IInv, RowsSafe, Stored, Handle, Open
<1>3. /\ p \in Member /\ p.at = l /\ p.op = op /\ p.row = r /\ p.doc = rows[r].doc
      /\ op = "accept" => l # "mark"
    BY <1>1, <1>2 DEF MemberIdle, Member, Read
<1>4. /\ member' = [member EXCEPT ![u] = p] /\ left' \in Budget
      /\ UNCHANGED <<rows, inbox, cycle, used, cases, files>>
    BY <1>1 DEF Handle, Goes, Asks, Budget
<1>5. l \in {"match", "fetch", "mark"}
    OBVIOUS
<1> HIDE DEF p, l
<1>6. RequestSafe(p, files', rows)
    BY <1>2, <1>3, <1>5 DEF RequestSafe
<1> QED BY <1>3, <1>4, <1>6, MemberLooks

(* An uploaded petition begins with nothing in hand. *)
LEMMA UploadPetitionSafe ==
    ASSUME IInv, NEW u \in Members, NEW d \in Docs, UploadPetition(u, d)
    PROVE  IInv'
<1> DEFINE p == [MemberIdle EXCEPT !.at = "fetch", !.doc = d]
<1>1. p \in Member /\ RequestSafe(p, files', rows)
    BY DEF MemberIdle, Member, Read, RequestSafe
<1>2. /\ member' = [member EXCEPT ![u] = p] /\ left' \in Budget
      /\ UNCHANGED <<rows, inbox, cycle, used, cases, files>>
    BY DEF UploadPetition, Goes, Asks, Budget, IInv, TypeOK
<1> HIDE DEF p
<1> QED BY <1>1, <1>2, MemberLooks

(* A request that raises leaves what it has done. *)
LEMMA RaiseSafe ==
    ASSUME IInv, NEW u \in Members, Raise(u)
    PROVE  IInv'
BY IdleSafe, MemberLooks DEF Raise, Ends, Goes, Looks, Serves, IInv, TypeOK

(* The next call of a request that looks, and what it must have in hand. *)
LEMMA ThenSafe ==
    ASSUME IInv, NEW u \in Members, NEW l, Then(u, l), Looks,
           RequestSafe([member[u] EXCEPT !.at = l], files, rows),
           [member[u] EXCEPT !.at = l] \in Member
    PROVE  IInv'
<1> DEFINE p == [member[u] EXCEPT !.at = l]
<1>1. member' = [member EXCEPT ![u] = p]
    BY DEF Then, Goes
<1>2. UNCHANGED <<rows, inbox, cycle, used, cases, files>> /\ left' \in Budget
    BY DEF Looks, Serves, IInv, TypeOK
<1> HIDE DEF p
<1>3. p \in Member /\ RequestSafe(p, files', rows)
    BY <1>2 DEF p
<1> QED BY <1>1, <1>2, <1>3, MemberLooks

(* A request that ends leaves everything as it is. *)
LEMMA EndsSafe ==
    ASSUME IInv, NEW u \in Members, Ends(u), Looks
    PROVE  IInv'
BY IdleSafe, MemberLooks DEF Ends, Goes, Looks, Serves, IInv, TypeOK

(* The match of a petition only reads. *)
LEMMA MatchSafe ==
    ASSUME IInv, NEW u \in Members, Match(u)
    PROVE  IInv'
<1>1. /\ member[u] \in Member /\ member[u].at = "match" /\ RequestSafe(member[u], files, rows)
      /\ Looks
    BY DEF IInv, TypeOK, Match, MembersSafe
<1>2. CASE Targets(u)
    <2>1. PICK k \in CaseIds : Goes(u, [member[u] EXCEPT !.at = "target", !.case = k])
        BY <1>2 DEF Targets, UnfiledOf
    <2> DEFINE p == [member[u] EXCEPT !.at = "target", !.case = k]
    <2>2. /\ p \in Member /\ p.at = "target" /\ p.case = k /\ p.op = member[u].op
          /\ p.row = member[u].row /\ p.doc = member[u].doc
        BY <1>1 DEF Member
    <2>3. member' = [member EXCEPT ![u] = p]
        BY <2>1 DEF Goes
    <2>4. UNCHANGED <<rows, inbox, cycle, used, cases, files>> /\ left' \in Budget
        BY <1>1 DEF Looks, Serves, IInv, TypeOK
    <2> HIDE DEF p
    <2>5. RequestSafe(p, files', rows)
        BY <1>1, <2>2 DEF RequestSafe
    <2> QED BY <2>2, <2>3, <2>4, <2>5, MemberLooks
<1>3. CASE Then(u, IF member[u].op = "accept" THEN "fetch" ELSE "mark")
    <2> DEFINE l == IF member[u].op = "accept" THEN "fetch" ELSE "mark"
               p == [member[u] EXCEPT !.at = l]
    <2>1. /\ p \in Member /\ p.at = l /\ p.case = member[u].case /\ p.op = member[u].op
          /\ p.row = member[u].row /\ p.doc = member[u].doc
        BY <1>1 DEF Member
    <2>2. l \in {"fetch", "mark"} /\ (member[u].op = "accept" => l # "mark")
        OBVIOUS
    <2>3. member[u].op # "upload"
        BY <1>1 DEF RequestSafe
    <2> HIDE DEF l
    <2>4. RequestSafe(p, files, rows)
        BY <1>1, <2>1, <2>2, <2>3 DEF RequestSafe
    <2> QED BY <1>1, <1>3, <2>1, <2>4, ThenSafe DEF l
<1> QED BY <1>2, <1>3 DEF Match

(* The choice of a case only reads. *)
LEMMA TargetSafe ==
    ASSUME IInv, NEW u \in Members, Target(u)
    PROVE  IInv'
<1>1. /\ member[u] \in Member /\ member[u].at = "target"
      /\ RequestSafe(member[u], files, rows) /\ Looks
    BY DEF IInv, TypeOK, Target, MembersSafe
<1>2. CASE Then(u, "fetch")
    <2> DEFINE p == [member[u] EXCEPT !.at = "fetch"]
    <2>1. /\ p \in Member /\ p.at = "fetch" /\ p.op = member[u].op
          /\ p.row = member[u].row /\ p.doc = member[u].doc
        BY <1>1 DEF Member
    <2> HIDE DEF p
    <2>2. RequestSafe(p, files, rows)
        BY <1>1, <2>1 DEF RequestSafe
    <2> QED BY <1>1, <1>2, <2>1, <2>2, ThenSafe DEF p
<1>3. CASE Ends(u)
    BY <1>1, <1>3, EndsSafe
<1> QED BY <1>2, <1>3 DEF Target

(* A member goes on only with a petition that is in R2. *)
LEMMA FetchSafe ==
    ASSUME IInv, NEW u \in Members, Fetch(u)
    PROVE  IInv'
<1>1. /\ member[u] \in Member /\ member[u].at = "fetch"
      /\ RequestSafe(member[u], files, rows) /\ Looks
    BY DEF IInv, TypeOK, Fetch, MembersSafe
<1>2. CASE Ends(u)
    BY <1>1, <1>2, EndsSafe
<1>3. CASE ~Ends(u)
    <2>1. PICK n \in Reads[member[u].doc] :
              Goes(u, IF member[u].case # 0
                      THEN IF n = NoNumber THEN MemberIdle
                           ELSE [member[u] EXCEPT !.at = "store", !.number = n]
                      ELSE [member[u] EXCEPT !.at = IF n = NoNumber THEN "open" ELSE "exists",
                                             !.number = n])
        BY <1>3 DEF Fetch
    <2>2. n \in Read
        BY <1>1, <2>1, PetitionsAssumption DEF RequestSafe
    <2>3. PICK l \in {"store", "open", "exists"} :
              /\ Goes(u, [member[u] EXCEPT !.at = l, !.number = n])
              /\ l = "open" <=> n = NoNumber
        BY <1>3, <2>1 DEF Ends
    <2> DEFINE p == [member[u] EXCEPT !.at = l, !.number = n]
    <2>4. /\ p \in Member /\ p.at = l /\ p.number = n /\ p.op = member[u].op
          /\ p.row = member[u].row /\ p.doc = member[u].doc
        BY <1>1, <2>2 DEF Member
    <2>5. /\ member' = [member EXCEPT ![u] = p] /\ left' \in Budget
          /\ UNCHANGED <<rows, inbox, cycle, used, cases, files>>
        BY <1>1, <2>3 DEF Goes, Looks, Serves, IInv, TypeOK
    <2> HIDE DEF p
    <2>6. RequestSafe(p, files', rows)
        BY <1>1, <2>2, <2>3, <2>4 DEF RequestSafe, Read
    <2> QED BY <2>4, <2>5, <2>6, MemberLooks
<1> QED BY <1>2, <1>3

(* The look for the case number only reads. *)
LEMMA ExistsSafe ==
    ASSUME IInv, NEW u \in Members, Exists(u)
    PROVE  IInv'
<1>1. /\ member[u] \in Member /\ member[u].at = "exists"
      /\ RequestSafe(member[u], files, rows) /\ Looks
    BY DEF IInv, TypeOK, Exists, MembersSafe
<1>2. CASE Then(u, "store")
    <2> DEFINE p == [member[u] EXCEPT !.at = "store"]
    <2>1. /\ p \in Member /\ p.at = "store" /\ p.op = member[u].op
          /\ p.row = member[u].row /\ p.doc = member[u].doc
          /\ p.number = member[u].number
        BY <1>1 DEF Member
    <2> HIDE DEF p
    <2>2. RequestSafe(p, files, rows)
        BY <1>1, <2>1 DEF RequestSafe
    <2> QED BY <1>1, <1>2, <2>1, <2>2, ThenSafe DEF p
<1>3. CASE Ends(u)
    BY <1>1, <1>3, EndsSafe
<1> QED BY <1>2, <1>3 DEF Exists

(* A case is returned to the row the request is about, if there is one. *)
LEMMA ReturnsSafe ==
    ASSUME IInv, NEW u \in Members, NEW k \in CaseIds, Returns(u, k), Serves,
           member[u].at \notin {"idle", "clean"}
    PROVE  \E p \in Member : /\ member' = [member EXCEPT ![u] = p]
                            /\ RequestSafe(p, files', rows)
<1>1. member[u] \in Member /\ RequestSafe(member[u], files, rows)
    BY DEF IInv, TypeOK, MembersSafe
<1>2. CASE Ends(u)
    BY <1>2, IdleSafe DEF Ends, Goes
<1>3. CASE member[u].op # "upload"
    <2> DEFINE p == [member[u] EXCEPT !.at = "mark", !.case = k, !.number = NoNumber]
    <2>1. /\ p \in Member /\ p.at = "mark" /\ p.case = k /\ p.number = NoNumber
          /\ p.op = member[u].op /\ p.row = member[u].row /\ p.doc = member[u].doc
        BY <1>1 DEF Member, Read
    <2>2. member' = [member EXCEPT ![u] = p]
        BY <1>3 DEF Returns, Goes
    <2> HIDE DEF p
    <2>3. RequestSafe(p, files', rows)
        BY <1>1, <1>3, <2>1 DEF RequestSafe
    <2> QED BY <2>1, <2>2, <2>3
<1> QED BY <1>2, <1>3 DEF Returns

(* A new case is filed exactly when it has a number and its petition. *)
LEMMA NewCaseTyped ==
    ASSUME IInv, NEW u \in Members, NEW k \in CaseIds, NewCase(u, k),
           member[u].at \notin {"idle", "clean"}, files' = files,
           member[u].number # NoNumber => member[u].number \in Documented(files)
    PROVE  /\ cases' \in [CaseIds -> Case]
           /\ \A j \in CaseIds : cases'[j].status = "filed" <=> cases'[j].number # NoNumber
           /\ FiledHasPetition'
<1> DEFINE new == [status |-> IF member[u].number = NoNumber THEN "unfiled" ELSE "filed",
                   client |-> ClientOf[member[u].doc], number |-> member[u].number]
<1>1. /\ member[u] \in Member /\ member[u].doc \in Docs /\ cases \in [CaseIds -> Case]
    BY DEF IInv, TypeOK, MembersSafe, RequestSafe
<1>2. /\ new \in Case /\ new.number = member[u].number
      /\ new.status = "filed" <=> new.number # NoNumber
    BY <1>1, PetitionsAssumption DEF Case, Member
<1>3. cases' = [cases EXCEPT ![k] = new]
    BY DEF NewCase
<1> HIDE DEF new
<1>4. FiledHasPetition'
    BY <1>1, <1>2, <1>3 DEF IInv, FiledHasPetition
<1> QED BY <1>1, <1>2, <1>3, <1>4 DEF IInv, TypeOK

(* A case without a number needs no petition. *)
LEMMA CreateUnfiledSafe ==
    ASSUME IInv, NEW u \in Members, CreateUnfiled(u)
    PROVE  IInv'
<1>1. /\ member[u] \in Member /\ member[u].at = "open"
      /\ RequestSafe(member[u], files, rows) /\ left \in Budget
      /\ files \in [Places -> Docs \cup {NoDoc}]
    BY DEF IInv, TypeOK, CreateUnfiled, MembersSafe
<1>2. PICK k \in CaseIds :
          /\ NewCase(u, k)
          /\ Goes(u, [member[u] EXCEPT !.at = "shelve", !.case = k])
    BY DEF CreateUnfiled
<1>3. UNCHANGED <<rows, inbox, files, used, cycle, left>>
    BY DEF CreateUnfiled, Serves
<1> DEFINE p == [member[u] EXCEPT !.at = "shelve", !.case = k]
<1>4. /\ p \in Member /\ p.at = "shelve" /\ p.case = k /\ p.op = member[u].op
      /\ p.row = member[u].row /\ p.doc = member[u].doc
    BY <1>1 DEF Member
<1>5. member' = [member EXCEPT ![u] = p]
    BY <1>2 DEF Goes
<1> HIDE DEF p
<1>6. RequestSafe(p, files', rows)
    BY <1>1, <1>4 DEF RequestSafe
<1>7. /\ cases' \in [CaseIds -> Case]
      /\ \A j \in CaseIds : cases'[j].status = "filed" <=> cases'[j].number # NoNumber
      /\ FiledHasPetition'
    BY <1>1, <1>2, <1>3, NewCaseTyped DEF RequestSafe
<1> QED BY <1>1, <1>3, <1>4, <1>5, <1>6, <1>7, MemberMoves

(* Shelving adds a petition. *)
LEMMA ShelveSafe ==
    ASSUME IInv, NEW u \in Members, Shelve(u)
    PROVE  IInv'
<1>1. /\ member[u].at = "shelve" /\ member[u].case \in CaseIds
      /\ member[u].doc \in Docs /\ left \in Budget /\ files \in [Places -> Docs \cup {NoDoc}]
    BY DEF IInv, TypeOK, Shelve, MembersSafe, RequestSafe
<1>2. UNCHANGED <<rows, cases, inbox, used, cycle, left>>
    BY DEF Shelve, Serves
<1>3. files' = [files EXCEPT ![member[u].case] = member[u].doc]
    BY DEF Shelve
<1>d. /\ files' \in [Places -> Docs \cup {NoDoc}]
      /\ Documented(files') = Documented(files)
    BY <1>1, <1>3, NamesAssumption DEF Places, Documented
<1>4. PICK p \in Member : member' = [member EXCEPT ![u] = p] /\ RequestSafe(p, files', rows)
    BY <1>1, ReturnsSafe DEF Shelve
<1>5. FiledHasPetition'
    BY <1>2, <1>d DEF IInv, FiledHasPetition
<1> QED BY <1>1, <1>2, <1>d, <1>4, <1>5, MemberMoves DEF IInv, TypeOK

(* Storing under the number adds the petition promotion and creation rest on. *)
LEMMA StoreSafe ==
    ASSUME IInv, NEW u \in Members, Store(u)
    PROVE  IInv'
<1> DEFINE l == IF member[u].case = 0 THEN "create" ELSE "drop"
           p == [member[u] EXCEPT !.at = l]
<1>1. /\ member[u] \in Member /\ member[u].at = "store"
      /\ RequestSafe(member[u], files, rows) /\ left \in Budget
      /\ files \in [Places -> Docs \cup {NoDoc}] /\ member[u].number \in Numbers
      /\ member[u].doc \in Docs /\ member[u].number \in Reads[member[u].doc]
    BY DEF IInv, TypeOK, Store, MembersSafe, RequestSafe
<1>2. /\ UNCHANGED <<rows, cases, inbox, used, cycle, left>>
      /\ files' = [files EXCEPT ![member[u].number] = member[u].doc]
    BY DEF Store, Serves
<1>d. /\ files' \in [Places -> Docs \cup {NoDoc}]
      /\ Documented(files') = Documented(files) \cup {member[u].number}
    BY <1>1, <1>2, NamesAssumption DEF Places, Documented
<1>3. member' = [member EXCEPT ![u] = p]
    BY DEF Store, Then, Goes
<1>4. l = "create" \/ (l = "drop" /\ member[u].case \in CaseIds)
    <2>1. member[u].case \in CaseIds \cup {0}
        BY <1>1 DEF Member
    <2>2. CASE member[u].case = 0
        BY <2>2
    <2>3. CASE member[u].case # 0
        BY <2>1, <2>3
    <2> QED BY <2>2, <2>3
<1> HIDE DEF l
<1>5. /\ p \in Member /\ p.at = l /\ p.op = member[u].op /\ p.row = member[u].row
      /\ p.doc = member[u].doc /\ p.case = member[u].case /\ p.number = member[u].number
    BY <1>1, <1>4 DEF Member
<1> HIDE DEF p
<1>6. RequestSafe(p, files', rows)
    BY <1>1, <1>d, <1>4, <1>5 DEF RequestSafe
<1>7. FiledHasPetition'
    BY <1>2, <1>d DEF IInv, FiledHasPetition
<1> QED BY <1>1, <1>2, <1>d, <1>3, <1>5, <1>6, <1>7, MemberMoves DEF IInv, TypeOK

(* A case is created with its petition stored. *)
LEMMA CreateSafe ==
    ASSUME IInv, NEW u \in Members, Create(u)
    PROVE  IInv'
<1>1. /\ member[u].at = "create" /\ member[u].number \in Documented(files)
      /\ left \in Budget /\ files \in [Places -> Docs \cup {NoDoc}]
    BY DEF IInv, TypeOK, Create, MembersSafe, RequestSafe
<1>2. UNCHANGED <<rows, inbox, files, used, cycle, left>> /\ Serves
    BY DEF Create, Serves
<1>3. CASE Ends(u) /\ cases' = cases
    BY <1>2, <1>3, EndsSafe DEF Looks
<1>4. CASE \E k \in CaseIds : NewCase(u, k) /\ Returns(u, k)
    <2> PICK k \in CaseIds : NewCase(u, k) /\ Returns(u, k)
        BY <1>4
    <2>1. PICK p \in Member :
              member' = [member EXCEPT ![u] = p] /\ RequestSafe(p, files', rows)
        BY <1>1, <1>2, ReturnsSafe
    <2>2. /\ cases' \in [CaseIds -> Case]
          /\ \A j \in CaseIds : cases'[j].status = "filed" <=> cases'[j].number # NoNumber
          /\ FiledHasPetition'
        BY <1>1, <1>2, NewCaseTyped
    <2> QED BY <1>1, <1>2, <2>1, <2>2, MemberMoves
<1> QED BY <1>3, <1>4 DEF Create

(* A draft is kept under its case's id, which no number is. *)
LEMMA DropSafe ==
    ASSUME IInv, NEW u \in Members, Drop(u)
    PROVE  IInv'
<1> DEFINE p == [member[u] EXCEPT !.at = "promote"]
<1>1. /\ member[u] \in Member /\ member[u].at = "drop"
      /\ RequestSafe(member[u], files, rows) /\ left \in Budget
      /\ files \in [Places -> Docs \cup {NoDoc}] /\ cases \in [CaseIds -> Case]
      /\ member[u].case \in CaseIds
    BY DEF IInv, TypeOK, Drop, MembersSafe, RequestSafe
<1>2. /\ UNCHANGED <<rows, cases, inbox, used, cycle, left>>
      /\ files' \in {files, [files EXCEPT ![member[u].case] = NoDoc]}
    BY DEF Drop, Serves
<1>3. /\ files' \in [Places -> Docs \cup {NoDoc}]
      /\ Documented(files') = Documented(files)
    BY <1>1, <1>2, NamesAssumption DEF Places, Documented
<1>4. member' = [member EXCEPT ![u] = p]
    BY DEF Drop, Then, Goes
<1>5. /\ p \in Member /\ p.at = "promote" /\ p.op = member[u].op /\ p.row = member[u].row
      /\ p.doc = member[u].doc /\ p.case = member[u].case /\ p.number = member[u].number
    BY <1>1 DEF Member
<1> HIDE DEF p
<1>6. RequestSafe(p, files', rows)
    BY <1>1, <1>3, <1>5 DEF RequestSafe
<1>7. FiledHasPetition'
    BY <1>2, <1>3 DEF IInv, FiledHasPetition
<1> QED BY <1>1, <1>2, <1>3, <1>4, <1>5, <1>6, <1>7, MemberMoves DEF IInv, TypeOK

(* A promoted case gets the number its petition was stored under. *)
LEMMA PromoteSafe ==
    ASSUME IInv, NEW u \in Members, Promote(u)
    PROVE  IInv'
<1> DEFINE k == member[u].case  n == member[u].number
<1>1. /\ member[u].at = "promote" /\ n \in Documented(files) /\ n \in Numbers /\ k \in CaseIds
      /\ left \in Budget /\ files \in [Places -> Docs \cup {NoDoc}]
      /\ cases \in [CaseIds -> Case]
    BY DEF IInv, TypeOK, Promote, MembersSafe, RequestSafe
<1>2. UNCHANGED <<rows, inbox, files, used, cycle, left>> /\ Serves
    BY DEF Promote, Serves
<1>3. CASE Ends(u) /\ cases' = cases
    BY <1>2, <1>3, EndsSafe DEF Looks
<1>4. CASE Promoted(u)
    <2>1. PICK p \in Member :
              member' = [member EXCEPT ![u] = p] /\ RequestSafe(p, files', rows)
        BY <1>1, <1>2, <1>4, ReturnsSafe DEF Promoted
    <2> DEFINE c == [cases[k] EXCEPT !.status = "filed", !.number = n]
    <2>2. c \in Case /\ c.status = "filed" /\ c.number = n
        BY <1>1 DEF Case, Read
    <2>3. cases' = [cases EXCEPT ![k] = c]
        BY <1>1, <1>4 DEF Promoted
    <2> HIDE DEF c
    <2>4. n # NoNumber
        BY <1>1, NamesAssumption
    <2>5. /\ cases' \in [CaseIds -> Case]
          /\ \A j \in CaseIds : cases'[j].status = "filed" <=> cases'[j].number # NoNumber
        BY <1>1, <2>2, <2>3, <2>4 DEF IInv, TypeOK
    <2>6. FiledHasPetition'
        BY <1>1, <1>2, <2>2, <2>3 DEF IInv, FiledHasPetition
    <2> QED BY <1>1, <1>2, <2>1, <2>5, <2>6, MemberMoves
<1> QED BY <1>3, <1>4 DEF Promote

(* A row that is accepted or archived was ready or archived before: no     *)
(* cycle holds it any more.                                                *)
LEMMA MarkSafe ==
    ASSUME IInv, NEW u \in Members, Mark(u)
    PROVE  IInv'
<1> DEFINE r == member[u].row
<1>1. /\ member[u] \in Member /\ member[u].at = "mark" /\ left \in Budget
      /\ r \in RowIds /\ (member[u].op = "accept" => member[u].case \in CaseIds)
      /\ rows \in [RowIds -> Row] /\ member \in [Members -> Member]
    BY DEF IInv, TypeOK, Mark, MembersSafe, RequestSafe
<1>2. UNCHANGED <<cases, inbox, files, used, cycle, left>> /\ Serves
    BY DEF Mark, Serves
<1>3. CASE rows' = rows /\ Ends(u)
    BY <1>2, <1>3, EndsSafe DEF Looks
<1>4. CASE rows[r].status \in {"ready", "archived"} /\ Marked(u)
    <2>1. PICK to \in {"accepted", "archived"}, k \in CaseIds \cup {0} :
              /\ rows' = [rows EXCEPT ![r].status = to, ![r].case = k]
              /\ to = "accepted" <=> k # 0
              /\ to = "accepted" => Goes(u, [MemberIdle EXCEPT !.at = "clean", !.row = r])
              /\ to = "archived" => Ends(u)
        <3>1. CASE member[u].op = "accept"
            <4>1. member[u].case \in CaseIds /\ member[u].case # 0
                BY <1>1, <3>1 DEF CaseIds
            <4> QED BY <1>1, <1>4, <3>1, <4>1 DEF Marked
        <3>2. CASE member[u].op # "accept"
            <4>1. rows[r].case = 0
                BY <1>1, <1>4 DEF IInv, TypeOK
            <4>2. [rows EXCEPT ![r].status = "archived"]
                      = [rows EXCEPT ![r].status = "archived", ![r].case = 0]
                BY <1>1, <4>1 DEF Row
            <4> QED BY <1>1, <1>4, <3>2, <4>2 DEF Marked
        <3> QED BY <3>1, <3>2
    <2> DEFINE new == [rows[r] EXCEPT !.status = to, !.case = k]
    <2>2. /\ new \in Row /\ new.status = to /\ new.case = k
          /\ new.msg = rows[r].msg /\ new.doc = rows[r].doc
        <3>1. rows[r] \in Row /\ to \in Statuses
            BY <1>1, <2>1 DEF Statuses, Settled
        <3> QED BY <2>1, <3>1 DEF Row
    <2>3. rows' = [rows EXCEPT ![r] = new]
        BY <1>1, <2>1
    <2> HIDE DEF new
    <2>4. /\ rows' \in [RowIds -> Row] /\ rows'[r] = new
          /\ \A q \in RowIds \ {r} : rows'[q] = rows[q]
        BY <1>1, <2>2, <2>3
    <2>5. PICK p \in Member :
              member' = [member EXCEPT ![u] = p] /\ RequestSafe(p, files', rows')
        <3>1. CASE to = "archived"
            BY <2>1, <3>1, IdleSafe DEF Ends, Goes
        <3>2. CASE to = "accepted"
            <4> DEFINE p == [MemberIdle EXCEPT !.at = "clean", !.row = r]
            <4>1. /\ p \in Member /\ p.at = "clean" /\ p.row = r /\ p.op = "upload"
                BY <1>1 DEF MemberIdle, Member, Read
            <4>2. member' = [member EXCEPT ![u] = p]
                BY <2>1, <3>2 DEF Goes
            <4> HIDE DEF p
            <4>3. RequestSafe(p, files', rows')
                BY <1>1, <2>2, <2>4, <3>2, <4>1 DEF RequestSafe
            <4> QED BY <4>1, <4>2, <4>3
        <3> QED BY <3>1, <3>2
    <2>6. TypeOK'
        BY <1>1, <1>2, <2>1, <2>2, <2>4, <2>5 DEF IInv, TypeOK
    <2>7. CyclesSafe'
        BY <1>2, <1>4, <2>4 DEF IInv, CyclesSafe, Holding
    <2>8. MembersSafe'
        <3> SUFFICES ASSUME NEW v \in Members PROVE RequestSafe(member'[v], files', rows')
            BY DEF MembersSafe
        <3>1. CASE v = u
            BY <1>1, <2>5, <3>1
        <3>2. CASE v # u
            <4>1. member'[v] = member[v] /\ RequestSafe(member[v], files, rows)
                BY <1>1, <2>5, <3>2 DEF IInv, MembersSafe
            <4>2. \A q \in RowIds : rows[q].status = "accepted" => rows'[q].status = "accepted"
                BY <1>4, <2>4
            <4> QED BY <1>2, <4>1, <4>2 DEF RequestSafe
        <3> QED BY <3>1, <3>2
    <2>9. OneRowPerPetition' /\ RowsSafe'
        BY <1>4, <2>2, <2>4 DEF IInv, OneRowPerPetition, RowsSafe, Stored
    <2>10. NoLimbo' /\ SummonableHasPetition' /\ FiledHasPetition'
        BY <1>2, <1>4, <2>1, <2>2, <2>4
        DEF IInv, NoLimbo, SummonableHasPetition, FiledHasPetition
    <2> QED BY <2>6, <2>7, <2>8, <2>9, <2>10 DEF IInv
<1> QED BY <1>1, <1>3, <1>4 DEF Mark, Open

(* Only an accepted row's copy is deleted, and no cycle is about to call   *)
(* that row ready.                                                         *)
LEMMA CleanSafe ==
    ASSUME IInv, NEW u \in Members, Clean(u)
    PROVE  IInv'
<1>1. /\ member[u].at = "clean" /\ member[u].row \in RowIds
      /\ rows[member[u].row].status = "accepted" /\ left \in Budget
      /\ member \in [Members -> Member] /\ inbox \subseteq RowIds
    BY DEF IInv, TypeOK, Clean, MembersSafe, RequestSafe
<1>2. /\ UNCHANGED <<rows, cases, files, used, cycle, left>>
      /\ inbox' \in {inbox, inbox \ {member[u].row}}
    BY DEF Clean, Serves
<1>3. member' = [member EXCEPT ![u] = MemberIdle]
    BY DEF Clean, Ends, Goes
<1>4. TypeOK'
    BY <1>1, <1>2, <1>3, IdleSafe DEF IInv, TypeOK
<1>5. MembersSafe'
    BY <1>1, <1>2, <1>3, IdleSafe DEF IInv, MembersSafe
<1>6. CyclesSafe'
    BY <1>1, <1>2 DEF IInv, CyclesSafe, Holding
<1>7. SummonableHasPetition'
    BY <1>1, <1>2 DEF IInv, SummonableHasPetition
<1>8. OneRowPerPetition' /\ RowsSafe' /\ NoLimbo' /\ FiledHasPetition'
    BY <1>2 DEF IInv, OneRowPerPetition, RowsSafe, Stored, NoLimbo, FiledHasPetition
<1> QED BY <1>4, <1>5, <1>6, <1>7, <1>8 DEF IInv

-----------------------------------------------------------------------------
(* The inbox starts empty. *)
LEMMA InitSafe == Init => IInv
<1> SUFFICES ASSUME Init PROVE IInv
    OBVIOUS
<1>1. /\ \A r \in RowIds : rows[r] = NoRow
      /\ \A k \in CaseIds : cases[k] = NoCase
      /\ \A c \in Cycles : cycle[c] = CycleIdle
      /\ \A u \in Members : member[u] = MemberIdle
    BY DEF Init
<1>2. NoRow \in Row /\ NoCase \in Case /\ CycleIdle \in Cycle /\ MemberIdle \in Member
    BY DEF NoRow, Row, Statuses, NoCase, Case, Found, Read, CycleIdle, Cycle,
           MemberIdle, Member
<1>3. /\ rows \in [RowIds -> Row] /\ cases \in [CaseIds -> Case]
      /\ cycle \in [Cycles -> Cycle] /\ member \in [Members -> Member]
      /\ inbox = {} /\ files \in [Places -> Docs \cup {NoDoc}] /\ used = {}
      /\ left \in Budget
    BY <1>2, BoundsAssumption DEF Init
<1>4. TypeOK
    BY <1>1, <1>3 DEF TypeOK, NoRow, NoCase
<1>5. Stored = {} /\ \A r \in RowIds : rows[r].status = "none"
    BY <1>1 DEF Stored, NoRow
<1>6. RowsSafe /\ OneRowPerPetition /\ NoLimbo /\ SummonableHasPetition
    BY <1>5 DEF RowsSafe, OneRowPerPetition, NoLimbo, SummonableHasPetition
<1>7. FiledHasPetition
    BY <1>1 DEF FiledHasPetition, NoCase
<1>8. CyclesSafe
    BY <1>1 DEF CyclesSafe, CycleIdle, Holding
<1>9. MembersSafe
    BY <1>1, IdleSafe DEF MembersSafe
<1> QED BY <1>4, <1>6, <1>7, <1>8, <1>9 DEF IInv

(* The unique indexes let the insert pass, or the link is skipped. *)
LEMMA IngestSafe ==
    ASSUME IInv, NEW c \in Cycles, Ingest(c)
    PROVE  IInv'
<1>1. ASSUME NEW m \in Messages, Poll(c, m) PROVE IInv'
    BY <1>1, PollSafe
<1>2. CASE Probe(c) \/ Download(c) \/ Fingerprint(c)
    BY <1>2, LookSafe
<1>3. CASE Insert(c)
    <2>1. CASE ~Taken(c) /\ Inserts(c)
        BY <1>3, <2>1, InsertSafe
    <2>2. CASE rows' = rows /\ NextLink(c)
        BY <1>3, <2>2, LookSafe
    <2> QED BY <1>3, <2>1, <2>2 DEF Insert
<1>4. CASE Upload(c)
    BY <1>4, UploadSafe
<1>5. CASE Settle(c)
    BY <1>5, SettleSafe
<1>6. CASE Abandon(c)
    BY <1>6, AbandonSafe
<1> QED BY <1>1, <1>2, <1>3, <1>4, <1>5, <1>6 DEF Ingest

(* Every step of a request keeps the invariant. *)
LEMMA ServeSafe ==
    ASSUME IInv, NEW u \in Members, Serve(u)
    PROVE  IInv'
<1>1. ASSUME NEW op \in {"accept", "dismiss"}, NEW r \in RowIds, Handle(u, op, r)
      PROVE  IInv'
    BY <1>1, HandleSafe
<1>2. ASSUME NEW d \in Uploads, UploadPetition(u, d) PROVE IInv'
    BY <1>2, UploadPetitionSafe, PetitionsAssumption
<1>3. CASE Match(u) \/ Target(u) \/ Fetch(u)
    BY <1>3, MatchSafe, TargetSafe, FetchSafe
<1>4. CASE CreateUnfiled(u) \/ Shelve(u) \/ Exists(u) \/ Store(u)
    BY <1>4, CreateUnfiledSafe, ShelveSafe, ExistsSafe, StoreSafe
<1>5. CASE Create(u) \/ Drop(u) \/ Promote(u)
    BY <1>5, CreateSafe, DropSafe, PromoteSafe
<1>6. CASE Mark(u) \/ Clean(u) \/ Raise(u)
    BY <1>6, MarkSafe, CleanSafe, RaiseSafe
<1> QED BY <1>1, <1>2, <1>3, <1>4, <1>5, <1>6 DEF Serve

(* So does no step. *)
LEMMA StutterSafe ==
    ASSUME IInv, UNCHANGED vars
    PROVE  IInv'
BY DEF vars, IInv, TypeOK, RowsSafe, Stored, CyclesSafe, Holding, MembersSafe,
       OneRowPerPetition, NoLimbo, SummonableHasPetition, FiledHasPetition

(* Every action keeps the invariant. *)
LEMMA NextSafe == IInv /\ [Next]_vars => IInv'
<1> SUFFICES ASSUME IInv, [Next]_vars PROVE IInv'
    OBVIOUS
<1>1. ASSUME NEW c \in Cycles, Ingest(c) PROVE IInv'
    BY <1>1, IngestSafe
<1>2. ASSUME NEW S \in SUBSET RowIds, Archive(S) PROVE IInv'
    BY <1>2, ArchiveSafe
<1>3. ASSUME NEW u \in Members, Serve(u) PROVE IInv'
    BY <1>3, ServeSafe
<1>4. CASE UNCHANGED vars
    BY <1>4, StutterSafe
<1> QED BY <1>1, <1>2, <1>3, <1>4 DEF Next

(* The invariant always holds. *)
LEMMA Invariant == Spec => []IInv
BY InitSafe, NextSafe, PTL DEF Spec

(* Every state is of the declared types: a row has a case exactly when it  *)
(* was accepted, and a case a number exactly when it is filed.             *)
THEOREM TypeCorrect == Spec => []TypeOK
<1>1. IInv => TypeOK
    BY DEF IInv
<1> QED BY <1>1, Invariant, PTL

(* However many cycles overlap, a petition and a notice have one row each. *)
THEOREM OneRowPerPetitionCorrect == Spec => []OneRowPerPetition
<1>1. IInv => OneRowPerPetition
    BY DEF IInv
<1> QED BY <1>1, Invariant, PTL

(* A row is left ingesting only by a cycle at work on it, or one that died.*)
THEOREM NoLimboCorrect == Spec => []NoLimbo
<1>1. IInv => NoLimbo
    BY DEF IInv
<1> QED BY <1>1, Invariant, PTL

(* What the inbox or the archive lists has its petition in R2.             *)
THEOREM SummonableHasPetitionCorrect == Spec => []SummonableHasPetition
<1>1. IInv => SummonableHasPetition
    BY DEF IInv
<1> QED BY <1>1, Invariant, PTL

(* A filed case has its petition under its number.                         *)
THEOREM FiledHasPetitionCorrect == Spec => []FiledHasPetition
<1>1. IInv => FiledHasPetition
    BY DEF IInv
<1> QED BY <1>1, Invariant, PTL

(* No step of anyone changes an accepted or failed row: a cycle settles    *)
(* only its own, and everyone else looks at the status first.              *)
LEMMA SettledStays ==
    ASSUME IInv, [Next]_vars
    PROVE  \A r \in RowIds : rows[r].status \in Settled => rows'[r] = rows[r]
<1> SUFFICES ASSUME NEW r \in RowIds, rows[r].status \in Settled
             PROVE  rows'[r] = rows[r]
    OBVIOUS
<1>1. rows \in [RowIds -> Row] /\ r \in Stored
    BY DEF IInv, TypeOK, Stored, Settled
<1>2. CASE rows' = rows
    BY <1>2
<1>3. ASSUME NEW c \in Cycles, Inserts(c) PROVE rows'[r] = rows[r]
    BY <1>1, <1>3 DEF Inserts
<1>4. ASSUME NEW c \in Cycles, Settle(c) PROVE rows'[r] = rows[r]
    <2>1. cycle[c].row \in RowIds /\ rows[cycle[c].row].status = "ingesting"
        BY <1>4 DEF IInv, CyclesSafe, Holding, Settle
    <2>2. cycle[c].row # r
        BY <2>1 DEF Settled
    <2> QED BY <1>1, <1>4, <2>1, <2>2 DEF Settle
<1>5. ASSUME NEW S \in SUBSET RowIds, Archive(S) PROVE rows'[r] = rows[r]
    BY <1>5 DEF Archive, Settled
<1>6. ASSUME NEW u \in Members, Mark(u), Marked(u),
             rows[member[u].row].status \in {"ready", "archived"}
      PROVE  rows'[r] = rows[r]
    <2>1. member[u].row # r
        BY <1>6 DEF Settled
    <2> QED BY <1>1, <1>6, <2>1 DEF Marked
<1>7. ASSUME NEW c \in Cycles, Ingest(c) PROVE rows'[r] = rows[r]
    BY <1>2, <1>3, <1>4, <1>7
    DEF Ingest, Poll, Probe, Download, Fingerprint, Insert, Upload, Abandon
<1>8. ASSUME NEW u \in Members, Mark(u) PROVE rows'[r] = rows[r]
    BY <1>2, <1>6, <1>8 DEF Mark, Open
<1>9. ASSUME NEW u \in Members, Serve(u) PROVE rows'[r] = rows[r]
    BY <1>2, <1>8, <1>9
    DEF Serve, Handle, UploadPetition, Asks, Match, Target, Fetch, CreateUnfiled, Shelve,
        Exists, Store, Create, Drop, Promote, Clean, Raise, Looks
<1>10. CASE UNCHANGED vars
    BY <1>2, <1>10 DEF vars
<1> QED BY <1>5, <1>7, <1>9, <1>10 DEF Next

(* Of several members who accept, summon or dismiss a row at once one wins.*)
THEOREM SettledIsFinalCorrect == Spec => SettledIsFinal
<1>1. IInv /\ [Next]_vars
          => [\A r \in RowIds : rows[r].status \in Settled => rows'[r] = rows[r]]_vars
    BY SettledStays
<1> QED BY <1>1, Invariant, PTL DEF Spec, SettledIsFinal

(* Only an unfiled case is promoted, and a new case takes an unused id.    *)
LEMMA FiledStays ==
    ASSUME IInv, [Next]_vars
    PROVE  \A k \in CaseIds : cases[k].status = "filed" => cases'[k] = cases[k]
<1> SUFFICES ASSUME NEW k \in CaseIds, cases[k].status = "filed"
             PROVE  cases'[k] = cases[k]
    OBVIOUS
<1>1. cases \in [CaseIds -> Case]
    BY DEF IInv, TypeOK
<1>2. CASE cases' = cases
    BY <1>2
<1>3. ASSUME NEW u \in Members, NEW j \in CaseIds, NewCase(u, j) PROVE cases'[k] = cases[k]
    <2>1. j # k
        BY <1>3 DEF NewCase
    <2> QED BY <1>1, <1>3, <2>1 DEF NewCase
<1>4. ASSUME NEW u \in Members, Promoted(u), cases[member[u].case].status = "unfiled"
      PROVE  cases'[k] = cases[k]
    <2>1. member[u].case # k
        BY <1>4
    <2> QED BY <1>1, <1>4, <2>1 DEF Promoted
<1>5. ASSUME NEW c \in Cycles, Ingest(c) PROVE cases'[k] = cases[k]
    BY <1>2, <1>5
    DEF Ingest, Ingests, Poll, Probe, Download, Fingerprint, Insert, Upload, Settle, Abandon
<1>6. ASSUME NEW S \in SUBSET RowIds, Archive(S) PROVE cases'[k] = cases[k]
    BY <1>2, <1>6 DEF Archive
<1>7. ASSUME NEW u \in Members, CreateUnfiled(u) \/ Create(u) \/ Promote(u)
      PROVE  cases'[k] = cases[k]
    BY <1>2, <1>3, <1>4, <1>7 DEF CreateUnfiled, Create, Promote
<1>8. ASSUME NEW u \in Members, Serve(u) PROVE cases'[k] = cases[k]
    BY <1>2, <1>7, <1>8
    DEF Serve, Handle, UploadPetition, Asks, Match, Target, Fetch, Shelve,
        Exists, Store, Drop, Mark, Clean, Raise, Looks
<1>9. CASE UNCHANGED vars
    BY <1>2, <1>9 DEF vars
<1> QED BY <1>5, <1>6, <1>8, <1>9 DEF Next

(* A filed case keeps its number whatever promotions race.                 *)
THEOREM FiledIsFinalCorrect == Spec => FiledIsFinal
<1>1. IInv /\ [Next]_vars
          => [\A k \in CaseIds : cases[k].status = "filed" => cases'[k] = cases[k]]_vars
    BY FiledStays
<1> QED BY <1>1, Invariant, PTL DEF Spec, FiledIsFinal
=============================================================================
