----------------------------- MODULE WaitingLine -----------------------------
(***************************************************************************)
(* The Redis list in which a background service keeps the ids of the tasks *)
(* that wait for a slot: {pleading, composer, dry_run} each have one per   *)
(* user, and their state.py use it alike.  RPUSH and LPOP are Append and   *)
(* Head; this module has the removal of one id.                            *)
(***************************************************************************)
EXTENDS Naturals, Sequences

(* LREM key 0 id.  It removes every occurrence; no service ever parks an id *)
(* that is still waiting, so there is never more than one.                  *)
Without(q, t) ==
  IF \E i \in DOMAIN q : q[i] = t
  THEN LET i == CHOOSE k \in DOMAIN q : q[k] = t
       IN  SubSeq(q, 1, i - 1) \o SubSeq(q, i + 1, Len(q))
  ELSE q
=============================================================================
