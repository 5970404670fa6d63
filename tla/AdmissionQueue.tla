--------------------------- MODULE AdmissionQueue ---------------------------
(***************************************************************************)
(* What the waiting line of the draft pipeline promises, with no Redis, no *)
(* handlers and no jobs: a draft is placed once.  It is either admitted at *)
(* once or it waits in a FIFO, from which it leaves at the head, to be     *)
(* served, or from anywhere, because its user withdrew it.  Nothing that   *)
(* was placed ever waits again, and only what waited is served.            *)
(***************************************************************************)
EXTENDS Naturals, Sequences

CONSTANT Tasks

VARIABLES
  fifo,    (* the tasks that wait, oldest first                             *)
  phase    (* how far each task has come                                    *)

vars == <<fifo, phase>>

Phases == {"new", "placing", "waiting", "serving", "placed"}

Init == fifo = <<>> /\ phase = [t \in Tasks |-> "new"]

Moves(t, from, to) ==
  /\ phase[t] = from
  /\ phase' = [phase EXCEPT ![t] = to]

(* A start request takes up a draft, and refuses it or settles it: admitted,*)
(* or lost with the process that served the request.                        *)
Take(t)   == Moves(t, "new", "placing") /\ UNCHANGED fifo
Refuse(t) == Moves(t, "placing", "new") /\ UNCHANGED fifo
Settle(t) == Moves(t, "placing", "placed") /\ UNCHANGED fifo

Wait(t) == Moves(t, "placing", "waiting") /\ fifo' = Append(fifo, t)

(* A drain serves the task at the head.                                     *)
Release(t) ==
  /\ fifo # <<>> /\ t = Head(fifo)
  /\ Moves(t, "waiting", "serving")
  /\ fifo' = Tail(fifo)

(* The task leaves its place in the line and the others keep theirs.        *)
Withdraw(t) ==
  /\ Moves(t, "waiting", "placed")
  /\ \E i \in DOMAIN fifo :
        /\ fifo[i] = t
        /\ fifo' = SubSeq(fifo, 1, i - 1) \o SubSeq(fifo, i + 1, Len(fifo))

Served(t) == Moves(t, "serving", "placed") /\ UNCHANGED fifo

Next ==
  \E t \in Tasks : \/ Take(t) \/ Refuse(t) \/ Settle(t) \/ Wait(t)
                   \/ Release(t) \/ Withdraw(t) \/ Served(t)

Spec == Init /\ [][Next]_vars
=============================================================================
