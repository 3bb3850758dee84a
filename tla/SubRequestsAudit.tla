-------------------------- MODULE SubRequestsAudit --------------------------
(***************************************************************************)
(* SubRequests with two history variables, to say of an answer what only   *)
(* the past of the request can tell: which answers the table would have    *)
(* justified at some moment while the request was being served, and        *)
(* whether the request itself changed the table.                           *)
(***************************************************************************)
EXTENDS SubRequests, TLC

VARIABLES deserved,     \* answers each request deserved at some moment of its life
          changed       \* has it changed the table?

avars == <<vars, deserved, changed>>

(* The answer a request would get if it were served whole, in one moment,  *)
(* on this table.  A give-up by somebody who does not cover the show is    *)
(* refused under either name.                                              *)
Deserved(table, j) ==
  LET v   == j.viewer
      row == table[j.id]
  IN  CASE j.op = "create" -> {"ok", "invalid", "badGateway"}
        [] j.op # "create" /\ row = NoRow -> {"notFound"}
        [] j.op = "take" /\ row # NoRow ->
             IF row.takenBy # NoUser THEN {"conflict"}
             ELSE IF row.postedBy = v.id THEN {"forbidden"} ELSE {"ok"}
        [] j.op = "untake" /\ row # NoRow ->
             IF row.takenBy = v.id THEN {"ok"} ELSE {"forbidden", "conflict"}
        [] j.op = "delete" /\ row # NoRow ->
             IF v.admin \/ row.postedBy = v.id THEN {"ok"} ELSE {"forbidden"}

AuditInit == /\ Init
             /\ deserved = [h \in Handlers |-> {}]
             /\ changed = [h \in Handlers |-> FALSE]

(* What everybody else's request deserves is looked at after the step, what *)
(* the moving one deserves was recorded when the table last changed.       *)
AuditStep(h) ==
  /\ Step(h)
  /\ deserved' = [g \in Handlers |->
        CASE g = h /\ pc[h] = "idle" -> Deserved(rows, job'[h])
          [] g # h /\ pc[g] # "idle" -> deserved[g] \cup Deserved(rows', job[g])
          [] OTHER -> deserved[g]]
  /\ changed' = [changed EXCEPT ![h] = (pc[h] # "idle" /\ changed[h]) \/ rows' # rows]

AuditNext == \E h \in Handlers : AuditStep(h)

AuditSpec == AuditInit /\ [][AuditNext]_avars

-----------------------------------------------------------------------------
Answered(h) == pc[h] = "idle" /\ answer[h] \notin {"none", "error"}

(* An answer is never baseless: each 204, 404, 409 and 403 was the right   *)
(* one at some moment between the request and its reply, although the      *)
(* service takes two or three unprotected statements to find it.           *)
AnswersJustified == \A h \in Handlers : Answered(h) => answer[h] \in deserved[h]

(* An answer tells what was done: success means this very request changed  *)
(* the table, a refusal that it did not.  (A 500 tells neither.)           *)
AnswersTellTheEffect ==
  \A h \in Handlers : Answered(h) => (changed[h] <=> answer[h] = "ok")

(* Users and handlers are interchangeable. *)
Symmetry == Permutations(Users) \cup Permutations(Handlers)
=============================================================================
