----------------------------- MODULE SubRequests -----------------------------
(***************************************************************************)
(* The sub-request service (internal/app/subrequests) over its SQL         *)
(* repository (internal/adapters/outbound/sqlite), as the HTTP handlers    *)
(* run it: concurrently, one database statement at a time, with no         *)
(* transaction around the statements of a request.                         *)
(*                                                                         *)
(* One step of a handler is one database statement together with the       *)
(* local computation up to the next one.  Any statement may fail; a write  *)
(* may also take effect and lose its reply (the libsql driver reaches the  *)
(* database over the network).  Get and ListDashboard change nothing: of    *)
(* them there are the buttons they show for a row (Capabilities).          *)
(***************************************************************************)
EXTENDS Authorization, Naturals

CONSTANTS Users,        \* users with a session
          Handlers,     \* request handlers running at a time
          MaxId         \* bound: rows ever inserted into sub_requests

ASSUME UsersAssumption == NoUser \notin Users
ASSUME MaxIdAssumption == MaxId \in Nat

VARIABLES rows,         \* the sub_requests table
          nextId,       \* its AUTOINCREMENT counter
          pc,           \* what each handler does next
          job,          \* the request it serves: operation, viewer, row id
          event,        \* the notification it has built
          answer        \* its answer; "none" while it is working

vars == <<rows, nextId, pc, job, event, answer>>

Ids   == 1..MaxId
NoRow == [postedBy |-> NoUser, takenBy |-> NoUser]

Rows    == [postedBy : Users, takenBy : Users \cup {NoUser}]
Jobs    == [op : {"create", "take", "untake", "delete"},
            viewer : Viewer(Users), id : {0} \cup Ids]
NoJob   == [op |-> "none", viewer |-> [id |-> NoUser, admin |-> FALSE], id |-> 0]
Labels  == {"idle", "insert", "delete", "take", "takeMissed", "takeDetail",
            "untakeDetail", "untake", "untakeMissed", "notify"}
Answers == {"none", "ok", "notFound", "conflict", "forbidden", "invalid",
            "badGateway", "error"}
NoEvent == [kind |-> "none", id |-> 0, requester |-> NoUser, taker |-> NoUser]
Events  == [kind : {"created", "taken", "untaken"}, id : Ids,
            requester : Users, taker : Users \cup {NoUser}]

Exists(id) == rows[id].postedBy # NoUser

Init == /\ rows = [id \in Ids |-> NoRow]
        /\ nextId = 1
        /\ pc = [h \in Handlers |-> "idle"]
        /\ job = [h \in Handlers |-> NoJob]
        /\ event = [h \in Handlers |-> NoEvent]
        /\ answer = [h \in Handlers |-> "none"]

-----------------------------------------------------------------------------
(* Steps of a handler. *)

Goto(h, label) == /\ pc' = [pc EXCEPT ![h] = label]
                  /\ UNCHANGED answer

Respond(h, a) == /\ pc' = [pc EXCEPT ![h] = "idle"]
                 /\ answer' = [answer EXCEPT ![h] = a]

(* A request comes in; it is refused at once or goes on at the label.      *)
Begin(h, op, v, id, refusal, label) ==
  /\ pc[h] = "idle"
  /\ job' = [job EXCEPT ![h] = [op |-> op, viewer |-> v, id |-> id]]
  /\ event' = [event EXCEPT ![h] = NoEvent]
  /\ pc' = [pc EXCEPT ![h] = IF refusal = "none" THEN label ELSE "idle"]
  /\ answer' = [answer EXCEPT ![h] = refusal]
  /\ UNCHANGED <<rows, nextId>>

(* The refusal each operation reads off the row it loaded, "none" when it  *)
(* goes on.                                                                *)
DeleteRefusal(v, id) ==
  CASE ~Exists(id) -> "notFound"
    [] Exists(id) /\ ~Authorize(v, "subrequest:delete", SubRequestResource(rows[id])) -> "forbidden"
    [] OTHER -> "none"

TakeRefusal_NoOwnerCheck(v, id) ==       \* fault: any member may take an open request
  CASE ~Exists(id) -> "notFound"
    [] Exists(id) /\ rows[id].takenBy # NoUser -> "conflict"
    [] OTHER -> "none"

TakeRefusal(v, id) ==
  CASE ~Exists(id) -> "notFound"
    [] Exists(id) /\ rows[id].takenBy # NoUser -> "conflict"
    [] /\ Exists(id) /\ rows[id].takenBy = NoUser
       /\ ~Authorize(v, "subrequest:take", SubRequestResource(rows[id])) -> "forbidden"
    [] OTHER -> "none"

UntakeRefusal(v, id) ==
  CASE ~Exists(id) -> "notFound"
    [] Exists(id) /\ ~Authorize(v, "subrequest:untake", SubRequestResource(rows[id])) -> "forbidden"
    [] OTHER -> "none"

(* Create: validateCreateInput looks at the form, the clock and the show   *)
(* catalog, never at the table.  (A PATCH whose action is neither take nor *)
(* untake is refused like it, as invalid, before anything is read.)        *)
BeginCreate(h, v) ==
  \E refusal \in {"none", "invalid", "badGateway"} :
     Begin(h, "create", v, 0, refusal, "insert")

BeginDelete(h, v, id) == Begin(h, "delete", v, id, DeleteRefusal(v, id), "delete")
BeginTake(h, v, id)   == Begin(h, "take", v, id, TakeRefusal(v, id), "take")
BeginUntake(h, v, id) == Begin(h, "untake", v, id, UntakeRefusal(v, id), "untakeDetail")

(* The first read of a request fails. *)
BeginFails(h, v, id) ==
  \E op \in {"delete", "take", "untake"} : Begin(h, op, v, id, "error", "idle")

-----------------------------------------------------------------------------
(* The writes.  Each is one SQL statement; its effect and its reply are    *)
(* given apart, because the effect can outlive a lost reply.               *)

Insert(h) ==
  /\ nextId \in Ids
  /\ rows' = [rows EXCEPT ![nextId] = [postedBy |-> job[h].viewer.id, takenBy |-> NoUser]]
  /\ nextId' = nextId + 1

(* UPDATE ... SET taken_by_user_id = viewer WHERE id = ? AND taken_by_user_id IS NULL *)
CanSetTaker(h) == Exists(job[h].id) /\ rows[job[h].id].takenBy = NoUser

SetTaker(h) == /\ CanSetTaker(h)
               /\ rows' = [rows EXCEPT ![job[h].id].takenBy = job[h].viewer.id]
               /\ UNCHANGED nextId

(* UPDATE ... SET taken_by_user_id = NULL WHERE id = ? AND taken_by_user_id = viewer *)
CanClearTaker_AnyTaker(h) == Exists(job[h].id) /\ rows[job[h].id].takenBy # NoUser  \* fault: WHERE id = ? alone

CanClearTaker(h) == Exists(job[h].id) /\ rows[job[h].id].takenBy = job[h].viewer.id

ClearTaker(h) == /\ CanClearTaker(h)
                 /\ rows' = [rows EXCEPT ![job[h].id].takenBy = NoUser]
                 /\ UNCHANGED nextId

(* DELETE FROM sub_requests WHERE id = ? *)
Remove_FreesId(h) ==            \* fault: the key is not AUTOINCREMENT
  /\ Exists(job[h].id)
  /\ rows' = [rows EXCEPT ![job[h].id] = NoRow]
  /\ nextId' = IF job[h].id = nextId - 1 THEN nextId - 1 ELSE nextId

Remove(h) == /\ Exists(job[h].id)
             /\ rows' = [rows EXCEPT ![job[h].id] = NoRow]
             /\ UNCHANGED nextId

CreateWrite(h) ==
  /\ pc[h] = "insert"
  /\ Insert(h)
  /\ job' = [job EXCEPT ![h].id = nextId]
  /\ event' = [event EXCEPT ![h] = [kind |-> "created", id |-> nextId,
                                    requester |-> job[h].viewer.id, taker |-> NoUser]]
  /\ Goto(h, "notify")

DeleteWrite(h) ==
  /\ pc[h] = "delete"
  /\ \/ Remove(h) /\ Respond(h, "ok")
     \/ ~Exists(job[h].id) /\ Respond(h, "notFound") /\ UNCHANGED <<rows, nextId>>
  /\ UNCHANGED <<job, event>>

TakeWrite_IgnoresRowCount(h) == \* fault: an UPDATE that touched no row passes for a take
  /\ pc[h] = "take"
  /\ \/ SetTaker(h)
     \/ ~CanSetTaker(h) /\ UNCHANGED <<rows, nextId>>
  /\ Goto(h, "takeDetail")
  /\ UNCHANGED <<job, event>>

TakeWrite(h) ==
  /\ pc[h] = "take"
  /\ \/ SetTaker(h) /\ Goto(h, "takeDetail")
     \/ ~CanSetTaker(h) /\ Goto(h, "takeMissed") /\ UNCHANGED <<rows, nextId>>
  /\ UNCHANGED <<job, event>>

UntakeWrite(h) ==
  /\ pc[h] = "untake"
  /\ \/ /\ ClearTaker(h)
        /\ IF event[h] = NoEvent THEN Respond(h, "ok") ELSE Goto(h, "notify")
     \/ ~CanClearTaker(h) /\ Goto(h, "untakeMissed") /\ UNCHANGED <<rows, nextId>>
  /\ UNCHANGED <<job, event>>

(* An UPDATE that touched no row: the repository looks again, to tell a    *)
(* missing row from one in the wrong state.                                *)
Missed_NoLook(h) ==             \* fault: no second look
  /\ pc[h] \in {"takeMissed", "untakeMissed"}
  /\ Respond(h, "conflict")
  /\ UNCHANGED <<rows, nextId, job, event>>

Missed_Retries(h) ==            \* fault: a lost race is tried again
  /\ pc[h] \in {"takeMissed", "untakeMissed"}
  /\ IF Exists(job[h].id)
     THEN Goto(h, IF pc[h] = "takeMissed" THEN "take" ELSE "untake")
     ELSE Respond(h, "notFound")
  /\ UNCHANGED <<rows, nextId, job, event>>

Missed(h) ==
  /\ pc[h] \in {"takeMissed", "untakeMissed"}
  /\ Respond(h, IF Exists(job[h].id) THEN "conflict" ELSE "notFound")
  /\ UNCHANGED <<rows, nextId, job, event>>

(* A statement fails: the request ends in a 500 with nothing written ...   *)
StatementFails(h) ==
  /\ pc[h] \in {"insert", "delete", "take", "takeMissed", "untake", "untakeMissed"}
  /\ Respond(h, "error")
  /\ UNCHANGED <<rows, nextId, job, event>>

(* ... or the write went through and only its reply was lost.              *)
ReplyLost(h) ==
  /\ \/ pc[h] = "insert" /\ Insert(h)
     \/ pc[h] = "delete" /\ Remove(h)
     \/ pc[h] = "take"   /\ SetTaker(h)
     \/ pc[h] = "untake" /\ ClearTaker(h)
  /\ Respond(h, "error")
  /\ UNCHANGED <<job, event>>

-----------------------------------------------------------------------------
(* Notifications: the taken event is read back after the write, the        *)
(* untaken event before it.  A failed read costs the event, not the request. *)

TakenEvent(h) == [kind |-> "taken", id |-> job[h].id,
                  requester |-> rows[job[h].id].postedBy,
                  taker |-> rows[job[h].id].takenBy]

TakeDetail_Unchecked(h) ==      \* fault: the read's error is not looked at
  /\ pc[h] = "takeDetail"
  /\ event' = [event EXCEPT ![h] = TakenEvent(h)]
  /\ Goto(h, "notify")
  /\ UNCHANGED <<rows, nextId, job>>

TakeDetail(h) ==
  /\ pc[h] = "takeDetail"
  /\ \/ /\ Exists(job[h].id)
        /\ event' = [event EXCEPT ![h] = TakenEvent(h)]
        /\ Goto(h, "notify")
     \/ /\ Respond(h, "ok")              \* the row is gone, or the read failed
        /\ UNCHANGED event
  /\ UNCHANGED <<rows, nextId, job>>

UntakeDetail(h) ==
  /\ pc[h] = "untakeDetail"
  /\ \/ /\ Exists(job[h].id)
        /\ event' = [event EXCEPT ![h] = [kind |-> "untaken", id |-> job[h].id,
                                          requester |-> rows[job[h].id].postedBy,
                                          taker |-> job[h].viewer.id]]
     \/ UNCHANGED event                  \* the row is gone, or the read failed
  /\ Goto(h, "untake")
  /\ UNCHANGED <<rows, nextId, job>>

(* The event goes to the notifier's queue; a full queue is only logged.    *)
Notify(h) ==
  /\ pc[h] = "notify"
  /\ Respond(h, "ok")
  /\ UNCHANGED <<rows, nextId, job, event>>

-----------------------------------------------------------------------------
Arrive(h) == \E v \in Viewer(Users) :
               \/ BeginCreate(h, v)
               \/ \E id \in Ids : \/ BeginDelete(h, v, id)
                                  \/ BeginTake(h, v, id)
                                  \/ BeginUntake(h, v, id)
                                  \/ BeginFails(h, v, id)

Work(h) == \/ CreateWrite(h) \/ DeleteWrite(h) \/ TakeWrite(h) \/ UntakeWrite(h)
           \/ Missed(h) \/ StatementFails(h) \/ ReplyLost(h)
           \/ TakeDetail(h) \/ UntakeDetail(h) \/ Notify(h)

Step(h) == Arrive(h) \/ Work(h)

Next == \E h \in Handlers : Step(h)

Spec == Init /\ [][Next]_vars

(* A goroutine that can run does: every handler finishes what it started. *)
Fairness == \A h \in Handlers : WF_vars(Work(h))

FairSpec == Spec /\ Fairness

-----------------------------------------------------------------------------
(* What holds of it. *)

(* Every variable keeps its shape: a row has a poster, a working handler    *)
(* has a request, an event names the requester of a row that was there.    *)
TypeOK ==
  /\ rows \in [Ids -> Rows \cup {NoRow}]
  /\ nextId \in 1..(MaxId + 1)
  /\ pc \in [Handlers -> Labels]
  /\ job \in [Handlers -> Jobs \cup {NoJob}]
  /\ event \in [Handlers -> Events \cup {NoEvent}]
  /\ answer \in [Handlers -> Answers]

(* Nobody covers a show for himself.  The owner is compared with the viewer *)
(* on a copy of the row, before the UPDATE that names only its id; what    *)
(* keeps the copy good is that an id never comes back for another row.     *)
NoSelfCover ==
  \A id \in Ids : Exists(id) => rows[id].takenBy # rows[id].postedBy

(* Ids only run up: none is given twice, so an id in a handler's hands     *)
(* means the row it read or, once that is deleted, no row at all.          *)
IdsRunUp ==
  /\ \A id \in Ids : id >= nextId => rows[id] = NoRow
  /\ \A h \in Handlers : pc[h] \notin {"idle", "insert"} => job[h].id \in 1..(nextId - 1)

(* What a handler was allowed on the row it read, it is still allowed when  *)
(* it writes without looking again: no other request can turn the row into *)
(* one its viewer may not take or delete.                                  *)
AuthorityStands ==
  \A h \in Handlers :
     LET j == job[h] IN
     /\ pc[h] # "idle" => j \in Jobs
     /\ pc[h] = "insert" => j.op = "create"
     /\ pc[h] = "take"   => j.op = "take" /\ rows[j.id].postedBy # j.viewer.id
     /\ pc[h] = "delete" => /\ j.op = "delete"
                            /\ Exists(j.id) => j.viewer.admin \/ rows[j.id].postedBy = j.viewer.id
     /\ pc[h] \in {"untakeDetail", "untake"} => j.op = "untake"

(* The pages are honest: on a row as it stands, a button is shown exactly   *)
(* when pressing it would succeed - the operation is not refused, and the  *)
(* UPDATE behind it would touch the row.                                   *)
ButtonsWork ==
  \A id \in Ids, v \in Viewer(Users) : Exists(id) =>
    LET shown == Capabilities(v, rows[id])
    IN  /\ "delete" \in shown <=> DeleteRefusal(v, id) = "none"
        /\ "take"   \in shown <=> TakeRefusal(v, id) = "none" /\ rows[id].takenBy = NoUser
        /\ "untake" \in shown <=> UntakeRefusal(v, id) = "none" /\ rows[id].takenBy = v.id

(* The taken notification built for a take names the one who took          *)
(* (service.go notifySubRequestTaken, as its test expects).                *)
TakenEventNamesTaker ==
  \A h \in Handlers :
     pc[h] = "notify" /\ event[h].kind = "taken" => event[h].taker = job[h].viewer.id

(* Every request is answered: no statement, refusal or lost race leaves a  *)
(* handler working for ever.                                               *)
RequestsAnswered == \A h \in Handlers : pc[h] # "idle" ~> pc[h] = "idle"

(* The service is the Coverage board, whatever the handlers interleave: a  *)
(* request stands as an ask until its write, which carries it out whole.   *)
AskOf(h) ==
  IF pc[h] \in {"insert", "delete", "take", "untakeDetail", "untake"}
  THEN [op |-> job[h].op, by |-> job[h].viewer.id,
        admin |-> job[h].viewer.admin, id |-> job[h].id]
  ELSE [op |-> "none", by |-> NoUser, admin |-> FALSE, id |-> 0]

Board == INSTANCE Coverage WITH Desks <- Handlers, board <- rows,
                                asks <- [h \in Handlers |-> AskOf(h)]

(* Only an open request is taken, only its taker gives it up, only its     *)
(* poster or an admin deletes it, each at most once per request answered.  *)
ImplementsCoverage == Board!Spec
=============================================================================
