------------------------------ MODULE Accounts ------------------------------
(***************************************************************************)
(* The users table and those who write it: the seeding of the master       *)
(* account at every start (internal/app/bootstrap) and the administrators' *)
(* requests (internal/app/admin), over the repository in                   *)
(* internal/adapters/outbound/sqlite.  Handlers run concurrently, one      *)
(* statement of the database per step, on the role AuthMiddleware read     *)
(* when the request came in.  The process may stop at any step.            *)
(*                                                                         *)
(* Rows are never deleted and emails are UNIQUE, so an account is known by *)
(* its email; an id no row has is the email of no account.                 *)
(***************************************************************************)
EXTENDS Authorization

CONSTANTS Emails, Handlers,
          Master                \* MASTER_EMAIL

ASSUME MasterAssumption == Master \in Emails /\ NoUser \notin Emails

VARIABLES users,        \* the table users, by email
          server,       \* "down", "seeding" the master account, or "up"
          pc,           \* where each handler is
          job,          \* who asked, and what for
          answer

vars == <<users, server, pc, job, answer>>

Roles     == {"admin", "member"}
NoAccount == [role |-> "none", on |-> FALSE]
Account   == [role : Roles, on : BOOLEAN]

(* What POST /users/{id} may change; a field left out is kept. *)
Changes  == [role : Roles \cup {"keep"}, on : {"on", "off", "keep"}]
NoChange == [role |-> "keep", on |-> "keep"]

NoJob == [viewer |-> [id |-> NoUser, admin |-> FALSE], target |-> NoUser,
          change |-> NoChange, batch |-> {}]

Known(e) == users[e] # NoAccount

Init == /\ users \in [Emails -> Account \cup {NoAccount}]     \* what earlier runs left
        /\ server = "down"
        /\ pc = [h \in Handlers |-> "idle"]
        /\ job = [h \in Handlers |-> NoJob]
        /\ answer = [h \in Handlers |-> "none"]

requests == <<pc, job, answer>>

GoOn(h, to, j) == /\ pc' = [pc EXCEPT ![h] = to]
                  /\ job' = [job EXCEPT ![h] = j]
                  /\ UNCHANGED answer

Respond(h, a) == /\ pc' = [pc EXCEPT ![h] = "idle"]
                 /\ job' = [job EXCEPT ![h] = NoJob]
                 /\ answer' = [answer EXCEPT ![h] = a]

-----------------------------------------------------------------------------
(* EnsureMasterUser.  It looks for the account and creates it as an admin; *)
(* one that is there is left as it is.  A failure ends the start.          *)
BootLook == /\ server = "down"
            /\ server' = IF Known(Master) THEN "up" ELSE "seeding"
            /\ UNCHANGED <<users, requests>>

BootSeed_IgnoresError ==        \* fault: the error of CreateUser is only logged
  /\ server = "seeding"
  /\ users' \in {users, [users EXCEPT ![Master] = [role |-> "admin", on |-> TRUE]]}
  /\ server' = "up"
  /\ UNCHANGED requests

BootSeed ==
  /\ server = "seeding"
  /\ \/ /\ users' = [users EXCEPT ![Master] = [role |-> "admin", on |-> TRUE]]
        /\ server' \in {"up", "down"}            \* reading the row back may fail
     \/ /\ UNCHANGED users
        /\ server' = "down"
  /\ UNCHANGED requests

Stop == /\ server # "down"
        /\ server' = "down"
        /\ pc' = [h \in Handlers |-> "idle"]
        /\ job' = [h \in Handlers |-> NoJob]
        /\ answer' = [h \in Handlers |-> "none"]
        /\ UNCHANGED users

-----------------------------------------------------------------------------
(* AuthMiddleware reads the account, RequireAdmin looks at the role read.  *)
Enter(h, e) ==
  /\ server = "up" /\ pc[h] = "idle" /\ users[e].on
  /\ IF users[e].role = "admin"
     THEN /\ pc' = [pc EXCEPT ![h] = "in"]
          /\ job' = [job EXCEPT ![h] = [NoJob EXCEPT !.viewer = [id |-> e, admin |-> TRUE]]]
          /\ answer' = [answer EXCEPT ![h] = "none"]
     ELSE Respond(h, "forbidden")
  /\ UNCHANGED <<users, server>>

(* ListUsers: the page, with the forms admin.templ puts beside an account   *)
(* the viewer can deactivate or reinstate.                                 *)
CanDeactivate_Inverted(v, e) ==       \* fault: disableTarget is the enabling the form asks for
  ~(~users[e].on /\ e = v.id) /\ Authorize(v, "user:update", UserResource(e, ~users[e].on))

CanDeactivate(v, e) ==
  ~(users[e].on /\ e = v.id) /\ Authorize(v, "user:update", UserResource(e, users[e].on))

Forms(v, e) ==
  {c \in Changes :
     /\ CanDeactivate(v, e)
     /\ \/ c = [NoChange EXCEPT !.on = IF users[e].on THEN "off" ELSE "on"]
        \/ users[e].on /\ c = [NoChange EXCEPT !.role = IF users[e].role = "admin" THEN "member" ELSE "admin"]}

List(h) ==
  /\ pc[h] = "in" /\ Authorize(job[h].viewer, "user:list", AdminResource)
  /\ Respond(h, "done")
  /\ UNCHANGED <<users, server>>

(* CreateUser: it looks for the email, then inserts, then reads back.      *)
Create(h, e, r) ==
  /\ pc[h] = "in" /\ Authorize(job[h].viewer, "user:create", AdminResource)
  /\ IF Known(e) THEN Respond(h, "exists")
     ELSE GoOn(h, "insert", [job[h] EXCEPT !.target = e, !.change.role = r])
  /\ UNCHANGED <<users, server>>

Insert(h) == users' = [users EXCEPT ![job[h].target] = [role |-> job[h].change.role, on |-> TRUE]]

InsertUser(h) ==
  /\ pc[h] = "insert"
  /\ \/ /\ ~Known(job[h].target) /\ Insert(h)
        /\ GoOn(h, "readBack", NoJob) \/ Respond(h, "error")     \* the reply may be lost
     \/ /\ Known(job[h].target) /\ UNCHANGED users
        /\ Respond(h, "duplicate")                              \* UNIQUE is violated
  /\ UNCHANGED server

ReadBack(h) == /\ pc[h] = "readBack"
               /\ Respond(h, "done")
               /\ UNCHANGED <<users, server>>

(* UpdateUser: refused on the request and the role read, never on the table. *)
UpdateRefused_RoleFirst(v, e, c) ==      \* fault: a request that sets a role is not looked at for the rest
  LET disable == c.role = "keep" /\ c.on = "off" IN
  \/ disable /\ e = v.id
  \/ ~Authorize(v, "user:update", UserResource(e, disable))

UpdateRefused(v, e, c) ==
  LET disable == c.on = "off" IN
  \/ disable /\ e = v.id
  \/ ~Authorize(v, "user:update", UserResource(e, disable))

Update(h, e, c) ==
  /\ pc[h] = "in"
  /\ IF UpdateRefused(job[h].viewer, e, c) THEN Respond(h, "forbidden")
     ELSE IF c = NoChange THEN Respond(h, "done")
     ELSE GoOn(h, "update", [job[h] EXCEPT !.target = e, !.change = c])
  /\ UNCHANGED <<users, server>>

Changed(a, c) == [role |-> IF c.role = "keep" THEN a.role ELSE c.role,
                  on   |-> IF c.on = "keep" THEN a.on ELSE c.on = "on"]

(* One UPDATE, of the columns given. *)
ApplyUpdate(h) ==
  /\ pc[h] = "update"
  /\ LET e == job[h].target IN
     \/ /\ Known(e)
        /\ users' = [users EXCEPT ![e] = Changed(users[e], job[h].change)]
        /\ Respond(h, "done") \/ Respond(h, "error")
     \/ ~Known(e) /\ Respond(h, "notFound") /\ UNCHANGED users
  /\ UNCHANGED server

(* ImportCatalogUsers: no personas, or none to be had, changes nothing.    *)
Import(h, emails) ==
  /\ pc[h] = "in" /\ Authorize(job[h].viewer, "user:create", AdminResource)
  /\ IF emails = {} THEN Respond(h, "done")
     ELSE GoOn(h, "import", [job[h] EXCEPT !.batch = emails])
  /\ UNCHANGED <<users, server>>

Imported(e) == [role |-> "member", on |-> TRUE]

ImportUsers_Replaces(h) ==      \* fault: ON CONFLICT ... DO UPDATE
  /\ pc[h] = "import"
  /\ users' = [e \in Emails |-> IF e \in job[h].batch THEN Imported(e) ELSE users[e]]
  /\ Respond(h, "done")
  /\ UNCHANGED server

(* One transaction; whom it finds it leaves alone. *)
ImportUsers(h) ==
  /\ pc[h] = "import"
  /\ users' = [e \in Emails |-> IF e \in job[h].batch /\ ~Known(e) THEN Imported(e) ELSE users[e]]
  /\ Respond(h, "done") \/ Respond(h, "error")
  /\ UNCHANGED server

(* The input is refused, or a statement fails and nothing is written. *)
Fails(h) == /\ pc[h] # "idle"
            /\ \/ pc[h] = "in" /\ Respond(h, "invalid")
               \/ Respond(h, "error")
            /\ UNCHANGED <<users, server>>

-----------------------------------------------------------------------------
Ask(h) == \/ \E e \in Emails : Enter(h, e)
          \/ List(h)
          \/ \E e \in Emails, r \in Roles : Create(h, e, r)
          \/ \E e \in Emails, c \in Changes : Update(h, e, c)
          \/ \E emails \in SUBSET Emails : Import(h, emails)

Work(h) == InsertUser(h) \/ ReadBack(h) \/ ApplyUpdate(h) \/ ImportUsers(h) \/ Fails(h)

Next == \/ BootLook \/ BootSeed \/ Stop
        \/ \E h \in Handlers : Ask(h) \/ Work(h)

Spec == Init /\ [][Next]_vars

-----------------------------------------------------------------------------
(* Shapes; a handler at work has an admin behind it, and one that writes    *)
(* has what to write.                                                      *)
TypeOK ==
  /\ users \in [Emails -> Account \cup {NoAccount}]
  /\ server \in {"down", "seeding", "up"}
  /\ pc \in [Handlers -> {"idle", "in", "insert", "readBack", "update", "import"}]
  /\ job \in [Handlers -> [viewer : Viewer(Emails \cup {NoUser}), target : Emails \cup {NoUser},
                           change : Changes, batch : SUBSET Emails]]
  /\ \A h \in Handlers :
       /\ pc[h] \in {"insert", "update"} => job[h].target \in Emails
       /\ pc[h] = "insert" => job[h].change.role \in Roles
       /\ pc[h] \in {"in", "insert", "update", "import"} =>
             job[h].viewer.id \in Emails /\ job[h].viewer.admin
  /\ answer \in [Handlers -> {"none", "done", "exists", "duplicate", "notFound",
                              "forbidden", "invalid", "error"}]

(* A server that serves has its master account, whatever failed or stopped  *)
(* during this start and the earlier ones; a row written by a start that    *)
(* then failed serves the next (bootstrap.EnsureMasterUser).               *)
MasterPresent == server = "up" => Known(Master)

(* An account stays, and once it is there only an administrator's update    *)
(* changes it: a create that loses its race, an import that lists it, a     *)
(* start that finds it all leave its role and its enabling alone.          *)
UpdatedOnlyByUpdate ==
  [][\A e \in Emails : Known(e) /\ users'[e] # users[e] =>
        \E h \in Handlers : pc[h] = "update" /\ job[h].target = e /\ Known(e)']_vars

Admins(table) == {e \in Emails : table[e].on /\ table[e].role = "admin"}

(* The last enabled administrator goes in two ways only: one demotes        *)
(* himself (and keeps his account enabled), or one whose own rights were    *)
(* taken since his request came in completes what he asked for.            *)
LastAdminGoes ==
  [][Admins(users) # {} /\ Admins(users') = {} =>
       \E h \in Handlers : LET v == job[h].viewer.id IN
          /\ pc[h] = "update" /\ pc'[h] = "idle"
          /\ \/ v \notin Admins(users)
             \/ v = job[h].target /\ users'[v].on]_vars

(* The admin page offers no form that is then refused, and by none of them   *)
(* does an administrator put himself out of office or out of his account,   *)
(* whatever others did to him and to the rest since his request came in.    *)
InOffice(a) == a.on /\ a.role = "admin"

AdminPageHonest ==
  \A h \in Handlers, e \in Emails :
    pc[h] = "in" /\ Known(e) =>
      LET v == job[h].viewer IN
      \A c \in Forms(v, e) :
        /\ ~UpdateRefused(v, e, c)
        /\ e = v.id /\ InOffice(users[e]) => InOffice(Changed(users[e], c))

(* To create an account that is there already is answered as such, by the   *)
(* redirect, and not as a failure of the server.                           *)
ExistingIsNoFailure == \A h \in Handlers : answer[h] # "duplicate"
=============================================================================
