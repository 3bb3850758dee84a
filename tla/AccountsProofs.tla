--------------------------- MODULE AccountsProofs ---------------------------
(***************************************************************************)
(* The master account is there whenever the server serves, an account is    *)
(* changed by updates alone, and the last administrator goes in two ways    *)
(* only, for any emails and any number of handlers.                        *)
(*                                                                         *)
(* The invariant adds what these rest on: nobody works before the server    *)
(* is up, so that the seeding finds the table as it left it (StartsAlone);  *)
(* and an update on its way never disables the one who asked (SelfKept).    *)
(***************************************************************************)
EXTENDS Accounts, TLAPS

StartsAlone == /\ server # "up" => \A h \in Handlers : pc[h] = "idle"
               /\ server = "seeding" => ~Known(Master)

SparesSelf(j) == ~(j.target = j.viewer.id /\ j.change.on = "off")

SelfKept == \A h \in Handlers : pc[h] = "update" => SparesSelf(job[h])

IInv == TypeOK /\ MasterPresent /\ StartsAlone /\ SelfKept

Places  == {"idle", "in", "insert", "readBack", "update", "import"}
Jobs    == [viewer : Viewer(Emails \cup {NoUser}), target : Emails \cup {NoUser},
            change : Changes, batch : SUBSET Emails]
Answers == {"none", "done", "exists", "duplicate", "notFound", "forbidden", "invalid", "error"}
Table   == [Emails -> Account \cup {NoAccount}]

(* A job of the right shape for a place. *)
Fits(place, j) ==
  /\ place \in Places /\ j \in Jobs
  /\ place \in {"insert", "update"} => j.target \in Emails
  /\ place = "insert" => j.change.role \in Roles
  /\ place \in {"in", "insert", "update", "import"} => j.viewer.id \in Emails /\ j.viewer.admin
  /\ place = "update" => SparesSelf(j)

LEMMA NoJobFits == Fits("idle", NoJob) /\ Fits("readBack", NoJob)
BY DEF Fits, Places, Jobs, NoJob, NoChange, Changes, Viewer, Roles

(* TypeOK and SelfKept, one handler at a time. *)
LEMMA Shape ==
  TypeOK /\ SelfKept <=>
    /\ users \in Table /\ server \in {"down", "seeding", "up"}
    /\ pc \in [Handlers -> Places] /\ job \in [Handlers -> Jobs] /\ answer \in [Handlers -> Answers]
    /\ \A h \in Handlers : Fits(pc[h], job[h])
<1> DEFINE W == /\ users \in Table /\ server \in {"down", "seeding", "up"}
                /\ pc \in [Handlers -> Places] /\ job \in [Handlers -> Jobs]
                /\ answer \in [Handlers -> Answers]
<1>1. TypeOK => W
  BY DEF TypeOK, Table, Places, Jobs, Answers
<1>2. W => \A h \in Handlers : pc[h] \in Places /\ job[h] \in Jobs
  OBVIOUS
<1>3. TypeOK /\ SelfKept => \A h \in Handlers : Fits(pc[h], job[h])
  BY <1>1, <1>2 DEF TypeOK, SelfKept, Fits
<1>4. W /\ (\A h \in Handlers : Fits(pc[h], job[h])) => TypeOK /\ SelfKept
  BY DEF TypeOK, SelfKept, Fits, Table, Places, Jobs, Answers
<1> QED BY <1>1, <1>3, <1>4

(* The table is empty or what an earlier run left, and nobody is at work. *)
LEMMA InitInv == Init => IInv
<1> SUFFICES ASSUME Init PROVE IInv
  OBVIOUS
<1>1. \A h \in Handlers : pc[h] = "idle" /\ job[h] = NoJob
  BY DEF Init
<1>2. /\ users \in Table /\ server = "down"
      /\ pc \in [Handlers -> Places] /\ answer \in [Handlers -> Answers]
  BY DEF Init, Table, Places, Answers
<1>3. job \in [Handlers -> Jobs]
  BY NoJobFits DEF Init, Fits
<1>4. TypeOK /\ SelfKept
  BY <1>1, <1>2, <1>3, NoJobFits, Shape
<1> QED BY <1>1, <1>2, <1>4 DEF IInv, MasterPresent, StartsAlone

-----------------------------------------------------------------------------
(* Accounts never go. *)
Kept == \A e \in Emails : Known(e) => Known(e)'

(* One handler moves, with a job that fits, over a table that loses none. *)
LEMMA HandlerInv ==
  ASSUME IInv, NEW h \in Handlers, NEW to, NEW j, Fits(to, j), NEW a \in Answers,
         pc[h] # "idle" \/ server = "up",
         pc' = [pc EXCEPT ![h] = to], job' = [job EXCEPT ![h] = j],
         answer' = [answer EXCEPT ![h] = a] \/ UNCHANGED answer,
         UNCHANGED server, users' \in Table, Kept
  PROVE  IInv'
<1>1. /\ pc \in [Handlers -> Places] /\ job \in [Handlers -> Jobs] /\ answer \in [Handlers -> Answers]
      /\ \A g \in Handlers : Fits(pc[g], job[g])
      /\ server \in {"down", "seeding", "up"}
  BY Shape DEF IInv
<1>2. to \in Places /\ j \in Jobs
  BY DEF Fits
<1>3. pc' \in [Handlers -> Places] /\ job' \in [Handlers -> Jobs] /\ answer' \in [Handlers -> Answers]
  BY <1>1, <1>2
<1>4. \A g \in Handlers : Fits(pc[g], job[g])'
  <2> SUFFICES ASSUME NEW g \in Handlers PROVE Fits(pc'[g], job'[g])
    BY DEF Fits, SparesSelf, Places, Jobs
  <2>1. CASE g = h
    BY <1>1, <2>1
  <2>2. CASE g # h
    BY <1>1, <2>2
  <2> QED BY <2>1, <2>2
<1>5. (TypeOK /\ SelfKept)'
  BY <1>1, <1>3, <1>4 DEF TypeOK, SelfKept, Fits, SparesSelf, Table, Places, Jobs, Answers
<1>6. server = "up"
  BY DEF IInv, StartsAlone
<1> QED BY <1>5, <1>6, MasterAssumption DEF IInv, MasterPresent, StartsAlone, Kept

(* ... and answers, or goes on to work. *)
LEMMA RespondInv ==
  ASSUME IInv, NEW h \in Handlers, NEW a \in Answers, pc[h] # "idle" \/ server = "up",
         Respond(h, a), UNCHANGED server, users' \in Table, Kept
  PROVE  IInv'
BY HandlerInv, NoJobFits DEF Respond

LEMMA GoOnInv ==
  ASSUME IInv, NEW h \in Handlers, NEW to, NEW j, Fits(to, j), pc[h] # "idle",
         GoOn(h, to, j), UNCHANGED server, users' \in Table, Kept
  PROVE  IInv'
<1>1. "none" \in Answers
  BY DEF Answers
<1> QED BY <1>1, HandlerInv DEF GoOn

LEMMA SameTable == ASSUME IInv, UNCHANGED users PROVE users' \in Table /\ Kept
BY Shape DEF IInv, Kept, Known

-----------------------------------------------------------------------------
(* Requests coming in, and what they are refused or taken on for.           *)
LEMMA AskInv == ASSUME IInv, NEW h \in Handlers, Ask(h) PROVE IInv'
<1> DEFINE v == job[h].viewer
<1>0. /\ job[h] \in Jobs /\ users \in Table /\ Fits(pc[h], job[h])
      /\ pc \in [Handlers -> Places] /\ job \in [Handlers -> Jobs]
  BY Shape DEF IInv
<1>a. {"none", "done", "exists", "forbidden"} \subseteq Answers
  BY DEF Answers
<1>1. ASSUME NEW e \in Emails, Enter(h, e) PROVE IInv'
  <2> DEFINE j == [NoJob EXCEPT !.viewer = [id |-> e, admin |-> TRUE]]
  <2>1. UNCHANGED <<users, server>> /\ server = "up"
    BY <1>1 DEF Enter
  <2>2. Fits("in", j)
    BY NoJobFits DEF Fits, Places, Jobs, NoJob, NoChange, Changes, Viewer, Roles
  <2>3. CASE users[e].role = "admin"
    <3>1. pc' = [pc EXCEPT ![h] = "in"] /\ job' = [job EXCEPT ![h] = j]
          /\ answer' = [answer EXCEPT ![h] = "none"]
      BY <1>1, <2>3 DEF Enter
    <3> HIDE DEF j
    <3> QED BY <3>1, <2>1, <2>2, <1>a, SameTable, HandlerInv
  <2>4. CASE users[e].role # "admin"
    BY <1>1, <2>1, <2>4, <1>a, SameTable, RespondInv DEF Enter
  <2> QED BY <2>3, <2>4
<1>2. ASSUME NEW e \in Emails, NEW r \in Roles, Create(h, e, r) PROVE IInv'
  <2> DEFINE j == [job[h] EXCEPT !.target = e, !.change.role = r]
  <2>1. pc[h] = "in" /\ UNCHANGED <<users, server>>
    BY <1>2 DEF Create
  <2>2. Fits("insert", j)
    BY <1>0, <2>1 DEF Fits, Places, Jobs, Changes, Roles
  <2>3. CASE Known(e)
    BY <1>2, <2>1, <2>3, <1>a, SameTable, RespondInv DEF Create
  <2>4. CASE ~Known(e)
    <3>1. GoOn(h, "insert", j)
      BY <1>2, <2>4 DEF Create
    <3> HIDE DEF j
    <3> QED BY <3>1, <2>1, <2>2, SameTable, GoOnInv
  <2> QED BY <2>3, <2>4
<1>3. ASSUME NEW e \in Emails, NEW c \in Changes, Update(h, e, c) PROVE IInv'
  <2> DEFINE j == [job[h] EXCEPT !.target = e, !.change = c]
  <2>1. pc[h] = "in" /\ UNCHANGED <<users, server>>
    BY <1>3 DEF Update
  <2>2. CASE Respond(h, "forbidden") \/ Respond(h, "done")
    BY <2>1, <2>2, <1>a, SameTable, RespondInv
  <2>3. CASE ~UpdateRefused(v, e, c) /\ GoOn(h, "update", j)
    <3>1. ~(c.on = "off" /\ e = v.id)
      BY <2>3 DEF UpdateRefused
    <3>2. j \in Jobs /\ j.target = e /\ j.change = c /\ j.viewer = v
      BY <1>0 DEF Jobs
    <3>3. Fits("update", j)
      BY <1>0, <2>1, <3>1, <3>2 DEF Fits, Places, SparesSelf
    <3> HIDE DEF j
    <3> QED BY <2>1, <2>3, <3>3, SameTable, GoOnInv
  <2> QED BY <1>3, <2>2, <2>3 DEF Update
<1>4. ASSUME NEW emails \in SUBSET Emails, Import(h, emails) PROVE IInv'
  <2> DEFINE j == [job[h] EXCEPT !.batch = emails]
  <2>1. pc[h] = "in" /\ UNCHANGED <<users, server>>
    BY <1>4 DEF Import
  <2>2. Fits("import", j)
    BY <1>0, <2>1 DEF Fits, Places, Jobs
  <2>3. CASE Respond(h, "done")
    BY <2>1, <2>3, <1>a, SameTable, RespondInv
  <2>4. CASE GoOn(h, "import", j)
    <3> HIDE DEF j
    <3> QED BY <2>1, <2>2, <2>4, SameTable, GoOnInv
  <2> QED BY <1>4, <2>3, <2>4 DEF Import
<1>5. CASE List(h)
  BY <1>5, <1>a, SameTable, RespondInv DEF List
<1> QED BY <1>1, <1>2, <1>3, <1>4, <1>5 DEF Ask
-----------------------------------------------------------------------------
(* The writes, one lemma for what each does to the table: every account     *)
(* there stays, and only an update touches it.                             *)
Untouched == \A e \in Emails : Known(e) => users'[e] = users[e]

LEMMA UntouchedKept == Untouched => Kept
BY DEF Untouched, Kept, Known

LEMMA InsertTable ==
  ASSUME IInv, NEW h \in Handlers, pc[h] = "insert", ~Known(job[h].target), Insert(h)
  PROVE  users' \in Table /\ Untouched
<1>1. users \in Table /\ Fits(pc[h], job[h])
  BY Shape DEF IInv
<1>2. job[h].change.role \in Roles /\ job[h].target \in Emails
  BY <1>1 DEF Fits
<1> QED BY <1>1, <1>2 DEF Insert, Untouched, Known, Table, Account

LEMMA ImportTable ==
  ASSUME IInv, NEW h \in Handlers, ImportUsers(h)
  PROVE  users' \in Table /\ Untouched
<1>1. users \in Table
  BY Shape DEF IInv
<1>2. \A e \in Emails : Imported(e) \in Account
  BY DEF Imported, Account, Roles
<1> QED BY <1>1, <1>2 DEF ImportUsers, Untouched, Known, Table

LEMMA UpdateTable ==
  ASSUME IInv, NEW h \in Handlers, pc[h] = "update", Known(job[h].target),
         users' = [users EXCEPT ![job[h].target] = Changed(users[job[h].target], job[h].change)]
  PROVE  /\ users' \in Table /\ Kept
         /\ \A e \in Emails : e # job[h].target => users'[e] = users[e]
<1>1. users \in Table /\ Fits(pc[h], job[h]) /\ job[h] \in Jobs
  BY Shape DEF IInv
<1>2. job[h].target \in Emails /\ job[h].change \in Changes
  BY <1>1 DEF Fits, Jobs
<1>3. users[job[h].target] \in Account
  BY <1>1, <1>2 DEF Known, Table
<1>4. Changed(users[job[h].target], job[h].change) \in Account
  BY <1>2, <1>3 DEF Changed, Account, Changes
<1>5. NoAccount \notin Account
  BY DEF NoAccount, Account, Roles
<1>6. users' \in Table
  BY <1>1, <1>2, <1>4 DEF Table
<1>7. users'[job[h].target] \in Account
  BY <1>1, <1>2, <1>4 DEF Table
<1>8. \A e \in Emails : e # job[h].target => users'[e] = users[e]
  BY <1>1, <1>2 DEF Table
<1> QED BY <1>5, <1>6, <1>7, <1>8 DEF Kept, Known

LEMMA WorkInv == ASSUME IInv, NEW h \in Handlers, Work(h) PROVE IInv'
<1>a. Answers = {"none", "done", "exists", "duplicate", "notFound", "forbidden", "invalid", "error"}
  BY DEF Answers
<1>1. CASE InsertUser(h)
  <2>1. pc[h] = "insert" /\ UNCHANGED server
    BY <1>1 DEF InsertUser
  <2>2. CASE ~Known(job[h].target) /\ Insert(h) /\ (GoOn(h, "readBack", NoJob) \/ Respond(h, "error"))
    <3>1. users' \in Table /\ Kept
      BY <2>1, <2>2, InsertTable, UntouchedKept
    <3> QED BY <2>1, <2>2, <3>1, <1>a, NoJobFits, GoOnInv, RespondInv
  <2>3. CASE UNCHANGED users /\ Respond(h, "duplicate")
    BY <2>1, <2>3, <1>a, SameTable, RespondInv
  <2> QED BY <1>1, <2>2, <2>3 DEF InsertUser
<1>2. CASE ReadBack(h)
  BY <1>2, <1>a, SameTable, RespondInv DEF ReadBack
<1>3. CASE ApplyUpdate(h)
  <2>1. pc[h] = "update" /\ UNCHANGED server
    BY <1>3 DEF ApplyUpdate
  <2>2. CASE UNCHANGED users /\ Respond(h, "notFound")
    BY <2>1, <2>2, <1>a, SameTable, RespondInv
  <2>3. CASE /\ Known(job[h].target)
             /\ users' = [users EXCEPT ![job[h].target] = Changed(users[job[h].target], job[h].change)]
             /\ Respond(h, "done") \/ Respond(h, "error")
    BY <2>1, <2>3, <1>a, UpdateTable, RespondInv
  <2> QED BY <1>3, <2>2, <2>3 DEF ApplyUpdate
<1>4. CASE ImportUsers(h)
  <2>1. pc[h] = "import" /\ UNCHANGED server /\ (Respond(h, "done") \/ Respond(h, "error"))
    BY <1>4 DEF ImportUsers
  <2> QED BY <1>4, <2>1, <1>a, ImportTable, UntouchedKept, RespondInv
<1>5. CASE Fails(h)
  BY <1>5, <1>a, SameTable, RespondInv DEF Fails
<1> QED BY <1>1, <1>2, <1>3, <1>4, <1>5 DEF Work

-----------------------------------------------------------------------------
(* The server's own steps.                                                  *)
LEMMA SeedTable == ASSUME IInv, BootSeed PROVE users' \in Table /\ Untouched
<1>1. users \in Table /\ ~Known(Master)
  BY Shape DEF IInv, StartsAlone, BootSeed
<1>2. [role |-> "admin", on |-> TRUE] \in Account
  BY DEF Account, Roles
<1> QED BY <1>1, <1>2 DEF BootSeed, Untouched, Known, Table

LEMMA ServerInv == ASSUME IInv, BootLook \/ BootSeed \/ Stop PROVE IInv'
<1>0. /\ users \in Table /\ server \in {"down", "seeding", "up"}
      /\ pc \in [Handlers -> Places] /\ job \in [Handlers -> Jobs] /\ answer \in [Handlers -> Answers]
      /\ \A h \in Handlers : Fits(pc[h], job[h])
  BY Shape DEF IInv
<1>1. CASE BootLook
  <2>1. UNCHANGED <<users, pc, job, answer>> /\ server = "down"
        /\ server' = IF Known(Master) THEN "up" ELSE "seeding"
    BY <1>1 DEF BootLook, requests
  <2> QED BY <1>0, <2>1 DEF IInv, TypeOK, MasterPresent, StartsAlone, SelfKept, SparesSelf, Known
<1>2. CASE BootSeed
  <2>1. UNCHANGED <<pc, job, answer>> /\ server = "seeding" /\ server' \in {"up", "down"}
    BY <1>2 DEF BootSeed, requests
  <2>2. users' \in Table
    BY <1>2, SeedTable
  <2>3. server' = "up" => users'[Master] # NoAccount
    BY <1>0, <1>2, <2>1, MasterAssumption DEF BootSeed, NoAccount, Table
  <2> QED BY <2>1, <2>2, <2>3 DEF IInv, TypeOK, MasterPresent, StartsAlone, SelfKept, SparesSelf, Known, Table
<1>3. CASE Stop
  <2>1. /\ UNCHANGED users /\ server' = "down"
        /\ pc' = [h \in Handlers |-> "idle"] /\ job' = [h \in Handlers |-> NoJob]
        /\ answer' = [h \in Handlers |-> "none"]
    BY <1>3 DEF Stop
  <2>2. NoJob \in Jobs
    BY NoJobFits DEF Fits
  <2>3. job' \in [Handlers -> Jobs] /\ \A h \in Handlers : pc'[h] = "idle"
    BY <2>1, <2>2
  <2>4. TypeOK'
    BY <1>0, <2>1, <2>3 DEF TypeOK, Table, Jobs
  <2> QED BY <2>1, <2>3, <2>4 DEF IInv, MasterPresent, StartsAlone, SelfKept
<1> QED BY <1>1, <1>2, <1>3

LEMMA StutterInv == IInv /\ UNCHANGED vars => IInv'
BY DEF IInv, TypeOK, MasterPresent, StartsAlone, SelfKept, SparesSelf, Known, vars

(* The invariant holds in every reachable state. *)
THEOREM Invariance == Spec => []IInv
<1>1. IInv /\ [Next]_vars => IInv'
  BY AskInv, WorkInv, ServerInv, StutterInv DEF Next
<1> QED BY InitInv, <1>1, PTL DEF Spec

(* Every variable keeps its shape, and no request of a member gets past      *)
(* RequireAdmin.                                                           *)
THEOREM TypeCorrect == Spec => []TypeOK
<1>1. IInv => TypeOK
  BY DEF IInv
<1> QED BY <1>1, Invariance, PTL

(* A serving server has its master account, whatever starts failed before.  *)
THEOREM MasterStays == Spec => []MasterPresent
<1>1. IInv => MasterPresent
  BY DEF IInv
<1> QED BY <1>1, Invariance, PTL

(* What the admin page offers is accepted, and puts nobody out of office    *)
(* by his own hand: a form about the viewer is there only when his account *)
(* is not enabled any more.                                                *)
THEOREM PageHonest == Spec => []AdminPageHonest
<1>1. IInv => AdminPageHonest
  <2> SUFFICES ASSUME IInv, NEW h \in Handlers, NEW e \in Emails, pc[h] = "in", Known(e),
                      NEW c \in Forms(job[h].viewer, e)
               PROVE  /\ ~UpdateRefused(job[h].viewer, e, c)
                      /\ e = job[h].viewer.id /\ InOffice(users[e]) => InOffice(Changed(users[e], c))
    BY DEF AdminPageHonest
  <2> DEFINE v == job[h].viewer
  <2>1. CanDeactivate(v, e) /\ c \in Changes
    BY DEF Forms
  <2>2. ~(users[e].on /\ e = v.id)
    BY <2>1 DEF CanDeactivate
  <2>3. v.admin
    BY DEF IInv, TypeOK
  <2>4. c.on = "off" => users[e].on
    BY DEF Forms, NoChange
  <2>5. ~(c.on = "off" /\ e = v.id)
    BY <2>2, <2>4
  <2>6. Authorize(v, "user:update", UserResource(e, c.on = "off"))
    <3>1. Rule("user:update", "user", "admin_except_self_deactivate") \in BaselinePolicies
      BY DEF BaselinePolicies
    <3>2. MatchesRule("admin_except_self_deactivate", v, UserResource(e, c.on = "off"))
      BY <2>3, <2>5 DEF MatchesRule, UserResource, Blank
    <3> QED BY <3>1, <3>2 DEF Authorize, Enforce, Rule, UserResource, Blank
  <2> QED BY <2>2, <2>5, <2>6 DEF UpdateRefused, InOffice
<1> QED BY <1>1, Invariance, PTL

-----------------------------------------------------------------------------
(* What a step does to the table: an update by one handler, or nothing to   *)
(* any account there.                                                      *)
Updates(h) == /\ pc[h] = "update" /\ pc'[h] = "idle" /\ Known(job[h].target)
              /\ users' = [users EXCEPT ![job[h].target] = Changed(users[job[h].target], job[h].change)]

LEMMA TableSteps ==
  ASSUME IInv, [Next]_vars
  PROVE  Untouched \/ \E h \in Handlers : Updates(h)
<1>1. ASSUME UNCHANGED users PROVE Untouched
  BY <1>1 DEF Untouched
<1>2. CASE UNCHANGED vars
  BY <1>1, <1>2 DEF vars
<1>3. CASE BootLook \/ Stop
  BY <1>1, <1>3 DEF BootLook, Stop
<1>4. CASE BootSeed
  BY <1>4, SeedTable
<1>5. ASSUME NEW h \in Handlers, Ask(h) PROVE Untouched
  BY <1>1, <1>5 DEF Ask, Enter, List, Create, Update, Import
<1>6. ASSUME NEW h \in Handlers, Work(h) PROVE Untouched \/ Updates(h)
  <2>1. CASE InsertUser(h)
    BY <1>1, <2>1, InsertTable DEF InsertUser
  <2>2. CASE ReadBack(h) \/ Fails(h)
    BY <1>1, <2>2 DEF ReadBack, Fails
  <2>3. CASE ImportUsers(h)
    BY <2>3, ImportTable
  <2>4. CASE ApplyUpdate(h)
    <3>1. pc \in [Handlers -> Places]
      BY Shape DEF IInv
    <3>2. pc'[h] = "idle"
      BY <2>4, <3>1 DEF ApplyUpdate, Respond
    <3> QED BY <1>1, <2>4, <3>2 DEF ApplyUpdate, Updates
  <2> QED BY <1>6, <2>1, <2>2, <2>3, <2>4 DEF Work
<1> QED BY <1>2, <1>3, <1>4, <1>5, <1>6 DEF Next

(* An account is changed by an administrator's update and by nothing else.  *)
THEOREM OnlyUpdates == Spec => UpdatedOnlyByUpdate
<1> DEFINE A == \A e \in Emails : Known(e) /\ users'[e] # users[e] =>
                  \E h \in Handlers : pc[h] = "update" /\ job[h].target = e /\ Known(e)'
<1>1. ASSUME IInv, [Next]_vars PROVE A
  <2>1. CASE Untouched
    BY <2>1 DEF Untouched
  <2>2. ASSUME NEW h \in Handlers, Updates(h) PROVE A
    <3>1. /\ \A e \in Emails : e # job[h].target => users'[e] = users[e]
          /\ Kept
      BY <1>1, <2>2, UpdateTable DEF Updates
    <3> QED BY <2>2, <3>1 DEF Updates, Kept
  <2> QED BY <1>1, <2>1, <2>2, TableSteps
<1>2. IInv /\ [Next]_vars => [A]_vars
  BY <1>1
<1> HIDE DEF A
<1>3. Spec => [][A]_vars
  BY <1>2, Invariance, PTL DEF Spec
<1> QED BY <1>3 DEF A, UpdatedOnlyByUpdate

(* The last enabled administrator demotes himself, or goes by the hand of    *)
(* one who has lost his rights since he asked.                             *)
THEOREM LastOne == Spec => LastAdminGoes
<1> DEFINE A == Admins(users) # {} /\ Admins(users') = {} =>
                  \E h \in Handlers : LET v == job[h].viewer.id IN
                     /\ pc[h] = "update" /\ pc'[h] = "idle"
                     /\ \/ v \notin Admins(users)
                        \/ v = job[h].target /\ users'[v].on
<1>1. ASSUME IInv, [Next]_vars PROVE A
  <2>1. CASE Untouched
    <3>1. ASSUME NEW e \in Emails, e \in Admins(users) PROVE e \in Admins(users')
      <4>1. Known(e)
        BY <3>1 DEF Admins, Known, NoAccount
      <4> QED BY <2>1, <3>1, <4>1 DEF Untouched, Admins
    <3> QED BY <3>1 DEF Admins
  <2>2. ASSUME NEW h \in Handlers, Updates(h), job[h].viewer.id \in Admins(users), Admins(users') = {}
        PROVE  job[h].viewer.id = job[h].target /\ users'[job[h].target].on
    <3> DEFINE v == job[h].viewer.id
    <3>1. /\ users \in Table /\ Fits(pc[h], job[h]) /\ pc[h] = "update"
      BY <1>1, <2>2, Shape DEF IInv, Updates
    <3>2. \A e \in Emails : e # job[h].target => users'[e] = users[e]
      BY <1>1, <2>2, UpdateTable DEF Updates
    <3>3. v = job[h].target
      BY <2>2, <3>2 DEF Admins
    <3>4. users[v].on /\ v \in Emails
      BY <2>2 DEF Admins
    <3>5. job[h].change.on # "off"
      BY <3>1, <3>3 DEF Fits, SparesSelf
    <3>6. users'[v] = Changed(users[v], job[h].change)
      BY <2>2, <3>1, <3>3, <3>4 DEF Updates, Table
    <3>7. job[h].change.on \in {"on", "keep"}
      BY <3>1, <3>5 DEF Fits, Jobs, Changes
    <3>8. Changed(users[v], job[h].change).on
      BY <3>4, <3>7 DEF Changed
    <3> QED BY <3>3, <3>6, <3>8
  <2> QED BY <1>1, <2>1, <2>2, TableSteps DEF Updates
<1>2. IInv /\ [Next]_vars => [A]_vars
  BY <1>1
<1> HIDE DEF A
<1>3. Spec => [][A]_vars
  BY <1>2, Invariance, PTL DEF Spec
<1> QED BY <1>3 DEF A, LastAdminGoes
=============================================================================
