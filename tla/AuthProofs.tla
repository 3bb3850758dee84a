----------------------------- MODULE AuthProofs -----------------------------
(***************************************************************************)
(* Magic links are single-use, and bound the sessions made of them, for any *)
(* number of users, handlers, links and sessions and any lifetimes.         *)
(*                                                                         *)
(* LinkInOnePlace alone is not inductive: a new link's number must not be   *)
(* carried already by a handler or a session (LinksNumbered), and a session *)
(* is bounded because the handler that makes it read its clock before the   *)
(* link expired (HeldInTime).                                              *)
(*                                                                         *)
(* Nor is anybody let in without cause, by the history AuthAudit keeps: a   *)
(* session found later than the clock was read was there when it was read, *)
(* because its number was given out before the request began (Seen).       *)
(***************************************************************************)
EXTENDS AuthAudit, TLAPS

(* Every link there is carries a number given out. *)
LinksNumbered == /\ \A l \in links : l.id < nextLink
                 /\ \A h \in Handlers : pc[h] = "create" => job[h].link.id < nextLink
                 /\ \A s \in sessions : s.link.id < nextLink
                 /\ \A h \in Handlers : pc[h] = "mail" => job[h].id < nextLink

HeldInTime == \A h \in Handlers : pc[h] = "create" => job[h].now < job[h].link.until

IInv == TypeOK /\ LinkInOnePlace /\ SessionsBoundedByLink /\ LinksNumbered /\ HeldInTime

Places == {"idle", "insert", "mail", "use", "create", "session", "user", "in"}
Jobs   == [now : Nat, id : Nat, user : Users \cup {0}, link : Links \cup {NoLink}]

LEMMA NoJobIsJob == NoJob \in Jobs
BY DEF NoJob, Jobs

(* The server starts with no link, no session and no handler at work. *)
LEMMA InitInv == Init => IInv
<1> SUFFICES ASSUME Init PROVE IInv
  OBVIOUS
<1>1. pc \in [Handlers -> Places] /\ job \in [Handlers -> Jobs] /\ \A h \in Handlers : pc[h] = "idle"
  BY NoJobIsJob DEF Init, Places
<1>2. TypeOK
  BY <1>1 DEF Init, TypeOK, Places, Jobs
<1> QED BY <1>1, <1>2 DEF Init, IInv, LinkInOnePlace, SessionsBoundedByLink, LinksNumbered, HeldInTime, Holds

-----------------------------------------------------------------------------
(* A handler that moves on holding no link, with a job of the right shape.  *)
Moves(h, to, j) ==
  /\ GoOn(h, to, j)
  /\ to \in Places \ {"create", "mail"}
  /\ j \in Jobs
  /\ to \in {"insert", "user", "in"} => j.user \in Users

LEMMA AnswerMoves == \A h \in Handlers : Answer(h) => Moves(h, "idle", NoJob)
BY NoJobIsJob DEF Answer, Moves, Places

LEMMA MoveInv ==
  ASSUME IInv, NEW h \in Handlers, NEW to, NEW j, Moves(h, to, j), UNCHANGED <<world, tables>>
  PROVE  IInv'
<1>1. /\ pc' = [pc EXCEPT ![h] = to] /\ job' = [job EXCEPT ![h] = j]
      /\ to \in Places /\ to # "create" /\ to # "mail" /\ j \in Jobs
      /\ to \in {"insert", "user", "in"} => j.user \in Users
  BY DEF Moves, GoOn
<1>2. pc \in [Handlers -> Places] /\ job \in [Handlers -> Jobs]
  BY DEF IInv, TypeOK, Places, Jobs
<1>3. pc' \in [Handlers -> Places] /\ job' \in [Handlers -> Jobs]
  BY <1>1, <1>2
<1>4. \A g \in Handlers : g # h => pc'[g] = pc[g] /\ job'[g] = job[g]
  BY <1>1, <1>2
<1>5. pc'[h] = to /\ job'[h] = j
  BY <1>1, <1>2
<1>6. UNCHANGED <<clock, enabled, links, nextLink, mailed, sessions, nextSession, cookies>>
  BY DEF world, tables
<1>7. \A g \in Handlers : /\ pc'[g] = "create" => job'[g].link \in Links
                          /\ pc'[g] \in {"insert", "user", "in"} => job'[g].user \in Users
  BY <1>1, <1>4, <1>5 DEF IInv, TypeOK
<1>8. TypeOK'
  BY <1>3, <1>6, <1>7 DEF IInv, TypeOK, Places, Jobs
<1>9. \A g \in Handlers : pc'[g] \in {"create", "mail"} => pc[g] = pc'[g] /\ job'[g] = job[g]
  BY <1>1, <1>4, <1>5
<1> HIDE DEF Places, Jobs
<1> QED BY <1>6, <1>8, <1>9 DEF IInv, LinkInOnePlace, SessionsBoundedByLink, LinksNumbered, HeldInTime, Holds

-----------------------------------------------------------------------------
(* Steps that leave the tables alone, and the handler's place too where the *)
(* statement failed.                                                       *)
LEMMA QuietInv ==
  ASSUME IInv, NEW h \in Handlers,
         \/ Begin(h) \/ FindSession(h) \/ CheckUser(h) \/ Leave(h) \/ Fails(h)
  PROVE  IInv'
<1> USE DEF Places
<1>0. job[h] \in Jobs
  BY DEF IInv, TypeOK, Jobs
<1>1. ASSUME NEW u \in Users, Login(h, u) PROVE IInv'
  <2>1. [NoJob EXCEPT !.user = u, !.now = clock] \in Jobs
       /\ [NoJob EXCEPT !.user = u, !.now = clock].user = u
    BY NoJobIsJob DEF IInv, TypeOK, Jobs
  <2>2. Moves(h, "insert", [NoJob EXCEPT !.user = u, !.now = clock])
    BY <1>1, <2>1 DEF Login, Moves
  <2> QED BY <1>1, <2>2, MoveInv DEF Login
<1>2. ASSUME NEW l \in mailed, Verify(h, l) PROVE IInv'
  <2>1. [NoJob EXCEPT !.id = l, !.now = clock] \in Jobs
    BY NoJobIsJob DEF IInv, TypeOK, Jobs
  <2>2. Moves(h, "use", [NoJob EXCEPT !.id = l, !.now = clock])
    BY <1>2, <2>1 DEF Verify, Moves
  <2> QED BY <1>2, <2>2, MoveInv DEF Verify
<1>3. ASSUME NEW s \in cookies, Enter(h, s) PROVE IInv'
  <2>1. [NoJob EXCEPT !.id = s, !.now = clock] \in Jobs
    BY NoJobIsJob DEF IInv, TypeOK, Jobs
  <2>2. Moves(h, "session", [NoJob EXCEPT !.id = s, !.now = clock])
    BY <1>3, <2>1 DEF Enter, Moves
  <2> QED BY <1>3, <2>2, MoveInv DEF Enter
<1>4. ASSUME NEW s \in Valid(h), GoOn(h, "user", [job[h] EXCEPT !.user = s.user]),
             UNCHANGED <<world, tables>>
      PROVE  IInv'
  <2>1. s.user \in Users
    BY DEF Valid, IInv, TypeOK, Sessions
  <2>2. /\ [job[h] EXCEPT !.user = s.user] \in Jobs
        /\ [job[h] EXCEPT !.user = s.user].user = s.user
    BY <1>0, <2>1 DEF Jobs
  <2>3. Moves(h, "user", [job[h] EXCEPT !.user = s.user])
    BY <1>4, <2>1, <2>2 DEF Moves
  <2> QED BY <1>4, <2>3, MoveInv
<1>5. ASSUME pc[h] = "user", GoOn(h, "in", job[h]), UNCHANGED <<world, tables>> PROVE IInv'
  <2>1. Moves(h, "in", job[h])
    BY <1>0, <1>5 DEF Moves, IInv, TypeOK
  <2> QED BY <1>5, <2>1, MoveInv
<1>6. ASSUME Answer(h), UNCHANGED <<world, tables>> PROVE IInv'
  BY <1>6, AnswerMoves, MoveInv
<1> QED BY <1>1, <1>2, <1>3, <1>4, <1>5, <1>6 DEF Begin, FindSession, CheckUser, Leave, Fails

-----------------------------------------------------------------------------
(* Steps that change the tables. *)

LEMMA InsertLinkInv ==
  ASSUME IInv, NEW h \in Handlers, InsertLink(h)
  PROVE  IInv'
<1> DEFINE link == [id |-> nextLink, user |-> job[h].user, until |-> job[h].now + LinkTTL]
<1>1. /\ links' = links \cup {link} /\ nextLink' = nextLink + 1
      /\ UNCHANGED <<clock, enabled, mailed, sessions, nextSession, cookies>>
      /\ pc[h] = "insert"
  BY DEF InsertLink, world
<1>2. link \in Links /\ link.id = nextLink
  BY <1>1, TTLAssumption DEF IInv, TypeOK, Links
<1>3. PICK to \in {"mail", "idle"}, j \in Jobs : GoOn(h, to, j) /\ (to = "mail" => j.id = nextLink)
  <2>1. [job[h] EXCEPT !.id = link.id] \in Jobs /\ [job[h] EXCEPT !.id = link.id].id = nextLink
    BY <1>2 DEF IInv, TypeOK, Jobs
  <2> QED BY <2>1, NoJobIsJob DEF InsertLink, Answer
<1>4. /\ pc' \in [Handlers -> Places] /\ job' \in [Handlers -> Jobs]
      /\ \A g \in Handlers : pc'[g] \in {"create", "insert", "user", "in"} =>
                               pc'[g] = pc[g] /\ job'[g] = job[g]
      /\ \A g \in Handlers : pc'[g] = "mail" =>
           \/ job'[g].id = nextLink
           \/ pc[g] = "mail" /\ job'[g] = job[g]
  <2>1. /\ pc' = [pc EXCEPT ![h] = to] /\ job' = [job EXCEPT ![h] = j]
        /\ pc \in [Handlers -> Places] /\ job \in [Handlers -> Jobs]
    BY <1>3 DEF GoOn, IInv, TypeOK, Places, Jobs
  <2>2. pc' \in [Handlers -> Places] /\ job' \in [Handlers -> Jobs]
    BY <1>3, <2>1 DEF Places
  <2>3. /\ pc'[h] = to /\ job'[h] = j
        /\ \A g \in Handlers : g # h => pc'[g] = pc[g] /\ job'[g] = job[g]
    BY <2>1
  <2>4. pc'[h] \in {"mail", "idle"} /\ (pc'[h] = "mail" => job'[h].id = nextLink)
    BY <1>3, <2>3
  <2> QED BY <2>2, <2>3, <2>4
<1> HIDE DEF link
<1>5. TypeOK'
  <2>1. nextLink \in Nat /\ \A n \in Nat : n < nextLink => n < nextLink'
    BY <1>1 DEF IInv, TypeOK
  <2>2. links' \subseteq Links /\ \A l \in links' : l.id < nextLink'
    BY <1>1, <1>2, <2>1 DEF IInv, TypeOK, Links
  <2>3. nextLink' \in Nat /\ \A l \in mailed' : l \in Nat /\ l < nextLink'
    BY <1>1, <2>1 DEF IInv, TypeOK
  <2>4. \A g \in Handlers : /\ pc'[g] = "create" => job'[g].link \in Links
                            /\ pc'[g] \in {"insert", "user", "in"} => job'[g].user \in Users
    BY <1>4 DEF IInv, TypeOK
  <2> QED BY <1>1, <1>4, <2>2, <2>3, <2>4 DEF IInv, TypeOK, Places, Jobs
<1>6. LinksNumbered'
  BY <1>1, <1>2, <1>4 DEF IInv, TypeOK, LinksNumbered, Links, Sessions
<1>7. LinkInOnePlace'
  <2>1. \A l \in links : l.id # link.id
    BY <1>2 DEF IInv, LinksNumbered, TypeOK, Links
  <2>2. \A g \in Handlers : pc[g] = "create" => job[g].link.id # link.id
    BY <1>2 DEF IInv, LinksNumbered, TypeOK, Links
  <2>3. \A s \in sessions : s.link.id # link.id
    BY <1>2 DEF IInv, LinksNumbered, TypeOK, Links, Sessions
  <2> QED BY <1>1, <1>4, <2>1, <2>2, <2>3 DEF IInv, LinkInOnePlace, Holds
<1>8. SessionsBoundedByLink' /\ HeldInTime'
  BY <1>1, <1>4 DEF IInv, SessionsBoundedByLink, HeldInTime
<1> QED BY <1>5, <1>6, <1>7, <1>8 DEF IInv

(* A handler that answers is idle, and no other moves. *)
LEMMA ReleaseFacts ==
  ASSUME IInv, NEW h \in Handlers, Answer(h)
  PROVE  /\ pc' \in [Handlers -> Places] /\ job' \in [Handlers -> Jobs]
         /\ \A g \in Handlers : pc'[g] # "idle" => g # h /\ pc'[g] = pc[g] /\ job'[g] = job[g]
BY NoJobIsJob DEF Answer, GoOn, IInv, TypeOK, Places, Jobs

LEMMA MailInv ==
  ASSUME IInv, NEW h \in Handlers, Mail(h)
  PROVE  IInv'
<1>1. /\ mailed' = mailed \cup {job[h].id} /\ pc[h] = "mail"
      /\ UNCHANGED <<clock, enabled, links, nextLink, sessions, nextSession, cookies>>
  BY DEF Mail, world
<1>2. job[h].id \in Nat /\ job[h].id < nextLink
  BY <1>1 DEF IInv, TypeOK, LinksNumbered
<1>3. /\ pc' \in [Handlers -> Places] /\ job' \in [Handlers -> Jobs]
      /\ \A g \in Handlers : pc'[g] # "idle" => pc'[g] = pc[g] /\ job'[g] = job[g]
  BY ReleaseFacts DEF Mail
<1>4. TypeOK'
  <2>1. \A g \in Handlers : /\ pc'[g] = "create" => job'[g].link \in Links
                            /\ pc'[g] \in {"insert", "user", "in"} => job'[g].user \in Users
    BY <1>3 DEF IInv, TypeOK
  <2> QED BY <1>1, <1>2, <1>3, <2>1 DEF IInv, TypeOK, Places, Jobs
<1> QED BY <1>1, <1>3, <1>4 DEF IInv, LinkInOnePlace, SessionsBoundedByLink, LinksNumbered, HeldInTime, Holds

(* The link leaves the table with the handler, or with nobody. *)
LEMMA UseLinkInv ==
  ASSUME IInv, NEW h \in Handlers, UseLink(h)
  PROVE  IInv'
<1>1. /\ links' = links \ Usable(h) /\ pc[h] = "use"
      /\ UNCHANGED <<clock, enabled, nextLink, mailed, sessions, nextSession, cookies>>
  BY DEF UseLink, world
<1>2. CASE Answer(h)
  <2>1. /\ pc' \in [Handlers -> Places] /\ job' \in [Handlers -> Jobs]
        /\ \A g \in Handlers : pc'[g] # "idle" => pc'[g] = pc[g] /\ job'[g] = job[g]
    BY <1>2, ReleaseFacts
  <2>2. TypeOK'
    <3>1. \A g \in Handlers : /\ pc'[g] = "create" => job'[g].link \in Links
                              /\ pc'[g] \in {"insert", "user", "in"} => job'[g].user \in Users
      BY <2>1 DEF IInv, TypeOK
    <3> QED BY <1>1, <2>1, <3>1 DEF IInv, TypeOK, Places, Jobs
  <2> QED BY <1>1, <2>1, <2>2 DEF IInv, LinkInOnePlace, SessionsBoundedByLink, LinksNumbered, HeldInTime, Holds
<1>3. ASSUME NEW link \in Usable(h), GoOn(h, "create", [job[h] EXCEPT !.link = link]) PROVE IInv'
  <2>1. /\ link \in links /\ link \in Links /\ link.id < nextLink /\ link.until > job[h].now
        /\ link.id \in Nat /\ link.until \in Nat /\ job[h].now \in Nat
        /\ link \notin links'
    BY <1>1 DEF Usable, IInv, TypeOK, Links
  <2> DEFINE j == [job[h] EXCEPT !.link = link]
  <2>2. j \in Jobs /\ j.link = link /\ j.now = job[h].now
    BY <2>1 DEF IInv, TypeOK, Jobs
  <2> HIDE DEF j
  <2>3. /\ pc' \in [Handlers -> Places] /\ job' \in [Handlers -> Jobs]
        /\ pc'[h] = "create" /\ job'[h] = j
        /\ \A g \in Handlers : g # h => pc'[g] = pc[g] /\ job'[g] = job[g]
    BY <1>3, <2>2 DEF GoOn, IInv, TypeOK, Places, Jobs, j
  <2>4. TypeOK'
    <3>1. \A g \in Handlers : /\ pc'[g] = "create" => job'[g].link \in Links
                              /\ pc'[g] \in {"insert", "user", "in"} => job'[g].user \in Users
      BY <2>1, <2>2, <2>3 DEF IInv, TypeOK
    <3> QED BY <1>1, <2>3, <3>1 DEF IInv, TypeOK, Places, Jobs
  <2>5. LinksNumbered' /\ HeldInTime' /\ SessionsBoundedByLink'
    BY <1>1, <2>1, <2>2, <2>3 DEF IInv, LinksNumbered, HeldInTime, SessionsBoundedByLink
  <2>6. LinkInOnePlace'
    <3>1. \A l \in links' : l.id # link.id /\ l \in links
      BY <1>1, <2>1 DEF IInv, LinkInOnePlace
    <3>2. \A g \in Handlers : pc[g] = "create" => job[g].link.id # link.id
      BY <2>1 DEF IInv, LinkInOnePlace, Holds
    <3>3. \A s \in sessions : s.link.id # link.id
      BY <2>1 DEF IInv, LinkInOnePlace
    <3> QED BY <1>1, <2>2, <2>3, <3>1, <3>2, <3>3 DEF IInv, LinkInOnePlace, Holds
  <2> QED BY <2>4, <2>5, <2>6 DEF IInv
<1> QED BY <1>2, <1>3 DEF UseLink

(* The session takes the link over from the handler. *)
LEMMA CreateSessionInv ==
  ASSUME IInv, NEW h \in Handlers, CreateSession(h)
  PROVE  IInv'
<1> DEFINE s0 == SessionOf(h, job[h].now)
<1>1. /\ sessions' = sessions \cup {s0} /\ nextSession' = nextSession + 1
      /\ cookies' \in {cookies, cookies \cup {nextSession}}
      /\ pc[h] = "create"
      /\ UNCHANGED <<clock, enabled, links, nextLink, mailed>>
  BY DEF CreateSession, world
<1>2. /\ job[h].link \in Links /\ job[h].now \in Nat /\ nextSession \in Nat
      /\ job[h].now < job[h].link.until
      /\ job[h].link.id < nextLink
  BY <1>1 DEF IInv, TypeOK, HeldInTime, LinksNumbered
<1>3. /\ s0 \in Sessions /\ s0.id = nextSession /\ s0.link = job[h].link
      /\ s0.user = s0.link.user /\ s0.until = job[h].now + SessionTTL
  BY <1>2, TTLAssumption DEF SessionOf, Sessions, Links
<1>4. s0.until < s0.link.until + SessionTTL
  BY <1>2, <1>3, TTLAssumption DEF Links
<1> HIDE DEF s0
<1>5. /\ pc' \in [Handlers -> Places] /\ job' \in [Handlers -> Jobs]
      /\ \A g \in Handlers : pc'[g] # "idle" => g # h /\ pc'[g] = pc[g] /\ job'[g] = job[g]
  BY ReleaseFacts DEF CreateSession
<1>6. TypeOK'
  <2>1. /\ sessions' \subseteq Sessions /\ nextSession' \in Nat
        /\ \A s \in sessions' : s.id < nextSession'
    BY <1>1, <1>2, <1>3 DEF IInv, TypeOK, Sessions
  <2>2. \A s \in cookies' : s \in Nat /\ s < nextSession'
    BY <1>1, <1>2 DEF IInv, TypeOK
  <2>3. \A g \in Handlers : /\ pc'[g] = "create" => job'[g].link \in Links
                            /\ pc'[g] \in {"insert", "user", "in"} => job'[g].user \in Users
    BY <1>5 DEF IInv, TypeOK
  <2> QED BY <1>1, <1>5, <2>1, <2>2, <2>3 DEF IInv, TypeOK, Places, Jobs
<1>7. LinksNumbered' /\ HeldInTime' /\ SessionsBoundedByLink'
  BY <1>1, <1>2, <1>3, <1>4, <1>5 DEF IInv, LinksNumbered, HeldInTime, SessionsBoundedByLink
<1>8. LinkInOnePlace'
  <2>1. /\ \A l \in links : l.id # s0.link.id
        /\ \A g \in Handlers : g # h /\ pc[g] = "create" => job[g].link.id # s0.link.id
        /\ \A s \in sessions : s.link.id # s0.link.id
    BY <1>1, <1>3 DEF IInv, LinkInOnePlace, Holds
  <2> QED BY <1>1, <1>5, <2>1 DEF IInv, LinkInOnePlace, Holds
<1> QED BY <1>6, <1>7, <1>8 DEF IInv

(* Sessions that go disturb nobody. *)
LEMMA LogoutInv ==
  ASSUME IInv, NEW h \in Handlers, Logout(h)
  PROVE  IInv'
<1>1. /\ sessions' \subseteq sessions
      /\ UNCHANGED <<clock, enabled, links, nextLink, mailed, nextSession, cookies>>
  BY DEF Logout, world
<1>2. /\ pc' \in [Handlers -> Places] /\ job' \in [Handlers -> Jobs]
      /\ \A g \in Handlers : pc'[g] # "idle" => g # h /\ pc'[g] = pc[g] /\ job'[g] = job[g]
  BY ReleaseFacts DEF Logout
<1>3. TypeOK'
  <2>1. \A g \in Handlers : /\ pc'[g] = "create" => job'[g].link \in Links
                            /\ pc'[g] \in {"insert", "user", "in"} => job'[g].user \in Users
    BY <1>2 DEF IInv, TypeOK
  <2> QED BY <1>1, <1>2, <2>1 DEF IInv, TypeOK, Places, Jobs
<1> QED BY <1>1, <1>2, <1>3 DEF IInv, LinkInOnePlace, SessionsBoundedByLink, LinksNumbered, HeldInTime, Holds

LEMMA WorldInv ==
  ASSUME IInv, Tick \/ \E u \in Users : SetEnabled(u)
  PROVE  IInv'
<1>1. /\ UNCHANGED <<links, nextLink, mailed, sessions, nextSession, cookies, pc, job>>
      /\ clock' \in Nat /\ enabled' \in [Users -> BOOLEAN]
  <2>1. CASE Tick
    BY <2>1 DEF Tick, tables, IInv, TypeOK
  <2>2. ASSUME NEW u \in Users, SetEnabled(u)
        PROVE  /\ UNCHANGED <<clock, tables, pc, job>> /\ enabled' \in [Users -> BOOLEAN]
    <3>1. enabled \in [Users -> BOOLEAN] /\ enabled' = [enabled EXCEPT ![u] = ~enabled[u]]
      BY <2>2 DEF SetEnabled, IInv, TypeOK
    <3> QED BY <2>2, <3>1 DEF SetEnabled
  <2>3. clock \in Nat
    BY DEF IInv, TypeOK
  <2> QED BY <2>1, <2>2, <2>3 DEF tables
<1> QED BY <1>1 DEF IInv, TypeOK, LinkInOnePlace, SessionsBoundedByLink, LinksNumbered, HeldInTime, Holds

LEMMA NextInv == IInv /\ [Next]_vars => IInv'
<1> SUFFICES ASSUME IInv, [Next]_vars PROVE IInv'
  OBVIOUS
<1>1. CASE Next
  BY <1>1, QuietInv, InsertLinkInv, MailInv, UseLinkInv, CreateSessionInv, LogoutInv, WorldInv DEF Next, Work
<1>2. CASE UNCHANGED vars
  BY <1>2 DEF vars, IInv, TypeOK, LinkInOnePlace, SessionsBoundedByLink, LinksNumbered, HeldInTime, Holds
<1> QED BY <1>1, <1>2

-----------------------------------------------------------------------------
(* The inductive invariant of signing in. *)
THEOREM Invariance == Spec => []IInv
BY InitInv, NextInv, PTL DEF Spec

(* Shapes. *)
THEOREM TypeCorrect == Spec => []TypeOK
<1>1. IInv => TypeOK BY DEF IInv
<1> QED BY <1>1, Invariance, PTL

(* A magic link makes at most one session. *)
THEOREM SingleUse == Spec => []LinkInOnePlace
<1>1. IInv => LinkInOnePlace BY DEF IInv
<1> QED BY <1>1, Invariance, PTL

(* No session outlives its link's expiry by SessionTTL or more. *)
THEOREM Bounded == Spec => []SessionsBoundedByLink
<1>1. IInv => SessionsBoundedByLink BY DEF IInv
<1> QED BY <1>1, Invariance, PTL

-----------------------------------------------------------------------------
(* The middleware, with the history of its requests. *)

(* While a request is to look its session up, whatever it can find was      *)
(* there and not over at some moment of the request; later it has found it. *)
Seen ==
  \A h \in Handlers :
    /\ pc[h] = "session" => job[h].id < nextSession /\ (Valid(h) # {} => liveOnce[h])
    /\ pc[h] \in {"user", "in"} => liveOnce[h]
    /\ pc[h] = "in" => enabledOnce[h]

AuditInv == IInv /\ Seen

(* What one step may do to a handler of the middleware. *)
Enters(h)  == pc'[h] = "session" /\ job'[h].id < nextSession' /\ job'[h].now = clock'
Finds(h)   == pc[h] = "session" /\ pc'[h] = "user" /\ Valid(h) # {}
Checks(h)  == pc[h] = "user" /\ pc'[h] = "in" /\ enabled[job[h].user]
Stays(h)   == pc'[h] = pc[h] /\ job'[h] = job[h]
Asks(h)    == Enters(h) \/ Finds(h) \/ Checks(h) \/ Stays(h) \/ pc'[h] \notin {"session", "user", "in"}

(* A step that makes at most new sessions, and such moves. *)
LEMMA SeenKept ==
  ASSUME Seen, AuditNext, nextSession \in Nat, nextSession' \in Nat, nextSession <= nextSession',
         \A h \in Handlers : pc[h] = "session" => job[h].id \in Nat,
         \A s \in sessions' : s \in sessions \/ s.id = nextSession,
         \A h \in Handlers : Asks(h)
  PROVE  Seen'
<1> SUFFICES ASSUME NEW h \in Handlers
             PROVE  /\ pc'[h] = "session" => job'[h].id < nextSession' /\ (Valid(h)' # {} => liveOnce'[h])
                    /\ pc'[h] \in {"user", "in"} => liveOnce'[h]
                    /\ pc'[h] = "in" => enabledOnce'[h]
  BY DEF Seen
<1>1. /\ pc'[h] \in {"session", "user", "in"} /\ (liveOnce[h] \/ Live(h)') => liveOnce'[h]
      /\ pc'[h] \in {"session", "user", "in"} /\ (enabledOnce[h] \/ (Asking(h) /\ OwnerFound(h))) => enabledOnce'[h]
  BY DEF AuditNext, Asking
<1>2. CASE Enters(h)
  <2>1. Valid(h)' # {} => Live(h)'
    BY <1>2 DEF Enters, Valid, Live
  <2> QED BY <1>1, <1>2, <2>1 DEF Enters
<1>3. CASE Finds(h)
  BY <1>1, <1>3 DEF Finds, Seen
<1>4. CASE Checks(h)
  BY <1>1, <1>4 DEF Checks, Seen, Asking, OwnerFound
<1>5. CASE Stays(h)
  <2>1. pc[h] = "session" => Valid(h)' \subseteq Valid(h)
    BY <1>5 DEF Stays, Seen, Valid
  <2>2. pc[h] = "session" => job'[h].id < nextSession'
    BY <1>5 DEF Stays, Seen
  <2> QED BY <1>1, <1>5, <2>1, <2>2 DEF Stays, Seen
<1> QED BY <1>2, <1>3, <1>4, <1>5 DEF Asks

(* A handler that goes on alone, with the sessions it leaves. *)
LEMMA GoOnAsks ==
  ASSUME IInv, NEW h \in Handlers, NEW to, NEW j, GoOn(h, to, j), Enters(h) \/ Finds(h) \/ Checks(h) \/ to \notin {"session", "user", "in"}
  PROVE  \A g \in Handlers : Asks(g)
<1>1. \A g \in Handlers : g # h => Stays(g)
  BY DEF GoOn, IInv, TypeOK, Stays
<1>2. Asks(h)
  BY DEF GoOn, IInv, TypeOK, Asks
<1> QED BY <1>1, <1>2 DEF Asks

LEMMA AnswerAsks ==
  ASSUME IInv, NEW h \in Handlers, Answer(h)
  PROVE  \A g \in Handlers : Asks(g)
BY GoOnAsks DEF Answer

(* Every step is of that kind. *)
LEMMA StepAsks ==
  ASSUME IInv, Next
  PROVE  /\ \A h \in Handlers : Asks(h)
         /\ nextSession <= nextSession'
         /\ \A s \in sessions' : s \in sessions \/ s.id = nextSession
<1> DEFINE Table == /\ nextSession <= nextSession'
                    /\ \A s \in sessions' : s \in sessions \/ s.id = nextSession
<1>0. nextSession \in Nat /\ (UNCHANGED <<sessions, nextSession>> => Table)
  BY DEF IInv, TypeOK
<1> HIDE DEF Table
<1>1. ASSUME NEW h \in Handlers, Begin(h) PROVE Table /\ \A g \in Handlers : Asks(g)
  <2>1. ASSUME NEW u \in Users, Login(h, u) PROVE Table /\ \A g \in Handlers : Asks(g)
    BY <1>0, <2>1, GoOnAsks DEF Login, tables
  <2>2. ASSUME NEW l \in mailed, Verify(h, l) PROVE Table /\ \A g \in Handlers : Asks(g)
    BY <1>0, <2>2, GoOnAsks DEF Verify, tables
  <2>3. ASSUME NEW s \in cookies, Enter(h, s) PROVE Table /\ \A g \in Handlers : Asks(g)
    <3> DEFINE j == [NoJob EXCEPT !.id = s, !.now = clock]
    <3>1. j.id = s /\ j.now = clock
      BY DEF NoJob
    <3>2. GoOn(h, "session", j) /\ UNCHANGED <<clock, sessions, nextSession>>
      BY <2>3 DEF Enter, world, tables
    <3> HIDE DEF j
    <3>3. pc'[h] = "session" /\ job'[h] = j /\ s < nextSession
      BY <3>2 DEF GoOn, IInv, TypeOK
    <3>4. Enters(h)
      BY <3>1, <3>2, <3>3 DEF Enters
    <3> QED BY <1>0, <3>2, <3>4, GoOnAsks
  <2> QED BY <1>1, <2>1, <2>2, <2>3 DEF Begin
<1>2. ASSUME NEW h \in Handlers, Work(h) PROVE Table /\ \A g \in Handlers : Asks(g)
  <2>1. CASE InsertLink(h)
    BY <1>0, <2>1, GoOnAsks, AnswerAsks DEF InsertLink
  <2>2. CASE UseLink(h)
    BY <1>0, <2>2, GoOnAsks, AnswerAsks DEF UseLink
  <2>3. CASE CreateSession(h)
    <3>1. Table
      BY <1>0, <2>3 DEF CreateSession, SessionOf, Table
    <3> QED BY <2>3, <3>1, AnswerAsks DEF CreateSession
  <2>4. CASE FindSession(h)
    <3>1. ASSUME NEW s \in Valid(h), GoOn(h, "user", [job[h] EXCEPT !.user = s.user])
          PROVE  \A g \in Handlers : Asks(g)
      <4>1. Finds(h)
        BY <2>4, <3>1 DEF FindSession, GoOn, Finds, IInv, TypeOK
      <4> QED BY <3>1, <4>1, GoOnAsks
    <3> QED BY <1>0, <2>4, <3>1, AnswerAsks DEF FindSession, tables
  <2>5. CASE CheckUser(h)
    <3>1. ASSUME enabled[job[h].user], GoOn(h, "in", job[h])
          PROVE  \A g \in Handlers : Asks(g)
      <4>1. Checks(h)
        BY <2>5, <3>1 DEF CheckUser, GoOn, Checks, IInv, TypeOK
      <4> QED BY <3>1, <4>1, GoOnAsks
    <3> QED BY <1>0, <2>5, <3>1, AnswerAsks DEF CheckUser, tables
  <2>6. CASE Mail(h) \/ Leave(h) \/ Fails(h)
    BY <1>0, <2>6, AnswerAsks DEF Mail, Leave, Fails, tables
  <2>7. CASE Logout(h)
    <3>1. Table
      BY <1>0, <2>7 DEF Logout, Table
    <3> QED BY <2>7, <3>1, AnswerAsks DEF Logout
  <2> QED BY <1>2, <2>1, <2>2, <2>3, <2>4, <2>5, <2>6, <2>7 DEF Work
<1>3. ASSUME Tick \/ \E u \in Users : SetEnabled(u) PROVE Table /\ \A g \in Handlers : Asks(g)
  BY <1>0, <1>3 DEF Tick, SetEnabled, tables, Asks, Stays
<1> QED BY <1>1, <1>2, <1>3 DEF Next, Table

LEMMA AuditNextInv == AuditInv /\ [AuditNext]_<<vars, history>> => AuditInv'
<1> SUFFICES ASSUME AuditInv, [AuditNext]_<<vars, history>> PROVE AuditInv'
  OBVIOUS
<1>1. IInv'
  BY NextInv DEF AuditInv, AuditNext, vars
<1>2. CASE AuditNext
  <2>1. /\ nextSession \in Nat /\ nextSession' \in Nat
        /\ \A h \in Handlers : job[h].id \in Nat
    BY <1>1 DEF AuditInv, IInv, TypeOK
  <2>2. Next
    BY <1>2 DEF AuditNext
  <2>3. Seen'
    BY <1>2, <2>1, <2>2, StepAsks, SeenKept DEF AuditInv
  <2> QED BY <1>1, <2>3 DEF AuditInv
<1>3. CASE UNCHANGED <<vars, history>>
  BY <1>1, <1>3 DEF AuditInv, Seen, Valid, vars, history
<1> QED BY <1>2, <1>3

(* The invariant of signing in and its history. *)
THEOREM AuditInvariance == AuditSpec => []AuditInv
<1>1. AuditInit => AuditInv
  BY InitInv DEF AuditInit, AuditInv, Seen, Init
<1> QED BY <1>1, AuditNextInv, PTL DEF AuditSpec

(* Whoever the middleware lets in had, during that very request, a session  *)
(* that was not over, and was enabled, though it looks at the clock, the    *)
(* session and the user at three different moments.                        *)
THEOREM Admission == AuditSpec => []AdmittedWithCause
<1>1. AuditInv => AdmittedWithCause
  BY DEF AuditInv, Seen, AdmittedWithCause
<1> QED BY <1>1, AuditInvariance, PTL
=============================================================================
