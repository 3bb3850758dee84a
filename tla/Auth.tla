-------------------------------- MODULE Auth --------------------------------
(***************************************************************************)
(* Signing in and out (internal/app/auth, its tables in                    *)
(* internal/adapters/outbound/sqlite, its handlers in                      *)
(* internal/adapters/inbound/api/auth.go).  A member asks for a magic link, *)
(* gets it by mail and turns it into a session; every other request is let  *)
(* in by its session cookie.  Handlers run concurrently, one statement of   *)
(* the database per step; any statement may fail, or be done and its reply  *)
(* lost.                                                                   *)
(*                                                                         *)
(* A token is known by the number of the row it was made for.               *)
(***************************************************************************)
EXTENDS Naturals

CONSTANTS Users, Handlers,
          LinkTTL, SessionTTL,   \* 15 minutes and 24 hours in the code
          MaxLinks,              \* bound: links ever made
          MaxSessions,           \* bound: sessions ever made
          MaxTime                \* bound: the clock

ASSUME TTLAssumption == LinkTTL \in Nat \ {0} /\ SessionTTL \in Nat \ {0}

VARIABLES clock,
          enabled,      \* users.is_enabled
          links,        \* the table magic_links
          nextLink,
          mailed,       \* links whose token was mailed
          sessions,     \* the table sessions
          nextSession,
          cookies,      \* sessions whose token was handed out
          pc,           \* where each handler is
          job           \* what it works on

vars == <<clock, enabled, links, nextLink, mailed, sessions, nextSession, cookies, pc, job>>

NoLink == [id |-> 0, user |-> 0, until |-> 0]

(* now is the clock as the handler read it; link the row it inserted, or    *)
(* deleted; session and user what the middleware found.                     *)
NoJob == [now |-> 0, id |-> 0, user |-> 0, link |-> NoLink]

Init == /\ clock = 0
        /\ enabled \in [Users -> BOOLEAN]
        /\ links = {} /\ nextLink = 1 /\ mailed = {}
        /\ sessions = {} /\ nextSession = 1 /\ cookies = {}
        /\ pc = [h \in Handlers |-> "idle"]
        /\ job = [h \in Handlers |-> NoJob]

tables == <<links, nextLink, mailed, sessions, nextSession, cookies>>
world  == <<clock, enabled>>

GoOn(h, to, j) == pc' = [pc EXCEPT ![h] = to] /\ job' = [job EXCEPT ![h] = j]
Answer(h)      == GoOn(h, "idle", NoJob)

-----------------------------------------------------------------------------
(* RequestLogin.  An unknown or a disabled user gets the same answer and    *)
(* nothing is done.  The clock is read before the INSERT is sent, so that   *)
(* a link that is long in coming into the table expires the sooner.        *)
Login(h, u) ==
  /\ pc[h] = "idle" /\ enabled[u]
  /\ GoOn(h, "insert", [NoJob EXCEPT !.user = u, !.now = clock])
  /\ UNCHANGED <<world, tables>>

InsertLink(h) ==
  /\ pc[h] = "insert" /\ nextLink <= MaxLinks
  /\ LET link == [id |-> nextLink, user |-> job[h].user, until |-> job[h].now + LinkTTL]
     IN  /\ links' = links \cup {link}
         /\ \/ GoOn(h, "mail", [job[h] EXCEPT !.id = link.id])
            \/ Answer(h)                                     \* the reply is lost
  /\ nextLink' = nextLink + 1
  /\ UNCHANGED <<world, mailed, sessions, nextSession, cookies>>

Mail(h) ==
  /\ pc[h] = "mail"
  /\ mailed' = mailed \cup {job[h].id}
  /\ Answer(h)
  /\ UNCHANGED <<world, links, nextLink, sessions, nextSession, cookies>>

-----------------------------------------------------------------------------
(* VerifyMagicLink.  The clock is read once, before the link is used.       *)
Verify(h, l) ==
  /\ pc[h] = "idle" /\ l \in mailed
  /\ GoOn(h, "use", [NoJob EXCEPT !.id = l, !.now = clock])
  /\ UNCHANGED <<world, tables>>

Usable(h) == {link \in links : link.id = job[h].id /\ link.until > job[h].now}

UseLink_KeepsRow(h) ==           \* fault: the row is read, not deleted
  /\ pc[h] = "use"
  /\ IF Usable(h) = {} THEN Answer(h)
     ELSE \E link \in Usable(h) : GoOn(h, "create", [job[h] EXCEPT !.link = link])
  /\ UNCHANGED <<world, tables>>

(* DELETE ... RETURNING: one statement takes the row and hands it over. *)
UseLink(h) ==
  /\ pc[h] = "use"
  /\ links' = links \ Usable(h)
  /\ \/ \E link \in Usable(h) : GoOn(h, "create", [job[h] EXCEPT !.link = link])
     \/ Answer(h)                                            \* no row, or the reply is lost
  /\ UNCHANGED <<world, nextLink, mailed, sessions, nextSession, cookies>>

(* The row of a session, with the link it came of.                          *)
SessionOf(h, now) == [id |-> nextSession, user |-> job[h].link.user, until |-> now + SessionTTL,
                      link |-> job[h].link]

CreateSession_NowAgain(h) ==     \* fault: the clock is read again for the expiry
  /\ pc[h] = "create" /\ nextSession <= MaxSessions
  /\ sessions' = sessions \cup {SessionOf(h, clock)}
  /\ nextSession' = nextSession + 1
  /\ cookies' = cookies \cup {nextSession}
  /\ Answer(h)
  /\ UNCHANGED <<world, links, nextLink, mailed>>

CreateSession(h) ==
  /\ pc[h] = "create" /\ nextSession <= MaxSessions
  /\ sessions' = sessions \cup {SessionOf(h, job[h].now)}
  /\ nextSession' = nextSession + 1
  /\ cookies' \in {cookies, cookies \cup {nextSession}}      \* the reply may be lost
  /\ Answer(h)
  /\ UNCHANGED <<world, links, nextLink, mailed>>

-----------------------------------------------------------------------------
(* AuthMiddleware, and Logout behind it.                                    *)
Enter(h, s) ==
  /\ pc[h] = "idle" /\ s \in cookies
  /\ GoOn(h, "session", [NoJob EXCEPT !.id = s, !.now = clock])
  /\ UNCHANGED <<world, tables>>

(* A session is still good at its expiry, a link is not. *)
Valid(h) == {s \in sessions : s.id = job[h].id /\ s.until >= job[h].now}

FindSession(h) ==
  /\ pc[h] = "session"
  /\ \/ \E s \in Valid(h) : GoOn(h, "user", [job[h] EXCEPT !.user = s.user])
     \/ Valid(h) = {} /\ Answer(h)
  /\ UNCHANGED <<world, tables>>

CheckUser_Unread(h) ==           \* fault: the user is not read again
  /\ pc[h] = "user"
  /\ GoOn(h, "in", job[h])
  /\ UNCHANGED <<world, tables>>

CheckUser(h) ==
  /\ pc[h] = "user"
  /\ \/ enabled[job[h].user] /\ GoOn(h, "in", job[h])
     \/ ~enabled[job[h].user] /\ Answer(h)
  /\ UNCHANGED <<world, tables>>

(* Every session of the user goes, on every device. *)
Logout(h) ==
  /\ pc[h] = "in"
  /\ sessions' = {s \in sessions : s.user # job[h].user}
  /\ Answer(h)
  /\ UNCHANGED <<world, links, nextLink, mailed, nextSession, cookies>>

(* Any other request, when it is done. *)
Leave(h) == /\ pc[h] = "in"
            /\ Answer(h)
            /\ UNCHANGED <<world, tables>>

(* A statement or a send fails, nothing is done. *)
Fails(h) == /\ pc[h] \notin {"idle", "in"}
            /\ Answer(h)
            /\ UNCHANGED <<world, tables>>

-----------------------------------------------------------------------------
(* Time, and the administrators' writes. *)

Tick == /\ clock < MaxTime
        /\ clock' = clock + 1
        /\ UNCHANGED <<enabled, tables, pc, job>>

SetEnabled(u) == /\ enabled' = [enabled EXCEPT ![u] = ~enabled[u]]
                 /\ UNCHANGED <<clock, tables, pc, job>>

Begin(h) == \/ \E u \in Users : Login(h, u)
            \/ \E l \in mailed : Verify(h, l)
            \/ \E s \in cookies : Enter(h, s)

Work(h) == \/ InsertLink(h) \/ Mail(h) \/ UseLink(h) \/ CreateSession(h)
           \/ FindSession(h) \/ CheckUser(h) \/ Logout(h) \/ Leave(h) \/ Fails(h)

Next == \/ \E h \in Handlers : Begin(h) \/ Work(h)
        \/ \E u \in Users : SetEnabled(u)
        \/ Tick

Spec == Init /\ [][Next]_vars

-----------------------------------------------------------------------------
Links    == [id : Nat, user : Users, until : Nat]
Sessions == [id : Nat, user : Users, until : Nat, link : Links]

(* Shapes; a handler that is to create a session holds a link's row, and    *)
(* one that checks or serves a user has found one.                         *)
TypeOK ==
  /\ clock \in Nat
  /\ enabled \in [Users -> BOOLEAN]
  /\ links \subseteq Links /\ \A l \in links : l.id < nextLink
  /\ sessions \subseteq Sessions /\ \A s \in sessions : s.id < nextSession
  /\ nextLink \in Nat /\ nextSession \in Nat
  /\ \A l \in mailed : l \in Nat /\ l < nextLink
  /\ \A s \in cookies : s \in Nat /\ s < nextSession
  /\ pc \in [Handlers -> {"idle", "insert", "mail", "use", "create", "session", "user", "in"}]
  /\ job \in [Handlers -> [now : Nat, id : Nat, user : Users \cup {0}, link : Links \cup {NoLink}]]
  /\ \A h \in Handlers : /\ pc[h] = "create" => job[h].link \in Links
                         /\ pc[h] \in {"insert", "user", "in"} => job[h].user \in Users

Holds(h, l) == pc[h] = "create" /\ job[h].link.id = l

(* A magic link can be used once: it is in the table, or in the hands of    *)
(* one handler, or the origin of one session, and in one of these places   *)
(* only, however many verifications of it run at a time.                   *)
LinkInOnePlace ==
  /\ \A l, m \in links : l.id = m.id => l = m
  /\ \A l \in links : /\ \A h \in Handlers : ~Holds(h, l.id)
                      /\ \A s \in sessions : s.link.id # l.id
  /\ \A h \in Handlers : pc[h] = "create" =>
        /\ \A g \in Handlers : Holds(g, job[h].link.id) => g = h
        /\ \A s \in sessions : s.link.id # job[h].link.id
  /\ \A s, t \in sessions : s.link.id = t.link.id => s = t

(* A session belongs to the user its link was made for, and ends within     *)
(* SessionTTL of the link's own expiry, however long the verification took  *)
(* between using the link and creating the session.                        *)
SessionsBoundedByLink ==
  \A s \in sessions : s.user = s.link.user /\ s.until < s.link.until + SessionTTL
=============================================================================
