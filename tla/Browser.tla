------------------------------- MODULE Browser -------------------------------
(***************************************************************************)
(* A member's browser at the site: the pages with their forms and scripts  *)
(* (internal/adapters/inbound/ui) in front of the server's answers (Web),  *)
(* while the session, the member's role and the row the page shows may      *)
(* change at any time behind the page's back.  What a browser does with     *)
(* cookies, redirects and headers is external, modelled from what the       *)
(* pages and handlers use of it.                                           *)
(*                                                                         *)
(* One tab, one request under way; one row of the sub board.  What the     *)
(* services do to the row between two of their statements is SubRequests,  *)
(* and how a session dies is Auth: here each is one step.                  *)
(***************************************************************************)
EXTENDS Web, Authorization, Naturals

CONSTANTS Me, Other,    \* the member at the browser, and everybody else
          MaxFailures   \* bound: statements and catalog calls that fail

ASSUME MembersAssumption == Me # Other /\ NoUser \notin {Me, Other}

VARIABLES place,        \* how the site is reached
          agent,        \* what the browser says of where a request comes from
          cookie,       \* the session cookie it keeps, or None
          session,      \* what that cookie leads to: is it valid, for an admin
          row,          \* the sub request, or None when it is deleted
          tab,          \* the page shown; of one with buttons, where and from what
          call,         \* the request under way, or None
          reply,        \* the server's answer to it, or None
          told,         \* what the script of the last button told the member
          applied,      \* history: whether the server did what the button is for
          arriving,     \* history: a magic link was good, and nothing happened since
          failures

vars == <<place, agent, cookie, session, row, tab, call, reply, told, applied, arriving, failures>>
site == <<place, agent>>

Places == {"plain", "tls", "knownProxy", "unknownProxy"}
Agents == {"metadata", "origin"}   \* with fetch metadata, or only with Origin or Referer

Scheme == IF place = "plain" THEN "http" ELSE "https"

Methods  == {"GET", "POST", "PATCH", "DELETE"}
Paths    == {route.path : route \in Routes}
Pages    == {"blank", "error", "login", "health", "board", "details", "admin"}
Scripts  == {"delete", "take", "untake"}
Rows     == [postedBy : {Me, Other}, takenBy : {Me, Other, NoUser}]
Sources  == [row : Rows \cup {None}, admin : BOOLEAN]
Sessions == [valid : BOOLEAN, admin : BOOLEAN]
Cookies  == [secure : BOOLEAN, sameSite : {"Lax", "Strict"}]
Calls    == [method : Methods, path : Paths, script : Scripts \cup {"none"}, from : {"page", "elsewhere"}]
Replies  == [status : Nat, to : Paths \cup {None}, page : Pages, from : Sources \cup {None},
             cookie : {"keep", "set", "clear"}]

ASSUME NoneAssumption ==        \* what is not there is told from all that may be
  /\ None \notin {"https", "same-origin", "cross-site"} /\ None \notin Paths
  /\ None \notin Rows /\ None \notin Sources /\ None \notin Sessions
  /\ None \notin Cookies /\ None \notin Calls /\ None \notin Replies

SubRequestRows == {sr \in Rows : sr.takenBy # sr.postedBy}

NoPage == [page |-> "blank", path |-> None, from |-> None]

Init ==
  /\ place \in Places /\ agent \in Agents
  /\ cookie = None /\ session \in [valid : {FALSE}, admin : BOOLEAN]
  /\ row \in SubRequestRows
  /\ tab = NoPage
  /\ call = None /\ reply = None
  /\ told = "nothing" /\ applied = FALSE /\ arriving = FALSE /\ failures = 0

-----------------------------------------------------------------------------
(* The member goes somewhere: types an address (which counts as a link of   *)
(* the page) or follows a link on another site, a magic link in a web      *)
(* mailer among them; submits one of the forms of the page; presses one of *)
(* its buttons.                                                            *)
Idle == call = None

Call(method, path, script, from) ==
  [method |-> method, path |-> path, script |-> script, from |-> from]

Send(c) == call' = c /\ reply' = None

Visit(path, from) ==
  /\ Idle
  /\ Send(Call("GET", path, "none", from))
  /\ told' = "nothing" /\ applied' = FALSE
  /\ UNCHANGED <<site, cookie, session, row, tab, arriving, failures>>

Forms ==
  CASE tab.page = "login"   -> {"/auth/login"}
    [] tab.page = "board"   -> {"/auth/logout", "/sub-requests"}
    [] tab.page = "details" -> {"/auth/logout"}
    [] tab.page = "admin"   -> {"/auth/logout", "/users", "/users/import/spinitron", "/users/{id}"}
    [] OTHER -> {}

Submit(path) ==
  /\ Idle
  /\ path \in Forms
  /\ Send(Call("POST", path, "none", "page"))
  /\ told' = "nothing" /\ applied' = FALSE
  /\ UNCHANGED <<site, cookie, session, row, tab, arriving, failures>>

(* SubRequestTable, SubRequestActionButtons.                                *)
Buttons ==
  IF tab.from # None /\ tab.from.row # None
  THEN Capabilities([id |-> Me, admin |-> tab.from.admin], tab.from.row) ELSE {}

Press(script) ==
  /\ Idle
  /\ script \in Buttons
  /\ Send(Call(IF script = "delete" THEN "DELETE" ELSE "PATCH", Row, script, "page"))
  /\ told' = "nothing" /\ applied' = FALSE
  /\ UNCHANGED <<site, cookie, session, row, tab, arriving, failures>>

-----------------------------------------------------------------------------
(* The request as the server gets it.  Fetch metadata goes to secure        *)
(* addresses only, and a cookie of this site goes along with a request from *)
(* another site only if it is Lax and the tab itself goes there.           *)
CookieSent ==
  /\ cookie # None
  /\ cookie.secure => Scheme = "https"
  /\ call.from = "elsewhere" => cookie.sameSite = "Lax" /\ call.method = "GET"

Request(found, garbled, tooMany) ==
  [method |-> call.method, path |-> call.path, garbled |-> garbled, json |-> FALSE, tooMany |-> tooMany,
   tls |-> place = "tls",
   forwarded |-> [trusted |-> place = "knownProxy",
                  proto |-> IF place \in {"knownProxy", "unknownProxy"} THEN "https" ELSE None],
   site |-> IF agent # "metadata" \/ Scheme = "http" THEN None
            ELSE IF call.from = "page" THEN "same-origin" ELSE "cross-site",
   origin |-> IF call.from = "page" THEN Scheme ELSE None,
   session |-> IF CookieSent THEN found ELSE None]

Viewed == [id |-> Me, admin |-> session.admin]

(* Service.Delete and ApplyAction, undisturbed.                             *)
RowResult(script) ==
  LET action == CASE script = "delete" -> "subrequest:delete"
                  [] script = "take"   -> "subrequest:take"
                  [] script = "untake" -> "subrequest:untake"
  IN  IF row = None THEN "notFound"
      ELSE IF script = "take" /\ row.takenBy # NoUser THEN "conflict"
      ELSE IF Authorize(Viewed, action, SubRequestResource(row)) THEN "ok"
      ELSE "forbidden"

RowAfter(script) ==
  CASE script = "delete" -> None
    [] script = "take"   -> [row EXCEPT !.takenBy = Me]
    [] script = "untake" -> [row EXCEPT !.takenBy = NoUser]

(* What the service a handler calls may return when nothing breaks down.    *)
Pressed == call.script # "none" /\ call.path = Row

Results ==
  CASE Pressed                       -> {RowResult(call.script)}
    [] call.path = Row /\ ~Pressed   -> {IF row = None THEN "notFound" ELSE "ok"}
    [] call.path = "/auth/login"     -> {"ok", "notFound"}
    [] call.path = "/auth/verify"    -> {"ok", "invalid"}
    [] call.path = "/sub-requests"   -> {"ok", "invalid"}
    [] call.path = "/users"          -> {"ok", "exists", "invalid"}
    [] call.path = "/users/{id}"     -> {"ok", "forbidden", "notFound"}
    [] OTHER                         -> {"ok"}

Waiting == call # None /\ reply = None

(* Turned away before the handler: also when the session lookup fails, which *)
(* is the same to the middleware as no session.                            *)
ServeRefused(r) ==
  /\ ~Admitted(r)
  /\ reply' = Refusal(r)
  /\ UNCHANGED <<site, cookie, session, row, tab, call, told, applied>>

TurnAway == \E garbled, tooMany \in BOOLEAN :
  /\ Waiting
  /\ garbled => call.script = "none" /\ call.path \notin {"/", "/app", "/admin"}
  /\ ServeRefused(Request(session, garbled, tooMany))
  /\ UNCHANGED <<arriving, failures>>

LookupFails ==
  /\ Waiting /\ CookieSent
  /\ failures < MaxFailures
  /\ failures' = failures + 1
  /\ LET r == Request([session EXCEPT !.valid = FALSE], FALSE, FALSE)
     IN  reply' = IF Admitted(r) THEN Handle(r, "ok") ELSE Refusal(r)
  /\ GroupOf(call) \cap {"anyone", "members", "admins"} # {}
  /\ arriving' = FALSE
  /\ UNCHANGED <<site, cookie, session, row, tab, call, told, applied>>

Serve(result) ==
  LET r == Request(session, FALSE, FALSE)
      Done(path) == call.path = path /\ result = "ok" IN
  /\ Waiting
  /\ Admitted(r)
  /\ reply' = LET answer == Handle(r, result)
              IN  IF answer.page \in {"board", "details"}
                  THEN [answer EXCEPT !.from = [row |-> row, admin |-> session.admin]] ELSE answer
  /\ session' = CASE Done("/auth/verify") -> [session EXCEPT !.valid = TRUE]
                  [] Done("/auth/logout") -> [session EXCEPT !.valid = FALSE]
                  [] OTHER -> session
  /\ IF Pressed /\ result = "ok"
     THEN row' = RowAfter(call.script) /\ applied' = TRUE
     ELSE UNCHANGED <<row, applied>>
  /\ UNCHANGED <<site, cookie, tab, call, told>>

Succeed ==
  /\ Waiting
  /\ \E result \in Results :
       /\ Serve(result)
       /\ arriving' = (arriving \/ (call.path = "/auth/verify" /\ result = "ok"))
  /\ UNCHANGED failures

Fail == \E result \in {"internal", "catalog"} :
  /\ Waiting
  /\ call.path # "/"
  /\ result = "catalog" => call.path \in {"/app", Row, "/sub-requests"} /\ call.script = "none"
  /\ failures < MaxFailures
  /\ failures' = failures + 1
  /\ Serve(result)
  /\ arriving' = FALSE

-----------------------------------------------------------------------------
(* The browser has the answer.  After 303 the next request is a GET; after  *)
(* 302 only a POST becomes one.                                            *)
CookieAfter ==
  CASE reply.cookie = "clear" -> None
    [] reply.cookie = "set"   -> LET new == SessionCookie(Request(session, FALSE, FALSE))
                                 IN  IF new.secure /\ Scheme = "http" THEN cookie ELSE new
    [] OTHER -> cookie

Answered == reply # None

Follow ==
  /\ Answered /\ IsRedirect(reply)
  /\ Send([call EXCEPT !.path = reply.to,
                       !.method = IF reply.status = 303 \/ call.method = "POST" THEN "GET" ELSE call.method])
  /\ cookie' = CookieAfter
  /\ UNCHANGED <<site, session, row, tab, told, applied, arriving, failures>>

Show ==
  /\ Answered /\ ~IsRedirect(reply) /\ call.script = "none"
  /\ tab' = [page |-> reply.page, path |-> IF reply.from = None THEN None ELSE call.path, from |-> reply.from]
  /\ cookie' = CookieAfter
  /\ call' = None /\ reply' = None /\ arriving' = FALSE
  /\ UNCHANGED <<site, session, row, told, applied, failures>>

(* The scripts: a status of 2xx is a success, and the page is loaded anew.  *)
ScriptDone ==
  /\ Answered /\ ~IsRedirect(reply) /\ call.script # "none"
  /\ cookie' = CookieAfter
  /\ IF reply.status \in 200..299
     THEN /\ told' = "done"
          /\ Send(Call("GET", IF call.script = "delete" THEN "/app" ELSE tab.path, "none", "page"))
     ELSE /\ told' = "failed"
          /\ call' = None /\ reply' = None
  /\ UNCHANGED <<site, session, row, tab, applied, arriving, failures>>

(* The connection breaks, before the server has the request or after.       *)
Break ==
  /\ call # None
  /\ IF call.script = "none"
     THEN tab' = [NoPage EXCEPT !.page = "error"] /\ UNCHANGED told
     ELSE told' = "failed" /\ UNCHANGED tab
  /\ call' = None /\ reply' = None /\ arriving' = FALSE
  /\ UNCHANGED <<site, cookie, session, row, applied, failures>>

-----------------------------------------------------------------------------
(* Behind the page's back: the session expires, is logged out elsewhere or  *)
(* disabled; an admin changes the member's role; the row is taken, given   *)
(* back or deleted.                                                        *)
EndSession ==
  /\ session.valid
  /\ session' = [session EXCEPT !.valid = FALSE]
  /\ arriving' = FALSE
  /\ UNCHANGED <<site, cookie, row, tab, call, reply, told, applied, failures>>

ChangeRole ==
  /\ session' = [session EXCEPT !.admin = ~session.admin]
  /\ UNCHANGED <<site, cookie, row, tab, call, reply, told, applied, arriving, failures>>

OthersAct ==
  /\ row # None
  /\ row' \in {None} \cup {sr \in SubRequestRows : sr.postedBy = row.postedBy}
  /\ row' # row
  /\ UNCHANGED <<site, cookie, session, tab, call, reply, told, applied, arriving, failures>>

Browse ==
  \/ \E path \in {"/", "/app", Row, "/admin", "/auth/verify"}, from \in {"page", "elsewhere"} : Visit(path, from)
  \/ \E path \in Forms : Submit(path)
  \/ \E script \in Buttons : Press(script)

Answers == TurnAway \/ LookupFails \/ Succeed \/ Fail

Receive == Follow \/ Show \/ ScriptDone

Next == Browse \/ Answers \/ Receive \/ Break \/ EndSession \/ ChangeRole \/ OthersAct

(* The server answers what reaches it and the browser handles the answer;   *)
(* nobody has to visit, to press anything or to change a row.              *)
Fairness == WF_vars(Answers) /\ WF_vars(Receive)

Spec == Init /\ [][Next]_vars /\ Fairness

-----------------------------------------------------------------------------
(* The redirects of the site lead somewhere: whatever the cookie is worth   *)
(* and whenever the session or the role goes, a request ends with a page,  *)
(* an error or a message, and is not sent from / to /app and back for ever. *)
NavigationsArrive == call # None ~> call = None

(* A script reports a success only of what the server did: also when the    *)
(* session is over by the time of the press, and the middleware's redirect *)
(* to the login page is followed by fetch.                                 *)
NoFalseSuccess == told = "done" => applied

(* What a page offers works: a button pressed while row, session and role   *)
(* are as they were when the page was rendered does its job, if the request *)
(* says where it comes from and, without fetch metadata, the server can    *)
(* know the scheme it was made with.                                       *)
Recognizable == place = "unknownProxy" => agent = "metadata"

Unchanged ==
  /\ tab.from = [row |-> row, admin |-> session.admin]
  /\ session.valid /\ cookie # None

OfferedWorks ==
  [][(Waiting /\ reply' # None /\ Pressed /\ failures' = failures
        /\ Unchanged /\ Recognizable) => reply'.status = 204]_vars

(* Who opens a good magic link gets to the sub board, from a web mailer too, *)
(* whatever cookie was there before, and behind any proxy.                 *)
SignInLands == [][(arriving /\ Show) => tab'.page = "board"]_vars
=============================================================================
