---------------------------- MODULE BrowserProofs ----------------------------
(***************************************************************************)
(* Proofs about Browser, for any number of failures: a script reports only *)
(* what was done, an offered button works, and a magic link lands.         *)
(***************************************************************************)
EXTENDS Browser, TLAPS

(* What a request, an answer and a page may be.  A cookie the browser keeps *)
(* is one it will send: Lax, and secure only where the site is.            *)
Shape ==
  /\ place \in Places /\ agent \in Agents
  /\ session \in Sessions
  /\ cookie # None => cookie \in Cookies /\ cookie.sameSite = "Lax" /\ (cookie.secure => Scheme = "https")
  /\ row # None => row \in Rows
  /\ tab.from # None => tab.from \in Sources /\ tab.path \in Paths
  /\ call # None => call \in Calls
  /\ reply # None => call # None /\ reply \in Replies
  /\ failures \in Nat

(* The request of a script is the one its button sent, or what the redirect *)
(* of the middleware made of it: its method stays, and only the row's      *)
(* address answers that method.                                            *)
ScriptsHold ==
  call # None /\ call.script # "none" =>
    /\ call.from = "page" /\ call.script \in Buttons
    /\ call.method = IF call.script = "delete" THEN "DELETE" ELSE "PATCH"
    /\ reply # None => reply.status # 303 /\ (reply.status \in 200..299 => applied)

(* After a good magic link: the way from its answer to the board. *)
OnTheWay ==
  arriving =>
    /\ call # None /\ call.script = "none" /\ call.method = "GET" /\ session.valid
    /\ \/ call.path = "/auth/verify" /\ reply = [Found("/") EXCEPT !.cookie = "set"]
       \/ /\ cookie # None
          /\ \/ call.path = "/" /\ reply \in {None, Found("/app")}
             \/ /\ call.path = "/app"
                /\ reply # None => reply.to = None /\ reply.page = "board"

BInv == Shape /\ ScriptsHold /\ OnTheWay /\ NoFalseSuccess
-----------------------------------------------------------------------------
(* The answers.  Each is a record of its own, and never None. *)

LEMMA PathsAre ==
  /\ {"/", "/app", "/admin", Row} \subseteq Paths
  /\ {"/auth/login", "/auth/verify", "/auth/logout"} \subseteq Paths
  /\ FormPaths \subseteq Paths
<1>1. /\ Route("GET", "/", "anyone") \in Routes /\ Route("GET", "/app", "members") \in Routes
      /\ Route("GET", "/admin", "admins") \in Routes /\ Route("GET", Row, "members") \in Routes
      /\ Route("POST", "/auth/login", "limited") \in Routes
      /\ Route("GET", "/auth/verify", "limited") \in Routes
      /\ Route("POST", "/auth/logout", "members") \in Routes
      /\ Route("POST", "/sub-requests", "members") \in Routes
      /\ Route("POST", "/users", "admins") \in Routes
      /\ Route("POST", "/users/import/spinitron", "admins") \in Routes
      /\ Route("POST", "/users/{id}", "admins") \in Routes
  BY DEF Routes
<1>2. \A m, p, g : Route(m, p, g) \in Routes => p \in Paths
  BY DEF Route, Paths
<1>3. QED
  BY <1>1, <1>2 DEF FormPaths

LEMMA AnswersAre ==
  /\ \A n \in Nat : /\ Answer(n) \in Replies /\ Answer(n).status = n /\ Answer(n).to = None
                    /\ Answer(n).page = "error" /\ Answer(n).from = None
  /\ \A p \in {"/", "/app", "/admin"} :
       /\ Found(p) \in Replies /\ Found(p).status = 302 /\ Found(p).to = p
       /\ Found(p).page = "error" /\ Found(p).from = None /\ Found(p).cookie = "keep"
       /\ SeeOther(p) \in Replies /\ SeeOther(p).status = 303 /\ SeeOther(p).to = p
       /\ SeeOther(p).page = "error" /\ SeeOther(p).from = None
  /\ \A p \in Pages : /\ Page(p) \in Replies /\ Page(p).status = 200 /\ Page(p).to = None
                      /\ Page(p).page = p /\ Page(p).from = None
<1>1. \A n \in Nat : /\ Answer(n) \in Replies /\ Answer(n).status = n /\ Answer(n).to = None
                     /\ Answer(n).page = "error" /\ Answer(n).from = None
  BY DEF Answer, Replies, Pages
<1>2. 200 \in Nat /\ 302 \in Nat /\ 303 \in Nat
  OBVIOUS
<1>3. ASSUME NEW p \in {"/", "/app", "/admin"}
      PROVE  /\ Found(p) \in Replies /\ Found(p).status = 302 /\ Found(p).to = p
             /\ Found(p).page = "error" /\ Found(p).from = None /\ Found(p).cookie = "keep"
             /\ SeeOther(p) \in Replies /\ SeeOther(p).status = 303 /\ SeeOther(p).to = p
             /\ SeeOther(p).page = "error" /\ SeeOther(p).from = None
  <2>1. p \in Paths
    BY PathsAre
  <2>2. QED
    BY <1>1, <1>2, <2>1 DEF Found, SeeOther, Answer, Replies, Pages
<1>4. ASSUME NEW p \in Pages
      PROVE  /\ Page(p) \in Replies /\ Page(p).status = 200 /\ Page(p).to = None
             /\ Page(p).page = p /\ Page(p).from = None
  BY <1>1, <1>2 DEF Page, Answer, Replies
<1>5. QED
  BY <1>1, <1>3, <1>4

LEMMA ErrorsAre ==
  ASSUME NEW result, result # "ok"
  PROVE  ErrorStatus(result) \in Nat /\ ErrorStatus(result) \notin (200..299) \cup {303}
BY DEF ErrorStatus

(* A refusal is an answer, and never one a script takes for a success. *)
LEMMA RefusalsAre ==
  ASSUME NEW r, ~Admitted(r)
  PROVE  Refusal(r) \in Replies /\ Refusal(r).status \notin (200..299) \cup {303}
<1>1. /\ \A n \in {400, 401, 403, 404, 429} :
           Answer(n) \in Replies /\ Answer(n).status = n
      /\ Found("/") \in Replies /\ Found("/").status = 302
  BY AnswersAre
<1>2. \A n \in {400, 401, 403, 404, 429, 302} : n \notin (200..299) \cup {303}
  OBVIOUS
<1>3. \A code \in {401, 403} : \/ HandleAuthError(r, code) = Answer(code)
                               \/ HandleAuthError(r, code) = Found("/")
  BY DEF HandleAuthError
<1>4. \/ \E n \in {400, 401, 403, 404, 429} : Refusal(r) = Answer(n)
      \/ Refusal(r) = Found("/")
  BY <1>3 DEF Admitted, Refusal
<1>5. QED
  BY <1>1, <1>2, <1>4

(* What is admitted has a route, and for the routes of members a session. *)
LEMMA AdmittedMeans ==
  ASSUME NEW r, Admitted(r)
  PROVE  /\ \E group : Route(r.method, r.path, group) \in Routes
         /\ r.method \in {"PATCH", "DELETE"} => r.path = Row /\ SignedIn(r)
         /\ r.path \in {"/auth/verify", "/", "/app"} => r.method = "GET"
<1>1. Answer(404) # None /\ HandleAuthError(r, 401) # None
  BY AnswersAre, NoneAssumption DEF HandleAuthError
<1>2. PICK group \in GroupOf(r) : TRUE
  BY <1>1 DEF Admitted, Refusal
<1>3. Route(r.method, r.path, group) \in Routes
  BY <1>2 DEF GroupOf
<1>4. r.method \in {"PATCH", "DELETE"} => r.path = Row
  BY <1>3 DEF Routes, Route
<1>5. r.path \in {"/auth/verify", "/", "/app"} => r.method = "GET"
  BY <1>3 DEF Routes, Route, Row
<1>6. ASSUME r.method \in {"PATCH", "DELETE"} PROVE SignedIn(r)
  <2>1. GroupOf(r) \subseteq {"members", "admins"}
    BY <1>4, <1>6 DEF GroupOf, Routes, Route, Row
  <2>2. Refusal(r) # HandleAuthError(r, 401)
    BY <1>1 DEF Admitted
  <2>3. GroupOf(r) # {} /\ ~r.garbled /\ ~(GroupOf(r) = {"limited"} /\ r.tooMany)
    BY <1>2, <2>1, AnswersAre, NoneAssumption DEF Admitted, Refusal
  <2>4. QED
    BY <2>1, <2>2, <2>3 DEF Refusal
<1>7. QED
  BY <1>3, <1>4, <1>5, <1>6

(* A handler answers, and a page it sends was rendered from nothing yet. *)
LEMMA HandlersAnswer ==
  ASSUME NEW r, NEW result, Admitted(r)
  PROVE  Handle(r, result) \in Replies /\ Handle(r, result).from = None
<1>1. PICK group : Route(r.method, r.path, group) \in Routes
  BY AdmittedMeans
<1>2. {"login", "health", "board", "details", "admin"} \subseteq Pages
  BY DEF Pages
<1> DEFINE Good(a) == a \in Replies /\ a.from = None
<1> SUFFICES Good(Handle(r, result))
  OBVIOUS
<1>3. /\ \A n \in Nat : Good(Answer(n))
      /\ \A p \in {"/", "/app", "/admin"} : Good(Found(p)) /\ Good(SeeOther(p))
      /\ \A p \in {"login", "health", "board", "details", "admin"} : Good(Page(p))
  BY <1>2, AnswersAre
<1>4. result # "ok" => ErrorStatus(result) \in Nat
  BY ErrorsAre
<1>5. \A a, c : Good(a) /\ c \in {"set", "clear"} => Good([a EXCEPT !.cookie = c])
  BY DEF Replies
<1> HIDE DEF Good
<1>6. CASE r.path = "/"
  BY <1>3, <1>5, <1>6 DEF Handle, Home, Row, FormPaths
<1>7. CASE r.path = "/health"
  BY <1>3, <1>7 DEF Handle, Row, FormPaths
<1>8. CASE r.path = "/auth/login"
  BY <1>3, <1>4, <1>8 DEF Handle, HandleLogin, Row, FormPaths
<1>9. CASE r.path \in {"/auth/verify", "/auth/logout"}
  <2>1. Good([Found("/") EXCEPT !.cookie = "set"]) /\ Good([Found("/") EXCEPT !.cookie = "clear"])
    BY <1>3, <1>5
  <2>2. Good(Answer(401)) /\ Good(Answer(500))
    BY <1>3
  <2>3. Good(HandleVerify(result)) /\ Good(HandleLogout(result))
    BY <2>1, <2>2 DEF HandleVerify, HandleLogout
  <2>4. QED
    BY <1>9, <2>3 DEF Handle, Row, FormPaths
<1>10. CASE r.method = "GET" /\ r.path \in {"/app", Row, "/admin"}
  BY <1>3, <1>4, <1>10 DEF Handle, GetPage, Row, FormPaths
<1>11. CASE r.method = "POST" /\ r.path \in {"/sub-requests", "/users", "/users/import/spinitron", "/users/{id}"}
  BY <1>3, <1>4, <1>11 DEF Handle, PostForm, Row, FormPaths
<1>12. CASE r.method \in {"DELETE", "PATCH"} /\ r.path = Row
  BY <1>3, <1>4, <1>12 DEF Handle, ChangeRow, NoContent, Row, FormPaths
<1>13. QED
  BY <1>1, <1>6, <1>7, <1>8, <1>9, <1>10, <1>11, <1>12 DEF Routes, Route

-----------------------------------------------------------------------------
(* Each step keeps the invariant.  First those that set out: the member     *)
(* visits, submits or presses, and is on the way from no magic link then.  *)

LEMMA InitHolds == Init => BInv
<1> SUFFICES ASSUME Init PROVE BInv
  OBVIOUS
<1>1. session \in Sessions /\ row \in Rows
  BY DEF Init, Sessions, SubRequestRows
<1>2. Shape
  BY <1>1 DEF Init, Shape, NoPage
<1>3. ScriptsHold /\ OnTheWay /\ NoFalseSuccess
  BY DEF Init, ScriptsHold, OnTheWay, NoFalseSuccess
<1>4. QED
  BY <1>2, <1>3 DEF BInv

(* A request is under way, from the page or from elsewhere. *)
LEMMA SentHolds ==
  ASSUME BInv, Idle, NEW c \in Calls, Send(c),
         c.script # "none" => /\ c.from = "page" /\ c.script \in Buttons
                              /\ c.method = IF c.script = "delete" THEN "DELETE" ELSE "PATCH",
         told' = "nothing", UNCHANGED <<site, cookie, session, row, tab, arriving, failures>>
  PROVE  BInv'
<1>1. ~arriving
  BY DEF BInv, OnTheWay, Idle
<1>2. call' = c /\ reply' = None /\ UNCHANGED <<place, agent>>
  BY DEF Send, site
<1>3. Shape'
  BY <1>2 DEF BInv, Shape, Scheme
<1>4. ScriptsHold'
  BY <1>2 DEF ScriptsHold, Buttons
<1>5. OnTheWay' /\ NoFalseSuccess'
  BY <1>1 DEF OnTheWay, NoFalseSuccess
<1>6. QED
  BY <1>3, <1>4, <1>5 DEF BInv

LEMMA BrowseHolds ==
  ASSUME BInv, Browse
  PROVE  BInv'
<1>1. ASSUME NEW path \in {"/", "/app", Row, "/admin", "/auth/verify"}, NEW from \in {"page", "elsewhere"},
             Visit(path, from)
      PROVE  BInv'
  <2>1. Call("GET", path, "none", from) \in Calls
    BY PathsAre DEF Call, Calls, Methods
  <2>2. Call("GET", path, "none", from).script = "none"
    BY DEF Call
  <2>3. QED
    BY <1>1, <2>1, <2>2, SentHolds DEF Visit
<1>2. ASSUME NEW path \in Forms, Submit(path)
      PROVE  BInv'
  <2>2. path \in Paths
    BY PathsAre DEF Forms, FormPaths
  <2>3. /\ Call("POST", path, "none", "page") \in Calls
        /\ Call("POST", path, "none", "page").script = "none"
    BY <2>2 DEF Call, Calls, Methods
  <2>4. QED
    BY <1>2, <2>3, SentHolds DEF Submit
<1>3. ASSUME NEW script \in Buttons, Press(script)
      PROVE  BInv'
  <2> DEFINE c == Call(IF script = "delete" THEN "DELETE" ELSE "PATCH", Row, script, "page")
  <2>1. script \in Scripts
    BY DEF Buttons, Capabilities, Scripts
  <2>2. /\ c \in Calls /\ c.script = script /\ c.from = "page"
        /\ c.method = IF script = "delete" THEN "DELETE" ELSE "PATCH"
    BY <2>1, PathsAre DEF Call, Calls, Methods
  <2> HIDE DEF c
  <2>3. Idle /\ Send(c) /\ told' = "nothing" /\ UNCHANGED <<site, cookie, session, row, tab, arriving, failures>>
    BY <1>3 DEF Press, c
  <2>4. QED
    BY <2>2, <2>3, SentHolds
<1>4. QED
  BY <1>1, <1>2, <1>3 DEF Browse

-----------------------------------------------------------------------------
(* Then the server's.  What it makes of a request depends on the call and,  *)
(* if the cookie comes along, on the session.                              *)

LEMMA TheRequest ==
  ASSUME NEW found, NEW garbled, NEW tooMany
  PROVE  LET r == Request(found, garbled, tooMany) IN
         /\ r.method = call.method /\ r.path = call.path
         /\ r.garbled = garbled /\ r.tooMany = tooMany
         /\ r.session = IF CookieSent THEN found ELSE None
BY DEF Request

LEMMA GroupsAre ==
  ASSUME NEW r
  PROVE  /\ r.method = "GET" /\ r.path = "/" => GroupOf(r) = {"anyone"}
         /\ r.method = "GET" /\ r.path = "/app" => GroupOf(r) = {"members"}
         /\ r.method \in {"PATCH", "DELETE"} /\ r.path = Row => GroupOf(r) = {"members"}
BY DEF GroupOf, Routes, Route, Row

(* The way from a magic link leads past the middleware. *)
LEMMA WayIsClear ==
  ASSUME BInv, Waiting, arriving, NEW garbled, NEW tooMany, garbled => call.path \notin {"/", "/app"}
  PROVE  LET r == Request(session, garbled, tooMany) IN
         /\ call.path \in {"/", "/app"}
         /\ call.method = "GET" /\ call.script = "none"
         /\ cookie # None /\ session # None /\ session.valid /\ r.session = session
         /\ Admitted(r)
<1> DEFINE r == Request(session, garbled, tooMany)
<1>1. /\ call # None /\ reply = None /\ call.script = "none" /\ call.method = "GET" /\ session.valid
      /\ session \in Sessions /\ session # None
  BY NoneAssumption DEF BInv, OnTheWay, Waiting, Shape
<1>2. [Found("/") EXCEPT !.cookie = "set"] \in Replies
  BY AnswersAre DEF Replies
<1>3. call.path \in {"/", "/app"} /\ cookie # None
  BY <1>1, <1>2, NoneAssumption DEF BInv, OnTheWay
<1>4. CookieSent
  BY <1>1, <1>3 DEF CookieSent, BInv, Shape
<1>5. /\ r.session = session /\ ~r.garbled /\ r.method = "GET" /\ r.path = call.path
  BY <1>1, <1>3, <1>4, TheRequest
<1> HIDE DEF r
<1>6. GroupOf(r) = {"anyone"} \/ GroupOf(r) = {"members"}
  BY <1>3, <1>5, GroupsAre
<1>7. SignedIn(r) /\ ~IsMutation(r)
  BY <1>1, <1>5 DEF SignedIn, IsMutation
<1>8. Refusal(r) = None
  BY <1>5, <1>6, <1>7 DEF Refusal
<1>9. QED
  BY <1>1, <1>3, <1>5, <1>8 DEF r, Admitted

(* An answer comes. *)
LEMMA AnswerHolds ==
  ASSUME BInv, Waiting, reply' \in Replies, session' \in Sessions, row' # None => row' \in Rows,
         failures' \in Nat, applied => applied', UNCHANGED <<site, cookie, tab, call, told>>,
         call.script # "none" => reply'.status # 303 /\ (reply'.status \in 200..299 => applied'),
         OnTheWay'
  PROVE  BInv'
<1>1. UNCHANGED <<place, agent>>
  BY DEF site
<1>2. Shape'
  BY <1>1 DEF BInv, Shape, Scheme, Waiting
<1>3. ScriptsHold' /\ NoFalseSuccess'
  BY DEF BInv, ScriptsHold, Buttons, NoFalseSuccess, Waiting
<1>4. QED
  BY <1>2, <1>3 DEF BInv

LEMMA TurnAwayHolds ==
  ASSUME BInv, TurnAway
  PROVE  BInv'
<1>1. PICK garbled \in BOOLEAN, tooMany \in BOOLEAN :
         /\ garbled => call.path \notin {"/", "/app"}
         /\ ServeRefused(Request(session, garbled, tooMany))
  BY DEF TurnAway
<1>2. Waiting /\ UNCHANGED <<arriving, failures>>
  BY DEF TurnAway
<1>3. ~arriving
  BY <1>1, <1>2, WayIsClear DEF ServeRefused
<1>4. reply' \in Replies /\ reply'.status \notin (200..299) \cup {303}
  BY <1>1, RefusalsAre DEF ServeRefused
<1>5. UNCHANGED <<site, cookie, session, row, tab, call, told, applied>>
  BY <1>1 DEF ServeRefused
<1>6. OnTheWay'
  BY <1>2, <1>3 DEF OnTheWay
<1>7. QED
  BY <1>2, <1>4, <1>5, <1>6, AnswerHolds DEF BInv, Shape

LEMMA LookupFailsHolds ==
  ASSUME BInv, LookupFails
  PROVE  BInv'
<1> DEFINE r == Request([session EXCEPT !.valid = FALSE], FALSE, FALSE)
<1>1. /\ Waiting /\ ~arriving' /\ UNCHANGED <<site, cookie, session, row, tab, call, told, applied>>
      /\ failures' = failures + 1
      /\ reply' = IF Admitted(r) THEN Handle(r, "ok") ELSE Refusal(r)
  BY DEF LookupFails
<1>2. ~SignedIn(r)
  <2>1. session \in Sessions
    BY DEF BInv, Shape
  <2>2. [session EXCEPT !.valid = FALSE].valid = FALSE
    BY <2>1 DEF Sessions
  <2>3. QED
    BY <2>2 DEF Request, SignedIn
<1>3. r.method = call.method
  BY DEF Request
<1> HIDE DEF r
<1>4. reply' \in Replies
  BY <1>1, HandlersAnswer, RefusalsAre
<1>5. call.script # "none" => reply'.status \notin (200..299) \cup {303}
  <2>1. call.script # "none" => call.method \in {"PATCH", "DELETE"}
    BY <1>1 DEF BInv, ScriptsHold, Waiting
  <2>2. call.script # "none" => ~Admitted(r)
    BY <1>2, <1>3, <2>1, AdmittedMeans
  <2>3. QED
    BY <1>1, <2>2, RefusalsAre
<1>6. OnTheWay'
  BY <1>1 DEF OnTheWay
<1>7. QED
  BY <1>1, <1>4, <1>5, <1>6, AnswerHolds DEF BInv, Shape

(* A handler serves the request; a script is told of a success that is one. *)
LEMMA ServeHolds ==
  ASSUME BInv, Waiting, NEW result, Serve(result), Pressed /\ result = "ok" => row # None,
         failures' \in Nat, OnTheWay'
  PROVE  BInv'
<1> DEFINE r == Request(session, FALSE, FALSE)
           answer == Handle(r, result)
<1>1. /\ Admitted(r) /\ UNCHANGED <<site, cookie, tab, call, told>>
      /\ reply' = IF answer.page \in {"board", "details"}
                  THEN [answer EXCEPT !.from = [row |-> row, admin |-> session.admin]] ELSE answer
      /\ \/ session' = [session EXCEPT !.valid = TRUE] \/ session' = [session EXCEPT !.valid = FALSE]
         \/ session' = session
      /\ IF Pressed /\ result = "ok" THEN row' = RowAfter(call.script) /\ applied' = TRUE
                                    ELSE UNCHANGED <<row, applied>>
  BY DEF Serve
<1>2. session \in Sessions /\ (row # None => row \in Rows) /\ call \in Calls
  BY DEF BInv, Shape, Waiting
<1>3. r.method = call.method /\ r.path = call.path
  BY DEF Request
<1> HIDE DEF r
<1>4. answer \in Replies
  BY <1>1, HandlersAnswer
<1>5. reply' \in Replies /\ reply'.status = answer.status
  <2>1. [row |-> row, admin |-> session.admin] \in Sources
    BY <1>2 DEF Sources, Sessions
  <2> HIDE DEF answer
  <2>2. QED
    BY <1>1, <1>4, <2>1 DEF Replies
<1>6. session' \in Sessions
  BY <1>1, <1>2 DEF Sessions
<1>7. row' # None => row' \in Rows
  BY <1>1, <1>2 DEF RowAfter, Rows, Calls, Scripts, Pressed
<1>8. ASSUME call.script # "none"
      PROVE  reply'.status # 303 /\ (reply'.status \in 200..299 => applied')
  <2>1. call.method \in {"PATCH", "DELETE"}
    BY <1>8 DEF BInv, ScriptsHold, Waiting
  <2>2. call.path = Row
    BY <1>1, <1>3, <2>1, AdmittedMeans
  <2>3. answer = ChangeRow(result)
    BY <1>3, <2>1, <2>2 DEF Handle, Row, FormPaths
  <2>4. CASE result = "ok"
    <3>1. answer.status = 204
      BY <2>3, <2>4, AnswersAre DEF ChangeRow, NoContent
    <3>2. applied'
      BY <1>1, <1>8, <2>2, <2>4 DEF Pressed
    <3>3. QED
      BY <1>5, <3>1, <3>2
  <2>5. CASE result # "ok"
    BY <1>5, <2>3, <2>5, AnswersAre, ErrorsAre DEF ChangeRow
  <2>6. QED
    BY <2>4, <2>5
<1>9. applied => applied'
  BY <1>1
<1>10. QED
  BY <1>1, <1>5, <1>6, <1>7, <1>8, <1>9, AnswerHolds

LEMMA SucceedHolds ==
  ASSUME BInv, Succeed
  PROVE  BInv'
<1>1. PICK result \in Results : /\ Serve(result)
                               /\ arriving' = (arriving \/ (call.path = "/auth/verify" /\ result = "ok"))
  BY DEF Succeed
<1>2. Waiting /\ failures' = failures
  BY DEF Succeed
<1> DEFINE r == Request(session, FALSE, FALSE)
<1>3. r.method = call.method /\ r.path = call.path
  BY DEF Request
<1>4. Admitted(r) /\ UNCHANGED <<site, cookie, tab, call, told>>
  BY <1>1 DEF Serve
<1>5. call # None /\ session \in Sessions
  BY <1>2 DEF Waiting, BInv, Shape
<1>6. Pressed /\ result = "ok" => row # None
  BY <1>1 DEF Results, RowResult, Pressed, Row
<1>7. CASE call.path = "/auth/verify" /\ result = "ok"
  <2>1. call.method = "GET" /\ call.script = "none"
    <3>1. call.method = "GET"
      BY <1>3, <1>4, <1>7, AdmittedMeans
    <3>2. QED
      BY <1>5, <3>1 DEF BInv, ScriptsHold
  <2>2. session'.valid
    BY <1>1, <1>5, <1>7 DEF Serve, Sessions
  <2>3. Handle(r, result) = [Found("/") EXCEPT !.cookie = "set"]
    BY <1>3, <1>7 DEF Handle, HandleVerify, Row, FormPaths
  <2>4. Handle(r, result).page = "error"
    <3>1. Found("/") \in Replies /\ Found("/").page = "error"
      BY AnswersAre
    <3>2. [Found("/") EXCEPT !.cookie = "set"].page = "error"
      BY <3>1 DEF Replies
    <3>3. QED
      BY <2>3, <3>2
  <2>5. reply' = [Found("/") EXCEPT !.cookie = "set"]
    BY <1>1, <2>3, <2>4 DEF Serve
  <2>6. OnTheWay'
    BY <1>4, <1>5, <1>7, <2>1, <2>2, <2>5 DEF OnTheWay
  <2>7. QED
    BY <1>1, <1>2, <1>6, <2>6, ServeHolds DEF BInv, Shape
<1>8. CASE ~(call.path = "/auth/verify" /\ result = "ok") /\ arriving
  <2>1. /\ call.path \in {"/", "/app"} /\ call.method = "GET" /\ call.script = "none"
        /\ cookie # None /\ session # None /\ session.valid /\ r.session = session
    BY <1>2, <1>8, WayIsClear
  <2>2. session' = session
    BY <1>1, <2>1 DEF Serve
  <2>3. ASSUME call.path = "/" PROVE OnTheWay'
    <3>1. Handle(r, result) = Found("/app")
      BY <1>3, <2>1, <2>3 DEF Handle, Home, Row, FormPaths
    <3>2. reply' = Found("/app")
      BY <1>1, <3>1, AnswersAre DEF Serve
    <3>3. QED
      BY <1>4, <1>5, <2>1, <2>2, <2>3, <3>2 DEF OnTheWay
  <2>4. ASSUME call.path = "/app" PROVE OnTheWay'
    <3>1. result = "ok"
      BY <1>1, <2>4 DEF Results, Pressed, Row
    <3>2. Handle(r, result) = Page("board")
      BY <1>3, <2>1, <2>4, <3>1 DEF Handle, GetPage, Row, FormPaths
    <3>3. /\ Page("board") \in Replies /\ Page("board").to = None /\ Page("board").page = "board"
      BY AnswersAre DEF Pages
    <3>4. reply' = [Page("board") EXCEPT !.from = [row |-> row, admin |-> session.admin]]
      BY <1>1, <3>2, <3>3 DEF Serve
    <3>5. reply'.to = None /\ reply'.page = "board"
      BY <3>3, <3>4 DEF Replies
    <3>6. QED
      BY <1>4, <1>5, <2>1, <2>2, <2>4, <3>5 DEF OnTheWay
  <2>5. OnTheWay'
    BY <2>1, <2>3, <2>4
  <2>6. QED
    BY <1>1, <1>2, <1>6, <2>5, ServeHolds DEF BInv, Shape
<1>9. CASE ~(call.path = "/auth/verify" /\ result = "ok") /\ ~arriving
  <2>1. OnTheWay'
    BY <1>1, <1>9 DEF OnTheWay
  <2>2. QED
    BY <1>1, <1>2, <1>6, <2>1, ServeHolds DEF BInv, Shape
<1>10. QED
  BY <1>7, <1>8, <1>9

LEMMA FailHolds ==
  ASSUME BInv, Fail
  PROVE  BInv'
<1>1. PICK result \in {"internal", "catalog"} : Serve(result)
  BY DEF Fail
<1>2. Waiting /\ failures' = failures + 1 /\ ~arriving'
  BY DEF Fail
<1>3. OnTheWay' /\ failures' \in Nat
  BY <1>2 DEF OnTheWay, BInv, Shape
<1>4. QED
  BY <1>1, <1>2, <1>3, ServeHolds

-----------------------------------------------------------------------------
(* Then the browser's, when it has the answer. *)

(* The cookie it keeps is one it will send. *)
LEMMA CookieKept ==
  ASSUME BInv, CookieAfter # None
  PROVE  CookieAfter \in Cookies /\ CookieAfter.sameSite = "Lax" /\ (CookieAfter.secure => Scheme = "https")
<1> DEFINE new == SessionCookie(Request(session, FALSE, FALSE))
<1>1. new \in Cookies /\ new.sameSite = "Lax"
  BY DEF SessionCookie, Cookies
<1>2. CookieAfter = cookie \/ CookieAfter = None \/ (CookieAfter = new /\ ~(new.secure /\ Scheme = "http"))
  BY DEF CookieAfter
<1>3. Scheme \in {"http", "https"}
  BY DEF Scheme
<1> HIDE DEF new
<1>4. QED
  BY <1>1, <1>2, <1>3 DEF BInv, Shape

(* A cookie that is set is kept. *)
LEMMA CookieStays ==
  ASSUME BInv, reply.cookie = "set"
  PROVE  CookieAfter # None
<1> DEFINE r == Request(session, FALSE, FALSE)
<1>1. SessionCookie(r) \in Cookies /\ (SessionCookie(r).secure <=> RequestScheme(r) = "https")
  BY DEF SessionCookie, Cookies
<1>2. Scheme = "http" => RequestScheme(r) = "http"
  <2>1. Scheme = "http" => /\ ~r.tls /\ ~r.forwarded.trusted
    BY DEF Scheme, Request
  <2>2. place = "plain" => r.forwarded.proto = None
    BY DEF Request
  <2>3. Scheme = "http" => place = "plain"
    BY DEF Scheme
  <2>4. QED
    BY <2>1, <2>2, <2>3, NoneAssumption DEF RequestScheme, TrustedForwardedProto
<1>3. QED
  BY <1>1, <1>2, NoneAssumption DEF CookieAfter

LEMMA FollowHolds ==
  ASSUME BInv, Follow
  PROVE  BInv'
<1> DEFINE c == [call EXCEPT !.path = reply.to,
                             !.method = IF reply.status = 303 \/ call.method = "POST" THEN "GET" ELSE call.method]
<1>1. /\ reply # None /\ reply.to # None /\ call' = c /\ reply' = None /\ cookie' = CookieAfter
      /\ UNCHANGED <<place, agent, session, row, tab, told, applied, arriving, failures>>
  BY DEF Follow, Answered, IsRedirect, Send, site
<1>2. call # None /\ call \in Calls /\ reply \in Replies
  BY <1>1 DEF BInv, Shape
<1>3. /\ c \in Calls /\ c.script = call.script /\ c.from = call.from /\ c.path = reply.to
      /\ c.method = IF reply.status = 303 \/ call.method = "POST" THEN "GET" ELSE call.method
  BY <1>1, <1>2 DEF Calls, Replies, Methods
<1> HIDE DEF c
<1>4. Shape'
  BY <1>1, <1>3, CookieKept DEF BInv, Shape, Scheme
<1>5. ScriptsHold'
  BY <1>1, <1>2, <1>3 DEF BInv, ScriptsHold, Buttons
<1>6. NoFalseSuccess'
  BY <1>1 DEF BInv, NoFalseSuccess
<1>7. OnTheWay'
  <2> SUFFICES ASSUME arriving PROVE OnTheWay'
    BY <1>1 DEF OnTheWay
  <2>1. call.script = "none" /\ call.method = "GET" /\ session.valid
    BY DEF BInv, OnTheWay
  <2>2. call' # None /\ call'.script = "none" /\ session'.valid
    BY <1>1, <1>3, <2>1, NoneAssumption
  <2>3. call'.method = "GET"
    BY <1>1, <1>3, <2>1
  <2>4. CASE call.path = "/auth/verify" /\ reply = [Found("/") EXCEPT !.cookie = "set"]
    <3>1. reply.to = "/" /\ reply.cookie = "set"
      BY <2>4, AnswersAre DEF Replies
    <3>2. cookie' # None
      BY <1>1, <3>1, CookieStays
    <3>3. QED
      BY <1>1, <1>3, <2>2, <2>3, <3>1, <3>2 DEF OnTheWay
  <2>5. CASE cookie # None /\ reply = Found("/app")
    <3>1. reply.to = "/app" /\ reply.cookie = "keep"
      BY <2>5, AnswersAre
    <3>2. cookie' # None
      BY <1>1, <2>5, <3>1 DEF CookieAfter
    <3>3. QED
      BY <1>1, <1>3, <2>2, <2>3, <3>1, <3>2 DEF OnTheWay
  <2>6. QED
    BY <1>1, <2>4, <2>5 DEF BInv, OnTheWay
<1>8. QED
  BY <1>4, <1>5, <1>6, <1>7 DEF BInv

LEMMA ShowHolds ==
  ASSUME BInv, Show
  PROVE  BInv'
<1>1. /\ reply # None /\ call' = None /\ reply' = None /\ ~arriving' /\ cookie' = CookieAfter
      /\ tab'.from = reply.from /\ (reply.from # None => tab'.path = call.path)
      /\ UNCHANGED <<place, agent, session, row, told, applied, failures>>
  BY DEF Show, Answered, site
<1>2. (reply.from # None => reply.from \in Sources) /\ call.path \in Paths
  BY <1>1 DEF BInv, Shape, Replies, Calls
<1>3. Shape'
  BY <1>1, <1>2, CookieKept DEF BInv, Shape, Scheme
<1>4. ScriptsHold' /\ OnTheWay' /\ NoFalseSuccess'
  BY <1>1 DEF BInv, ScriptsHold, OnTheWay, NoFalseSuccess
<1>5. QED
  BY <1>3, <1>4 DEF BInv

(* The script reads the status of the last answer. *)
LEMMA ScriptDoneHolds ==
  ASSUME BInv, ScriptDone
  PROVE  BInv'
<1>1. /\ reply # None /\ call.script # "none" /\ cookie' = CookieAfter /\ reply' = None
      /\ UNCHANGED <<place, agent, session, row, tab, applied, arriving, failures>>
  BY DEF ScriptDone, Answered, Send, site
<1>2. call # None /\ call.script \in Buttons
  BY <1>1 DEF BInv, Shape, ScriptsHold
<1>3. ~arriving
  BY <1>1 DEF BInv, OnTheWay
<1>4. (IF call.script = "delete" THEN "/app" ELSE tab.path) \in Paths
  BY <1>2, PathsAre DEF BInv, Shape, Buttons
<1>5. \/ call' = None /\ told' = "failed"
      \/ /\ call' = Call("GET", (IF call.script = "delete" THEN "/app" ELSE tab.path), "none", "page")
         /\ reply.status \in 200..299
  BY DEF ScriptDone, Send
<1>6. call' # None => call' \in Calls /\ call'.script = "none"
  BY <1>4, <1>5, PathsAre DEF Call, Calls, Methods
<1>7. Shape'
  BY <1>1, <1>6, CookieKept DEF BInv, Shape, Scheme
<1>8. NoFalseSuccess'
  BY <1>1, <1>2, <1>5 DEF BInv, ScriptsHold, NoFalseSuccess
<1>9. ScriptsHold' /\ OnTheWay'
  BY <1>1, <1>3, <1>6 DEF ScriptsHold, OnTheWay
<1>10. QED
  BY <1>7, <1>8, <1>9 DEF BInv

-----------------------------------------------------------------------------
(* And those of nobody at the page. *)

LEMMA BreakHolds ==
  ASSUME BInv, Break
  PROVE  BInv'
<1>1. /\ call' = None /\ reply' = None /\ ~arriving'
      /\ UNCHANGED <<place, agent, cookie, session, row, applied, failures>>
      /\ tab' = tab \/ tab' = [NoPage EXCEPT !.page = "error"]
      /\ told' = told \/ told' = "failed"
  BY DEF Break, site
<1>2. [NoPage EXCEPT !.page = "error"].from = None
  BY DEF NoPage
<1>3. Shape'
  BY <1>1, <1>2 DEF BInv, Shape, Scheme
<1>4. ScriptsHold' /\ OnTheWay' /\ NoFalseSuccess'
  BY <1>1 DEF BInv, ScriptsHold, OnTheWay, NoFalseSuccess
<1>5. QED
  BY <1>3, <1>4 DEF BInv

LEMMA BehindHolds ==
  ASSUME BInv, EndSession \/ ChangeRole \/ OthersAct
  PROVE  BInv'
<1>1. /\ UNCHANGED <<place, agent, cookie, tab, call, reply, told, applied, failures>>
      /\ \/ UNCHANGED arriving /\ session'.valid = session.valid
         \/ ~arriving'
      /\ session' \in Sessions /\ (row' # None => row' \in Rows)
  BY DEF EndSession, ChangeRole, OthersAct, site, BInv, Shape, Sessions, SubRequestRows
<1>2. Shape'
  BY <1>1 DEF BInv, Shape, Scheme
<1>3. ScriptsHold' /\ OnTheWay' /\ NoFalseSuccess'
  BY <1>1 DEF BInv, ScriptsHold, Buttons, OnTheWay, NoFalseSuccess
<1>4. QED
  BY <1>2, <1>3 DEF BInv

LEMMA NextHolds == BInv /\ [Next]_vars => BInv'
<1> SUFFICES ASSUME BInv, [Next]_vars PROVE BInv'
  OBVIOUS
<1>1. CASE Next
  BY <1>1, BrowseHolds, TurnAwayHolds, LookupFailsHolds, SucceedHolds, FailHolds, FollowHolds,
     ShowHolds, ScriptDoneHolds, BreakHolds, BehindHolds DEF Next, Answers, Receive
<1>2. CASE UNCHANGED vars
  BY <1>2 DEF vars, BInv, Shape, Scheme, ScriptsHold, Buttons, OnTheWay, NoFalseSuccess
<1>3. QED
  BY <1>1, <1>2

(* What holds of the page, its scripts and the request under way, whatever *)
(* is pressed and whatever happens behind the page.                        *)
THEOREM Invariance == Spec => []BInv
<1>1. QED
  BY InitHolds, NextHolds, PTL DEF Spec

(* A script that reports success reports what the server did, whatever      *)
(* became of the session, the role and the row while its request was under *)
(* way, and whatever the redirects of the middleware led fetch to.         *)
THEOREM ScriptsTellTheTruth == Spec => []NoFalseSuccess
<1>1. BInv => NoFalseSuccess
  BY DEF BInv
<1>2. QED
  BY <1>1, Invariance, PTL

(* Who opens a good magic link is shown the sub board, from a web mailer     *)
(* too: nothing on the way from / to /app turns the browser away, whatever *)
(* cookie it had, unless the session ends, the connection breaks or a      *)
(* statement fails.                                                        *)
THEOREM SignInArrives == Spec => SignInLands
<1>1. BInv /\ arriving /\ Show => tab'.page = "board"
  <2> SUFFICES ASSUME BInv, arriving, Show PROVE tab'.page = "board"
    OBVIOUS
  <2>1. reply # None /\ reply.to = None /\ tab'.page = reply.page
    BY DEF Show, Answered, IsRedirect
  <2>2. [Found("/") EXCEPT !.cookie = "set"].to # None /\ Found("/app").to # None
    BY AnswersAre, PathsAre, NoneAssumption DEF Replies
  <2>3. QED
    BY <2>1, <2>2 DEF BInv, OnTheWay
<1>2. BInv /\ [Next]_vars => [(arriving /\ Show) => tab'.page = "board"]_vars
  BY <1>1
<1>3. QED
  BY <1>2, Invariance, PTL DEF Spec, SignInLands

-----------------------------------------------------------------------------
(* The buttons.  The page was rendered from the row and the role as they    *)
(* still are; the middleware lets the request through, and the service      *)
(* asks the rules the page asked.                                          *)

LEMMA PressAdmitted ==
  ASSUME BInv, Waiting, Pressed, Unchanged, Recognizable, NEW garbled, ~garbled, NEW tooMany
  PROVE  Admitted(Request(session, garbled, tooMany))
<1> DEFINE r == Request(session, garbled, tooMany)
<1>1. /\ call # None /\ call.script # "none" /\ call.from = "page" /\ call.path = Row
      /\ call.method \in {"PATCH", "DELETE"}
  BY DEF BInv, ScriptsHold, Waiting, Pressed
<1>2. CookieSent
  BY <1>1 DEF Unchanged, CookieSent, BInv, Shape
<1>3. r.session = session /\ ~r.garbled /\ r.method = call.method /\ r.path = call.path
  BY <1>2, TheRequest
<1>4. session # None /\ session.valid
  BY NoneAssumption DEF Unchanged, BInv, Shape
<1>5. SameOrigin(r)
  <2>1. /\ r.tls = (place = "tls") /\ r.forwarded.trusted = (place = "knownProxy")
        /\ r.forwarded.proto = IF place \in {"knownProxy", "unknownProxy"} THEN "https" ELSE None
        /\ r.origin = Scheme
        /\ r.site = IF agent # "metadata" \/ Scheme = "http" THEN None ELSE "same-origin"
    BY <1>1 DEF Request
  <2>2. /\ place \in Places /\ agent \in Agents
        /\ Scheme = IF place = "plain" THEN "http" ELSE "https"
    BY DEF BInv, Shape, Scheme
  <2> HIDE DEF r
  <2>3. CASE r.site = "same-origin"
    BY <2>3 DEF SameOrigin
  <2>4. CASE r.site = None
    <3>1. place = "plain" \/ agent # "metadata"
      BY <2>1, <2>2, <2>4, NoneAssumption
    <3>2. place # "unknownProxy"
      BY <3>1 DEF Recognizable
    <3>3. RequestScheme(r) = Scheme
      BY <2>1, <2>2, <3>2, NoneAssumption DEF RequestScheme, TrustedForwardedProto, Places
    <3>4. QED
      BY <2>1, <2>4, <3>3 DEF SameOrigin
  <2>5. QED
    BY <2>1, <2>3, <2>4
<1> HIDE DEF r
<1>6. GroupOf(r) = {"members"}
  BY <1>1, <1>3, GroupsAre
<1>7. SignedIn(r)
  BY <1>3, <1>4 DEF SignedIn
<1>8. Refusal(r) = None
  BY <1>3, <1>5, <1>6, <1>7 DEF Refusal
<1>9. QED
  BY <1>8 DEF r, Admitted

(* The page shows a button exactly when the service would do its job. *)
LEMMA ShownIsGranted ==
  ASSUME BInv, Waiting, Pressed, Unchanged
  PROVE  RowResult(call.script) = "ok"
<1>1. call.script \in Buttons
  BY DEF BInv, ScriptsHold, Waiting, Pressed
<1>2. /\ tab.from # None /\ tab.from.row = row /\ row # None /\ tab.from.admin = session.admin
      /\ call.script \in Capabilities(Viewed, row)
  BY <1>1 DEF Buttons, Unchanged, Viewed
<1>3. QED
  BY <1>2 DEF Capabilities, RowResult

(* A button pressed on a page that is still true works, in every way the    *)
(* site may be reached, as long as the request can show where it is from.  *)
THEOREM ButtonsDoTheirJob == Spec => OfferedWorks
<1> DEFINE Offered == /\ Waiting /\ reply' # None /\ Pressed /\ failures' = failures
                      /\ Unchanged /\ Recognizable
<1>1. ASSUME BInv, Next, Offered PROVE reply'.status = 204
  <2>1. call # None /\ reply = None /\ reply' # None /\ failures \in Nat /\ failures' = failures
    BY <1>1 DEF Waiting, BInv, Shape
  <2>2. CASE Browse \/ Receive \/ Break
    BY <2>1, <2>2 DEF Browse, Visit, Submit, Press, Idle, Receive, Follow, Show, ScriptDone, Answered, Break
  <2>3. CASE EndSession \/ ChangeRole \/ OthersAct
    BY <2>1, <2>3 DEF EndSession, ChangeRole, OthersAct
  <2>4. CASE LookupFails \/ Fail
    <3>1. failures' = failures + 1
      BY <2>4 DEF LookupFails, Fail
    <3>2. QED
      BY <2>1, <3>1
  <2>5. CASE TurnAway
    <3>1. PICK garbled \in BOOLEAN, tooMany \in BOOLEAN :
            /\ garbled => call.script = "none"
            /\ ServeRefused(Request(session, garbled, tooMany))
      BY <2>5 DEF TurnAway
    <3>2. ~garbled
      BY <1>1, <3>1 DEF Pressed
    <3>3. QED
      BY <1>1, <3>1, <3>2, PressAdmitted DEF ServeRefused
  <2>6. CASE Succeed
    <3>1. PICK result \in Results : Serve(result)
      BY <2>6 DEF Succeed
    <3>2. Results = {RowResult(call.script)}
      BY <1>1 DEF Results, Pressed, Row
    <3>3. result = "ok"
      BY <1>1, <3>1, <3>2, ShownIsGranted
    <3>4. call.path = Row /\ call.method \in {"PATCH", "DELETE"}
      BY <1>1, <2>1 DEF Pressed, BInv, ScriptsHold
    <3>5. Handle(Request(session, FALSE, FALSE), result) = NoContent
      <4>1. /\ Request(session, FALSE, FALSE).method = call.method
            /\ Request(session, FALSE, FALSE).path = call.path
        BY DEF Request
      <4>2. QED
        BY <3>3, <3>4, <4>1 DEF Handle, ChangeRow, Row, FormPaths
    <3>6. NoContent.status = 204 /\ NoContent.page = "error"
      BY AnswersAre DEF NoContent
    <3>7. QED
      BY <3>1, <3>5, <3>6 DEF Serve
  <2>7. QED
    BY <1>1, <2>2, <2>3, <2>4, <2>5, <2>6 DEF Next, Answers
<1>2. BInv /\ [Next]_vars => [Offered => reply'.status = 204]_vars
  BY <1>1
<1>3. QED
  BY <1>2, Invariance, PTL DEF Spec, OfferedWorks
=============================================================================
