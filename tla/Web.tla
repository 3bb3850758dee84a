--------------------------------- MODULE Web ---------------------------------
(***************************************************************************)
(* What the server answers to one HTTP request: the routes with their      *)
(* middleware (internal/adapters/inbound/api/router.go, wrapper.go and the *)
(* bindings of api.gen.go), proxy.go, the session cookie and its checks    *)
(* (auth.go), and what the handlers make of what the services return       *)
(* (handler.go, auth.go, subrequest_handlers.go, admin_handlers.go,        *)
(* errors.go).  Pure functions of the request, of the session the cookie   *)
(* leads to and of what the service called returns; the services           *)
(* themselves are the other modules.                                       *)
(*                                                                         *)
(* The HTTP side is external and used as the handlers use it: a request is *)
(* [method, path, garbled, json, tls, forwarded, site, origin, session],   *)
(* where origin is the scheme of the Origin or Referer of a page of this   *)
(* host, or None.                                                          *)
(***************************************************************************)
CONSTANT None           \* a header or a cookie that is not there

(* NewRouter: who may go which way.                                        *)
Route(method, path, group) == [method |-> method, path |-> path, group |-> group]

Row == "/sub-requests/{id}"

Routes ==
  { Route("GET",    "/",            "anyone"),
    Route("GET",    "/health",      "anyone"),
    Route("POST",   "/auth/login",  "limited"),
    Route("GET",    "/auth/verify", "limited"),
    Route("GET",    "/app",         "members"),
    Route("GET",    Row,            "members"),
    Route("POST",   "/auth/logout", "members"),
    Route("POST",   "/sub-requests", "members"),
    Route("DELETE", Row,            "members"),
    Route("PATCH",  Row,            "members"),
    Route("GET",    "/admin",       "admins"),
    Route("POST",   "/users",       "admins"),
    Route("POST",   "/users/import/spinitron", "admins"),
    Route("POST",   "/users/{id}",  "admins") }

(* An answer: a redirect has a place to go to, a page something it was      *)
(* rendered from, and the cookie is kept, set or cleared.                  *)
Answer(status) == [status |-> status, to |-> None, page |-> "error", from |-> None, cookie |-> "keep"]
Page(name)     == [Answer(200) EXCEPT !.page = name]
NoContent      == Answer(204)
Found(path)    == [Answer(302) EXCEPT !.to = path]
SeeOther(path) == [Answer(303) EXCEPT !.to = path]

IsRedirect(answer) == answer.to # None

-----------------------------------------------------------------------------
(* TrustForwardedHeaders: the proxy's word counts only if the proxy is one  *)
(* of the configured ones.                                                 *)
TrustedForwardedProto(r) == IF r.forwarded.trusted THEN r.forwarded.proto ELSE None

RequestScheme_Direct(r) == IF r.tls THEN "https" ELSE "http"   \* fault: the proxy is not asked

RequestScheme(r) ==
  IF r.tls \/ TrustedForwardedProto(r) = "https" THEN "https" ELSE "http"

(* isSameOriginRequest: a browser that says where the request comes from is *)
(* believed; of others the Origin, or else the Referer, must be this one.  *)
SameOrigin(r) ==
  \/ r.site \in {"same-origin", "same-site", "none"}
  \/ r.site = None /\ r.origin = RequestScheme(r)

IsMutation(r) == r.method \in {"POST", "PATCH", "DELETE"}

(* setSessionCookie: as the browser is told to keep it.                     *)
SessionCookie_Strict(r) == [secure |-> RequestScheme(r) = "https", sameSite |-> "Strict"]   \* fault

SessionCookie(r) == [secure |-> RequestScheme(r) = "https", sameSite |-> "Lax"]

(* handleAuthError *)
HandleAuthError_SeeOther(r, code) == IF r.json THEN Answer(code) ELSE SeeOther("/")   \* fault: 303

HandleAuthError(r, code) == IF r.json THEN Answer(code) ELSE Found("/")

-----------------------------------------------------------------------------
(* writeAppError, with what each handler adds for the errors it leaves.     *)
ErrorStatus(result) ==
  CASE result = "notFound"  -> 404
    [] result = "conflict"  -> 409
    [] result = "forbidden" -> 403
    [] result = "invalid"   -> 400
    [] result = "catalog"   -> 502
    [] OTHER                -> 500

(* Get: a cookie that leads to no session is cleared, also when the lookup  *)
(* failed for another reason.                                              *)
Home_AnyCookie(r) ==      \* fault: the cookie is not looked up
  IF r.session # None THEN Found("/app") ELSE Page("login")

Home(r) ==
  IF r.session = None THEN Page("login")
  ELSE IF r.session.valid THEN Found("/app")
  ELSE [Page("login") EXCEPT !.cookie = "clear"]

HandleLogin(result) ==
  IF result \in {"ok", "notFound"} THEN SeeOther("/") ELSE Answer(ErrorStatus(result))

HandleVerify(result) ==
  CASE result = "ok"      -> [Found("/") EXCEPT !.cookie = "set"]
    [] result = "invalid" -> Answer(401)
    [] OTHER              -> Answer(500)

HandleLogout(result) ==
  IF result = "ok" THEN [Found("/") EXCEPT !.cookie = "clear"] ELSE Answer(500)

(* The pages and the forms and scripts of the pages.                        *)
GetPage(r, result) ==
  IF result # "ok" THEN Answer(ErrorStatus(result))
  ELSE Page(CASE r.path = "/app" -> "board" [] r.path = Row -> "details" [] r.path = "/admin" -> "admin")

FormPaths == {"/sub-requests", "/users", "/users/import/spinitron", "/users/{id}"}

PostForm(r, result) ==
  LET back == IF r.path = "/sub-requests" THEN "/app" ELSE "/admin"
  IN  IF result = "ok" \/ (r.path = "/users" /\ result = "exists") THEN SeeOther(back)
      ELSE Answer(ErrorStatus(result))

ChangeRow(result) == IF result = "ok" THEN NoContent ELSE Answer(ErrorStatus(result))

Handle(r, result) ==
  CASE r.path = "/"            -> Home(r)
    [] r.path = "/health"      -> Page("health")
    [] r.path = "/auth/login"  -> HandleLogin(result)
    [] r.path = "/auth/verify" -> HandleVerify(result)
    [] r.path = "/auth/logout" -> HandleLogout(result)
    [] r.method = "GET" /\ r.path \in {"/app", Row, "/admin"} -> GetPage(r, result)
    [] r.method = "POST" /\ r.path \in FormPaths -> PostForm(r, result)
    [] r.method \in {"DELETE", "PATCH"} /\ r.path = Row -> ChangeRow(result)

-----------------------------------------------------------------------------
(* The chain before the handler.  The validator comes first: it turns down  *)
(* what matches no route, and an id, a token or a body it cannot read.      *)
GroupOf(r) == {group \in {"anyone", "limited", "members", "admins"} :
                 Route(r.method, r.path, group) \in Routes}

SignedIn(r) == r.session # None /\ r.session.valid

Refusal(r) ==
  IF GroupOf(r) = {} THEN Answer(404)
  ELSE IF r.garbled THEN Answer(400)
  ELSE IF GroupOf(r) = {"limited"} /\ r.tooMany THEN Answer(429)
  ELSE IF GroupOf(r) \subseteq {"members", "admins"} /\ ~SignedIn(r) THEN HandleAuthError(r, 401)
  ELSE IF GroupOf(r) = {"admins"} /\ ~r.session.admin THEN HandleAuthError(r, 403)
  ELSE IF GroupOf(r) \subseteq {"members", "admins"} /\ IsMutation(r) /\ ~SameOrigin(r) THEN Answer(403)
  ELSE None

Admitted(r) == Refusal(r) = None
=============================================================================
