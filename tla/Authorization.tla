--------------------------- MODULE Authorization ---------------------------
(***************************************************************************)
(* The access rules of Air Cover, in the two forms the repository keeps:   *)
(* the hand-written ParityAuthorizer (internal/app/authorization) and the  *)
(* casbin policy the server really runs with                               *)
(* (internal/adapters/outbound/authorization/casbin).  Both are pure       *)
(* functions of a subject, an action and a resource.                       *)
(***************************************************************************)
CONSTANT NoUser      \* the user id 0, which no row of the users table has

(* What a handler knows of the user behind a request: domain.CurrentUser.   *)
(* The role is the one AuthMiddleware read when the request came in.       *)
Viewer(users) == [id : users, admin : BOOLEAN]

-----------------------------------------------------------------------------
(* Resources, as the three constructors build them.                        *)

Blank(type) ==
  [type |-> type, owner |-> NoUser, taker |-> NoUser, hasTaker |-> FALSE,
   target |-> NoUser, disable |-> FALSE, open |-> FALSE]

AdminResource == Blank("admin")

UserResource(target, disable) ==
  [Blank("user") EXCEPT !.target = target, !.disable = disable]

SubRequestResource(sr) ==
  [Blank("subrequest") EXCEPT !.owner    = sr.postedBy,
                              !.taker    = sr.takenBy,
                              !.hasTaker = (sr.takenBy # NoUser),
                              !.open     = (sr.takenBy = NoUser)]

-----------------------------------------------------------------------------
(* ParityAuthorizer.allowed *)

Allowed(subject, action, resource) ==
  \/ /\ action \in {"admin:access", "user:list", "user:create"}
     /\ subject.admin
  \/ /\ action = "user:update"
     /\ subject.admin
     /\ resource.disable => subject.id # resource.target
  \/ /\ action = "subrequest:delete"
     /\ resource.owner = subject.id \/ subject.admin
  \/ /\ action = "subrequest:take"
     /\ resource.open
     /\ resource.owner # subject.id
  \/ /\ action = "subrequest:untake"
     /\ resource.hasTaker
     /\ resource.taker = subject.id

-----------------------------------------------------------------------------
(* The casbin authorizer: a policy is a set of (action, resource type, rule) *)
(* and a request is allowed when some entry matches it.                    *)

Rule(action, type, rule) == [action |-> action, type |-> type, rule |-> rule]

BaselinePolicies ==
  { Rule("admin:access",      "admin",      "admin"),
    Rule("user:list",         "admin",      "admin"),
    Rule("user:create",       "admin",      "admin"),
    Rule("user:update",       "user",       "admin_except_self_deactivate"),
    Rule("subrequest:delete", "subrequest", "owner_or_admin"),
    Rule("subrequest:take",   "subrequest", "open_non_owner"),
    Rule("subrequest:untake", "subrequest", "taker") }

MatchesRule_AnyTaker(rule, subject, resource) ==      \* fault: the taker rule forgets whose take it is
  \/ rule = "admin" /\ subject.admin
  \/ /\ rule = "admin_except_self_deactivate"
     /\ subject.admin
     /\ ~resource.disable \/ resource.target # subject.id
  \/ rule = "owner_or_admin" /\ (resource.owner = subject.id \/ subject.admin)
  \/ rule = "open_non_owner" /\ resource.open /\ resource.owner # subject.id
  \/ rule = "taker" /\ resource.hasTaker

MatchesRule(rule, subject, resource) ==
  \/ rule = "admin" /\ subject.admin
  \/ /\ rule = "admin_except_self_deactivate"
     /\ subject.admin
     /\ ~resource.disable \/ resource.target # subject.id
  \/ rule = "owner_or_admin" /\ (resource.owner = subject.id \/ subject.admin)
  \/ rule = "open_non_owner" /\ resource.open /\ resource.owner # subject.id
  \/ rule = "taker" /\ resource.hasTaker /\ resource.taker = subject.id

Enforce(policies, subject, action, resource) ==
  \E p \in policies : /\ action = p.action
                      /\ resource.type = p.type
                      /\ MatchesRule(p.rule, subject, resource)

(* Authorizer.Authorize with the policy seedBaselinePolicy guarantees. *)
Authorize(subject, action, resource) ==
  Enforce(BaselinePolicies, subject, action, resource)

(* capabilitiesFor: the buttons a page shows the viewer beside a row.       *)
Capabilities(v, sr) ==
  LET Can(action) == Authorize(v, action, SubRequestResource(sr))
  IN  {b \in {"delete", "take", "untake"} :
         \/ b = "delete" /\ Can("subrequest:delete")
         \/ b = "take"   /\ sr.takenBy = NoUser /\ Can("subrequest:take")
         \/ b = "untake" /\ Can("subrequest:untake")}

-----------------------------------------------------------------------------
(* The resource each action is asked about, everywhere in the services. *)
ResourceTypeOf(action) ==
  CASE action \in {"admin:access", "user:list", "user:create"} -> "admin"
    [] action = "user:update" -> "user"
    [] action \in {"subrequest:delete", "subrequest:take", "subrequest:untake"} -> "subrequest"

Actions == {"admin:access", "user:list", "user:create", "user:update",
            "subrequest:delete", "subrequest:take", "subrequest:untake"}
=============================================================================
