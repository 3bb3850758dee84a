-------------------------- MODULE QuestionsProofs --------------------------
(***************************************************************************)
(* Proofs about the pure functions: the answers Questions expects are given *)
(* for any question, not only for those within the bounds TLC goes through. *)
(*                                                                         *)
(* The loops of the program are recursive functions.  What one of them has *)
(* computed after n rounds is shown for the set of the n for which it      *)
(* holds, by induction over that set.                                      *)
(***************************************************************************)
EXTENDS Questions, SequenceTheorems, FiniteSetTheorems, WellFoundedInduction, TLAPS

(* Each action has one entry in the policy, so a request is allowed when   *)
(* the resource has that entry's type and that entry's rule matches.       *)
LEMMA OneEntryPerAction ==
  ASSUME NEW s, NEW r, NEW p \in BaselinePolicies
  PROVE  Authorize(s, p.action, r) <=> r.type = p.type /\ MatchesRule(p.rule, s, r)
<1>1. \A other \in BaselinePolicies : other.action = p.action => other = p
  BY DEF BaselinePolicies, Rule
<1>2. QED
  BY <1>1 DEF Authorize, Enforce

(* The question of the contract tests, for every subject and resource: the *)
(* authorizer the server runs and ParityAuthorizer cannot be told apart.   *)
THEOREM Parity ==
  ASSUME NEW s, NEW a \in Actions, NEW r, r.type = ResourceTypeOf(a)
  PROVE  Authorize(s, a, r) <=> Allowed(s, a, r)
<1>1. CASE a \in {"admin:access", "user:list", "user:create"}
  <2>1. Rule(a, "admin", "admin") \in BaselinePolicies
    BY <1>1 DEF BaselinePolicies
  <2>2. r.type = "admin"
    BY <1>1 DEF ResourceTypeOf
  <2>3. Authorize(s, a, r) <=> MatchesRule("admin", s, r)
    BY <2>1, <2>2, OneEntryPerAction DEF Rule
  <2>4. QED
    BY <1>1, <2>3 DEF MatchesRule, Allowed
<1>2. CASE a = "user:update"
  <2>1. Rule(a, "user", "admin_except_self_deactivate") \in BaselinePolicies
    BY <1>2 DEF BaselinePolicies
  <2>2. r.type = "user"
    BY <1>2 DEF ResourceTypeOf
  <2>3. Authorize(s, a, r) <=> MatchesRule("admin_except_self_deactivate", s, r)
    BY <2>1, <2>2, OneEntryPerAction DEF Rule
  <2>4. QED
    BY <1>2, <2>3 DEF MatchesRule, Allowed
<1>3. ASSUME NEW rule, Rule(a, "subrequest", rule) \in BaselinePolicies
      PROVE  Authorize(s, a, r) <=> MatchesRule(rule, s, r)
  <2>1. r.type = "subrequest"
    BY <1>3 DEF ResourceTypeOf, BaselinePolicies, Rule
  <2>2. QED
    BY <1>3, <2>1, OneEntryPerAction DEF Rule
<1>4. CASE a = "subrequest:delete"
  <2>1. Rule(a, "subrequest", "owner_or_admin") \in BaselinePolicies
    BY <1>4 DEF BaselinePolicies
  <2>2. QED
    BY <1>3, <1>4, <2>1 DEF MatchesRule, Allowed
<1>5. CASE a = "subrequest:take"
  <2>1. Rule(a, "subrequest", "open_non_owner") \in BaselinePolicies
    BY <1>5 DEF BaselinePolicies
  <2>2. QED
    BY <1>3, <1>5, <2>1 DEF MatchesRule, Allowed
<1>6. CASE a = "subrequest:untake"
  <2>1. Rule(a, "subrequest", "taker") \in BaselinePolicies
    BY <1>6 DEF BaselinePolicies
  <2>2. QED
    BY <1>3, <1>6, <2>1 DEF MatchesRule, Allowed
<1>7. QED
  BY <1>1, <1>2, <1>4, <1>5, <1>6 DEF Actions

-----------------------------------------------------------------------------
(* What a question is about. *)
LEMMA AboutWhat ==
  /\ AskAuthorizer => q'.about = "access"
  /\ AskBoard => q'.about = "board"
  /\ AskForm => q'.about = "form"
  /\ AskMail => q'.about = "mail"
  /\ AskValue => q'.about = "value"
  /\ AskSource => q'.about = "source"
<1>1. AskAuthorizer => q'.about = "access"
  BY DEF AskAuthorizer
<1>2. AskBoard => q'.about = "board"
  BY DEF AskBoard
<1>3. AskForm => q'.about = "form"
  BY DEF AskForm
<1>4. AskMail => q'.about = "mail"
  BY DEF AskMail
<1>5. AskValue => q'.about = "value"
  BY DEF AskValue
<1>6. AskSource => q'.about = "source"
  BY DEF AskSource
<1>7. QED
  BY <1>1, <1>2, <1>3, <1>4, <1>5, <1>6

(* PolicyParity, for any users. *)
THEOREM RulesAgree == Spec => []PolicyParity
<1>1. Init => PolicyParity
  BY DEF Init, Nothing, PolicyParity
<1>2. PolicyParity /\ [Next]_q => PolicyParity'
  <2> SUFFICES ASSUME PolicyParity, [Next]_q PROVE PolicyParity'
    OBVIOUS
  <2>1. CASE AskAuthorizer
    <3>1. PICK v \in Viewer(Users), a \in Actions : \E r \in ResourcesOf(a) :
             q' = [about |-> "access", subject |-> v, action |-> a, resource |-> r]
      BY <2>1 DEF AskAuthorizer
    <3>2. PICK r \in ResourcesOf(a) :
             q' = [about |-> "access", subject |-> v, action |-> a, resource |-> r]
      BY <3>1
    <3>3. r.type = ResourceTypeOf(a)
      <4>1. ResourceTypeOf(a) \in {"admin", "user", "subrequest"}
        BY DEF ResourceTypeOf, Actions
      <4>2. CASE ResourceTypeOf(a) = "admin"
        BY <4>2 DEF ResourcesOf, AdminResource, Blank
      <4>3. CASE ResourceTypeOf(a) = "user"
        <5>1. PICK t \in Users, d \in BOOLEAN : r = UserResource(t, d)
          BY <4>3 DEF ResourcesOf
        <5>2. QED BY <4>3, <5>1 DEF UserResource, Blank
      <4>4. CASE ResourceTypeOf(a) = "subrequest"
        <5>1. PICK sr \in SubRequestRows : r = SubRequestResource(sr)
          BY <4>4 DEF ResourcesOf
        <5>2. QED BY <4>4, <5>1 DEF SubRequestResource, Blank
      <4>5. QED BY <4>1, <4>2, <4>3, <4>4
    <3>4. QED
      BY <3>2, <3>3, Parity DEF PolicyParity
  <2>2. CASE q' = q
    BY <2>2 DEF PolicyParity
  <2>3. CASE q' = Nothing
    BY <2>3 DEF PolicyParity, Nothing
  <2>4. CASE AskBoard \/ AskForm \/ AskMail \/ AskValue \/ AskSource
    BY <2>4, AboutWhat DEF PolicyParity
  <2>5. QED
    BY <2>1, <2>2, <2>3, <2>4 DEF Next, Ask
<1>3. QED
  BY <1>1, <1>2, PTL DEF Spec

-----------------------------------------------------------------------------
(* The two providers deliver the same mail, whatever the recipients: what  *)
(* SendGrid is not told of is an empty list, and it is told of the rest as *)
(* it is.                                                                  *)
LEMMA SendGridDeliversIt ==
  ASSUME NEW A, NEW to \in Seq(A), NEW cc \in Seq(A), NEW bcc \in Seq(A), NEW from, NEW message
  PROVE  DeliveredBySendGrid(SendGridPayload(Recipients(to, cc, bcc), from, message))
           = Envelope(to, cc, bcc, from, message.kind, {Text(message), Html(message)})
<1> DEFINE r == Recipients(to, cc, bcc)
           keys == {"to"} \cup {k \in {"cc", "bcc"} : r[k] # <<>>}
           p == [k \in keys |-> Addresses(r[k])]
           List(k) == IF k \in DOMAIN p THEN [i \in DOMAIN p[k] |-> p[k][i].email] ELSE <<>>
<1>1. r["to"] = to /\ r["cc"] = cc /\ r["bcc"] = bcc
  BY DEF Recipients
<1>2. \A list \in Seq(A) : [i \in DOMAIN Addresses(list) |-> Addresses(list)[i].email] = list
  BY DEF Addresses
<1>3. ASSUME NEW k \in {"to", "cc", "bcc"}, k \in keys
      PROVE  List(k) = r[k]
  <2>1. p[k] = Addresses(r[k]) /\ r[k] \in Seq(A) /\ k \in DOMAIN p
    BY <1>1, <1>3
  <2> HIDE DEF p, r
  <2>2. QED BY <2>1, <1>2
<1>4. ASSUME NEW k \in {"to", "cc", "bcc"}, k \notin keys
      PROVE  List(k) = r[k]
  BY <1>4
<1>5. List("to") = to /\ List("cc") = cc /\ List("bcc") = bcc
  <2> HIDE DEF List, keys, r
  <2>1. QED BY <1>1, <1>3, <1>4
<1>6. ToSet(<<Text(message), Html(message)>>) = {Text(message), Html(message)}
  BY DEF ToSet
<1>7. DeliveredBySendGrid(SendGridPayload(r, from, message))
        = Envelope(List("to"), List("cc"), List("bcc"), from, message.kind,
                   ToSet(<<Text(message), Html(message)>>))
  BY DEF DeliveredBySendGrid, SendGridPayload
<1>8. QED
  BY <1>5, <1>6, <1>7

(* So it does not matter which provider is configured.                     *)
LEMMA EitherDeliversIt ==
  ASSUME NEW A, NEW to \in Seq(A), NEW cc \in Seq(A), NEW bcc \in Seq(A), NEW message,
         NEW config, NEW mail \in Delivered(config, Recipients(to, cc, bcc), message)
  PROVE  mail = Envelope(to, cc, bcc, config.fromEmail, message.kind, {Text(message), Html(message)})
<1> DEFINE r == Recipients(to, cc, bcc)
           it == Envelope(to, cc, bcc, config.fromEmail, message.kind, {Text(message), Html(message)})
<1>1. DeliveredByResend(ResendRequest(r, config.fromEmail, message)) = it
  BY DEF DeliveredByResend, ResendRequest, Envelope, Recipients
<1>2. DeliveredBySendGrid(SendGridPayload(r, config.fromEmail, message)) = it
  BY SendGridDeliversIt
<1>3. SenderOf(config) \in {"resend", "sendgrid", "console"}
  BY DEF SenderOf
<1> HIDE DEF it
<1>4. SenderOf(config) = "resend" => mail = it
  BY <1>1 DEF Delivered
<1>5. SenderOf(config) = "sendgrid" => mail = it
  BY <1>2 DEF Delivered
<1>6. SenderOf(config) # "console"
  BY DEF Delivered
<1>7. mail = it
  BY <1>3, <1>4, <1>5, <1>6
<1>8. QED
  BY <1>7 DEF it

(* Whom a mail goes to and where it leads, by its kind.                    *)
LEMMA WellMailed ==
  ASSUME NEW A, NEW kind \in {"created", "taken", "untaken", "magicLink"}, NEW e,
         e.requester \in A, e.taker \in A, e.path.rest = "request", e.link = URL(Public, 1, "token"),
         NEW active \in Seq(A), NEW slash, NEW config, config.fromEmail \in A,
         config.baseURL \in {Public, Localhost(config.port)}
  PROVE  SameMail(config, kind, e, active, slash)
<1> DEFINE message == MessageOf(kind, e, [at |-> config.baseURL, slashes |-> slash])
           r == RecipientsOf(kind, e, active, config.fromEmail)
<1>1. SUFFICES ASSUME NEW mail \in Delivered(config, r, message)
      PROVE  /\ mail = Envelope(r.to, r.cc, r.bcc, config.fromEmail, kind, {Text(message), Html(message)})
             /\ IF kind = "created"
                THEN ToSet(mail.to \o mail.cc) = {config.fromEmail} /\ mail.bcc = active
                ELSE ToSet(mail.to \o mail.cc) \subseteq Concerned(kind, e) /\ mail.bcc = <<>>
             /\ \A part \in mail.parts : \A link \in part.links : LeadsThere(kind, link, config.port)
  BY DEF SameMail
<1>2. /\ r = Recipients(r.to, r.cc, r.bcc)
      /\ r.to \in Seq(A) /\ r.cc \in Seq(A) /\ r.bcc \in Seq(A)
      /\ IF kind = "created" THEN r.to = <<config.fromEmail>> /\ r.cc = <<>> /\ r.bcc = active
         ELSE r.to = <<e.requester>> /\ r.bcc = <<>>
              /\ (r.cc = <<>> \/ (kind # "magicLink" /\ r.cc = <<e.taker>>))
  <2> USE DEF Recipients
  <2>1. CASE kind = "created"
    <3>1. r = Recipients(<<config.fromEmail>>, <<>>, active)
      BY <2>1 DEF RecipientsOf
    <3> HIDE DEF r
    <3>2. QED BY <2>1, <3>1
  <2>2. CASE kind \in {"taken", "untaken"}
    <3>1. \/ r = Recipients(<<e.requester>>, <<e.taker>>, <<>>)
          \/ r = Recipients(<<e.requester>>, <<>>, <<>>)
      BY <2>2 DEF RecipientsOf
    <3> HIDE DEF r
    <3>2. ASSUME r = Recipients(<<e.requester>>, <<e.taker>>, <<>>)
          PROVE  /\ r = Recipients(r.to, r.cc, r.bcc)
                 /\ r.to = <<e.requester>> /\ r.cc = <<e.taker>> /\ r.bcc = <<>>
      BY <3>2
    <3>3. ASSUME r = Recipients(<<e.requester>>, <<>>, <<>>)
          PROVE  /\ r = Recipients(r.to, r.cc, r.bcc)
                 /\ r.to = <<e.requester>> /\ r.cc = <<>> /\ r.bcc = <<>>
      BY <3>3
    <3> HIDE DEF Recipients
    <3>4. <<e.requester>> \in Seq(A) /\ <<e.taker>> \in Seq(A) /\ <<>> \in Seq(A)
      OBVIOUS
    <3>5. QED BY <2>2, <3>1, <3>2, <3>3, <3>4
  <2>3. CASE kind = "magicLink"
    <3>1. r = Recipients(<<e.requester>>, <<>>, <<>>)
      BY <2>3 DEF RecipientsOf
    <3> HIDE DEF r
    <3>2. QED BY <2>3, <3>1
  <2>4. QED BY <2>1, <2>2, <2>3
<1>3. /\ message.kind = kind
      /\ message.url = IF kind = "magicLink" THEN e.link ELSE URL(config.baseURL, 1, "request")
  BY DEF MessageOf, CreatedMessage, TakenMessage, UntakenMessage, MagicLinkMessage, Message, DetailURL
<1> HIDE DEF message, r
<1>4. mail = Envelope(r.to, r.cc, r.bcc, config.fromEmail, kind, {Text(message), Html(message)})
  <2>1. mail \in Delivered(config, Recipients(r.to, r.cc, r.bcc), message)
    BY <1>1, <1>2
  <2>2. QED BY <1>2, <1>3, <2>1, EitherDeliversIt
<1>5. /\ mail.to = r.to /\ mail.cc = r.cc /\ mail.bcc = r.bcc
      /\ mail.parts = {Text(message), Html(message)}
  BY <1>4 DEF Envelope
<1>6. /\ \A a, b : ToSet(<<a>> \o <<b>>) = {a, b}
      /\ \A a : ToSet(<<a>> \o <<>>) = {a}
  BY DEF ToSet
<1>7. ASSUME kind = "created"
      PROVE  ToSet(mail.to \o mail.cc) = {config.fromEmail} /\ mail.bcc = active
  <2>1. mail.to = <<config.fromEmail>> /\ mail.cc = <<>> /\ mail.bcc = active
    BY <1>2, <1>5, <1>7
  <2>2. mail.to \o mail.cc = <<config.fromEmail>> \o <<>>
    BY <2>1, Zenon
  <2>3. ToSet(<<config.fromEmail>> \o <<>>) = {config.fromEmail}
    BY <1>6
  <2>4. ToSet(mail.to \o mail.cc) = {config.fromEmail}
    BY <2>2, <2>3, Zenon
  <2>5. QED BY <2>1, <2>4
<1>8. ASSUME kind # "created"
      PROVE  ToSet(mail.to \o mail.cc) \subseteq Concerned(kind, e) /\ mail.bcc = <<>>
  <2>1. mail.to = <<e.requester>> /\ mail.bcc = <<>>
        /\ (mail.cc = <<>> \/ (kind # "magicLink" /\ mail.cc = <<e.taker>>))
    BY <1>2, <1>5, <1>8
  <2>2. CASE mail.cc = <<>>
    <3>1. mail.to \o mail.cc = <<e.requester>> \o <<>>
      BY <2>1, <2>2, Zenon
    <3>2. ToSet(<<e.requester>> \o <<>>) = {e.requester}
      BY <1>6
    <3>3. ToSet(mail.to \o mail.cc) = {e.requester}
      BY <3>1, <3>2, Zenon
    <3>4. QED BY <2>1, <3>3 DEF Concerned
  <2>3. CASE kind # "magicLink" /\ mail.cc = <<e.taker>>
    <3>1. mail.to \o mail.cc = <<e.requester>> \o <<e.taker>>
      BY <2>1, <2>3, Zenon
    <3>2. ToSet(<<e.requester>> \o <<e.taker>>) = {e.requester, e.taker}
      BY <1>6
    <3>3. ToSet(mail.to \o mail.cc) = {e.requester, e.taker}
      BY <3>1, <3>2, Zenon
    <3>4. QED BY <2>1, <2>3, <3>3 DEF Concerned
  <2>4. QED BY <2>1, <2>2, <2>3
<1>9. ASSUME NEW part \in mail.parts, NEW link \in part.links
      PROVE  LeadsThere(kind, link, config.port)
  <2>1. link = message.url
    BY <1>5, <1>9 DEF Text, Html
  <2>2. CASE kind = "magicLink"
    BY <1>3, <2>1, <2>2 DEF LeadsThere, URL
  <2>3. CASE kind # "magicLink"
    BY <1>3, <2>1, <2>3 DEF LeadsThere, URL
  <2>4. QED BY <2>2, <2>3
<1>10. QED
  BY <1>4, <1>7, <1>8, <1>9

(* SendersAgree, for any addresses, active lists and ports: one envelope by *)
(* EitherDeliversIt, and its members by the kind of the mail.              *)
THEOREM SameMailFromEither == Spec => []SendersAgree
<1>1. Init => SendersAgree
  BY DEF Init, Nothing, SendersAgree
<1>2. SendersAgree /\ [Next]_q => SendersAgree'
  <2> SUFFICES ASSUME SendersAgree, [Next]_q PROVE SendersAgree'
    OBVIOUS
  <2>1. CASE AskMail
    <3>1. PICK env \in Environments, flag \in Flags,
               kind \in {"created", "taken", "untaken", "magicLink"},
               requester \in Addressees, taker \in Addressees \cup {NoAddress},
               active \in ActiveLists, slash \in 0..1 :
                 /\ ~Refused(env, flag)
                 /\ q' = [about |-> "mail", config |-> Load(env, flag), kind |-> kind,
                          active |-> active, slash |-> slash,
                          event |-> [requester |-> requester, taker |-> taker, title |-> "show",
                                     times |-> "when", notes |-> IF active = <<>> THEN "blank" ELSE "notes",
                                     path |-> [slashes |-> 1, rest |-> "request"],
                                     link |-> URL(Public, 1, "token")]]
      BY <2>1 DEF AskMail
    <3> DEFINE A == Addressees \cup {NoAddress, "station"}
    <3>2. /\ q'.config = Load(env, flag) /\ q'.kind = kind /\ q'.active = active /\ q'.slash = slash
          /\ q'.event.requester = requester /\ q'.event.taker = taker
          /\ q'.event.path.rest = "request" /\ q'.event.link = URL(Public, 1, "token")
      BY <3>1
    <3>3. /\ Load(env, flag).fromEmail = "station"
          /\ Load(env, flag).baseURL \in {Public, Localhost(Load(env, flag).port)}
      <4>1. env.fromEmail = "station" /\ env.baseURL \in {Unset, Garbled, Public}
        BY DEF Environments
      <4>2. BaseURLOf(env, flag) # Garbled
        <5>1. ~Refused(env, flag)
          BY <3>1, Zenon
        <5>2. QED BY <5>1 DEF Refused
      <4>3. BaseURLOf(env, flag) \in {Public, Localhost(PortOf(env, flag))}
        BY <4>1, <4>2 DEF BaseURLOf
      <4>4. QED BY <4>1, <4>3 DEF Load
    <3>4. active \in Seq(A)
      BY BoundsAssumption DEF ActiveLists, Injection
    <3>5. SameMail(q'.config, q'.kind, q'.event, q'.active, q'.slash)
      BY <3>2, <3>3, <3>4, WellMailed
    <3>6. QED BY <3>5 DEF SendersAgree
  <2>2. CASE q' = q
    BY <2>2 DEF SendersAgree
  <2>3. CASE q' = Nothing
    BY <2>3 DEF SendersAgree, Nothing
  <2>4. CASE AskAuthorizer \/ AskBoard \/ AskForm \/ AskValue \/ AskSource
    BY <2>4, AboutWhat DEF SendersAgree
  <2>5. QED
    BY <2>1, <2>2, <2>3, <2>4 DEF Next, Ask
<1>3. QED
  BY <1>1, <1>2, PTL DEF Spec

-----------------------------------------------------------------------------
(* The order of the naturals as a relation. *)
Below == {p \in Nat \X Nat : p[1] < p[2]}

(* Induction on a set of naturals. *)
LEMMA SetInduction ==
  ASSUME NEW S, 0 \in S, \A n \in Nat : n \in S => n + 1 \in S
  PROVE  Nat \subseteq S
<1> DEFINE T == Nat \ S
<1>1. SUFFICES ASSUME T # {} PROVE FALSE
  OBVIOUS
<1>2. IsWellFoundedOn(Below, Nat)
  BY NatLessThanWellFounded DEF OpToRel, Below
<1>3. T \subseteq Nat
  OBVIOUS
<1>4. PICK n \in T : \A y \in T : ~(<<y, n>> \in Below)
  <2> HIDE DEF T
  <2>1. QED BY <1>1, <1>2, <1>3, WFMin
<1>5. n # 0 /\ n - 1 \in Nat /\ <<n - 1, n>> \in Below
  BY DEF Below
<1>6. n - 1 \in S
  BY <1>4, <1>5
<1>7. QED
  BY <1>5, <1>6


(* A recursive function of a level that makes a member of T[n] of one of    *)
(* T[n - 1] is defined at every level, and of its type there.              *)
Levels(N, F, start, g) == [n \in 0..N |-> IF n = 0 THEN start ELSE F[n][g[n - 1]]]

Climbs(T, F, start, g, n) ==
  /\ g[0] = start
  /\ \A m \in 1..n : g[m] = F[m][g[m - 1]]
  /\ \A m \in 0..n : g[m] \in T[m]

LEMMA LevelsExist ==
  ASSUME NEW N \in Nat, NEW T, NEW F, NEW start \in T[0],
         \A n \in 1..N : F[n] \in [T[n - 1] -> T[n]]
  PROVE  \E g : g = Levels(N, F, start, g) /\ \A n \in 0..N : g[n] \in T[n]
<1> DEFINE Built == {n \in Nat : n <= N => \E g : Climbs(T, F, start, g, n)}
<1>1. 0 \in Built
  <2> DEFINE g == [m \in {0} |-> start]
  <2>1. Climbs(T, F, start, g, 0)
    BY DEF Climbs
  <2>2. QED BY <2>1
<1>2. ASSUME NEW n \in Nat, n \in Built
      PROVE  n + 1 \in Built
  <2> SUFFICES ASSUME n + 1 <= N PROVE \E h : Climbs(T, F, start, h, n + 1)
    OBVIOUS
  <2>1. PICK g : Climbs(T, F, start, g, n)
    BY <1>2
  <2> DEFINE h == [m \in 0..(n + 1) |-> IF m = n + 1 THEN F[n + 1][g[n]] ELSE g[m]]
  <2>2. h[n + 1] = F[n + 1][g[n]] /\ \A m \in 0..n : h[m] = g[m]
    OBVIOUS
  <2> HIDE DEF h
  <2>3. g[n] \in T[n] /\ n + 1 \in 1..N /\ (n + 1) - 1 = n
    BY <2>1 DEF Climbs
  <2>4. F[n + 1][g[n]] \in T[n + 1]
    <3>1. F[n + 1] \in [T[n] -> T[n + 1]]
      BY <2>3
    <3>2. QED BY <2>3, <3>1
  <2>5. \A m \in 1..(n + 1) : h[m] = F[m][h[m - 1]]
    <3> SUFFICES ASSUME NEW m \in 1..(n + 1) PROVE h[m] = F[m][h[m - 1]]
      OBVIOUS
    <3>1. CASE m = n + 1
      <4>1. m - 1 = n /\ h[n] = g[n]
        BY <2>2, <3>1
      <4>2. QED BY <2>2, <3>1, <4>1
    <3>2. CASE m # n + 1
      <4>1. m \in 1..n /\ m \in 0..n /\ m - 1 \in 0..n
        BY <3>2
      <4>2. h[m] = g[m] /\ h[m - 1] = g[m - 1]
        BY <2>2, <4>1
      <4>3. QED BY <2>1, <4>1, <4>2 DEF Climbs
    <3>3. QED BY <3>1, <3>2
  <2>6. \A m \in 0..(n + 1) : h[m] \in T[m]
    <3>1. \A m \in 0..(n + 1) : m \in 0..n \/ m = n + 1
      OBVIOUS
    <3>2. QED BY <2>1, <2>2, <2>4, <3>1 DEF Climbs
  <2>7. h[0] = start
    BY <2>1, <2>2 DEF Climbs
  <2>8. QED
    BY <2>5, <2>6, <2>7 DEF Climbs
<1>3. Nat \subseteq Built
  <2> HIDE DEF Built
  <2>1. QED BY <1>1, <1>2, SetInduction
<1>4. PICK g : Climbs(T, F, start, g, N)
  <2>1. N \in Built
    BY <1>3
  <2>2. QED BY <2>1
<1> DEFINE h == [n \in 0..N |-> g[n]]
<1>5. h = Levels(N, F, start, h)
  <2>1. \A n \in 0..N : h[n] = IF n = 0 THEN start ELSE F[n][h[n - 1]]
    <3> SUFFICES ASSUME NEW n \in 0..N PROVE h[n] = IF n = 0 THEN start ELSE F[n][h[n - 1]]
      OBVIOUS
    <3>1. CASE n = 0
      BY <1>4, <3>1 DEF Climbs
    <3>2. CASE n # 0
      <4>1. n \in 1..N /\ n - 1 \in 0..N
        BY <3>2
      <4>2. QED BY <1>4, <3>2, <4>1 DEF Climbs
    <3>3. QED BY <3>1, <3>2
  <2>2. h = [n \in 0..N |-> h[n]]
    OBVIOUS
  <2> HIDE DEF h
  <2>3. QED BY <2>1, <2>2 DEF Levels
<1>6. \A n \in 0..N : h[n] \in T[n]
  BY <1>4 DEF Climbs
<1> HIDE DEF h
<1>7. QED
  BY <1>5, <1>6

(* All rounds of the loop in Picked.                                       *)
Rounds(s, places, g) ==
  [n \in 0..Len(s) |-> IF n = 0 THEN <<>>
     ELSE IF n \in places THEN Append(g[n - 1], s[n]) ELSE g[n - 1]]

(* The loop runs to its end: there is a function of its rounds that         *)
(* satisfies its equation.                                                 *)
LEMMA LoopExists ==
  ASSUME NEW S, NEW s \in Seq(S), NEW places
  PROVE  \E g : g = Rounds(s, places, g)
<1> DEFINE N == Len(s)
           T == [n \in 0..N |-> Seq(S)]
           F == [n \in 1..N |-> [r \in Seq(S) |-> IF n \in places THEN Append(r, s[n]) ELSE r]]
<1>1. N \in Nat
  OBVIOUS
<1>2. <<>> \in T[0]
  BY <1>1
<1>3. ASSUME NEW n \in 1..N PROVE F[n] \in [T[n - 1] -> T[n]]
  <2>1. T[n] = Seq(S) /\ T[n - 1] = Seq(S)
    BY <1>1
  <2>2. \A r \in Seq(S) : Append(r, s[n]) \in Seq(S)
    OBVIOUS
  <2> HIDE DEF T
  <2>3. QED BY <2>1, <2>2
<1>4. PICK g : g = Levels(N, F, <<>>, g) /\ \A n \in 0..N : g[n] \in T[n]
  <2> HIDE DEF T, F
  <2>1. QED BY <1>1, <1>2, <1>3, LevelsExist
<1>5. \A n \in 1..N : F[n][g[n - 1]] = IF n \in places THEN Append(g[n - 1], s[n]) ELSE g[n - 1]
  <2>1. \A n \in 1..N : n - 1 \in 0..N
    BY <1>1
  <2>2. \A n \in 0..N : g[n] \in Seq(S)
    BY <1>4
  <2>3. QED BY <2>1, <2>2
<1> HIDE DEF T, F
<1>6. \A n \in 0..N : n = 0 \/ n \in 1..N
  BY <1>1
<1>7. Levels(N, F, <<>>, g) = Rounds(s, places, g)
  BY <1>5, <1>6 DEF Levels, Rounds
<1>8. QED
  BY <1>4, <1>7

(* f leads from the places of r to those of s that were chosen: all of      *)
(* them, in their order.                                                   *)
Leads(f, r, s, chosen) ==
  /\ f \in [1..Len(r) -> chosen]
  /\ \A i, j \in 1..Len(r) : i < j => f[i] < f[j]
  /\ \A m \in chosen : \E i \in 1..Len(r) : f[i] = m
  /\ \A i \in 1..Len(r) : r[i] = s[f[i]]

LEMMA LeadsOn ==
  ASSUME NEW S, NEW s \in Seq(S), NEW r \in Seq(S), NEW n \in Nat, n + 1 \in 1..Len(s),
         NEW chosen \in SUBSET (1..n), NEW f, Leads(f, r, s, chosen)
  PROVE  /\ Append(r, s[n + 1]) \in Seq(S)
         /\ \E h : Leads(h, Append(r, s[n + 1]), s, chosen \cup {n + 1})
<1> DEFINE k == Len(r)
           t == Append(r, s[n + 1])
           h == [i \in 1..(k + 1) |-> IF i = k + 1 THEN n + 1 ELSE f[i]]
<1>1. k \in Nat /\ s[n + 1] \in S
  OBVIOUS
<1>2. /\ t \in Seq(S) /\ Len(t) = k + 1
      /\ \A i \in 1..k : t[i] = r[i]
      /\ t[k + 1] = s[n + 1]
  BY <1>1, AppendProperties
<1>3. /\ f \in [1..k -> chosen]
      /\ \A i, j \in 1..k : i < j => f[i] < f[j]
      /\ \A m \in chosen : \E i \in 1..k : f[i] = m
      /\ \A i \in 1..k : r[i] = s[f[i]]
  BY DEF Leads
<1>4. /\ \A i \in 1..(k + 1) : i \in 1..k \/ i = k + 1
      /\ \A i \in 1..k : i \in 1..(k + 1) /\ i # k + 1
      /\ k + 1 \in 1..(k + 1)
  BY <1>1
<1>5. h[k + 1] = n + 1 /\ \A i \in 1..k : h[i] = f[i]
  BY <1>4
<1>6. \A m \in chosen : m \in Nat /\ m < n + 1
  OBVIOUS
<1>7. h \in [1..(k + 1) -> chosen \cup {n + 1}]
  BY <1>3, <1>4
<1> HIDE DEF h, t, k
<1>8. \A i, j \in 1..(k + 1) : i < j => h[i] < h[j]
  <2> SUFFICES ASSUME NEW i \in 1..(k + 1), NEW j \in 1..(k + 1), i < j PROVE h[i] < h[j]
    OBVIOUS
  <2>1. i \in 1..k
    BY <1>1
  <2>2. CASE j \in 1..k
    BY <2>1, <2>2, <1>3, <1>5
  <2>3. CASE j = k + 1
    BY <2>1, <2>3, <1>3, <1>5, <1>6
  <2>4. QED BY <1>4, <2>2, <2>3
<1>9. \A m \in chosen \cup {n + 1} : \E i \in 1..(k + 1) : h[i] = m
  BY <1>3, <1>4, <1>5
<1>10. \A i \in 1..(k + 1) : t[i] = s[h[i]]
  BY <1>2, <1>3, <1>4, <1>5
<1>11. Leads(h, t, s, chosen \cup {n + 1})
  BY <1>2, <1>7, <1>8, <1>9, <1>10 DEF Leads
<1>12. QED
  BY <1>2, <1>11 DEF t

(* The loop picks all of the chosen places in their order, and nothing else. *)
LEMMA PickedInOrder ==
  ASSUME NEW S, NEW s \in Seq(S), NEW places \in SUBSET (1..Len(s))
  PROVE  /\ Picked(s, places) \in Seq(S)
         /\ \E f : Leads(f, Picked(s, places), s, places)
<1> DEFINE N == Len(s)
           result == CHOOSE g : g = Rounds(s, places, g)
           Done(n) == places \cap 1..n
           Stage(n) == result[n] \in Seq(S) /\ \E f : Leads(f, result[n], s, Done(n))
           Right == {n \in Nat : n <= N => Stage(n)}
<1>1. N \in Nat /\ Picked(s, places) = result[N]
  BY DEF Picked, Rounds
<1>2. result = Rounds(s, places, result)
  BY LoopExists
<1> HIDE DEF result
<1>3. \A n \in 0..N : result[n] = IF n = 0 THEN <<>>
        ELSE IF n \in places THEN Append(result[n - 1], s[n]) ELSE result[n - 1]
  BY <1>2 DEF Rounds
<1>4. 0 \in Right
  <2> DEFINE f == [i \in 1..0 |-> 0]
  <2>1. result[0] = <<>>
    BY <1>1, <1>3
  <2>2. Leads(f, <<>>, s, Done(0))
    BY DEF Leads
  <2>3. Stage(0)
    BY <2>1, <2>2
  <2>4. QED BY <2>3
<1>5. ASSUME NEW n \in Nat, n \in Right
      PROVE  n + 1 \in Right
  <2> SUFFICES ASSUME n + 1 <= N
               PROVE  Stage(n + 1)
    <3> HIDE DEF Stage
    <3>1. QED OBVIOUS
  <2>1. Stage(n)
    <3> HIDE DEF Stage
    <3>1. QED BY <1>1, <1>5
  <2>2. PICK f : Leads(f, result[n], s, Done(n))
    BY <2>1
  <2>3. n + 1 \in 0..N /\ n + 1 \in 1..N /\ n + 1 # 0 /\ (n + 1) - 1 = n
    BY <1>1
  <2>4. CASE n + 1 \notin places
    <3>1. Done(n + 1) = Done(n)
      BY <2>4
    <3>2. result[n + 1] = result[n]
      BY <1>3, <2>3, <2>4
    <3>3. QED BY <2>1, <3>1, <3>2
  <2>5. CASE n + 1 \in places
    <3>1. Done(n + 1) = Done(n) \cup {n + 1} /\ Done(n) \in SUBSET (1..n)
      BY <2>5
    <3>2. result[n + 1] = Append(result[n], s[n + 1])
      BY <1>3, <2>3, <2>5
    <3> HIDE DEF Done
    <3>3. Append(result[n], s[n + 1]) \in Seq(S)
          /\ \E h : Leads(h, Append(result[n], s[n + 1]), s, Done(n) \cup {n + 1})
      <4>1. result[n] \in Seq(S)
        BY <2>1
      <4> HIDE DEF Stage
      <4>2. QED BY <4>1, <2>2, <2>3, <3>1, LeadsOn
    <3>4. QED BY <3>1, <3>2, <3>3
  <2>6. QED BY <2>4, <2>5
<1>6. Nat \subseteq Right
  <2> HIDE DEF Right
  <2>1. QED BY <1>4, <1>5, SetInduction
<1>7. Done(N) = places /\ N \in Right
  BY <1>1, <1>6
<1>8. Stage(N)
  <2> HIDE DEF Stage
  <2>1. QED BY <1>1, <1>7
<1>9. QED
  BY <1>1, <1>7, <1>8

(* What leads all of them, in their order, leads one to one.               *)
LEMMA LeadsOneToOne ==
  ASSUME NEW S, NEW s \in Seq(S), NEW r \in Seq(S), NEW chosen \in SUBSET (1..Len(s)),
         NEW f, Leads(f, r, s, chosen)
  PROVE  f \in Bijection(1..Len(r), chosen)
<1>1. /\ f \in [1..Len(r) -> chosen]
      /\ \A i, j \in 1..Len(r) : i < j => f[i] < f[j]
      /\ \A m \in chosen : \E i \in 1..Len(r) : f[i] = m
  BY DEF Leads
<1>2. \A i \in 1..Len(r) : f[i] \in Int
  <2>1. Len(s) \in Nat /\ \A m \in chosen : m \in 1..Len(s)
    OBVIOUS
  <2>2. \A m \in chosen : m \in Int
    BY <2>1
  <2>3. QED BY <1>1, <2>2
<1>3. \A i, j \in 1..Len(r) : i < j \/ j < i \/ i = j
  OBVIOUS
<1>4. \A i, j \in 1..Len(r) : f[i] = f[j] => i = j
  BY <1>1, <1>2, <1>3
<1>5. QED
  BY <1>1, <1>4 DEF Bijection, Injection, Surjection, IsInjective

(* So many are picked as were chosen, and which.                           *)
LEMMA PickedAll ==
  ASSUME NEW S, NEW s \in Seq(S), NEW places \in SUBSET (1..Len(s))
  PROVE  /\ Len(Picked(s, places)) = Cardinality(places)
         /\ ToSet(Picked(s, places)) = {s[i] : i \in places}
<1> DEFINE r == Picked(s, places)
<1>1. r \in Seq(S)
  BY PickedInOrder
<1>2. PICK f : Leads(f, r, s, places)
  BY PickedInOrder
<1> HIDE DEF r
<1>3. /\ Len(r) \in Nat /\ DOMAIN r = 1..Len(r)
      /\ f \in [1..Len(r) -> places]
      /\ \A i, j \in 1..Len(r) : i < j => f[i] < f[j]
      /\ \A m \in places : \E i \in 1..Len(r) : f[i] = m
      /\ \A i \in 1..Len(r) : r[i] = s[f[i]]
  BY <1>1, <1>2 DEF Leads
<1>5. f \in Bijection(1..Len(r), places)
  BY <1>1, <1>2, LeadsOneToOne
<1>6. Len(r) = Cardinality(places)
  BY <1>3, <1>5, FS_CountingElements DEF ExistsBijection
<1>7. ToSet(r) = {s[i] : i \in places}
  <2>1. ASSUME NEW i \in 1..Len(r) PROVE r[i] \in {s[m] : m \in places}
    BY <1>3
  <2>2. ASSUME NEW m \in places PROVE s[m] \in {r[i] : i \in 1..Len(r)}
    BY <1>3
  <2>3. ToSet(r) = {r[i] : i \in 1..Len(r)}
    BY <1>3 DEF ToSet
  <2>4. QED BY <2>1, <2>2, <2>3
<1>8. QED
  BY <1>6, <1>7 DEF r

(* What is turned round is still the same.                                 *)
LEMMA TurnedRound ==
  ASSUME NEW S, NEW s \in Seq(S)
  PROVE  /\ DOMAIN Reverse(s) = 1..Len(s) /\ Len(Reverse(s)) = Len(s)
         /\ \A i \in 1..Len(s) : Reverse(s)[i] = s[Len(s) - i + 1]
         /\ ToSet(Reverse(s)) = ToSet(s)
<1>1. /\ DOMAIN Reverse(s) = 1..Len(s) /\ Len(s) \in Nat /\ DOMAIN s = 1..Len(s)
      /\ \A i \in 1..Len(s) : Reverse(s)[i] = s[Len(s) - i + 1]
  BY DEF Reverse
<1>2. \A i \in 1..Len(s) : Len(s) - i + 1 \in 1..Len(s) /\ Len(s) - (Len(s) - i + 1) + 1 = i
  BY <1>1
<1>3. \A i \in 1..Len(s) : s[i] = Reverse(s)[Len(s) - i + 1]
  BY <1>1, <1>2
<1>4. ToSet(Reverse(s)) = ToSet(s)
  BY <1>1, <1>2, <1>3 DEF ToSet
<1>5. Reverse(s) \in Seq(S) /\ Len(Reverse(s)) = Len(s)
  BY <1>1, <1>2 DEF Reverse
<1>6. QED
  BY <1>1, <1>4, <1>5

-----------------------------------------------------------------------------
(* A row of the board and the page it links to show the same entry, if only *)
(* both know the show by a title of its own.                               *)
LEMMA SameEntry ==
  ASSUME NEW v, NEW catalog, NEW sorted, NEW now, NEW sr, NEW names,
         ShowTitle(sorted, sr.show) \in names, ShowTitle(catalog, sr.show) \in names
  PROVE  TellsTheSame(TableRow(View(v, sorted, now, sr)), DetailCard(View(v, catalog, now, sr)), names)
BY DEF TellsTheSame, TableRow, DetailCard, View, Status

(* The board for any rows that come in the order of their start, any        *)
(* catalog and any order of it that knows each show by its titles.         *)
LEMMA WellOrdered ==
  ASSUME NEW v, NEW catalog, NEW sorted, NEW now \in Int, NEW R, NEW listed \in Seq(R),
         \A i \in 1..Len(listed) : listed[i].start \in Int,
         \A i, j \in 1..Len(listed) : i < j => listed[i].start <= listed[j].start,
         \A id : {ShowTitle(sorted, id), ShowTitle(catalog, id)} \subseteq NamesOf(catalog, id)
  PROVE  InOrder(v, catalog, sorted, now, listed)
<1> DEFINE N == Len(listed)
           views == [i \in DOMAIN listed |-> View(v, sorted, now, listed[i])]
           Later   == {i \in DOMAIN views : views[i].past = FALSE}
           Earlier == {i \in DOMAIN views : views[i].past = TRUE}
           up == Picked(views, Later)
           down == Picked(views, Earlier)
           V == {View(v, sorted, now, listed[i]) : i \in 1..N}
<1>1. N \in Nat /\ DOMAIN listed = 1..N
  OBVIOUS
<1>2. /\ DOMAIN views = 1..N
      /\ \A i \in 1..N : /\ views[i] = View(v, sorted, now, listed[i])
                         /\ views[i].start = listed[i].start
                         /\ views[i].past = (listed[i].start < now)
  BY <1>1 DEF View
<1>3. views \in Seq(V) /\ Len(views) = N
  BY <1>1
<1> HIDE DEF views, V
<1>4. /\ Later \in SUBSET (1..Len(views)) /\ Earlier \in SUBSET (1..Len(views))
      /\ Later = {i \in 1..N : now <= listed[i].start}
      /\ Earlier  = {i \in 1..N : listed[i].start < now}
  <2>1. \A i \in 1..N : /\ views[i].past = TRUE <=> listed[i].start < now
                        /\ views[i].past = FALSE <=> ~(listed[i].start < now)
    <3>1. \A b, c \in BOOLEAN : b = c => (b = TRUE <=> c) /\ (b = FALSE <=> ~c)
      OBVIOUS
    <3>2. \A a, b : (a < b) \in BOOLEAN
      OBVIOUS
    <3>3. QED BY <1>2, <3>1, <3>2, Zenon
  <2>2. \A i \in 1..N : ~(listed[i].start < now) <=> now <= listed[i].start
    BY <1>1
  <2>3. \A i : i \in Later <=> i \in 1..N /\ now <= listed[i].start
    BY <1>2, <2>1, <2>2
  <2>4. \A i : i \in Earlier <=> i \in 1..N /\ listed[i].start < now
    BY <1>2, <2>1
  <2> HIDE DEF Later, Earlier
  <2>5. QED BY <1>3, <2>3, <2>4
<1> HIDE DEF Later, Earlier
<1>5. /\ up \in Seq(V) /\ down \in Seq(V)
      /\ \E f : Leads(f, up, views, Later)
      /\ \E f : Leads(f, down, views, Earlier)
  BY <1>3, <1>4, PickedInOrder
<1>6. /\ Len(up) = Cardinality(Later) /\ Len(down) = Cardinality(Earlier)
      /\ ToSet(up) = {views[i] : i \in Later}
      /\ ToSet(down) = {views[i] : i \in Earlier}
  BY <1>3, <1>4, PickedAll
<1> HIDE DEF up, down
<1>7. Len(up) + Len(down) = N
  <2>1. Later \cup Earlier = 1..N /\ Later \cap Earlier = {}
    <3>1. \A i \in 1..N : now <= listed[i].start <=> ~(listed[i].start < now)
      BY <1>1
    <3>2. QED BY <1>4, <3>1
  <2>2. IsFiniteSet(1..N) /\ Cardinality(1..N) = N
    BY <1>1, FS_Interval
  <2>3. IsFiniteSet(Later) /\ IsFiniteSet(Earlier)
    BY <2>1, <2>2, FS_Subset
  <2>4. /\ Cardinality(Later) \in Nat /\ Cardinality(Earlier) \in Nat
        /\ Cardinality(Later \cup Earlier)
              = Cardinality(Later) + Cardinality(Earlier) - Cardinality({})
    BY <2>1, <2>3, FS_Union, FS_CardinalityType
  <2>5. Cardinality({}) = 0
    BY FS_EmptySet
  <2>6. N = Cardinality(Later) + Cardinality(Earlier) - 0
    BY <2>1, <2>2, <2>4, <2>5, Zenon
  <2>7. QED BY <1>6, <2>4, <2>6
<1>8. SoonestFirst(up, now)
  <2>1. PICK f : Leads(f, up, views, Later)
    BY <1>5
  <2>2. /\ DOMAIN up = 1..Len(up) /\ Len(up) \in Nat
        /\ \A i \in 1..Len(up) : f[i] \in 1..N /\ now <= listed[f[i]].start
                               /\ up[i].start = listed[f[i]].start
        /\ \A i, j \in 1..Len(up) : i < j => f[i] < f[j]
    <3>1. \A m \in Later : m \in 1..N /\ now <= listed[m].start
                                  /\ views[m].start = listed[m].start
      BY <1>2, <1>4
    <3>2. up \in Seq(V) /\ DOMAIN up = 1..Len(up)
      BY <1>5
    <3>3. /\ \A i \in 1..Len(up) : f[i] \in Later /\ up[i] = views[f[i]]
          /\ \A i, j \in 1..Len(up) : i < j => f[i] < f[j]
      BY <2>1 DEF Leads
    <3>4. QED BY <3>1, <3>2, <3>3
  <2>3. QED BY <2>2 DEF SoonestFirst
<1>9. LatestFirst(Reverse(down), now)
  <2>1. PICK f : Leads(f, down, views, Earlier)
    BY <1>5
  <2>2. /\ Len(down) \in Nat
        /\ \A i \in 1..Len(down) : f[i] \in 1..N /\ listed[f[i]].start < now
                                 /\ down[i].start = listed[f[i]].start
        /\ \A i, j \in 1..Len(down) : i < j => f[i] < f[j]
    <3>1. \A m \in Earlier : m \in 1..N /\ listed[m].start < now
                                 /\ views[m].start = listed[m].start
      BY <1>2, <1>4
    <3>2. down \in Seq(V) /\ DOMAIN down = 1..Len(down)
      BY <1>5
    <3>3. /\ \A i \in 1..Len(down) : f[i] \in Earlier /\ down[i] = views[f[i]]
          /\ \A i, j \in 1..Len(down) : i < j => f[i] < f[j]
      BY <2>1 DEF Leads
    <3>4. QED BY <3>1, <3>2, <3>3
  <2>3. /\ \A i \in 1..Len(down) : down[i].start < now
        /\ \A i, j \in 1..Len(down) : i < j => down[i].start <= down[j].start
    BY <2>2
  <2>4. /\ DOMAIN Reverse(down) = 1..Len(down)
        /\ \A i \in 1..Len(down) : Reverse(down)[i] = down[Len(down) - i + 1]
    BY <1>5, TurnedRound
  <2>5. \A i, j \in 1..Len(down) :
          /\ Len(down) - i + 1 \in 1..Len(down)
          /\ i < j => Len(down) - j + 1 < Len(down) - i + 1
    BY <2>2
  <2>6. QED BY <2>3, <2>4, <2>5 DEF LatestFirst
<1> DEFINE shown == ToSet(up) \cup ToSet(Reverse(down))
<1>10. /\ Len(Reverse(down)) = Len(down)
       /\ shown = {views[i] : i \in 1..N}
  <2>1. Len(Reverse(down)) = Len(down) /\ ToSet(Reverse(down)) = ToSet(down)
    BY <1>5, TurnedRound
  <2>2. \A i : i \in 1..N <=> i \in Later \/ i \in Earlier
    <3>1. \A i \in 1..N : now <= listed[i].start \/ listed[i].start < now
      BY <1>1
    <3>2. QED BY <1>4, <3>1
  <2>3. \A x : x \in shown <=> \E i \in 1..N : x = views[i]
    BY <1>6, <2>1, <2>2, Zenon
  <2>4. QED BY <2>1, <2>3, Zenon
<1>11. ToSet(listed) = {listed[i] : i \in 1..N}
  BY <1>1 DEF ToSet
<1> HIDE DEF shown
<1>12. {TableRow(view).link : view \in shown} = {sr.id : sr \in ToSet(listed)}
  <2>1. \A i \in 1..N : TableRow(views[i]).link = listed[i].id
    BY <1>2 DEF TableRow, View
  <2>2. QED BY <1>10, <1>11, <2>1
<1> DEFINE Linked(view) == {sr \in ToSet(listed) : sr.id = TableRow(view).link}
<1>13. ASSUME NEW view \in shown
       PROVE  \E sr \in Linked(view) : \E card \in Detail(v, catalog, now, {sr}) :
                TellsTheSame(TableRow(view), card, NamesOf(catalog, sr.show))
  <2>1. PICK i \in 1..N : view = views[i]
    BY <1>10, <1>13
  <2>2. view = View(v, sorted, now, listed[i])
    BY <1>2, <2>1
  <2>3. TableRow(view).link = listed[i].id
    BY <2>2 DEF TableRow, View
  <2>4. listed[i] \in Linked(view)
    BY <1>11, <2>3
  <2>5. DetailCard(View(v, catalog, now, listed[i])) \in Detail(v, catalog, now, {listed[i]})
    BY DEF Detail
  <2>6. {ShowTitle(sorted, listed[i].show), ShowTitle(catalog, listed[i].show)}
          \subseteq NamesOf(catalog, listed[i].show)
    OBVIOUS
  <2>7. TellsTheSame(TableRow(view), DetailCard(View(v, catalog, now, listed[i])),
                     NamesOf(catalog, listed[i].show))
    BY <2>2, <2>6, SameEntry
  <2>8. QED BY <2>4, <2>5, <2>7
<1>14. /\ Dashboard(v, sorted, now, listed).upcoming = up
       /\ Dashboard(v, sorted, now, listed).past = Reverse(down)
  BY DEF Dashboard, up, down, Later, Earlier, views
<1>15. QED
  BY <1>7, <1>8, <1>9, <1>10, <1>12, <1>13, <1>14 DEF InOrder, shown

(* The greatest of one number is that number.                              *)
LEMMA MaxOfOne == \A k \in Int : Max({k}) = k
BY DEF Max

(* A sorted catalog is the catalog in another order.                       *)
LEMMA OnlyReordered ==
  ASSUME NEW shows, NEW sorted \in SortedByTitle(shows)
  PROVE  /\ DOMAIN sorted = DOMAIN shows
         /\ \E p \in Bijection(DOMAIN shows, DOMAIN shows) :
              \A i \in DOMAIN shows : sorted[i] = shows[p[i]]
BY DEF SortedByTitle

(* The greatest of some places is one of them.                             *)
LEMMA LastPlace ==
  ASSUME NEW n \in Nat, NEW S \in SUBSET (1..n), S # {}
  PROVE  Max(S) \in S
<1> DEFINE T == {n - i : i \in S}
<1>1. T \subseteq Nat /\ T # {}
  <2>1. \A i \in S : n - i \in Nat
    OBVIOUS
  <2>2. PICK i \in S : TRUE
    OBVIOUS
  <2>3. n - i \in T
    OBVIOUS
  <2>4. QED BY <2>1, <2>3
<1>2. IsWellFoundedOn(Below, Nat)
  BY NatLessThanWellFounded DEF OpToRel, Below
<1>3. PICK t \in T : \A u \in T : ~(<<u, t>> \in Below)
  <2> HIDE DEF T
  <2>1. QED BY <1>1, <1>2, WFMin
<1>4. PICK m \in S : t = n - m
  OBVIOUS
<1>5. ASSUME NEW i \in S PROVE m >= i
  <2>1. ~(<<n - i, t>> \in Below)
    BY <1>3
  <2>2. n - i \in Nat /\ t \in Nat /\ i \in Int /\ m \in Int
    BY <1>1
  <2>3. ~(n - i < t)
    BY <2>1, <2>2 DEF Below
  <2>4. QED BY <1>4, <2>2, <2>3
<1>6. QED
  BY <1>5 DEF Max

(* However the catalog is sorted, the title looked up under an id is that   *)
(* of a show with this id, and there is none in either order or in both.    *)
LEMMA SortKeepsTitles ==
  ASSUME NEW n \in Nat, NEW shows, DOMAIN shows = 1..n, NEW sorted \in SortedByTitle(shows)
  PROVE  \A id : {ShowTitle(sorted, id), ShowTitle(shows, id)} \subseteq NamesOf(shows, id)
<1> SUFFICES ASSUME NEW id
             PROVE  {ShowTitle(sorted, id), ShowTitle(shows, id)} \subseteq NamesOf(shows, id)
  OBVIOUS
<1> DEFINE Its(s) == {i \in DOMAIN s : Readable(s[i].id) /\ s[i].id.digits = id}
           Name(show) == IF show.title = Empty THEN UnknownShow ELSE show.title
<1>1. DOMAIN sorted = 1..n
  BY OnlyReordered
<1>2. PICK p \in Bijection(1..n, 1..n) : \A i \in 1..n : sorted[i] = shows[p[i]]
  BY OnlyReordered
<1>3. /\ \A i \in 1..n : p[i] \in 1..n
      /\ \A m \in 1..n : \E i \in 1..n : p[i] = m
  BY DEF Bijection, Injection, Surjection
<1>4. \A i \in 1..n : i \in Its(sorted) <=> p[i] \in Its(shows)
  BY <1>1, <1>2, <1>3
<1>5. Its(sorted) \subseteq 1..n /\ Its(shows) \subseteq 1..n
  BY <1>1
<1>6. /\ ShowTitle(shows, id) = IF Its(shows) = {} THEN UnknownShow ELSE Name(shows[Max(Its(shows))])
      /\ ShowTitle(sorted, id) = IF Its(sorted) = {} THEN UnknownShow ELSE Name(sorted[Max(Its(sorted))])
      /\ NamesOf(shows, id) = IF Its(shows) = {} THEN {UnknownShow}
                              ELSE {Name(shows[i]) : i \in Its(shows)}
  BY DEF ShowTitle, NamesOf
<1> HIDE DEF Its, Name
<1>7. CASE Its(shows) = {}
  <2>1. Its(sorted) = {}
    BY <1>4, <1>5, <1>7
  <2>2. QED BY <1>6, <1>7, <2>1
<1>8. CASE Its(shows) # {}
  <2>1. PICK m \in Its(shows) : TRUE
    BY <1>8
  <2>2. Its(sorted) # {}
    BY <1>3, <1>4, <1>5, <2>1
  <2>3. Max(Its(shows)) \in Its(shows) /\ Max(Its(sorted)) \in Its(sorted)
    BY <1>5, <1>8, <2>2, LastPlace
  <2>4. /\ sorted[Max(Its(sorted))] = shows[p[Max(Its(sorted))]]
        /\ p[Max(Its(sorted))] \in Its(shows)
    BY <1>2, <1>4, <1>5, <2>3
  <2>5. QED BY <1>6, <1>8, <2>2, <2>3, <2>4
<1>9. QED
  BY <1>7, <1>8

(* BoardInOrder, for any members and any number of rows and instants.      *)
THEOREM BoardTellsTheTable == Spec => []BoardInOrder
<1>1. Init => BoardInOrder
  BY DEF Init, Nothing, BoardInOrder
<1>2. BoardInOrder /\ [Next]_q => BoardInOrder'
  <2> SUFFICES ASSUME BoardInOrder, [Next]_q PROVE BoardInOrder'
    OBVIOUS
  <2>1. CASE AskBoard
    <3>0. PICK s \in Starts, now \in 0..(MaxTime + 1), v \in Viewer(Users), poster \in Users :
            \E taker \in Users \ {poster}, catalog \in Catalogs : \E sorted \in SortedByTitle(catalog) :
              q' = [about |-> "board", viewer |-> v, now |-> now, catalog |-> catalog,
                    sorted |-> sorted, listed |-> RowsAt(s, poster, taker)]
      BY <2>1 DEF AskBoard
    <3>1. PICK taker \in Users \ {poster}, catalog \in Catalogs : \E sorted \in SortedByTitle(catalog) :
            q' = [about |-> "board", viewer |-> v, now |-> now, catalog |-> catalog,
                  sorted |-> sorted, listed |-> RowsAt(s, poster, taker)]
      BY <3>0
    <3> DEFINE listed == RowsAt(s, poster, taker)
               R == {listed[i] : i \in DOMAIN s}
    <3>2. PICK n \in 0..MaxRows : /\ s \in [1..n -> 0..MaxTime]
                                  /\ \A i, j \in 1..n : i < j => s[i] <= s[j]
      BY DEF Starts
    <3>3. n \in Nat /\ now \in Int /\ \A i \in 1..n : s[i] \in Int
      BY <3>2, BoundsAssumption
    <3>4. DOMAIN listed = 1..n /\ \A i \in 1..n : listed[i].start = s[i]
      BY <3>2 DEF RowsAt
    <3>5. listed \in Seq(R) /\ Len(listed) = n
      BY <3>2, <3>3, <3>4 DEF RowsAt
    <3>6. PICK sorted \in SortedByTitle(catalog) :
            q' = [about |-> "board", viewer |-> v, now |-> now, catalog |-> catalog,
                  sorted |-> sorted, listed |-> RowsAt(s, poster, taker)]
      BY <3>1
    <3>7. \A id : {ShowTitle(sorted, id), ShowTitle(catalog, id)} \subseteq NamesOf(catalog, id)
      <4>1. DOMAIN catalog = 1..3
        BY DEF Catalogs
      <4>2. QED BY <4>1, SortKeepsTitles
    <3> HIDE DEF listed, R
    <3>8. InOrder(v, catalog, sorted, now, listed)
      BY <3>2, <3>3, <3>4, <3>5, <3>7, WellOrdered
    <3>9. QED BY <3>6, <3>8 DEF BoardInOrder, listed
  <2>2. CASE q' = q
    BY <2>2 DEF BoardInOrder
  <2>3. CASE q' = Nothing
    BY <2>3 DEF BoardInOrder, Nothing
  <2>4. CASE AskAuthorizer \/ AskForm \/ AskMail \/ AskValue \/ AskSource
    BY <2>4, AboutWhat DEF BoardInOrder
  <2>5. QED
    BY <2>1, <2>2, <2>3, <2>4 DEF Next, Ask
<1>3. QED
  BY <1>1, <1>2, PTL DEF Spec

-----------------------------------------------------------------------------
(* The ids the source sends, and what is left of them.                     *)
LEMMA KnownId ==
  ASSUME NEW id \in RawIds
  PROVE  /\ Readable(NormalizeID(id)) => NormalizeID(id).digits \in Int /\ NormalizeID(id) # Empty
         /\ Positive(id) <=> Readable(NormalizeID(id)) /\ NormalizeID(id).digits > 0
<1>1. Numbers \subseteq Int
  BY BoundsAssumption DEF Numbers
<1>2. \A n, m : /\ Number(n) # Digits(m) /\ (Number(n) = Number(m) => n = m)
                /\ (Digits(n) = Digits(m) => n = m)
  <2>1. \A n : /\ DOMAIN Number(n) = {"number"} /\ DOMAIN Digits(n) = {"digits"}
               /\ Number(n).number = n /\ Digits(n).digits = n
    BY DEF Number, Digits
  <2>2. {"number"} # {"digits"}
    OBVIOUS
  <2>3. ASSUME NEW n, NEW m PROVE Number(n) # Digits(m)
    BY <2>1, <2>2
  <2>4. ASSUME NEW n, NEW m, Number(n) = Number(m) PROVE n = m
    BY <2>1, <2>4
  <2>5. ASSUME NEW n, NEW m, Digits(n) = Digits(m) PROVE n = m
    BY <2>1, <2>5
  <2>6. QED BY <2>3, <2>4, <2>5
<1>3. /\ ~Readable(Empty) /\ \A k : IsText(Words(k)) /\ ~Readable(Words(k))
      /\ \A n : IsText(Digits(n)) /\ Readable(Digits(n)) /\ Digits(n).digits = n
      /\ \A n : ~IsText(Number(n)) /\ IsNumber(Number(n)) /\ Number(n).number = n
      /\ ~IsText(Absent) /\ ~IsNumber(Absent)
  BY DEF Readable, IsText, IsNumber, Words, Digits, Number, Absent, Empty
<1>4. CASE \E n \in Numbers : id = Number(n)
  <2>1. PICK n \in Numbers : id = Number(n)
    BY <1>4
  <2>2. NormalizeID(id) = Digits(n)
    BY <1>3, <2>1 DEF NormalizeID
  <2>3. Positive(id) <=> n > 0
    BY <1>2, <2>1 DEF Positive
  <2>4. QED BY <1>1, <1>3, <2>2, <2>3
<1>5. CASE \E n \in Numbers : id = Digits(n)
  <2>1. PICK n \in Numbers : id = Digits(n)
    BY <1>5
  <2>2. NormalizeID(id) = Digits(n)
    BY <1>3, <2>1 DEF NormalizeID
  <2>3. Positive(id) <=> n > 0
    BY <1>2, <2>1 DEF Positive
  <2>4. QED BY <1>1, <1>3, <2>2, <2>3
<1>6. CASE id \in {Words(4), Empty, Absent}
  <2>1. ~Readable(NormalizeID(id))
    BY <1>3, <1>6 DEF NormalizeID, Empty
  <2>2. \A n : id # Number(n) /\ id # Digits(n)
    BY <1>3, <1>6 DEF Empty
  <2>3. QED BY <2>1, <2>2 DEF Positive
<1>7. QED
  BY <1>4, <1>5, <1>6 DEF RawIds

(* A number that is left of an id is all that is left of it.               *)
LEMMA SameDigits ==
  ASSUME NEW id \in RawIds, Readable(NormalizeID(id))
  PROVE  NormalizeID(id) = Digits(NormalizeID(id).digits)
<1>1. /\ ~Readable(Empty) /\ \A k : ~Readable(Words(k)) /\ IsText(Words(k))
      /\ \A n : IsText(Digits(n)) /\ Digits(n).digits = n
      /\ \A n : ~IsText(Number(n)) /\ IsNumber(Number(n)) /\ Number(n).number = n
      /\ ~IsText(Absent) /\ ~IsNumber(Absent)
  BY DEF Readable, IsText, IsNumber, Words, Digits, Number, Absent, Empty
<1>2. CASE \E n \in Numbers : id = Number(n) \/ id = Digits(n)
  BY <1>1, <1>2 DEF NormalizeID
<1>3. CASE id \in {Words(4), Empty, Absent}
  BY <1>1, <1>3 DEF NormalizeID, Empty
<1>4. QED
  BY <1>2, <1>3 DEF RawIds

(* An item that is used has a title.                                       *)
LEMMA AlwaysTitled ==
  ASSUME NEW item, NormalizeID(item.id) # Empty
  PROVE  NormalizeTitle(item) # Empty
<1> DEFINE fields == <<item.title, item.name, item.display_name>>
           named == {i \in 1..3 : IsText(fields[i]) /\ fields[i] # Empty}
<1>1. CASE named = {}
  BY <1>1 DEF NormalizeTitle
<1>2. CASE named # {}
  <2>1. \A i \in named : i \in {1, 2, 3} /\ fields[i] # Empty
    OBVIOUS
  <2> HIDE DEF fields
  <2>2. \E i \in named : \A j \in named : i <= j
    <3> HIDE DEF named
    <3>1. CASE 1 \in named
      BY <2>1, <3>1
    <3>2. CASE 1 \notin named /\ 2 \in named
      BY <2>1, <3>2
    <3>3. CASE 1 \notin named /\ 2 \notin named
      BY <1>2, <2>1, <3>3
    <3>4. QED BY <3>1, <3>2, <3>3
  <2>3. Min(named) \in named
    <3> HIDE DEF named
    <3>1. QED BY <2>2 DEF Min
  <2>4. NormalizeTitle(item) = fields[Min(named)]
    BY <1>2 DEF NormalizeTitle, fields
  <2>5. QED BY <2>1, <2>3, <2>4
<1>3. QED
  BY <1>1, <1>2

Usable(items) == {i \in DOMAIN items : NormalizeID(items[i].id) # Empty}

(* Each show comes from one usable item, and each usable item is a show.    *)
LEMMA OneShowEach ==
  ASSUME NEW items \in Seq(RawItems)
  PROVE  \E n \in Nat : \E g \in Bijection(1..n, Usable(items)) :
           /\ DOMAIN ShowsOf(items) = 1..n
           /\ \A i \in 1..n : /\ ShowsOf(items)[i].id = NormalizeID(items[g[i]].id)
                              /\ ShowsOf(items)[i].title = NormalizeTitle(items[g[i]])
<1> DEFINE U == Usable(items)
           usable == Picked(items, U)
           n == Len(usable)
<1>1. U \in SUBSET (1..Len(items))
  BY DEF Usable
<1>2. usable \in Seq(RawItems)
  BY <1>1, PickedInOrder
<1>3. PICK g : Leads(g, usable, items, U)
  BY <1>1, PickedInOrder
<1>4. /\ DOMAIN ShowsOf(items) = DOMAIN usable
      /\ \A i \in DOMAIN usable : /\ ShowsOf(items)[i].id = NormalizeID(usable[i].id)
                                  /\ ShowsOf(items)[i].title = NormalizeTitle(usable[i])
  BY DEF ShowsOf, Usable
<1> HIDE DEF usable, U
<1>5. n \in Nat /\ DOMAIN usable = 1..n
  BY <1>2
<1>6. /\ g \in [1..n -> U]
      /\ \A i, j \in 1..n : i < j => g[i] < g[j]
      /\ \A m \in U : \E i \in 1..n : g[i] = m
      /\ \A i \in 1..n : usable[i] = items[g[i]]
  BY <1>3 DEF Leads
<1>7. g \in Bijection(1..n, U)
  BY <1>1, <1>2, <1>3, LeadsOneToOne
<1>8. /\ DOMAIN ShowsOf(items) = 1..n
      /\ \A i \in 1..n : /\ ShowsOf(items)[i].id = NormalizeID(items[g[i]].id)
                         /\ ShowsOf(items)[i].title = NormalizeTitle(items[g[i]])
  BY <1>4, <1>5, <1>6
<1> HIDE DEF n
<1>9. QED
  BY <1>5, <1>7, <1>8 DEF U

(* What becomes of the form when an option is sent with it.                *)
LEMMA AnsweredForm ==
  ASSUME NEW option, NEW shows,
         Readable(option.value) => option.value.digits \in Int
  PROVE  CreateRefusal(Filled(option), 1, Page(shows, 0))
           = IF Good(option) /\ ShowExists(shows, option.value.digits) THEN "none" ELSE "invalid"
<1> DEFINE form == Filled(option)
<1>1. /\ form.show = option.value /\ form.start = 2 /\ form.end = 3 /\ form.notesTooLong = FALSE
      /\ Page(shows, 0).failed = FALSE /\ Page(shows, 0).items = shows
  BY DEF Filled, Page
<1>2. FormReadable(form) <=> Readable(option.value)
  BY <1>1 DEF FormReadable, TimeGarbled
<1> HIDE DEF form
<1>3. CASE ~Readable(option.value)
  BY <1>2, <1>3 DEF CreateRefusal, Good, form
<1>4. CASE Readable(option.value) /\ ~(option.value.digits > 0)
  <2>1. option.value.digits <= 0
    BY <1>4
  <2>2. form.show.digits <= 0
    BY <1>1, <2>1
  <2>3. QED BY <1>4, <2>2 DEF CreateRefusal, Good, form
<1>5. CASE Good(option)
  <2>1. Readable(option.value) /\ ~(option.value.digits <= 0)
    BY <1>5 DEF Good
  <2>2. QED BY <1>1, <1>2, <1>5, <2>1 DEF CreateRefusal, form
<1>6. QED
  BY <1>3, <1>4, <1>5 DEF Good

(* What the board shows of one request that has yet to start.              *)
LEMMA OneUpcoming ==
  ASSUME NEW v, NEW sorted, NEW sr, sr.start = 2
  PROVE  LET up == Dashboard(v, sorted, 1, <<sr>>).upcoming
         IN  Len(up) = 1 /\ up[1].title = ShowTitle(sorted, sr.show)
<1> DEFINE view == View(v, sorted, 1, sr)
           listed == <<sr>>
           views == [i \in DOMAIN listed |-> View(v, sorted, 1, listed[i])]
           Later == {i \in DOMAIN views : views[i].past = FALSE}
           up == Picked(views, Later)
<1>1. /\ view.past = (2 < 1) /\ view.title = ShowTitle(sorted, sr.show)
  BY DEF View
<1>2. view.past = FALSE
  <2>1. (2 < 1) = FALSE
    OBVIOUS
  <2>2. QED BY <1>1, <2>1, Zenon
<1>3. DOMAIN views = 1..1 /\ views[1] = view
  OBVIOUS
<1>4. views \in Seq({view}) /\ Len(views) = 1
  OBVIOUS
<1> HIDE DEF views, view
<1>5. Later = {1}
  BY <1>2, <1>3
<1> HIDE DEF Later
<1>6. Later \in SUBSET (1..Len(views))
  BY <1>4, <1>5
<1>7. Len(up) = Cardinality({1})
  BY <1>4, <1>5, <1>6, PickedAll
<1>8. Cardinality({1}) = 1
  BY FS_Singleton
<1>9. up \in Seq({view})
  BY <1>4, <1>6, PickedInOrder
<1>10. Dashboard(v, sorted, 1, <<sr>>).upcoming = up
  BY DEF Dashboard, Later, views
<1> HIDE DEF up
<1>11. up[1] = view
  <2>1. 1 \in 1..Len(up)
    BY <1>7, <1>8
  <2>2. up[1] \in {view}
    BY <1>9, <2>1, ElementOfSeq
  <2>3. QED BY <2>2
<1>12. QED
  BY <1>1, <1>7, <1>8, <1>10, <1>11

(* The form for any items of these kinds and any order of the shows.       *)
LEMMA WellOffered ==
  ASSUME NEW v, NEW items \in Seq(RawItems), NEW sorted \in SortedByTitle(ShowsOf(items))
  PROVE  OffersAccepted(v, items, sorted)
<1> DEFINE shows == ShowsOf(items)
           options == Options(sorted)
<1>1. PICK n \in Nat : \E g \in Bijection(1..n, Usable(items)) :
           /\ DOMAIN shows = 1..n
           /\ \A i \in 1..n : /\ shows[i].id = NormalizeID(items[g[i]].id)
                              /\ shows[i].title = NormalizeTitle(items[g[i]])
  BY OneShowEach
<1>2. PICK g \in Bijection(1..n, Usable(items)) :
           /\ DOMAIN shows = 1..n
           /\ \A i \in 1..n : /\ shows[i].id = NormalizeID(items[g[i]].id)
                              /\ shows[i].title = NormalizeTitle(items[g[i]])
  BY <1>1
<1>3. /\ DOMAIN sorted = 1..n
      /\ \E p \in Bijection(1..n, 1..n) : \A i \in 1..n : sorted[i] = shows[p[i]]
  BY <1>2, OnlyReordered
<1>4. PICK p \in Bijection(1..n, 1..n) : \A i \in 1..n : sorted[i] = shows[p[i]]
  BY <1>3
<1> HIDE DEF shows
<1>5. /\ p \in [1..n -> 1..n] /\ g \in [1..n -> Usable(items)]
      /\ \A i, j \in 1..n : (p[i] = p[j] => i = j) /\ (g[i] = g[j] => i = j)
      /\ \A m \in 1..n : \E i \in 1..n : p[i] = m
      /\ \A m \in Usable(items) : \E i \in 1..n : g[i] = m
  BY DEF Bijection, Injection, Surjection, IsInjective
<1>6. \A x \in RawItems : x.id \in RawIds
  BY DEF RawItems
<1>7. \A m \in DOMAIN items : items[m].id \in RawIds
  BY <1>6
<1>8. Usable(items) \subseteq DOMAIN items /\ \A m \in Usable(items) : NormalizeID(items[m].id) # Empty
  BY DEF Usable
<1> DEFINE From(i) == g[p[i]]
<1>9. \A i \in 1..n : From(i) \in Usable(items) /\ From(i) \in DOMAIN items /\ items[From(i)].id \in RawIds
  BY <1>5, <1>7, <1>8
<1>10. \A i \in 1..n : /\ sorted[i].id = NormalizeID(items[From(i)].id)
                       /\ sorted[i].title = NormalizeTitle(items[From(i)])
                       /\ sorted[i].title # Empty
  <2> SUFFICES ASSUME NEW i \in 1..n
               PROVE  /\ sorted[i].id = NormalizeID(items[From(i)].id)
                      /\ sorted[i].title = NormalizeTitle(items[From(i)])
                      /\ sorted[i].title # Empty
    OBVIOUS
  <2>1. p[i] \in 1..n /\ sorted[i] = shows[p[i]]
    BY <1>4, <1>5
  <2>2. /\ sorted[i].id = NormalizeID(items[From(i)].id)
        /\ sorted[i].title = NormalizeTitle(items[From(i)])
    BY <1>2, <2>1
  <2>3. NormalizeID(items[From(i)].id) # Empty
    BY <1>8, <1>9
  <2>4. NormalizeTitle(items[From(i)]) # Empty
    BY <2>3, AlwaysTitled
  <2>5. QED BY <2>2, <2>4
<1>11. /\ DOMAIN options = 1..n
       /\ \A i \in 1..n : /\ options[i].value = sorted[i].id
                          /\ options[i].label = sorted[i].title
  BY <1>3, <1>10 DEF Options
<1> HIDE DEF options
<1>12. \A i \in 1..n : /\ Readable(options[i].value) => options[i].value.digits \in Int
                       /\ Good(options[i]) <=> Positive(items[From(i)].id)
  BY <1>9, <1>10, <1>11, KnownId DEF Good
<1> DEFINE Goods == {i \in DOMAIN options : Good(options[i])}
           Positives == {i \in DOMAIN items : Positive(items[i].id)}
<1>13. Cardinality(Positives) = Cardinality(Goods)
  <2> DEFINE h == [i \in Goods |-> From(i)]
  <2>1. Goods \subseteq 1..n /\ \A i \in Goods : From(i) \in Positives
    <3>1. \A i \in Goods : i \in 1..n /\ Good(options[i])
      BY <1>11
    <3> HIDE DEF Goods
    <3>2. ASSUME NEW i \in Goods PROVE From(i) \in Positives
      <4>1. From(i) \in DOMAIN items /\ Positive(items[From(i)].id)
        BY <1>9, <1>12, <3>1
      <4> HIDE DEF From
      <4>2. QED BY <4>1
    <3>3. QED BY <3>1, <3>2
  <2>2. \A i, j \in Goods : From(i) = From(j) => i = j
    <3> HIDE DEF Goods
    <3>1. \A i, j \in 1..n : From(i) = From(j) => i = j
      BY <1>5
    <3>2. QED BY <2>1, <3>1
  <2>3. ASSUME NEW m \in Positives PROVE \E i \in Goods : From(i) = m
    <3>1. m \in Usable(items)
      BY <1>7, <2>3, KnownId DEF Usable
    <3>2. PICK k \in 1..n : g[k] = m
      BY <1>5, <3>1
    <3>3. PICK i \in 1..n : p[i] = k
      BY <1>5
    <3>4. From(i) = m /\ Good(options[i])
      BY <1>12, <3>2, <3>3
    <3>5. QED BY <1>11, <3>4
  <2> HIDE DEF Goods, Positives, From
  <2>4. h \in Bijection(Goods, Positives)
    BY <2>1, <2>2, <2>3 DEF Bijection, Injection, Surjection, IsInjective
  <2>5. IsFiniteSet(Goods)
    <3>1. IsFiniteSet(1..n)
      BY FS_Interval
    <3>2. QED BY <2>1, <3>1, FS_Subset
  <2>6. QED BY <2>4, <2>5, FS_Bijection DEF ExistsBijection
<1>14. ASSUME NEW i \in 1..n
       PROVE  CreateRefusal(Filled(options[i]), 1, Page(shows, 0))
                = IF Good(options[i]) THEN "none" ELSE "invalid"
  <2>1. Good(options[i]) => ShowExists(shows, options[i].value.digits)
    <3>1. p[i] \in DOMAIN shows /\ shows[p[i]].id = options[i].value
      BY <1>2, <1>4, <1>5, <1>11
    <3>2. QED BY <3>1 DEF Good, ShowExists
  <2>2. Readable(options[i].value) => options[i].value.digits \in Int
    BY <1>12
  <2>3. CreateRefusal(Filled(options[i]), 1, Page(shows, 0))
          = IF Good(options[i]) /\ ShowExists(shows, options[i].value.digits) THEN "none" ELSE "invalid"
    BY <2>2, AnsweredForm
  <2>4. QED BY <2>1, <2>3
<1> DEFINE Listed(option) == Dashboard(v, sorted, 1, <<RowOf(v, Filled(option), 1)>>).upcoming
<1>15. ASSUME NEW i \in 1..n, Good(options[i]),
              \A j \in 1..n \ {i} : options[j].value # options[i].value
       PROVE  Len(Listed(options[i])) = 1 /\ Listed(options[i])[1].title = options[i].label
  <2> DEFINE sr == RowOf(v, Filled(options[i]), 1)
             id == options[i].value.digits
             its == {j \in DOMAIN sorted : Readable(sorted[j].id) /\ sorted[j].id.digits = id}
  <2>1. sr.start = 2 /\ sr.show = id
    BY DEF RowOf, Filled
  <2>2. Len(Listed(options[i])) = 1 /\ Listed(options[i])[1].title = ShowTitle(sorted, id)
    <3> HIDE DEF sr
    <3>1. QED BY <2>1, OneUpcoming DEF sr
  <2>3. its = {i}
    <3>1. i \in its
      BY <1>3, <1>11, <1>15 DEF Good
    <3>2. ASSUME NEW j \in its PROVE j = i
      <4>1. /\ j \in 1..n /\ Readable(options[j].value) /\ Readable(options[i].value)
            /\ options[j].value.digits = options[i].value.digits
        BY <1>3, <1>11, <1>15, <3>2 DEF Good
      <4>2. \A k \in 1..n : Readable(options[k].value) => options[k].value = Digits(options[k].value.digits)
        <5>1. \A k \in 1..n : /\ options[k].value = NormalizeID(items[From(k)].id)
                              /\ items[From(k)].id \in RawIds
          BY <1>9, <1>10, <1>11
        <5>2. QED BY <5>1, SameDigits
      <4>3. options[j].value = options[i].value
        BY <4>1, <4>2
      <4>4. QED BY <1>15, <4>1, <4>3
    <3>3. QED BY <3>1, <3>2
  <2>4. Max(its) = i
    BY <2>3, MaxOfOne
  <2>5. ShowTitle(sorted, id) = sorted[i].title
    <3> HIDE DEF id
    <3>1. QED BY <1>10, <2>3, <2>4 DEF ShowTitle
  <2>6. QED BY <1>11, <2>2, <2>5
<1>16. QED
  BY <1>11, <1>13, <1>14, <1>15 DEF OffersAccepted, shows, options

(* OfferedShowsAccepted, for any number of shows and any numbers for ids.   *)
THEOREM WhatIsOfferedIsAccepted == Spec => []OfferedShowsAccepted
<1>1. Init => OfferedShowsAccepted
  BY DEF Init, Nothing, OfferedShowsAccepted
<1>2. OfferedShowsAccepted /\ [Next]_q => OfferedShowsAccepted'
  <2> SUFFICES ASSUME OfferedShowsAccepted, [Next]_q PROVE OfferedShowsAccepted'
    OBVIOUS
  <2>1. CASE AskForm
    <3>1. PICK items \in UNION {[1..n -> RawItems] : n \in 0..MaxShows}, v \in Viewer(Users) :
            \E sorted \in SortedByTitle(ShowsOf(items)) :
              q' = [about |-> "form", viewer |-> v, items |-> items, sorted |-> sorted]
      BY <2>1 DEF AskForm
    <3>2. PICK sorted \in SortedByTitle(ShowsOf(items)) :
            q' = [about |-> "form", viewer |-> v, items |-> items, sorted |-> sorted]
      BY <3>1
    <3>3. items \in Seq(RawItems)
      BY BoundsAssumption
    <3>4. OffersAccepted(v, items, sorted)
      BY <3>3, WellOffered
    <3>5. QED BY <3>2, <3>4 DEF OfferedShowsAccepted
  <2>2. CASE q' = q
    BY <2>2 DEF OfferedShowsAccepted
  <2>3. CASE q' = Nothing
    BY <2>3 DEF OfferedShowsAccepted, Nothing
  <2>4. CASE AskAuthorizer \/ AskBoard \/ AskMail \/ AskValue \/ AskSource
    BY <2>4, AboutWhat DEF OfferedShowsAccepted
  <2>5. QED
    BY <2>1, <2>2, <2>3, <2>4 DEF Next, Ask
<1>3. QED
  BY <1>1, <1>2, PTL DEF Spec


-----------------------------------------------------------------------------
(* The least of a set of naturals. *)
LEMMA LeastOf ==
  ASSUME NEW S \in SUBSET Nat, S # {}
  PROVE  Min(S) \in S /\ \A n \in S : Min(S) <= n
<1>1. IsWellFoundedOn(Below, Nat)
  BY NatLessThanWellFounded DEF OpToRel, Below
<1>2. PICK m \in S : \A n \in S : ~(<<n, m>> \in Below)
  BY <1>1, WFMin
<1>3. ASSUME NEW n \in S, ~(m <= n) PROVE FALSE
  <2>1. <<n, m>> \in Below
    BY <1>3 DEF Below
  <2>2. QED BY <1>2, <2>1
<1>4. \A n \in S : m <= n
  BY <1>3
<1>5. QED
  BY <1>2, <1>4 DEF Min

(* The sets of values by how deep they are nested. *)
JsonTo(n, g) == g[0] = Scalars /\ \A m \in 1..n : g[m] = Nest(g[m - 1])

LEMMA JsonByDepth ==
  /\ Json[0] = Scalars
  /\ \A d \in 1..MaxNesting : Json[d] = Nest(Json[d - 1])
<1> DEFINE N == MaxNesting
           Built == {n \in Nat : \E g : JsonTo(n, g)}
           Whole(g) == [depth \in 0..N |-> IF depth = 0 THEN Scalars ELSE Nest(g[depth - 1])]
<1>1. 0 \in Built
  <2> DEFINE g == [m \in {0} |-> Scalars]
  <2>1. g[0] = Scalars
    OBVIOUS
  <2> HIDE DEF g
  <2>2. JsonTo(0, g)
    BY <2>1 DEF JsonTo
  <2>3. QED BY <2>2
<1>2. ASSUME NEW n \in Nat, n \in Built
      PROVE  n + 1 \in Built
  <2>1. PICK g : JsonTo(n, g)
    BY <1>2
  <2> DEFINE h == [m \in 0..(n + 1) |-> IF m = n + 1 THEN Nest(g[n]) ELSE g[m]]
  <2>2. h[n + 1] = Nest(g[n]) /\ \A m \in 0..n : h[m] = g[m]
    OBVIOUS
  <2> HIDE DEF h
  <2>3. \A m \in 1..(n + 1) : h[m] = Nest(h[m - 1])
    <3> SUFFICES ASSUME NEW m \in 1..(n + 1) PROVE h[m] = Nest(h[m - 1])
      OBVIOUS
    <3>1. CASE m = n + 1
      <4>1. m - 1 = n /\ h[n] = g[n]
        BY <2>2, <3>1
      <4>2. QED BY <2>2, <3>1, <4>1
    <3>2. CASE m # n + 1
      <4>1. m \in 1..n /\ m \in 0..n /\ m - 1 \in 0..n
        BY <3>2
      <4>2. h[m] = g[m] /\ h[m - 1] = g[m - 1]
        BY <2>2, <4>1
      <4>3. QED BY <2>1, <4>1, <4>2 DEF JsonTo
    <3>3. QED BY <3>1, <3>2
  <2>4. h[0] = Scalars
    BY <2>1, <2>2 DEF JsonTo
  <2>5. JsonTo(n + 1, h)
    BY <2>3, <2>4 DEF JsonTo
  <2>6. QED BY <2>5
<1>3. N \in Nat
  BY PagingAssumption
<1>4. Nat \subseteq Built
  <2> HIDE DEF Built
  <2>1. QED BY <1>1, <1>2, SetInduction
<1>5. PICK g : JsonTo(N, g)
  BY <1>3, <1>4
<1> DEFINE h == [m \in 0..N |-> g[m]]
<1>6. h = Whole(h)
  <2>1. \A n \in 0..N : h[n] = IF n = 0 THEN Scalars ELSE Nest(h[n - 1])
    <3> SUFFICES ASSUME NEW n \in 0..N PROVE h[n] = IF n = 0 THEN Scalars ELSE Nest(h[n - 1])
      OBVIOUS
    <3>1. CASE n = 0
      BY <1>5, <3>1 DEF JsonTo
    <3>2. CASE n # 0
      <4>1. n \in 1..N /\ n - 1 \in 0..N
        BY <1>3, <3>2
      <4>2. h[n] = g[n] /\ h[n - 1] = g[n - 1]
        BY <4>1
      <4> HIDE DEF h
      <4>3. QED BY <1>5, <3>2, <4>1, <4>2 DEF JsonTo
    <3>3. QED BY <3>1, <3>2
  <2>2. h = [n \in 0..N |-> h[n]]
    OBVIOUS
  <2> HIDE DEF h
  <2>3. QED BY <2>1, <2>2
<1> HIDE DEF h
<1>7. Json = Whole(Json)
  <2>1. Json = CHOOSE j : j = Whole(j)
    BY DEF Json
  <2> HIDE DEF Whole
  <2>2. QED BY <1>6, <2>1
<1>8. \A d \in 0..N : Json[d] = IF d = 0 THEN Scalars ELSE Nest(Json[d - 1])
  BY <1>7
<1>9. QED
  <2>1. 0 \in 0..N /\ \A d \in 1..N : d \in 0..N /\ d # 0
    BY <1>3
  <2>2. QED BY <1>8, <2>1

(* A value is a leaf, or an array or an object of values less deep.         *)
ArraysOf(values)  == [items : Seq(values)]
ObjectsOf(values) == [fields : [Names -> values \cup {Missing}]]

LEMMA NestParts == \A values : Nest(values) = values \cup ArraysOf(values) \cup ObjectsOf(values)
BY DEF Nest, ArraysOf, ObjectsOf

LEMMA NestMore ==
  ASSUME NEW S, NEW T, S \subseteq T
  PROVE  ArraysOf(S) \subseteq ArraysOf(T) /\ ObjectsOf(S) \subseteq ObjectsOf(T)
<1>1. Seq(S) \subseteq Seq(T)
  <2> SUFFICES ASSUME NEW s \in Seq(S) PROVE s \in Seq(T)
    OBVIOUS
  <2>1. Len(s) \in Nat /\ s \in [1..Len(s) -> S]
    OBVIOUS
  <2>2. s \in [1..Len(s) -> T]
    BY <2>1
  <2>3. QED BY <2>1, <2>2, SeqDef
<1>2. [Names -> S \cup {Missing}] \subseteq [Names -> T \cup {Missing}]
  OBVIOUS
<1>3. QED
  BY <1>1, <1>2 DEF ArraysOf, ObjectsOf

LEMMA LessDeep ==
  ASSUME NEW d \in 1..MaxNesting
  PROVE  Json[d] = Scalars \cup ArraysOf(Json[d - 1]) \cup ObjectsOf(Json[d - 1])
<1> DEFINE N == MaxNesting
           Made(n) == Json[n] = Scalars \cup ArraysOf(Json[n - 1]) \cup ObjectsOf(Json[n - 1])
           S == {n \in Nat : n + 1 <= N => Made(n + 1)}
<1>1. N \in Nat /\ 1 \in 1..N
  BY PagingAssumption
<1>2. 0 \in S
  <2>1. Json[1] = Nest(Json[0]) /\ Json[0] = Scalars
    BY <1>1, JsonByDepth
  <2>2. Made(1)
    BY <2>1, NestParts
  <2> HIDE DEF Made
  <2>3. QED BY <2>2
<1>3. ASSUME NEW n \in Nat, n \in S
      PROVE  n + 1 \in S
  <2> SUFFICES ASSUME n + 2 <= N PROVE Made(n + 2)
    <3> HIDE DEF Made
    <3>1. n + 1 + 1 = n + 2
      OBVIOUS
    <3>2. QED BY <3>1
  <2>1. n + 2 \in 1..N /\ n + 1 \in 1..N /\ (n + 2) - 1 = n + 1 /\ (n + 1) - 1 = n
    BY <1>1
  <2>2. Made(n + 1)
    <3> HIDE DEF Made
    <3>1. QED BY <1>1, <1>3, <2>1
  <2>3. Json[n + 2] = Json[n + 1] \cup ArraysOf(Json[n + 1]) \cup ObjectsOf(Json[n + 1])
    BY <2>1, JsonByDepth, NestParts
  <2>4. Json[n + 1] = Scalars \cup ArraysOf(Json[n]) \cup ObjectsOf(Json[n])
    BY <2>1, <2>2
  <2>5. Json[n] \subseteq Json[n + 1]
    BY <2>1, JsonByDepth, NestParts
  <2>6. ArraysOf(Json[n]) \subseteq ArraysOf(Json[n + 1]) /\ ObjectsOf(Json[n]) \subseteq ObjectsOf(Json[n + 1])
    BY <2>5, NestMore
  <2>7. Json[n + 2] = Scalars \cup ArraysOf(Json[n + 1]) \cup ObjectsOf(Json[n + 1])
    BY <2>3, <2>4, <2>6
  <2>8. QED BY <2>1, <2>7
<1>4. Nat \subseteq S
  <2> HIDE DEF S
  <2>1. QED BY <1>2, <1>3, SetInduction
<1>5. d - 1 \in S /\ d - 1 \in Nat /\ (d - 1) + 1 = d /\ d <= N
  <2>1. d - 1 \in Nat /\ (d - 1) + 1 = d /\ d <= N
    BY <1>1
  <2> HIDE DEF S
  <2>2. QED BY <1>4, <2>1
<1>6. Made(d)
  <2> HIDE DEF Made
  <2>1. QED BY <1>5
<1>7. QED
  BY <1>6

LEMMA ScalarsAre ==
  /\ \A v \in Scalars : IsLeaf(v) /\ v.page \in Nat /\ v = Leaf(v.page)
  /\ \A n \in Nat : Leaf(n) \in Scalars /\ IsLeaf(Leaf(n)) /\ Leaf(n).page = n
BY DEF Scalars, IsLeaf, Leaf

(* What is not a leaf has parts, and those that are there are less deep.   *)
LEMMA PartsLessDeep ==
  ASSUME NEW d \in 1..MaxNesting, NEW v \in Json[d], ~IsLeaf(v)
  PROVE  \E n \in Nat : /\ DOMAIN Parts(v) = 1..n
                        /\ There(v) \subseteq 1..n
                        /\ \A i \in There(v) : Parts(v)[i] \in Json[d - 1]
<1>1. CASE v \in ArraysOf(Json[d - 1])
  <2>1. IsArray(v) /\ v.items \in Seq(Json[d - 1])
    BY <1>1 DEF ArraysOf, IsArray
  <2>2. Parts(v) \in Seq(Json[d - 1])
    BY <2>1 DEF Parts
  <2>3. Len(Parts(v)) \in Nat /\ DOMAIN Parts(v) = 1..Len(Parts(v))
        /\ \A i \in 1..Len(Parts(v)) : Parts(v)[i] \in Json[d - 1]
    BY <2>2
  <2>4. QED BY <2>3 DEF There
<1>2. CASE v \in ObjectsOf(Json[d - 1])
  <2>1. ~IsArray(v) /\ v.fields \in [Names -> Json[d - 1] \cup {Missing}]
    BY <1>2 DEF ObjectsOf, IsArray
  <2>2. DOMAIN Keys = 1..5 /\ \A i \in 1..5 : Keys[i] \in Names
    BY DEF Keys, Names
  <2>3. Parts(v) = [i \in 1..5 |-> v.fields[Keys[i]]]
    BY <2>1, <2>2 DEF Parts
  <2>4. \A i \in 1..5 : Parts(v)[i] \in Json[d - 1] \cup {Missing}
    BY <2>1, <2>2, <2>3
  <2>5. QED BY <2>3, <2>4 DEF There
<1>3. v \in ArraysOf(Json[d - 1]) \/ v \in ObjectsOf(Json[d - 1])
  BY LessDeep, ScalarsAre
<1>4. QED
  BY <1>1, <1>2, <1>3

LEMMA FirstPageAmong ==
  ASSUME NEW n \in Nat, NEW c \in [1..n -> Nat]
  PROVE  \/ FirstPage(c) = 0 /\ \A i \in 1..n : c[i] = 0
         \/ \E i \in 1..n : /\ FirstPage(c) = c[i] /\ c[i] > 0
                            /\ \A j \in 1..n : c[j] > 0 => i <= j
<1> DEFINE named == {i \in DOMAIN c : c[i] > 0}
<1>1. named \in SUBSET Nat /\ named \subseteq 1..n
  OBVIOUS
<1>2. FirstPage(c) = IF named = {} THEN 0 ELSE c[Min(named)]
  BY DEF FirstPage
<1>3. CASE named = {}
  BY <1>2, <1>3
<1>4. CASE named # {}
  <2>1. Min(named) \in named /\ \A j \in named : Min(named) <= j
    <3> HIDE DEF named
    <3>1. QED BY <1>1, <1>4, LeastOf
  <2>2. QED BY <1>2, <1>4, <2>1
<1>5. QED
  BY <1>3, <1>4

LEMMA CandidatesAre ==
  ASSUME NEW d \in 1..MaxNesting, NEW v \in Json[d], ~IsLeaf(v), NEW below \in [Json[d - 1] -> Nat],
         NEW n \in Nat, DOMAIN Parts(v) = 1..n, \A i \in There(v) : Parts(v)[i] \in Json[d - 1]
  PROVE  /\ Candidates(v, below) \in [1..n -> Nat]
         /\ \A i \in 1..n : Candidates(v, below)[i] = IF i \in There(v) THEN below[Parts(v)[i]] ELSE 0
BY DEF Candidates

LEMMA FindsAPage ==
  ASSUME NEW d \in 1..MaxNesting, NEW v \in Json[d], NEW below \in [Json[d - 1] -> Nat]
  PROVE  Find(v, below) \in Nat
<1>1. CASE IsLeaf(v)
  <2>1. v \in Scalars
    <3>1. \A w \in ArraysOf(Json[d - 1]) \cup ObjectsOf(Json[d - 1]) : ~IsLeaf(w)
      BY DEF ArraysOf, ObjectsOf, IsLeaf
    <3>2. QED BY <1>1, <3>1, LessDeep
  <2>2. QED BY <1>1, <2>1, ScalarsAre DEF Find
<1>2. CASE ~IsLeaf(v)
  <2>1. PICK n \in Nat : /\ DOMAIN Parts(v) = 1..n
                         /\ \A i \in There(v) : Parts(v)[i] \in Json[d - 1]
    BY <1>2, PartsLessDeep
  <2>2. Candidates(v, below) \in [1..n -> Nat]
    BY <1>2, <2>1, CandidatesAre
  <2>3. FirstPage(Candidates(v, below)) \in Nat
    BY <2>2, FirstPageAmong
  <2>4. QED BY <1>2, <2>3 DEF Find
<1>3. QED
  BY <1>1, <1>2

(* The search is defined at every depth. *)
LEMMA SearchByDepth ==
  \A d \in 0..MaxNesting :
    /\ PageIn[d] \in [Json[d] -> Nat]
    /\ \A v \in Json[d] : PageIn[d][v] = Find(v, PageIn[d - 1])
<1> DEFINE N == MaxNesting
           T == [d \in 0..N |-> [Json[d] -> Nat]]
           F == [d \in 1..N |-> [below \in [Json[d - 1] -> Nat] |-> [v \in Json[d] |-> Find(v, below)]]]
           start == [v \in Json[0] |-> v.page]
           Whole(g) == [depth \in 0..N |-> [v \in Json[depth] |-> Find(v, g[depth - 1])]]
<1>1. N \in Nat
  BY PagingAssumption
<1>2. Json[0] = Scalars
  BY JsonByDepth
<1>3. start \in T[0]
  BY <1>1, <1>2, ScalarsAre
<1>4. ASSUME NEW d \in 1..N PROVE F[d] \in [T[d - 1] -> T[d]]
  <2>1. d \in 0..N /\ d - 1 \in 0..N
    BY <1>1
  <2>2. T[d] = [Json[d] -> Nat] /\ T[d - 1] = [Json[d - 1] -> Nat]
    BY <2>1
  <2> HIDE DEF T
  <2>3. \A below \in [Json[d - 1] -> Nat] : [v \in Json[d] |-> Find(v, below)] \in [Json[d] -> Nat]
    BY FindsAPage
  <2>4. QED BY <2>2, <2>3
<1>5. PICK g : g = Levels(N, F, start, g) /\ \A d \in 0..N : g[d] \in T[d]
  <2> HIDE DEF T, F, start
  <2>1. QED BY <1>1, <1>3, <1>4, LevelsExist
<1>6. \A d \in 0..N : g[d] = IF d = 0 THEN start ELSE F[d][g[d - 1]]
  <2> HIDE DEF T, F, start
  <2>1. QED BY <1>5 DEF Levels
<1>7. \A d \in 0..N : g[d] \in [Json[d] -> Nat] /\ g[d] = [v \in Json[d] |-> Find(v, g[d - 1])]
  <2> SUFFICES ASSUME NEW d \in 0..N
               PROVE  g[d] \in [Json[d] -> Nat] /\ g[d] = [v \in Json[d] |-> Find(v, g[d - 1])]
    OBVIOUS
  <2>1. g[d] \in [Json[d] -> Nat]
    BY <1>5
  <2>2. CASE d = 0
    <3>1. g[0] = start
      BY <1>6, <2>2
    <3>2. \A v \in Json[0] : Find(v, g[0 - 1]) = v.page
      BY <1>2, ScalarsAre DEF Find
    <3>3. QED BY <2>1, <2>2, <3>1, <3>2
  <2>3. CASE d # 0
    <3>1. d \in 1..N /\ d - 1 \in 0..N
      BY <1>1, <2>3
    <3>2. g[d] = F[d][g[d - 1]]
      BY <1>6, <2>3
    <3>3. g[d - 1] \in [Json[d - 1] -> Nat]
      BY <1>5, <3>1
    <3>4. QED BY <2>1, <3>1, <3>2, <3>3
  <2>4. QED BY <2>2, <2>3
<1>8. g = Whole(g)
  <2>1. g = [d \in 0..N |-> g[d]]
    <3> HIDE DEF T, F, start
    <3>1. QED BY <1>5 DEF Levels
  <2>2. QED BY <1>7, <2>1
<1>9. PageIn = Whole(PageIn)
  <2>1. PageIn = CHOOSE p : p = Whole(p)
    BY DEF PageIn
  <2> HIDE DEF Whole
  <2>2. QED BY <1>8, <2>1
<1> HIDE DEF T, F, start
<1>10. \A d \in 0..N : PageIn[d] = [v \in Json[d] |-> Find(v, PageIn[d - 1])]
  BY <1>9
<1>11. \A d \in 0..N : PageIn[d] \in [Json[d] -> Nat]
  <2> DEFINE S == {n \in Nat : n <= N => PageIn[n] \in [Json[n] -> Nat]}
  <2>1. 0 \in S
    <3>1. \A v \in Json[0] : Find(v, PageIn[0 - 1]) \in Nat
      BY <1>2, ScalarsAre DEF Find
    <3>2. PageIn[0] = [v \in Json[0] |-> Find(v, PageIn[0 - 1])]
      BY <1>1, <1>10
    <3>3. QED BY <3>1, <3>2
  <2>2. ASSUME NEW n \in Nat, n \in S PROVE n + 1 \in S
    <3> SUFFICES ASSUME n + 1 <= N PROVE PageIn[n + 1] \in [Json[n + 1] -> Nat]
      OBVIOUS
    <3>1. n + 1 \in 0..N /\ n + 1 \in 1..N /\ (n + 1) - 1 = n
      BY <1>1
    <3>2. PageIn[n] \in [Json[n] -> Nat]
      BY <1>1, <2>2, <3>1
    <3>3. \A v \in Json[n + 1] : Find(v, PageIn[n]) \in Nat
      BY <3>1, <3>2, FindsAPage
    <3>4. PageIn[n + 1] = [v \in Json[n + 1] |-> Find(v, PageIn[n])]
      BY <1>10, <3>1
    <3>5. QED BY <3>3, <3>4
  <2>3. Nat \subseteq S
    <3> HIDE DEF S
    <3>1. QED BY <2>1, <2>2, SetInduction
  <2>4. QED BY <1>1, <2>3
<1>12. QED
  BY <1>10, <1>11

(* Signposts, and those of the parts seen from the whole. *)
Posts == [way : Seq(Nat), page : Nat]

Under(i, posts) == {[way |-> <<i>> \o p.way, page |-> p.page] : p \in posts}

LEMMA WayOn ==
  ASSUME NEW i \in Nat, NEW w \in Seq(Nat)
  PROVE  /\ <<i>> \o w \in Seq(Nat)
         /\ DOMAIN (<<i>> \o w) = 1..(Len(w) + 1)
         /\ (<<i>> \o w)[1] = i
         /\ \A k \in 1..Len(w) : (<<i>> \o w)[k + 1] = w[k]
OBVIOUS

(* The way through an earlier part is before, and in one part the ways keep *)
(* their order.                                                            *)
LEMMA BeforeAcross ==
  ASSUME NEW i \in Nat, NEW j \in Nat, i < j, NEW w \in Seq(Nat), NEW x \in Seq(Nat)
  PROVE  Before(<<i>> \o w, <<j>> \o x)
<1> DEFINE a == <<i>> \o w
           b == <<j>> \o x
<1>1. 1 \in DOMAIN a \cap DOMAIN b /\ a[1] = i /\ b[1] = j
  BY WayOn
<1> HIDE DEF a, b
<1>2. Before(a, b)
  BY <1>1 DEF Before
<1>3. QED
  BY <1>2 DEF a, b

LEMMA BeforeWithin ==
  ASSUME NEW i \in Nat, NEW w \in Seq(Nat), NEW x \in Seq(Nat), Before(w, x)
  PROVE  Before(<<i>> \o w, <<i>> \o x)
<1> DEFINE a == <<i>> \o w
           b == <<i>> \o x
<1>1. /\ DOMAIN a = 1..(Len(w) + 1) /\ a[1] = i /\ \A k \in 1..Len(w) : a[k + 1] = w[k]
      /\ DOMAIN b = 1..(Len(x) + 1) /\ b[1] = i /\ \A k \in 1..Len(x) : b[k + 1] = x[k]
  BY WayOn
<1>2. Len(w) \in Nat /\ Len(x) \in Nat /\ DOMAIN w = 1..Len(w) /\ DOMAIN x = 1..Len(x)
  OBVIOUS
<1>3. PICK k \in DOMAIN w \cap DOMAIN x : w[k] < x[k] /\ \A m \in 1..(k - 1) : w[m] = x[m]
  BY DEF Before
<1> HIDE DEF a, b
<1>4. k \in Nat /\ k \in 1..Len(w) /\ k \in 1..Len(x)
  BY <1>2, <1>3
<1>5. k + 1 \in DOMAIN a \cap DOMAIN b /\ a[k + 1] < b[k + 1]
  BY <1>1, <1>2, <1>3, <1>4
<1>6. ASSUME NEW m \in 1..((k + 1) - 1) PROVE a[m] = b[m]
  <2>1. CASE m = 1
    BY <1>1, <2>1
  <2>2. CASE m # 1
    <3>1. m - 1 \in 1..(k - 1) /\ m - 1 \in 1..Len(w) /\ m - 1 \in 1..Len(x) /\ (m - 1) + 1 = m
      BY <1>2, <1>4, <2>2
    <3>2. QED BY <1>1, <1>3, <3>1
  <2>3. QED BY <2>1, <2>2
<1>7. Before(a, b)
  BY <1>5, <1>6 DEF Before
<1>8. QED
  BY <1>7 DEF a, b

(* When in each part the first is found, it is found in the whole.         *)
LEMMA FirstOfParts ==
  ASSUME NEW n \in Nat, NEW c \in [1..n -> Nat], NEW P \in [1..n -> SUBSET Posts],
         \A i \in 1..n : \A p \in P[i] : p.page > 0,
         \A i \in 1..n : FirstOf(c[i], P[i])
  PROVE  FirstOf(FirstPage(c), UNION {Under(i, P[i]) : i \in 1..n})
<1> DEFINE all == UNION {Under(i, P[i]) : i \in 1..n}
<1>1. \A i \in 1..n : P[i] = {} <=> c[i] = 0
  <2> SUFFICES ASSUME NEW i \in 1..n PROVE P[i] = {} <=> c[i] = 0
    OBVIOUS
  <2>1. CASE P[i] = {}
    BY <2>1 DEF FirstOf
  <2>2. CASE P[i] # {}
    <3>1. PICK first \in P[i] : c[i] = first.page
      BY <2>2 DEF FirstOf
    <3>2. QED BY <2>2, <3>1
  <2>3. QED BY <2>1, <2>2
<1>2. ASSUME FirstPage(c) = 0, \A i \in 1..n : c[i] = 0
      PROVE  FirstOf(FirstPage(c), all)
  <2>1. \A i \in 1..n : P[i] = {}
    BY <1>1, <1>2
  <2>2. all = {}
    BY <2>1 DEF Under
  <2>3. QED BY <1>2, <2>2 DEF FirstOf
<1>3. ASSUME NEW i \in 1..n, FirstPage(c) = c[i], c[i] > 0, \A j \in 1..n : c[j] > 0 => i <= j
      PROVE  FirstOf(FirstPage(c), all)
  <2>1. P[i] # {}
    BY <1>1, <1>3
  <2>2. PICK first \in P[i] : /\ c[i] = first.page
                              /\ \A p \in P[i] \ {first} : Before(first.way, p.way)
    BY <2>1 DEF FirstOf
  <2> DEFINE it == [way |-> <<i>> \o first.way, page |-> first.page]
  <2>3. it \in all /\ it.page = c[i] /\ it.way = <<i>> \o first.way
    <3>1. it \in Under(i, P[i])
      BY DEF Under
    <3> HIDE DEF it
    <3>2. it \in all
      BY <3>1
    <3>3. QED BY <2>2, <3>2 DEF it
  <2> HIDE DEF it
  <2>4. ASSUME NEW q0 \in all, q0 # it PROVE Before(it.way, q0.way)
    <3>1. PICK j \in 1..n : q0 \in Under(j, P[j])
      OBVIOUS
    <3>2. PICK p \in P[j] : q0 = [way |-> <<j>> \o p.way, page |-> p.page]
      BY <3>1 DEF Under
    <3>3. i \in Nat /\ j \in Nat /\ first.way \in Seq(Nat) /\ p.way \in Seq(Nat)
          /\ q0.way = <<j>> \o p.way
      BY <3>2 DEF Posts
    <3>4. i <= j
      <4>1. c[j] # 0 /\ c[j] \in Nat
        BY <1>1
      <4>2. QED BY <1>3, <4>1
    <3>5. CASE i = j
      <4>1. p # first
        BY <2>4, <3>2, <3>5 DEF it
      <4>2. Before(first.way, p.way)
        BY <2>2, <3>5, <4>1
      <4>3. Before(<<i>> \o first.way, <<i>> \o p.way)
        BY <3>3, <4>2, BeforeWithin
      <4>4. QED BY <2>3, <3>3, <3>5, <4>3
    <3>6. CASE i < j
      <4>1. Before(<<i>> \o first.way, <<j>> \o p.way)
        BY <3>3, <3>6, BeforeAcross
      <4>2. QED BY <2>3, <3>3, <4>1
    <3>7. i = j \/ i < j
      BY <3>3, <3>4
    <3>8. QED BY <3>5, <3>6, <3>7
  <2> HIDE DEF all
  <2>5. all # {}
    BY <2>3
  <2>6. \E f \in all : FirstPage(c) = f.page /\ \A p \in all \ {f} : Before(f.way, p.way)
    BY <1>3, <2>3, <2>4
  <2>7. QED BY <2>5, <2>6 DEF FirstOf
<1>4. QED
  <2> HIDE DEF all
  <2>1. \/ FirstPage(c) = 0 /\ \A i \in 1..n : c[i] = 0
        \/ \E i \in 1..n : /\ FirstPage(c) = c[i] /\ c[i] > 0
                           /\ \A j \in 1..n : c[j] > 0 => i <= j
    BY FirstPageAmong
  <2>2. FirstOf(FirstPage(c), all)
    <3>1. CASE \E i \in 1..n : /\ FirstPage(c) = c[i] /\ c[i] > 0
                               /\ \A j \in 1..n : c[j] > 0 => i <= j
      <4>1. PICK i \in 1..n : /\ FirstPage(c) = c[i] /\ c[i] > 0
                              /\ \A j \in 1..n : c[j] > 0 => i <= j
        BY <3>1
      <4>2. QED BY <1>3, <4>1
    <3>2. QED BY <1>2, <2>1, <3>1
  <2>3. QED BY <2>2 DEF all

(* The signposts of a value, given those of what is less deep. *)
WellSigned(posts) == posts \in SUBSET Posts /\ \A p \in posts : p.page > 0

LEMMA SignsOfLeaf ==
  ASSUME NEW v \in Scalars, NEW below
  PROVE  WellSigned(Signs(v, below)) /\ FirstOf(v.page, Signs(v, below))
<1>1. IsLeaf(v) /\ v.page \in Nat
  BY ScalarsAre
<1> DEFINE post == [way |-> <<>>, page |-> v.page]
<1>2. post \in Posts /\ post.page = v.page
  BY <1>1 DEF Posts
<1>3. Signs(v, below) = {p \in {post} : p.page > 0}
  BY <1>1 DEF Signs
<1> HIDE DEF post
<1>4. CASE v.page > 0
  <2>1. Signs(v, below) = {post}
    BY <1>2, <1>3, <1>4
  <2>2. QED BY <1>2, <1>4, <2>1 DEF WellSigned, FirstOf
<1>5. CASE ~(v.page > 0)
  <2>1. Signs(v, below) = {} /\ v.page = 0
    BY <1>1, <1>2, <1>3, <1>5
  <2>2. QED BY <2>1 DEF WellSigned, FirstOf
<1>6. QED
  BY <1>4, <1>5

LEMMA SignsOfParts ==
  ASSUME NEW d \in 1..MaxNesting, NEW v \in Json[d],
         NEW below \in [Json[d - 1] -> SUBSET Posts], NEW pages \in [Json[d - 1] -> Nat],
         \A w \in Json[d - 1] : WellSigned(below[w]) /\ FirstOf(pages[w], below[w])
  PROVE  WellSigned(Signs(v, below)) /\ FirstOf(Find(v, pages), Signs(v, below))
<1>1. CASE IsLeaf(v)
  <2>1. v \in Scalars
    <3>1. \A w \in ArraysOf(Json[d - 1]) \cup ObjectsOf(Json[d - 1]) : ~IsLeaf(w)
      BY DEF ArraysOf, ObjectsOf, IsLeaf
    <3>2. QED BY <1>1, <3>1, LessDeep
  <2>2. Find(v, pages) = v.page
    BY <1>1 DEF Find
  <2>3. QED BY <2>1, <2>2, SignsOfLeaf
<1>2. CASE ~IsLeaf(v)
  <2>1. PICK n \in Nat : /\ DOMAIN Parts(v) = 1..n /\ There(v) \subseteq 1..n
                         /\ \A i \in There(v) : Parts(v)[i] \in Json[d - 1]
    BY <1>2, PartsLessDeep
  <2> DEFINE c == Candidates(v, pages)
             P == [i \in 1..n |-> IF i \in There(v) THEN below[Parts(v)[i]] ELSE {}]
             all == UNION {Under(i, P[i]) : i \in 1..n}
  <2>2. c \in [1..n -> Nat] /\ \A i \in 1..n : c[i] = IF i \in There(v) THEN pages[Parts(v)[i]] ELSE 0
    BY <1>2, <2>1, CandidatesAre
  <2>3. P \in [1..n -> SUBSET Posts] /\ \A i \in 1..n : \A p \in P[i] : p.page > 0
    BY <2>1 DEF WellSigned
  <2>4. \A i \in 1..n : FirstOf(c[i], P[i])
    <3> SUFFICES ASSUME NEW i \in 1..n PROVE FirstOf(c[i], P[i])
      OBVIOUS
    <3>1. CASE i \in There(v)
      <4>1. c[i] = pages[Parts(v)[i]] /\ P[i] = below[Parts(v)[i]] /\ Parts(v)[i] \in Json[d - 1]
        BY <2>1, <2>2, <3>1
      <4> HIDE DEF c, P
      <4>2. QED BY <4>1
    <3>2. CASE i \notin There(v)
      <4>1. c[i] = 0 /\ P[i] = {}
        BY <2>2, <3>2
      <4> HIDE DEF c, P
      <4>2. QED BY <4>1 DEF FirstOf
    <3>3. QED BY <3>1, <3>2
  <2>5. FirstOf(FirstPage(c), all)
    <3> HIDE DEF c, P
    <3>1. QED BY <2>2, <2>3, <2>4, FirstOfParts
  <2>6. Signs(v, below) = all
    <3>1. Signs(v, below) = UNION {Under(i, below[Parts(v)[i]]) : i \in There(v)}
      BY <1>2 DEF Signs, Under
    <3>2. \A i \in There(v) : P[i] = below[Parts(v)[i]]
      BY <2>1
    <3>3. \A i \in 1..n : i \notin There(v) => Under(i, P[i]) = {}
      BY DEF Under
    <3> HIDE DEF P
    <3>4. ASSUME NEW post, post \in all PROVE post \in Signs(v, below)
      <4>1. PICK i \in 1..n : post \in Under(i, P[i])
        BY <3>4
      <4>2. i \in There(v)
        BY <3>3, <4>1
      <4> HIDE DEF P
      <4>3. QED BY <3>1, <3>2, <4>1, <4>2
    <3>5. ASSUME NEW post, post \in Signs(v, below) PROVE post \in all
      <4>1. PICK i \in There(v) : post \in Under(i, below[Parts(v)[i]])
        BY <3>1, <3>5
      <4>2. i \in 1..n /\ post \in Under(i, P[i])
        BY <2>1, <3>2, <4>1
      <4> HIDE DEF P
      <4>3. QED BY <4>2
    <3> HIDE DEF all
    <3>6. QED BY <3>4, <3>5
  <2>7. WellSigned(all)
    <3> SUFFICES ASSUME NEW i \in 1..n, NEW post \in Under(i, P[i]) PROVE post \in Posts /\ post.page > 0
      BY DEF WellSigned
    <3>1. PICK p \in P[i] : post = [way |-> <<i>> \o p.way, page |-> p.page]
      BY DEF Under
    <3>2. p \in Posts /\ p.page > 0 /\ i \in Nat
      BY <2>3
    <3>3. <<i>> \o p.way \in Seq(Nat)
      BY <3>2, WayOn DEF Posts
    <3>4. QED BY <3>1, <3>2, <3>3 DEF Posts
  <2>8. Find(v, pages) = FirstPage(c)
    BY <1>2 DEF Find
  <2> HIDE DEF all, c
  <2>9. QED BY <2>5, <2>6, <2>7, <2>8
<1>3. QED
  BY <1>1, <1>2

(* What is to be shown of the signposts at one depth. *)
RightSigns(d) == {below \in [Json[d] -> SUBSET Posts] :
               \A v \in Json[d] : WellSigned(below[v]) /\ FirstOf(PageIn[d][v], below[v])}

LEMMA SignsOn ==
  ASSUME NEW d \in 1..MaxNesting, NEW below \in RightSigns(d - 1)
  PROVE  [v \in Json[d] |-> Signs(v, below)] \in RightSigns(d)
<1>1. d - 1 \in 0..MaxNesting /\ d \in 0..MaxNesting
  BY PagingAssumption
<1>2. PageIn[d - 1] \in [Json[d - 1] -> Nat] /\ \A v \in Json[d] : PageIn[d][v] = Find(v, PageIn[d - 1])
  BY <1>1, SearchByDepth
<1>3. /\ below \in [Json[d - 1] -> SUBSET Posts]
      /\ \A w \in Json[d - 1] : WellSigned(below[w]) /\ FirstOf(PageIn[d - 1][w], below[w])
  BY DEF RightSigns
<1>4. \A v \in Json[d] : WellSigned(Signs(v, below)) /\ FirstOf(PageIn[d][v], Signs(v, below))
  BY <1>2, <1>3, SignsOfParts
<1>5. \A v \in Json[d] : Signs(v, below) \in SUBSET Posts
  BY <1>4 DEF WellSigned
<1>6. QED
  BY <1>4, <1>5 DEF RightSigns

LEMMA SignsAtFirst ==
  \A below : [v \in Json[0] |-> Signs(v, below)] \in RightSigns(0)
<1> SUFFICES ASSUME NEW below PROVE [v \in Json[0] |-> Signs(v, below)] \in RightSigns(0)
  OBVIOUS
<1>1. Json[0] = Scalars /\ 0 \in 0..MaxNesting
  BY JsonByDepth, PagingAssumption
<1>2. \A v \in Json[0] : PageIn[0][v] = v.page
  BY <1>1, SearchByDepth, ScalarsAre DEF Find
<1>3. \A v \in Json[0] : WellSigned(Signs(v, below)) /\ FirstOf(PageIn[0][v], Signs(v, below))
  BY <1>1, <1>2, SignsOfLeaf
<1>4. \A v \in Json[0] : Signs(v, below) \in SUBSET Posts
  BY <1>3 DEF WellSigned
<1>5. QED
  BY <1>3, <1>4 DEF RightSigns

(* At every depth the first in reading order is found. *)
LEMMA FirstAtEveryDepth ==
  \A d \in 0..MaxNesting : Signposts[d] \in RightSigns(d)
<1> DEFINE N == MaxNesting
           T == [d \in 0..N |-> RightSigns(d)]
           F == [d \in 1..N |-> [below \in RightSigns(d - 1) |-> [v \in Json[d] |-> Signs(v, below)]]]
           start == [v \in Json[0] |-> Signs(v, <<>>)]
           Whole(g) == [depth \in 0..N |-> [v \in Json[depth] |-> Signs(v, g[depth - 1])]]
<1>1. N \in Nat
  BY PagingAssumption
<1>2. start \in T[0]
  BY <1>1, SignsAtFirst
<1>3. ASSUME NEW d \in 1..N PROVE F[d] \in [T[d - 1] -> T[d]]
  <2>1. d \in 0..N /\ d - 1 \in 0..N
    BY <1>1
  <2>2. T[d] = RightSigns(d) /\ T[d - 1] = RightSigns(d - 1)
    BY <2>1
  <2> HIDE DEF T
  <2>3. \A below \in RightSigns(d - 1) : [v \in Json[d] |-> Signs(v, below)] \in RightSigns(d)
    BY SignsOn
  <2>4. QED BY <2>2, <2>3
<1>4. PICK g : g = Levels(N, F, start, g) /\ \A d \in 0..N : g[d] \in T[d]
  <2> HIDE DEF T, F, start
  <2>1. QED BY <1>1, <1>2, <1>3, LevelsExist
<1>5. g = [d \in 0..N |-> g[d]] /\ \A d \in 0..N : g[d] = IF d = 0 THEN start ELSE F[d][g[d - 1]]
  <2> HIDE DEF T, F, start
  <2>1. QED BY <1>4 DEF Levels
<1>6. \A d \in 0..N : g[d] = [v \in Json[d] |-> Signs(v, g[d - 1])]
  <2> SUFFICES ASSUME NEW d \in 0..N PROVE g[d] = [v \in Json[d] |-> Signs(v, g[d - 1])]
    OBVIOUS
  <2>1. CASE d = 0
    <3>1. g[0] = start
      BY <1>5, <2>1
    <3>2. \A v \in Json[0] : Signs(v, g[0 - 1]) = Signs(v, <<>>)
      <4>1. \A v \in Json[0] : IsLeaf(v)
        BY JsonByDepth, ScalarsAre
      <4>2. QED BY <4>1 DEF Signs
    <3>3. QED BY <2>1, <3>1, <3>2
  <2>2. CASE d # 0
    <3>1. d \in 1..N /\ d - 1 \in 0..N
      BY <1>1, <2>2
    <3>2. g[d] = F[d][g[d - 1]]
      BY <1>5, <2>2
    <3>3. g[d - 1] \in RightSigns(d - 1)
      BY <1>4, <3>1
    <3>4. QED BY <3>1, <3>2, <3>3
  <2>3. QED BY <2>1, <2>2
<1>7. g = Whole(g)
  BY <1>5, <1>6
<1>8. Signposts = Whole(Signposts)
  <2>1. Signposts = CHOOSE p : p = Whole(p)
    BY DEF Signposts
  <2> HIDE DEF Whole
  <2>2. QED BY <1>7, <2>1
<1> HIDE DEF T, F, start
<1>9. \A d \in 0..N : Signposts[d] = [v \in Json[d] |-> Signs(v, Signposts[d - 1])]
  BY <1>8
<1> DEFINE S == {n \in Nat : n <= N => Signposts[n] \in RightSigns(n)}
<1>10. 0 \in S
  <2>1. Signposts[0] = [v \in Json[0] |-> Signs(v, Signposts[0 - 1])]
    BY <1>1, <1>9
  <2>2. Signposts[0] \in RightSigns(0)
    BY <2>1, SignsAtFirst
  <2>3. QED BY <2>2
<1>11. ASSUME NEW n \in Nat, n \in S PROVE n + 1 \in S
  <2> SUFFICES ASSUME n + 1 <= N PROVE Signposts[n + 1] \in RightSigns(n + 1)
    OBVIOUS
  <2>1. n + 1 \in 0..N /\ n + 1 \in 1..N /\ (n + 1) - 1 = n
    BY <1>1
  <2>2. Signposts[n] \in RightSigns(n)
    BY <1>1, <1>11, <2>1
  <2>3. Signposts[n + 1] = [v \in Json[n + 1] |-> Signs(v, Signposts[n])]
    BY <1>9, <2>1
  <2>4. QED BY <2>1, <2>2, <2>3, SignsOn
<1>12. Nat \subseteq S
  <2> HIDE DEF S
  <2>1. QED BY <1>10, <1>11, SetInduction
<1>13. QED
  BY <1>1, <1>12

(* FirstInReadingOrder, for any values nested as deep as can be read.       *)
THEOREM FirstIsFound == Spec => []FirstInReadingOrder
<1>1. Init => FirstInReadingOrder
  BY DEF Init, Nothing, FirstInReadingOrder
<1>2. FirstInReadingOrder /\ [Next]_q => FirstInReadingOrder'
  <2> SUFFICES ASSUME FirstInReadingOrder, [Next]_q PROVE FirstInReadingOrder'
    OBVIOUS
  <2>1. CASE AskValue
    <3>1. PICK v \in Values : q' = [about |-> "value", value |-> v]
      BY <2>1 DEF AskValue
    <3>2. v \in Json[MaxNesting] /\ MaxNesting \in 0..MaxNesting
      BY ValuesAssumption, PagingAssumption
    <3>3. FirstOf(PageIn[MaxNesting][v], Signposts[MaxNesting][v])
      BY <3>2, FirstAtEveryDepth DEF RightSigns
    <3>4. QED BY <3>1, <3>3 DEF FirstInReadingOrder, PageFrom
  <2>2. CASE q' = q
    BY <2>2 DEF FirstInReadingOrder
  <2>3. CASE q' = Nothing
    BY <2>3 DEF FirstInReadingOrder, Nothing
  <2>4. CASE AskAuthorizer \/ AskBoard \/ AskForm \/ AskMail \/ AskSource
    BY <2>4, AboutWhat DEF FirstInReadingOrder
  <2>5. QED
    BY <2>1, <2>2, <2>3, <2>4 DEF Next, Ask
<1>3. QED
  BY <1>1, <1>2, PTL DEF Spec

-----------------------------------------------------------------------------
(* Of candidates of which one at most is a page, that one is taken.        *)
LEMMA OnlyPage ==
  ASSUME NEW n \in Nat, NEW c \in [1..n -> Nat], NEW i \in 1..n, \A j \in 1..n : j # i => c[j] = 0
  PROVE  FirstPage(c) = c[i]
BY FirstPageAmong

(* What is found in the values that a source of pages is made of.          *)
LEMMA LeafFound ==
  ASSUME NEW d \in 0..MaxNesting, NEW n \in Nat
  PROVE  Leaf(n) \in Json[d] /\ PageIn[d][Leaf(n)] = n /\ Leaf(n) # Missing
<1>1. Leaf(n) \in Scalars /\ IsLeaf(Leaf(n)) /\ Leaf(n).page = n
  BY ScalarsAre
<1>2. Leaf(n) \in Json[d]
  <2>1. CASE d = 0
    BY <1>1, <2>1, JsonByDepth
  <2>2. CASE d # 0
    <3>1. d \in 1..MaxNesting
      BY <2>2, PagingAssumption
    <3>2. QED BY <1>1, <3>1, LessDeep
  <2>3. QED BY <2>1, <2>2
<1>3. PageIn[d][Leaf(n)] = Find(Leaf(n), PageIn[d - 1])
  BY <1>2, SearchByDepth
<1>4. QED
  BY <1>1, <1>2, <1>3 DEF Find, IsLeaf, Missing

At(f, key, d) == IF f[key] = Missing THEN 0 ELSE PageIn[d][f[key]]

LEMMA ObjectFound ==
  ASSUME NEW d \in 1..MaxNesting, NEW f \in [Names -> Json[d - 1] \cup {Missing}]
  PROVE  /\ [fields |-> f] \in Json[d]
         /\ [fields |-> f] # Missing
         /\ [i \in 1..5 |-> At(f, Keys[i], d - 1)] \in [1..5 -> Nat]
         /\ PageIn[d][[fields |-> f]] = FirstPage([i \in 1..5 |-> At(f, Keys[i], d - 1)])
<1> DEFINE v == [fields |-> f]
<1>1. v \in Json[d]
  BY LessDeep DEF ObjectsOf
<1>2. ~IsLeaf(v) /\ ~IsArray(v) /\ v.fields = f /\ v # Missing
  BY DEF IsLeaf, IsArray, Missing
<1>3. d \in 0..MaxNesting /\ d - 1 \in 0..MaxNesting
  BY PagingAssumption
<1>4. PageIn[d][v] = Find(v, PageIn[d - 1])
  BY <1>1, <1>3, SearchByDepth
<1>5. DOMAIN Keys = 1..5 /\ \A i \in 1..5 : Keys[i] \in Names
  BY DEF Keys, Names
<1> HIDE DEF v
<1>6. Parts(v) = [i \in 1..5 |-> f[Keys[i]]]
  BY <1>2, <1>5 DEF Parts
<1>7. DOMAIN Parts(v) = 1..5 /\ \A i \in 1..5 : (i \in There(v) <=> f[Keys[i]] # Missing) /\ Parts(v)[i] = f[Keys[i]]
  BY <1>6 DEF There
<1>8. Candidates(v, PageIn[d - 1]) = [i \in 1..5 |-> At(f, Keys[i], d - 1)]
  BY <1>7 DEF Candidates, At
<1>9. PageIn[d - 1] \in [Json[d - 1] -> Nat]
  BY <1>3, SearchByDepth
<1>10. \A i \in 1..5 : At(f, Keys[i], d - 1) \in Nat
  BY <1>5, <1>9 DEF At
<1>11. PageIn[d][v] = FirstPage([i \in 1..5 |-> At(f, Keys[i], d - 1)])
  BY <1>2, <1>4, <1>8 DEF Find
<1>12. QED
  BY <1>1, <1>2, <1>10, <1>11 DEF v

(* An object in which one of the keys looked at says something.            *)
LEMMA OneKeySays ==
  ASSUME NEW d \in 1..MaxNesting, NEW f \in [Names -> Json[d - 1] \cup {Missing}], NEW k \in 1..5,
         \A i \in 1..5 : i # k => f[Keys[i]] = Missing
  PROVE  /\ [fields |-> f] \in Json[d] /\ [fields |-> f] # Missing
         /\ PageIn[d][[fields |-> f]] = At(f, Keys[k], d - 1)
<1> DEFINE c == [i \in 1..5 |-> At(f, Keys[i], d - 1)]
<1>1. c \in [1..5 -> Nat] /\ PageIn[d][[fields |-> f]] = FirstPage(c)
  BY ObjectFound
<1>2. c[k] = At(f, Keys[k], d - 1) /\ \A i \in 1..5 : i # k => c[i] = 0
  BY DEF At
<1> HIDE DEF c
<1>3. FirstPage(c) = c[k]
  BY <1>1, <1>2, OnlyPage
<1>4. QED
  BY <1>1, <1>2, <1>3, ObjectFound

LEMMA HrefFound ==
  ASSUME NEW d \in 1..MaxNesting, NEW n \in Nat
  PROVE  Href(n) \in Json[d] /\ PageIn[d][Href(n)] = n /\ Href(n) # Missing
<1> DEFINE f == [k \in Names |-> IF k = "href" THEN Leaf(n) ELSE Missing]
<1>1. Href(n) = [fields |-> f]
  <2>1. DOMAIN Say("href", Leaf(n)) = {"href"} /\ Say("href", Leaf(n))["href"] = Leaf(n)
    BY DEF Say
  <2>2. \A k \in Names : (IF k \in DOMAIN Say("href", Leaf(n)) THEN Say("href", Leaf(n))[k] ELSE Missing) = f[k]
    BY <2>1
  <2>3. QED BY <2>2 DEF Href, Object
<1>2. d - 1 \in 0..MaxNesting
  BY PagingAssumption
<1>3. Leaf(n) \in Json[d - 1] /\ PageIn[d - 1][Leaf(n)] = n /\ Leaf(n) # Missing
  BY <1>2, LeafFound
<1>4. f \in [Names -> Json[d - 1] \cup {Missing}]
  BY <1>3
<1>5. Keys[4] = "href" /\ "href" \in Names /\ \A i \in 1..5 : Keys[i] \in Names /\ (i # 4 => Keys[i] # "href")
  BY DEF Keys, Names
<1>6. f["href"] = Leaf(n) /\ \A i \in 1..5 : i # 4 => f[Keys[i]] = Missing
  BY <1>5
<1> HIDE DEF f
<1>7. PageIn[d][[fields |-> f]] = At(f, Keys[4], d - 1) /\ [fields |-> f] \in Json[d] /\ [fields |-> f] # Missing
  BY <1>4, <1>6, OneKeySays
<1>8. QED
  BY <1>1, <1>3, <1>5, <1>6, <1>7 DEF At

(* What is found under the keys of each style of pagination: the page that  *)
(* is next, none when there is none.                                       *)
LEMMA LinksFound ==
  ASSUME NEW p \in Nat, NEW more \in Nat, NEW n \in Nat
  PROVE  PageFrom(Links(p, more, n)) = more /\ Links(p, more, n) # Missing
<1> DEFINE d == MaxNesting
           keys == {"self", "last", IF more = 0 THEN "first" ELSE "next"}
           page(k) == CASE k = "self" -> p [] k = "next" -> more [] k \in {"first", "last"} -> n
           f == [k \in Names |-> IF k \in keys THEN Href(page(k)) ELSE Missing]
<1>1. d \in 1..MaxNesting /\ d - 1 \in 1..MaxNesting
  BY PagingAssumption
<1>2. Links(p, more, n) = [fields |-> f]
  <2> DEFINE g == [k \in keys |-> Href(page(k))]
  <2>1. Links(p, more, n) = Object(g)
    BY DEF Links
  <2>2. \A k \in Names : (IF k \in DOMAIN g THEN g[k] ELSE Missing) = f[k]
    <3> HIDE DEF page, keys
    <3>1. QED OBVIOUS
  <2> HIDE DEF g, f
  <2>3. Object(g) = [fields |-> [k \in Names |-> f[k]]]
    BY <2>2 DEF Object
  <2>4. f = [k \in Names |-> f[k]]
    BY DEF f
  <2>5. QED BY <2>1, <2>3, <2>4
<1>3. \A k \in keys : page(k) \in Nat
  OBVIOUS
<1>4. \A m \in Nat : Href(m) \in Json[d - 1] /\ PageIn[d - 1][Href(m)] = m /\ Href(m) # Missing
  BY <1>1, HrefFound
<1>5. f \in [Names -> Json[d - 1] \cup {Missing}]
  <2> HIDE DEF keys, page
  <2>1. QED BY <1>3, <1>4
<1>6. Keys[1] = "next" /\ \A i \in 1..5 : Keys[i] \in Names /\ (i # 1 => Keys[i] \notin {"next", "self", "last", "first"})
  BY DEF Keys, Names
<1>7. \A i \in 1..5 : i # 1 => f[Keys[i]] = Missing
  <2>1. \A i \in 1..5 : i # 1 => Keys[i] \notin keys
    BY <1>6
  <2> HIDE DEF keys
  <2>2. QED BY <1>6, <2>1
<1>8. f["next"] = IF more = 0 THEN Missing ELSE Href(more)
  <2>1. "next" \in Names /\ ("next" \in keys <=> more # 0) /\ page("next") = more
    BY DEF Names
  <2> HIDE DEF keys, page
  <2>2. QED BY <2>1
<1> HIDE DEF f
<1>9. PageIn[d][[fields |-> f]] = At(f, Keys[1], d - 1) /\ [fields |-> f] # Missing
  BY <1>1, <1>5, <1>7, OneKeySays
<1>10. At(f, Keys[1], d - 1) = more
  BY <1>4, <1>6, <1>8 DEF At
<1>11. QED
  BY <1>2, <1>9, <1>10 DEF PageFrom

LEMMA ArrayFound ==
  ASSUME NEW more \in Nat
  PROVE  LET v == [items |-> IF more = 0 THEN <<>> ELSE <<Leaf(more)>>]
         IN  PageFrom(v) = more /\ v # Missing
<1> DEFINE s == IF more = 0 THEN <<>> ELSE <<Leaf(more)>>
           v == [items |-> s]
           d == MaxNesting
<1>1. d \in 1..MaxNesting /\ d \in 0..MaxNesting /\ d - 1 \in 0..MaxNesting
  BY PagingAssumption
<1>2. Leaf(more) \in Json[d - 1] /\ PageIn[d - 1][Leaf(more)] = more /\ Leaf(more) # Missing
  BY <1>1, LeafFound
<1>3. s \in Seq(Json[d - 1])
  <2>1. \A S, l : l \in S => <<>> \in Seq(S) /\ <<l>> \in Seq(S)
    OBVIOUS
  <2>2. <<>> \in Seq(Json[d - 1]) /\ <<Leaf(more)>> \in Seq(Json[d - 1])
    <3> HIDE DEF d
    <3>1. QED BY <1>2, <2>1
  <2>3. QED BY <2>2
<1>4. v \in Json[d]
  <2>1. v \in ArraysOf(Json[d - 1])
    BY <1>3 DEF ArraysOf
  <2>2. QED BY <1>1, <2>1, LessDeep
<1>5. ~IsLeaf(v) /\ IsArray(v) /\ v # Missing /\ Parts(v) = s
  BY DEF IsLeaf, IsArray, Missing, Parts
<1>6. PageIn[d][v] = FirstPage(Candidates(v, PageIn[d - 1]))
  BY <1>1, <1>4, <1>5, SearchByDepth DEF Find
<1> HIDE DEF v
<1>7. CASE more = 0
  <2>1. Candidates(v, PageIn[d - 1]) \in [1..0 -> Nat]
    BY <1>5, <1>7 DEF Candidates
  <2>2. FirstPage(Candidates(v, PageIn[d - 1])) = 0
    BY <2>1, FirstPageAmong
  <2>3. QED BY <1>5, <1>6, <1>7, <2>2 DEF PageFrom, v
<1>8. CASE more # 0
  <2>1. DOMAIN Parts(v) = 1..1 /\ Parts(v)[1] = Leaf(more)
    BY <1>5, <1>8
  <2>2. 1 \in There(v)
    BY <1>2, <2>1 DEF There
  <2> DEFINE c == Candidates(v, PageIn[d - 1])
  <2>3. c \in [1..1 -> Nat] /\ c[1] = more
    BY <1>2, <2>1, <2>2 DEF Candidates
  <2> HIDE DEF c
  <2>4. 1 \in Nat /\ 1 \in 1..1 /\ \A j \in 1..1 : j # 1 => c[j] = 0
    OBVIOUS
  <2>5. FirstPage(c) = c[1]
    BY <2>3, <2>4, OnlyPage
  <2>6. QED BY <1>5, <1>6, <2>3, <2>5 DEF PageFrom, v, c
<1>9. QED
  BY <1>7, <1>8

LEMMA LeafPage ==
  ASSUME NEW n \in Nat
  PROVE  PageFrom(Leaf(n)) = n /\ Leaf(n) # Missing
<1>1. MaxNesting \in 0..MaxNesting
  BY PagingAssumption
<1>2. QED
  BY <1>1, LeafFound DEF PageFrom

LEMMA MetaFound ==
  ASSUME NEW p \in Nat, NEW more \in Nat
  PROVE  FromMeta(Meta(p, more)) = more
<1> DEFINE keys == {"page"} \cup (IF more = 0 THEN {} ELSE {"next_page"})
           g == [k \in keys |-> Leaf(IF k = "page" THEN p ELSE more)]
           f == [k \in Names |-> IF k \in keys THEN g[k] ELSE Missing]
<1>1. Meta(p, more) = [fields |-> f]
  <2>1. Meta(p, more) = Object(g)
    BY DEF Meta
  <2>2. DOMAIN g = keys
    OBVIOUS
  <2> HIDE DEF g
  <2>3. QED BY <2>1, <2>2 DEF Object
<1>2. DOMAIN f = Names /\ "next_page" \in Names /\ "next" \in Names
  BY DEF Names
<1>3. f["next"] = Missing
  BY <1>2
<1>4. f["next_page"] = IF more = 0 THEN Missing ELSE Leaf(more)
  BY <1>2
<1> HIDE DEF f
<1>5. Field(f, "next_page") = more
  BY <1>2, <1>4, LeafPage DEF Field
<1>6. Field(f, "next") = 0
  BY <1>3 DEF Field
<1>7. FirstPage(<<more, 0>>) = more
  <2> DEFINE c == <<more, 0>>
  <2>1. c \in [1..2 -> Nat] /\ c[1] = more /\ \A j \in 1..2 : j # 1 => c[j] = 0
    OBVIOUS
  <2> HIDE DEF c
  <2>2. 2 \in Nat /\ 1 \in 1..2
    OBVIOUS
  <2>3. FirstPage(c) = c[1]
    BY <2>1, <2>2, OnlyPage
  <2>4. QED BY <2>1, <2>3 DEF c
<1>8. IsObject([fields |-> f]) /\ [fields |-> f].fields = f
  BY DEF IsObject
<1>9. QED
  BY <1>1, <1>5, <1>6, <1>7, <1>8 DEF FromMeta

(* Of a body with one of the keys that are looked at.                      *)
LEMMA OneField ==
  ASSUME NEW key, NEW v, v # Missing, NEW other
  PROVE  /\ Field(Say(key, v), other) = IF other = key THEN PageFrom(v) ELSE 0
         /\ "meta" \in DOMAIN Say(key, v) <=> key = "meta"
         /\ Say(key, v)[key] = v
<1>1. DOMAIN Say(key, v) = {key} /\ Say(key, v)[key] = v
  BY DEF Say
<1>2. QED
  BY <1>1 DEF Field

(* findNextPage finds the page after each of a source, in every style.     *)
LEMMA NextOne ==
  ASSUME NEW s \in Styles, NEW n \in Nat, NEW p \in 1..n, NEW broken
  PROVE  NextPage(Response(s, p, n, broken)) = IF p < n THEN p + 1 ELSE 0
<1> DEFINE more == IF p < n THEN p + 1 ELSE 0
           r == Response(s, p, n, broken)
           body == Body(s, p, more, n)
           link == IF s = "header" THEN more ELSE 0
           c == <<Field(body, "next_page"), Field(body, "next"),
                  Field(body, "_links"), Field(body, "links"),
                  IF "meta" \in DOMAIN body THEN FromMeta(body["meta"]) ELSE 0, link>>
<1>1. more \in Nat /\ p \in Nat
  OBVIOUS
<1>2. r.body = body /\ r.link = link
  BY DEF Response
<1>3. NextPage(r) = FirstPage(c)
  <2> HIDE DEF r, body, link
  <2>1. QED BY <1>2 DEF NextPage
<1> SUFFICES FirstPage(c) = more
  BY <1>3
<1> HIDE DEF more, r
<1>4. ASSUME NEW i \in 1..6, c[i] = more, \A j \in 1..6 : j # i => c[j] = 0
      PROVE  FirstPage(c) = more
  <2>1. DOMAIN c = 1..6 /\ c = [j \in 1..6 |-> c[j]]
    <3> HIDE DEF body, link
    <3>1. QED OBVIOUS
  <2> HIDE DEF c
  <2>2. c \in [1..6 -> Nat]
    BY <1>1, <1>4, <2>1
  <2>3. QED BY <1>4, <2>2, OnlyPage
<1>5. CASE s = "next_page"
  <2>1. body = Say("next_page", Leaf(more)) /\ link = 0
    BY <1>5 DEF Body
  <2> HIDE DEF body, link
  <2>2. c[1] = more /\ \A j \in 1..6 : j # 1 => c[j] = 0
    BY <1>1, <2>1, LeafPage, OneField
  <2> HIDE DEF c
  <2>3. QED BY <1>4, <2>2
<1>6. CASE s = "next"
  <2>1. body = Say("next", Leaf(more)) /\ link = 0
    BY <1>6 DEF Body
  <2> HIDE DEF body, link
  <2>2. c[2] = more /\ \A j \in 1..6 : j # 2 => c[j] = 0
    BY <1>1, <2>1, LeafPage, OneField
  <2> HIDE DEF c
  <2>3. QED BY <1>4, <2>2
<1>7. CASE s = "_links"
  <2>1. body = Say("_links", Links(p, more, n)) /\ link = 0
    BY <1>7 DEF Body
  <2> HIDE DEF body, link
  <2>2. c[3] = more /\ \A j \in 1..6 : j # 3 => c[j] = 0
    BY <1>1, <2>1, LinksFound, OneField
  <2> HIDE DEF c
  <2>3. QED BY <1>4, <2>2
<1>8. CASE s = "links"
  <2>1. body = Say("links", [items |-> IF more = 0 THEN <<>> ELSE <<Leaf(more)>>]) /\ link = 0
    BY <1>8 DEF Body
  <2> HIDE DEF body, link
  <2>2. c[4] = more /\ \A j \in 1..6 : j # 4 => c[j] = 0
    BY <1>1, <2>1, ArrayFound, OneField
  <2> HIDE DEF c
  <2>3. QED BY <1>4, <2>2
<1>9. CASE s = "meta"
  <2>1. body = Say("meta", Meta(p, more)) /\ link = 0
    BY <1>9 DEF Body
  <2>2. Meta(p, more) # Missing
    BY DEF Meta, Object, Missing
  <2> HIDE DEF body, link
  <2>3. c[5] = more /\ \A j \in 1..6 : j # 5 => c[j] = 0
    BY <1>1, <2>1, <2>2, MetaFound, OneField
  <2> HIDE DEF c
  <2>4. QED BY <1>4, <2>3
<1>10. CASE s = "header"
  <2>1. DOMAIN body = {} /\ link = more
    BY <1>10 DEF Body
  <2> HIDE DEF body, link
  <2>2. c[6] = more /\ \A j \in 1..6 : j # 6 => c[j] = 0
    BY <2>1 DEF Field
  <2> HIDE DEF c
  <2>3. QED BY <1>4, <2>2
<1> HIDE DEF c
<1>11. QED
  BY <1>5, <1>6, <1>7, <1>8, <1>9, <1>10 DEF Styles

-----------------------------------------------------------------------------
(* Of the two items of a page the first is usable.                         *)
LEMMA FirstPicked ==
  ASSUME NEW a, NEW b
  PROVE  Picked(<<a, b>>, {1}) = <<a>>
<1> DEFINE s == <<a, b>>
           r == Picked(s, {1})
<1>1. s \in Seq({a, b}) /\ Len(s) = 2 /\ s[1] = a
  OBVIOUS
<1> HIDE DEF s
<1>2. {1} \in SUBSET (1..Len(s))
  BY <1>1
<1>3. r \in Seq({a, b}) /\ Len(r) = Cardinality({1}) /\ ToSet(r) = {s[i] : i \in {1}}
  BY <1>1, <1>2, PickedInOrder, PickedAll
<1>4. Cardinality({1}) = 1
  BY FS_Singleton
<1> HIDE DEF r
<1>5. Len(r) = 1 /\ DOMAIN r = 1..1 /\ ToSet(r) = {a}
  BY <1>1, <1>3, <1>4
<1>6. r[1] = a
  BY <1>5 DEF ToSet
<1>7. r = <<a>>
  BY <1>3, <1>5, <1>6
<1>8. QED
  BY <1>7 DEF r, s

LEMMA ItemsUsed ==
  ASSUME NEW p \in Nat \ {0}
  PROVE  /\ ShowsOf(ItemsOf(p)) = <<[id |-> Digits(p), title |-> Words(p)]>>
         /\ PersonasOf(ItemsOf(p)) = <<[id |-> p, name |-> Words(p), email |-> Words(p)]>>
<1> DEFINE first == Item(Digits(p), Words(p))
           second == Item(Absent, Words(p))
<1>1. /\ ~IsText(Absent) /\ ~IsNumber(Absent) /\ ~Readable(Empty)
      /\ IsText(Digits(p)) /\ Readable(Digits(p)) /\ Digits(p).digits = p /\ Digits(p) # Empty
      /\ IsText(Words(p)) /\ Words(p) # Empty
  BY DEF Readable, IsText, IsNumber, Words, Digits, Absent, Empty
<1>2. /\ first.id = Digits(p) /\ second.id = Absent
      /\ first.title = Words(p) /\ first.email = Words(p)
  BY DEF Item
<1>3. ItemsOf(p) = <<first, second>>
  BY DEF ItemsOf
<1>4. NormalizeID(first.id) = Digits(p) /\ NormalizeID(second.id) = Empty
  BY <1>1, <1>2 DEF NormalizeID
<1>5. NormalizeTitle(first) = Words(p)
  <2> DEFINE fields == <<first.title, first.name, first.display_name>>
             named == {i \in 1..3 : IsText(fields[i]) /\ fields[i] # Empty}
  <2>1. fields[1] = Words(p)
    BY <1>2
  <2> HIDE DEF fields
  <2>2. 1 \in named /\ named \in SUBSET Nat /\ \A i \in named : 1 <= i
    BY <1>1, <2>1
  <2>3. Min(named) \in named /\ Min(named) <= 1
    <3> HIDE DEF named
    <3>1. QED BY <2>2, LeastOf
  <2>4. Min(named) = 1
    BY <2>2, <2>3
  <2>5. NormalizeTitle(first) = fields[Min(named)]
    BY <2>2 DEF NormalizeTitle, fields
  <2>6. QED BY <2>1, <2>4, <2>5
<1> HIDE DEF first, second
<1> DEFINE items == <<first, second>>
<1>6. DOMAIN items = {1, 2} /\ items[1] = first /\ items[2] = second
  OBVIOUS
<1>7. Picked(items, {1}) = <<first>>
  BY FirstPicked
<1> HIDE DEF items
<1>8. /\ {i \in DOMAIN items : NormalizeID(items[i].id) # Empty} = {1}
      /\ {i \in DOMAIN items : Readable(NormalizeID(items[i].id))} = {1}
  BY <1>1, <1>4, <1>6
<1>9. ShowsOf(items) = [i \in {1} |-> [id |-> Digits(p), title |-> Words(p)]]
  <2>1. ShowsOf(items) = [i \in DOMAIN <<first>> |-> [id    |-> NormalizeID(<<first>>[i].id),
                                                      title |-> NormalizeTitle(<<first>>[i])]]
    BY <1>7, <1>8 DEF ShowsOf
  <2>2. DOMAIN <<first>> = {1} /\ <<first>>[1] = first
    OBVIOUS
  <2>3. QED BY <1>4, <1>5, <2>1, <2>2
<1>10. PersonasOf(items) = [i \in {1} |-> [id |-> p, name |-> Words(p), email |-> Words(p)]]
  <2>1. PersonasOf(items) = [i \in DOMAIN <<first>> |->
          [id    |-> NormalizeID(<<first>>[i].id).digits,
           name  |-> NormalizeTitle(<<first>>[i]),
           email |-> IF IsText(<<first>>[i].email) THEN <<first>>[i].email ELSE Empty]]
    BY <1>7, <1>8 DEF PersonasOf
  <2>2. DOMAIN <<first>> = {1} /\ <<first>>[1] = first
    OBVIOUS
  <2>3. QED BY <1>1, <1>2, <1>4, <1>5, <2>1, <2>2
<1>11. \A x : [i \in {1} |-> x] = <<x>>
  OBVIOUS
<1>12. items = ItemsOf(p)
  BY <1>3 DEF items
<1>13. QED
  BY <1>9, <1>10, <1>11, <1>12

(* Each page of a source, as the client hands it to the walk.              *)
LEMMA PageGot ==
  ASSUME NEW s \in Styles, NEW n \in Nat, NEW p \in 1..n, NEW broken \in Nat
  PROVE  LET r    == Response(s, p, n, broken)
             next == IF p < n THEN p + 1 ELSE 0
         IN  /\ GetShowsPage(r) = IF p = broken THEN Failure
                                  ELSE Page(<<[id |-> Digits(p), title |-> Words(p)]>>, next)
             /\ GetPersonasPage(r) = IF p = broken THEN Failure
                                     ELSE Page(<<[id |-> p, name |-> Words(p), email |-> Words(p)]>>, next)
<1> DEFINE r    == Response(s, p, n, broken)
           next == IF p < n THEN p + 1 ELSE 0
           key  == IF s = "meta" THEN "data" ELSE "items"
           list == [malformed |-> FALSE, items |-> ItemsOf(p)]
<1>1. r.status = (IF p = broken THEN 500 ELSE 200) /\ r.lists = Say(key, list)
  BY DEF Response
<1>2. NextPage(r) = next
  BY NextOne
<1> HIDE DEF r, next
<1>3. DOMAIN r.lists = {key} /\ r.lists[key] = list
  BY <1>1 DEF Say
<1>4. {"items", "data"} \cap DOMAIN r.lists = {key} /\ key \in {"items", "data"}
  BY <1>3
<1>5. TheList(r) = list
  BY <1>3, <1>4 DEF TheList
<1>6. 200 \in 200..299 /\ 500 \notin 200..299
  OBVIOUS
<1>7. ASSUME NEW items
      PROVE  PageOf(r, items) = IF p = broken THEN Failure ELSE Page(items, next)
  <2>1. r.status \notin 200..299 <=> p = broken
    BY <1>1, <1>6
  <2>2. ~TheList(r).malformed
    BY <1>5
  <2>3. {"items", "data"} \cap DOMAIN r.lists # {}
    BY <1>4
  <2>4. QED BY <1>2, <2>1, <2>2, <2>3 DEF PageOf
<1>8. TheList(r).items = ItemsOf(p)
  BY <1>5
<1>9. p \in Nat \ {0}
  OBVIOUS
<1>10. QED
  BY <1>7, <1>8, <1>9, ItemsUsed DEF GetShowsPage, GetPersonasPage, r, next

-----------------------------------------------------------------------------
(* What is left to read of n pages, one item each, from a page on, when so  *)
(* many may be read and some of them fail.                                 *)
RestOf(it, n, bad, page, left) ==
  IF (\E b \in bad : b >= page) \/ left < n - page + 1 THEN Failure
  ELSE Page([i \in 1..(n - page + 1) |-> it[page + i - 1]], 0)

Expected(it, n, bad, left) == [page \in 1..n |-> RestOf(it, n, bad, page, left)]

LEMMA OneInFront ==
  ASSUME NEW n \in Nat, NEW it, NEW page \in 1..n, page < n
  PROVE  <<it[page]>> \o [i \in 1..(n - page) |-> it[page + 1 + i - 1]]
           = [i \in 1..(n - page + 1) |-> it[page + i - 1]]
<1> DEFINE S == {it[k] : k \in 1..n}
           a == <<it[page]>>
           b == [i \in 1..(n - page) |-> it[page + 1 + i - 1]]
           c == [i \in 1..(n - page + 1) |-> it[page + i - 1]]
<1>1. n - page \in Nat /\ n - page + 1 \in Nat
  OBVIOUS
<1>2. a \in Seq(S) /\ Len(a) = 1 /\ a[1] = it[page]
  OBVIOUS
<1>3. b \in Seq(S) /\ Len(b) = n - page
  <2>1. \A i \in 1..(n - page) : it[page + 1 + i - 1] \in S
    OBVIOUS
  <2> HIDE DEF S
  <2>2. QED BY <1>1, <2>1
<1>4. c \in Seq(S) /\ Len(c) = n - page + 1
  <2>1. \A i \in 1..(n - page + 1) : it[page + i - 1] \in S
    OBVIOUS
  <2> HIDE DEF S
  <2>2. QED BY <1>1, <2>1
<1>5. \A i \in 1..(n - page) : b[i] = it[page + i]
  <2>1. \A i \in 1..(n - page) : page + 1 + i - 1 = page + i
    OBVIOUS
  <2>2. QED BY <2>1
<1>6. \A i \in 1..(n - page + 1) : c[i] = it[page + i - 1]
  OBVIOUS
<1> HIDE DEF S, a, b, c
<1>7. /\ a \o b \in Seq(S) /\ Len(a \o b) = n - page + 1
      /\ \A i \in 1..(n - page + 1) : (a \o b)[i] = IF i <= 1 THEN a[i] ELSE b[i - 1]
  <2>1. /\ a \o b \in Seq(S) /\ Len(a \o b) = Len(a) + Len(b)
        /\ \A i \in 1..(Len(a) + Len(b)) : (a \o b)[i] = IF i <= Len(a) THEN a[i] ELSE b[i - Len(a)]
    BY <1>2, <1>3, ConcatProperties
  <2>2. Len(a) + Len(b) = n - page + 1
    BY <1>1, <1>2, <1>3
  <2>3. QED BY <1>2, <2>1, <2>2
<1>8. ASSUME NEW i \in 1..(n - page + 1) PROVE (a \o b)[i] = c[i]
  <2>1. CASE i = 1
    <3>1. (a \o b)[1] = a[1]
      BY <1>7, <2>1
    <3>2. c[1] = it[page]
      <4>1. page + 1 - 1 = page /\ 1 \in 1..(n - page + 1)
        BY <1>1
      <4>2. QED BY <1>6, <4>1
    <3>3. QED BY <1>2, <2>1, <3>1, <3>2
  <2>2. CASE i # 1
    <3>1. i - 1 \in 1..(n - page) /\ page + (i - 1) = page + i - 1
      BY <1>1, <2>2
    <3>2. (a \o b)[i] = b[i - 1]
      BY <1>7, <2>2
    <3>3. QED BY <1>5, <1>6, <3>1, <3>2
  <2>3. QED BY <2>1, <2>2
<1>9. a \o b = c
  BY <1>1, <1>4, <1>7, <1>8, SeqEqual
<1>10. QED
  BY <1>9 DEF a, b, c

(* One step back in the walk.                                              *)
LEMMA OneBack ==
  ASSUME NEW n \in Nat \ {0}, NEW it, NEW bad \in SUBSET (1..n), NEW page \in 1..n, NEW left \in Nat, NEW rest,
         left > 0 => rest = Expected(it, n, bad, left - 1), NEW source,
         \A p \in 1..n : source[p] = IF p \in bad THEN Failure
                                     ELSE Page(<<it[p]>>, IF p < n THEN p + 1 ELSE 0)
  PROVE  ReadOn(source, page, left, rest) = RestOf(it, n, bad, page, left)
<1> DEFINE next == source[page].next
<1>1. /\ Failure.failed = TRUE
      /\ \A items, k : /\ Page(items, k).failed = FALSE
                       /\ Page(items, k).items = items /\ Page(items, k).next = k
  BY DEF Failure, Page
<1>2. CASE left = 0 \/ page \in bad
  <2>1. left = 0 \/ source[page].failed
    BY <1>1, <1>2
  <2>2. ReadOn(source, page, left, rest) = Failure
    BY <2>1 DEF ReadOn
  <2>3. (\E b \in bad : b >= page) \/ left < n - page + 1
    BY <1>2
  <2>4. QED BY <2>2, <2>3 DEF RestOf
<1>3. CASE left > 0 /\ page \notin bad
  <2>1. source[page] = Page(<<it[page]>>, IF page < n THEN page + 1 ELSE 0)
    BY <1>3
  <2>2. ~source[page].failed /\ source[page].items = <<it[page]>> /\ next = IF page < n THEN page + 1 ELSE 0
    BY <1>1, <2>1
  <2> HIDE DEF next
  <2>3. ReadOn(source, page, left, rest) =
          IF next = 0 THEN Page(<<it[page]>>, 0)
          ELSE IF rest[next].failed THEN Failure
          ELSE Page(<<it[page]>> \o rest[next].items, 0)
    BY <1>3, <2>2 DEF ReadOn, next
  <2>4. CASE page = n
    <3>1. ~(\E b \in bad : b >= page) /\ ~(left < n - page + 1) /\ n - page + 1 = 1
      BY <1>3, <2>4
    <3>2. [i \in 1..1 |-> it[page + i - 1]] = <<it[page]>>
      <4>1. \A i \in 1..1 : page + i - 1 = page
        OBVIOUS
      <4>2. [i \in 1..1 |-> it[page + i - 1]] = [i \in 1..1 |-> it[page]]
        BY <4>1
      <4>3. \A x : [i \in 1..1 |-> x] = <<x>>
        OBVIOUS
      <4>4. QED BY <4>2, <4>3
    <3>3. RestOf(it, n, bad, page, left) = Page(<<it[page]>>, 0)
      <4>1. RestOf(it, n, bad, page, left) = Page([i \in 1..(n - page + 1) |-> it[page + i - 1]], 0)
        BY <3>1 DEF RestOf
      <4>2. QED BY <3>1, <3>2, <4>1
    <3>4. next = 0
      BY <2>2, <2>4
    <3>5. QED BY <2>3, <3>3, <3>4
  <2>5. CASE page < n
    <3>1. next = page + 1 /\ next \in 1..n /\ next # 0
      BY <2>2, <2>5
    <3>2. rest[next] = RestOf(it, n, bad, page + 1, left - 1)
      BY <1>3, <3>1 DEF Expected
    <3>3. /\ (\E b \in bad : b >= page) <=> (\E b \in bad : b >= page + 1)
          /\ left < n - page + 1 <=> left - 1 < n - (page + 1) + 1
          /\ n - (page + 1) + 1 = n - page
      BY <1>3
    <3>4. CASE (\E b \in bad : b >= page) \/ left < n - page + 1
      <4>1. rest[next] = Failure
        BY <3>2, <3>3, <3>4 DEF RestOf
      <4>2. QED BY <1>1, <2>3, <3>1, <3>4, <4>1 DEF RestOf
    <3>5. CASE ~((\E b \in bad : b >= page) \/ left < n - page + 1)
      <4> DEFINE tail  == [i \in 1..(n - page) |-> it[page + 1 + i - 1]]
                 whole == [i \in 1..(n - page + 1) |-> it[page + i - 1]]
      <4>1. rest[next] = Page(tail, 0) /\ RestOf(it, n, bad, page, left) = Page(whole, 0)
        BY <3>2, <3>3, <3>5 DEF RestOf
      <4>2. <<it[page]>> \o tail = whole
        BY <2>5, OneInFront
      <4> HIDE DEF tail, whole
      <4>3. rest[next].failed = FALSE /\ rest[next].items = tail
        BY <1>1, <4>1
      <4>4. ReadOn(source, page, left, rest) = Page(<<it[page]>> \o tail, 0)
        BY <2>3, <3>1, <4>3
      <4>5. QED BY <4>1, <4>2, <4>4
    <3>6. QED BY <3>4, <3>5
  <2>6. QED BY <2>4, <2>5
<1>4. QED
  BY <1>2, <1>3

(* The walk reads all the pages, if none fails and there are not too many.  *)
LEMMA WalkReads ==
  ASSUME NEW n \in Nat \ {0}, NEW it, NEW bad \in SUBSET (1..n), NEW source, DOMAIN source = 1..n,
         \A p \in 1..n : source[p] = IF p \in bad THEN Failure
                                     ELSE Page(<<it[p]>>, IF p < n THEN p + 1 ELSE 0)
  PROVE  Walk(source) = RestOf(it, n, bad, 1, MaxPages)
<1> DEFINE N == MaxPages
           Whole(g) == [left \in 0..N |-> [page \in DOMAIN source |-> ReadOn(source, page, left, g[left - 1])]]
           from == CHOOSE g : g = Whole(g)
           E(left) == Expected(it, n, bad, left)
           h == [left \in 0..N |-> E(left)]
           Right == {k \in Nat : k <= N => from[k] = E(k)}
<1>1. N \in Nat
  BY PagingAssumption
<1>2. Walk(source) = from[N][1]
  BY DEF Walk
<1>3. ASSUME NEW left \in Nat, NEW rest, left > 0 => rest = E(left - 1)
      PROVE  [page \in DOMAIN source |-> ReadOn(source, page, left, rest)] = E(left)
  <2>1. \A page \in 1..n : ReadOn(source, page, left, rest) = RestOf(it, n, bad, page, left)
    BY <1>3, OneBack
  <2>2. QED BY <2>1 DEF Expected
<1> HIDE DEF E
<1>4. h = Whole(h)
  <2>1. ASSUME NEW left \in 0..N
        PROVE  E(left) = [page \in DOMAIN source |-> ReadOn(source, page, left, h[left - 1])]
    <3>1. left \in Nat /\ (left > 0 => left - 1 \in 0..N)
      BY <1>1
    <3>2. left > 0 => h[left - 1] = E(left - 1)
      BY <3>1
    <3> HIDE DEF h
    <3>3. QED BY <1>3, <3>1, <3>2
  <2>2. h = [left \in 0..N |-> E(left)]
    OBVIOUS
  <2> HIDE DEF h
  <2>3. QED BY <2>1, <2>2
<1>5. from = Whole(from)
  <2> HIDE DEF Whole, h
  <2>1. QED BY <1>4
<1> HIDE DEF from
<1>6. \A left \in 0..N : from[left] = [page \in DOMAIN source |-> ReadOn(source, page, left, from[left - 1])]
  BY <1>5
<1>7. 0 \in Right
  <2>1. from[0] = [page \in DOMAIN source |-> ReadOn(source, page, 0, from[0 - 1])]
    BY <1>1, <1>6
  <2>2. from[0] = E(0)
    BY <1>3, <2>1
  <2>3. QED BY <2>2
<1>8. ASSUME NEW k \in Nat, k \in Right PROVE k + 1 \in Right
  <2> SUFFICES ASSUME k + 1 <= N PROVE from[k + 1] = E(k + 1)
    OBVIOUS
  <2>1. k + 1 \in 0..N /\ k + 1 \in Nat /\ (k + 1) - 1 = k /\ k <= N
    BY <1>1
  <2>2. from[k] = E((k + 1) - 1)
    BY <1>8, <2>1
  <2>3. from[k + 1] = [page \in DOMAIN source |-> ReadOn(source, page, k + 1, from[k])]
    BY <1>6, <2>1
  <2>4. QED BY <1>3, <2>1, <2>2, <2>3
<1>9. Nat \subseteq Right
  <2> HIDE DEF Right
  <2>1. QED BY <1>7, <1>8, SetInduction
<1>10. from[N] = E(N)
  BY <1>1, <1>9
<1>11. QED
  BY <1>2, <1>10 DEF E, Expected

(* Every source is read as it should be. *)
LEMMA WholeRead ==
  ASSUME NEW s \in Styles, NEW n \in Nat \ {0}, NEW broken \in Nat
  PROVE  ReadWhole(s, n, broken)
<1> DEFINE bad == {broken} \cap 1..n
           show == [p \in 1..n |-> [id |-> Digits(p), title |-> Words(p)]]
           persona == [p \in 1..n |-> [id |-> p, name |-> Words(p), email |-> Words(p)]]
           shows == [p \in 1..n |-> GetShowsPage(Response(s, p, n, broken))]
           personas == [p \in 1..n |-> GetPersonasPage(Response(s, p, n, broken))]
<1>1. \A p \in 1..n : shows[p] = IF p \in bad THEN Failure
                                 ELSE Page(<<show[p]>>, IF p < n THEN p + 1 ELSE 0)
  <2> SUFFICES ASSUME NEW p \in 1..n
               PROVE  shows[p] = IF p \in bad THEN Failure
                                 ELSE Page(<<show[p]>>, IF p < n THEN p + 1 ELSE 0)
    OBVIOUS
  <2>1. (p \in bad <=> p = broken) /\ show[p] = [id |-> Digits(p), title |-> Words(p)]
        /\ shows[p] = GetShowsPage(Response(s, p, n, broken))
    OBVIOUS
  <2>2. GetShowsPage(Response(s, p, n, broken)) =
          IF p = broken THEN Failure
          ELSE Page(<<[id |-> Digits(p), title |-> Words(p)]>>, IF p < n THEN p + 1 ELSE 0)
    BY PageGot
  <2> HIDE DEF bad, show, shows
  <2>3. QED BY <2>1, <2>2
<1>2. \A p \in 1..n : personas[p] = IF p \in bad THEN Failure
                                    ELSE Page(<<persona[p]>>, IF p < n THEN p + 1 ELSE 0)
  <2> SUFFICES ASSUME NEW p \in 1..n
               PROVE  personas[p] = IF p \in bad THEN Failure
                                    ELSE Page(<<persona[p]>>, IF p < n THEN p + 1 ELSE 0)
    OBVIOUS
  <2>1. (p \in bad <=> p = broken) /\ persona[p] = [id |-> p, name |-> Words(p), email |-> Words(p)]
        /\ personas[p] = GetPersonasPage(Response(s, p, n, broken))
    OBVIOUS
  <2>2. GetPersonasPage(Response(s, p, n, broken)) =
          IF p = broken THEN Failure
          ELSE Page(<<[id |-> p, name |-> Words(p), email |-> Words(p)]>>, IF p < n THEN p + 1 ELSE 0)
    BY PageGot
  <2> HIDE DEF bad, persona, personas
  <2>3. QED BY <2>1, <2>2
<1>3. DOMAIN shows = 1..n /\ DOMAIN personas = 1..n
  OBVIOUS
<1>4. bad \in SUBSET (1..n) /\ (bad # {} <=> broken \in 1..n) /\ \A b \in bad : b >= 1
  OBVIOUS
<1>5. /\ DOMAIN show = 1..n /\ show = [p \in 1..n |-> show[p]]
      /\ DOMAIN persona = 1..n /\ persona = [p \in 1..n |-> persona[p]]
  OBVIOUS
<1>6. ReadWhole(s, n, broken) =
        IF broken \in 1..n \/ n > MaxPages THEN Walk(shows).failed /\ Walk(personas).failed
        ELSE /\ ~Walk(shows).failed /\ ~Walk(personas).failed
             /\ Walk(shows).items = show /\ Walk(personas).items = persona
  BY DEF ReadWhole
<1> HIDE DEF bad, show, persona, shows, personas
<1>7. Walk(shows) = RestOf(show, n, bad, 1, MaxPages) /\ Walk(personas) = RestOf(persona, n, bad, 1, MaxPages)
  BY <1>1, <1>2, <1>3, <1>4, WalkReads
<1>8. (\E b \in bad : b >= 1) \/ MaxPages < n - 1 + 1 <=> broken \in 1..n \/ n > MaxPages
  <2>1. n - 1 + 1 = n /\ (MaxPages < n <=> n > MaxPages)
    BY PagingAssumption
  <2>2. (\E b \in bad : b >= 1) <=> broken \in 1..n
    BY <1>4
  <2>3. QED BY <2>1, <2>2
<1>9. \A it : [i \in 1..(n - 1 + 1) |-> it[1 + i - 1]] = [i \in 1..n |-> it[i]]
  <2>1. n - 1 + 1 = n /\ \A i \in 1..n : 1 + i - 1 = i
    OBVIOUS
  <2>2. QED BY <2>1
<1>10. /\ Failure.failed = TRUE
       /\ \A items, k : Page(items, k).failed = FALSE /\ Page(items, k).items = items
  BY DEF Failure, Page
<1>11. \A it : RestOf(it, n, bad, 1, MaxPages) =
                 IF broken \in 1..n \/ n > MaxPages THEN Failure ELSE Page([i \in 1..n |-> it[i]], 0)
  BY <1>8, <1>9 DEF RestOf
<1>12. CASE broken \in 1..n \/ n > MaxPages
  BY <1>6, <1>7, <1>10, <1>11, <1>12
<1>13. CASE ~(broken \in 1..n \/ n > MaxPages)
  <2>1. Walk(shows) = Page(show, 0) /\ Walk(personas) = Page(persona, 0)
    BY <1>5, <1>7, <1>11, <1>13
  <2>2. QED BY <1>6, <1>10, <1>13, <2>1
<1>14. QED
  BY <1>12, <1>13

(* EveryPageOnce, for any limit on the pages and sources of any length up   *)
(* to one page more: a list is whole, or there is none.                    *)
THEOREM EveryPageRead == Spec => []EveryPageOnce
<1>1. Init => EveryPageOnce
  BY DEF Init, Nothing, EveryPageOnce
<1>2. EveryPageOnce /\ [Next]_q => EveryPageOnce'
  <2> SUFFICES ASSUME EveryPageOnce, [Next]_q PROVE EveryPageOnce'
    OBVIOUS
  <2>1. CASE AskSource
    <3>1. PICK s \in Styles, n \in 1..(MaxPages + 1), broken \in 0..(MaxPages + 1) :
                 q' = [about |-> "source", style |-> s, length |-> n, broken |-> broken]
      BY <2>1 DEF AskSource
    <3>2. n \in Nat \ {0} /\ broken \in Nat
      BY PagingAssumption
    <3>3. ReadWhole(s, n, broken)
      BY <3>2, WholeRead
    <3>4. q'.style = s /\ q'.length = n /\ q'.broken = broken
      BY <3>1
    <3>5. QED BY <3>3, <3>4 DEF EveryPageOnce
  <2>2. CASE q' = q
    BY <2>2 DEF EveryPageOnce
  <2>3. CASE q' = Nothing
    BY <2>3 DEF EveryPageOnce, Nothing
  <2>4. CASE AskAuthorizer \/ AskBoard \/ AskForm \/ AskMail \/ AskValue
    BY <2>4, AboutWhat DEF EveryPageOnce
  <2>5. QED
    BY <2>1, <2>2, <2>3, <2>4 DEF Next, Ask
<1>3. QED
  BY <1>1, <1>2, PTL DEF Spec
=============================================================================
