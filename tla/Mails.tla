-------------------------------- MODULE Mails --------------------------------
(***************************************************************************)
(* How a mail is composed and handed to a provider                         *)
(* (internal/adapters/outbound/email/email.go, and the recipients and links *)
(* of subrequest_notifier.go).  Two providers are supported; each is given  *)
(* the mail in a form of its own, composed by code of its own.  Pure       *)
(* functions of the event and the configuration.                           *)
(***************************************************************************)
EXTENDS Config, Sequences, SequencesExt

CONSTANT NoAddress      \* the empty email address

(* A URL: where it leads, how many slashes follow, and the rest.            *)
URL(at, slashes, rest) == [at |-> at, slashes |-> slashes, rest |-> rest]

(* detailURL: one slash between a base, with or without one, and the path.  *)
DetailURL(base, path) == URL(base.at, 1, path.rest)

-----------------------------------------------------------------------------
(* The four messages.  Of the wording there is what it tells: whom the mail *)
(* is about, the show, its times, the notes when there are any.            *)

Message(kind, facts, url) ==
  [kind |-> kind, facts |-> facts, url |-> url]

MagicLinkMessage(link) == Message("magicLink", {}, link)

CreatedMessage(e, base) ==
  Message("created", {e.requester, e.title, e.times} \cup (IF e.notes # "blank" THEN {e.notes} ELSE {}),
          DetailURL(base, e.path))

TakenMessage(e, base)   == Message("taken", {e.taker, e.title, e.times}, DetailURL(base, e.path))
UntakenMessage(e, base) == Message("untaken", {e.taker, e.title, e.times}, DetailURL(base, e.path))

(* Both parts tell the same, the HTML part with a button and a plain link.  *)
Text(message) == [type |-> "text/plain", tells |-> message.facts, links |-> {message.url}]
Html(message) == [type |-> "text/html",  tells |-> message.facts, links |-> {message.url}]

-----------------------------------------------------------------------------
(* Whom SubRequestNotifier writes to.  A created mail goes to all active    *)
(* users, blind; the others to the poster, with a copy to the member who   *)
(* took or gave up.  A magic link goes to the one who asked for it.         *)
Recipients(to, cc, bcc) == [to |-> to, cc |-> cc, bcc |-> bcc]

RecipientsOf(kind, e, active, from) ==
  CASE kind = "created" -> Recipients(<<from>>, <<>>, active)
    [] kind \in {"taken", "untaken"} ->
         Recipients(<<e.requester>>, IF e.taker # NoAddress THEN <<e.taker>> ELSE <<>>, <<>>)
    [] kind = "magicLink" -> Recipients(<<e.requester>>, <<>>, <<>>)

(* Nobody to write to: nothing is sent. *)
NothingToSend(kind, e, active) ==
  IF kind = "created" THEN active = <<>> ELSE e.requester = NoAddress

MessageOf(kind, e, base) ==
  CASE kind = "created" -> CreatedMessage(e, base)
    [] kind = "taken"   -> TakenMessage(e, base)
    [] kind = "untaken" -> UntakenMessage(e, base)
    [] kind = "magicLink" -> MagicLinkMessage(e.link)

(* ResendSender: one request with the addresses in three lists. *)
ResendRequest(r, from, message) ==
  [From |-> from, To |-> r.to, Cc |-> r.cc, Bcc |-> r.bcc, Subject |-> message.kind,
   Html |-> Html(message), Text |-> Text(message)]

(* SendGridSender: a personalization with a list of objects under each key, *)
(* a key left out when its list is empty.                                  *)
Addresses(list) == [i \in DOMAIN list |-> [email |-> list[i]]]

SendGridPayload_Open(r, from, message) ==   \* fault: blind copies are further recipients
  [personalizations |-> <<[to |-> Addresses(r.to \o r.bcc)]>>,
   from |-> from, subject |-> message.kind, content |-> <<Text(message), Html(message)>>]

SendGridPayload(r, from, message) ==
  LET keys == {"to"} \cup {k \in {"cc", "bcc"} : r[k] # <<>>}
  IN  [personalizations |-> <<[k \in keys |-> Addresses(r[k])]>>,
       from |-> from, subject |-> message.kind, content |-> <<Text(message), Html(message)>>]

-----------------------------------------------------------------------------
(* What the providers deliver of it. *)
Envelope(to, cc, bcc, from, subject, parts) ==
  [to |-> to, cc |-> cc, bcc |-> bcc, from |-> from, subject |-> subject, parts |-> parts]

DeliveredByResend(q) == Envelope(q.To, q.Cc, q.Bcc, q.From, q.Subject, {q.Html, q.Text})

DeliveredBySendGrid(q) ==
  LET p == q.personalizations[1]
      List(k) == IF k \in DOMAIN p THEN [i \in DOMAIN p[k] |-> p[k][i].email] ELSE <<>>
  IN  Envelope(List("to"), List("cc"), List("bcc"), q.from, q.subject, ToSet(q.content))

(* NewSender: Resend if it is configured, else SendGrid, else the console,  *)
(* which delivers nothing.                                                 *)
SenderOf(config) ==
  IF config.resendAPIKey # Unset THEN "resend"
  ELSE IF config.sendGridAPIKey # Unset THEN "sendgrid" ELSE "console"

Delivered(config, r, message) ==
  CASE SenderOf(config) = "resend" ->
         {DeliveredByResend(ResendRequest(r, config.fromEmail, message))}
    [] SenderOf(config) = "sendgrid" ->
         {DeliveredBySendGrid(SendGridPayload(r, config.fromEmail, message))}
    [] SenderOf(config) = "console" -> {}
=============================================================================
