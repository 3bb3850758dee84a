------------------------------ MODULE Questions ------------------------------
(***************************************************************************)
(* Questions to the pure functions of the program: to the two forms of the *)
(* access rules, about the pages of the sub board and the form on it, and   *)
(* about the mails.  A state is one question; the answers are functions of *)
(* it, so that what is true of every answer is an invariant.               *)
(***************************************************************************)
EXTENDS Pages, Mails, Paging

CONSTANTS Users,        \* members
          Addressees,   \* their email addresses
          MaxActive,    \* bound: active members who are mailed
          MaxRows,      \* bound: requests on the board
          MaxTime,      \* bound: instants at which they start
          MaxNumber,    \* bound: the ids of shows, when they are numbers, up and down
          MaxShows,     \* bound: shows of a catalog
          Ports,        \* what a port may be given as
          Values        \* what may stand under a key of a response

ASSUME ValuesAssumption == Values \subseteq Json[MaxNesting]

ASSUME BoundsAssumption ==
  MaxRows \in Nat /\ MaxTime \in Nat /\ MaxNumber \in Nat /\ MaxShows \in Nat /\ MaxActive \in Nat

VARIABLE q              \* the question

-----------------------------------------------------------------------------
(* To both authorizers: any user, in either role, about the admin pages, an *)
(* update of any user, and a sub request in any state.                     *)
SubRequestRows == [postedBy : Users, takenBy : Users \cup {NoUser}]

ResourcesOf(a) ==
  CASE ResourceTypeOf(a) = "admin" -> {AdminResource}
    [] ResourceTypeOf(a) = "user"  -> {UserResource(t, d) : t \in Users, d \in BOOLEAN}
    [] ResourceTypeOf(a) = "subrequest" -> {SubRequestResource(sr) : sr \in SubRequestRows}

AskAuthorizer == \E v \in Viewer(Users), a \in Actions : \E r \in ResourcesOf(a) :
                    q' = [about |-> "access", subject |-> v, action |-> a, resource |-> r]

(* The casbin policy and the hand-written rules agree: what the contract   *)
(* tests assert of a handful of cases holds of every question there is.    *)
PolicyParity ==
  q.about = "access" =>
    (Authorize(q.subject, q.action, q.resource) <=> Allowed(q.subject, q.action, q.resource))

-----------------------------------------------------------------------------
(* Of the board: rows as the query lists them, in the past and to come,     *)
(* ties included; the shows of two at most are in the catalog, under titles *)
(* that the sort may leave either way.  In one catalog two shows share an   *)
(* id, and the sort changes which of them is the later.                    *)
Catalogs ==
  {<<[id |-> Digits(1), title |-> Words(3)], [id |-> Digits(id), title |-> Words(1)],
     [id |-> Words(3), title |-> Words(3)]>> : id \in 1..2}

Starts == UNION {{s \in [1..n -> 0..MaxTime] : \A i, j \in 1..n : i < j => s[i] <= s[j]} : n \in 0..MaxRows}

RowsAt(starts, poster, taker) ==
  [i \in DOMAIN starts |-> [id |-> MaxRows - i, postedBy |-> poster,
                            takenBy |-> IF i = 2 THEN taker ELSE NoUser,
                            show |-> i, start |-> starts[i], end |-> starts[i] + 1]]

AskBoard ==
  \E s \in Starts, now \in 0..(MaxTime + 1), v \in Viewer(Users), poster \in Users :
    \E taker \in Users \ {poster}, catalog \in Catalogs : \E sorted \in SortedByTitle(catalog) :
      q' = [about |-> "board", viewer |-> v, now |-> now, catalog |-> catalog, sorted |-> sorted,
            listed |-> RowsAt(s, poster, taker)]

(* Every request is on the board once: what has not started comes with the *)
(* soonest first, the history with the latest first; and the page a row    *)
(* links to tells of it what the row told: the same members, time and       *)
(* buttons, a status that goes with its colour, and the title of the show;  *)
(* where shows share an id, each tells the title of one of them.            *)
SoonestFirst(views, now) ==
  /\ \A i \in DOMAIN views : now <= views[i].start
  /\ \A i, j \in DOMAIN views : i < j => views[i].start <= views[j].start

LatestFirst(views, now) ==
  /\ \A i \in DOMAIN views : views[i].start < now
  /\ \A i, j \in DOMAIN views : i < j => views[i].start >= views[j].start

NamesOf(shows, id) ==
  LET those == {i \in DOMAIN shows : Readable(shows[i].id) /\ shows[i].id.digits = id}
  IN  IF those = {} THEN {UnknownShow}
      ELSE {IF shows[i].title = Empty THEN UnknownShow ELSE shows[i].title : i \in those}

TellsTheSame(row, card, names) ==
  /\ {row.what, card.what} \subseteq names
  /\ <<card.who, card.coveredBy, card.starts, card.lasts, card.buttons>>
       = <<row.who, row.coveredBy, row.when, row.lasts, row.buttons>>
  /\ card.status = "filled" <=> row.colour = "taken"

InOrder(viewer, catalog, sorted, now, listed) ==
  LET board == Dashboard(viewer, sorted, now, listed)
      shown == ToSet(board.upcoming) \cup ToSet(board.past)
      Linked(view) == {sr \in ToSet(listed) : sr.id = TableRow(view).link}
  IN  /\ Len(board.upcoming) + Len(board.past) = Len(listed)
      /\ {TableRow(view).link : view \in shown} = {sr.id : sr \in ToSet(listed)}
      /\ \A view \in shown : \E sr \in Linked(view) : \E card \in Detail(viewer, catalog, now, {sr}) :
           TellsTheSame(TableRow(view), card, NamesOf(catalog, sr.show))
      /\ SoonestFirst(board.upcoming, now)
      /\ LatestFirst(board.past, now)

BoardInOrder ==
  q.about = "board" => InOrder(q.viewer, q.catalog, q.sorted, q.now, q.listed)

-----------------------------------------------------------------------------
(* Of the form: catalogs of shows with ids and titles of every kind the    *)
(* source has been seen to send.                                           *)
Numbers == -MaxNumber..MaxNumber

RawIds == {Number(n) : n \in Numbers} \cup {Digits(n) : n \in Numbers} \cup {Words(4), Empty, Absent}

RawItems == {[id |-> id, title |-> t, name |-> n, display_name |-> Absent] :
               id \in RawIds, t \in {Absent, Words(1), Words(2)}, n \in {Empty, Words(3)}}

AskForm == \E items \in UNION {[1..n -> RawItems] : n \in 0..MaxShows}, viewer \in Viewer(Users) :
             \E sorted \in SortedByTitle(ShowsOf(items)) :
               q' = [about |-> "form", viewer |-> viewer, items |-> items, sorted |-> sorted]

Filled(option) == [show |-> option.value, start |-> 2, end |-> 3, notesTooLong |-> FALSE]

(* A show that the source sends with a positive number for an id, as number *)
(* or as text, can be picked, is accepted, and is what the request is then  *)
(* listed under, when no other show has that id; any other show that is     *)
(* offered is refused, and never accepted as another.                      *)
Positive(id) == \E n \in Numbers : n > 0 /\ id \in {Number(n), Digits(n)}
Good(option) == Readable(option.value) /\ option.value.digits > 0

OffersAccepted(viewer, items, sorted) ==
  LET options == Options(sorted)
      Refusal(option) == CreateRefusal(Filled(option), 1, Page(ShowsOf(items), 0))
      Listed(option) == Dashboard(viewer, sorted, 1, <<RowOf(viewer, Filled(option), 1)>>).upcoming
  IN  /\ Cardinality({i \in DOMAIN items : Positive(items[i].id)})
           = Cardinality({i \in DOMAIN options : Good(options[i])})
      /\ \A i \in DOMAIN options :
           /\ Refusal(options[i]) = IF Good(options[i]) THEN "none" ELSE "invalid"
           /\ Good(options[i]) =>
                \/ /\ Len(Listed(options[i])) = 1
                   /\ Listed(options[i])[1].title = options[i].label
                \/ \E j \in DOMAIN options \ {i} : options[j].value = options[i].value

OfferedShowsAccepted == q.about = "form" => OffersAccepted(q.viewer, q.items, q.sorted)

-----------------------------------------------------------------------------
(* Of the mails: any event, any active users, any way to set port and URL.  *)
(* The command line takes no port that is not a number, but any text, and   *)
(* so an empty one, for the database.                                      *)
Environments ==
  [port : Ports, trustedProxies : {Unset, Garbled}, dbURI : {Unset, "db"}, ENV : {Unset, "nowhere"},
   baseURL : {Unset, Garbled, Public}, masterEmail : {"master"}, fromEmail : {"station"},
   spinitronAPIURL : {Unset, "api"}, resendAPIKey : {Unset, "key"}, sendGridAPIKey : {Unset, "key"}]

Flags == {[k \in given |-> IF k = "port" THEN port ELSE uri] :
            given \in SUBSET {"port", "dbURI"}, port \in Ports \ {Unset, Garbled}, uri \in {Unset, "db"}}

ActiveLists == UNION {Injection(1..n, Addressees) : n \in 0..MaxActive}

AskMail ==
  \E env \in Environments, flag \in Flags, kind \in {"created", "taken", "untaken", "magicLink"},
     requester \in Addressees, taker \in Addressees \cup {NoAddress}, active \in ActiveLists, slash \in 0..1 :
    /\ ~Refused(env, flag)
    /\ q' = [about |-> "mail", config |-> Load(env, flag), kind |-> kind,
             active |-> active, slash |-> slash,
             event |-> [requester |-> requester, taker |-> taker, title |-> "show",
                        times |-> "when", notes |-> IF active = <<>> THEN "blank" ELSE "notes",
                        path |-> [slashes |-> 1, rest |-> "request"],
                        link |-> URL(Public, 1, "token")]]

(* Whichever provider is configured, the same mail arrives: to the same     *)
(* people, a copy only to the member concerned, blind to the members, so   *)
(* that nobody is shown another's address by a created mail; text and HTML *)
(* tell the same, and their link leads to the request, on the port that is *)
(* listened on or at the station's configured address.                     *)
Concerned(kind, e) == {e.requester} \cup (IF kind = "magicLink" THEN {} ELSE {e.taker})

LeadsThere(kind, link, port) ==
  /\ link.slashes = 1
  /\ IF kind = "magicLink" THEN link.rest = "token"
     ELSE link.rest = "request" /\ link.at \in {Public, Localhost(port)}

SameMail(config, kind, e, active, slash) ==
  LET message == MessageOf(kind, e, [at |-> config.baseURL, slashes |-> slash])
      r == RecipientsOf(kind, e, active, config.fromEmail)
  IN  \A mail \in Delivered(config, r, message) :
        /\ mail = Envelope(r.to, r.cc, r.bcc, config.fromEmail, kind, {Text(message), Html(message)})
        /\ IF kind = "created"
           THEN ToSet(mail.to \o mail.cc) = {config.fromEmail} /\ mail.bcc = active
           ELSE ToSet(mail.to \o mail.cc) \subseteq Concerned(kind, e) /\ mail.bcc = <<>>
        /\ \A part \in mail.parts : \A link \in part.links : LeadsThere(kind, link, config.port)

SendersAgree ==
  q.about = "mail" =>
    \/ NothingToSend(q.kind, q.event, q.active)
    \/ SameMail(q.config, q.kind, q.event, q.active, q.slash)

-----------------------------------------------------------------------------
(* To the client: a JSON value, to look for a page in.                      *)
AskValue == \E v \in Values : q' = [about |-> "value", value |-> v]

(* Every leaf that names a page, with the way to it: the places of the parts *)
(* that lead there, from the whole to the leaf.                            *)
Signs(v, below) ==
  IF IsLeaf(v) THEN {p \in {[way |-> <<>>, page |-> v.page]} : p.page > 0}
  ELSE UNION {{[way |-> <<i>> \o p.way, page |-> p.page] : p \in below[Parts(v)[i]]} : i \in There(v)}

Signposts[depth \in 0..MaxNesting] == [v \in Json[depth] |-> Signs(v, Signposts[depth - 1])]

Before(w, x) == \E i \in DOMAIN w \cap DOMAIN x :
                   /\ w[i] < x[i]
                   /\ \A j \in 1..(i - 1) : w[j] = x[j]

(* Whatever the nesting, the page found is the one a reader of the whole    *)
(* value would come upon first; a page is found whenever one is named, and *)
(* a key in front that names none (null, a negative number, a self link)   *)
(* hides nothing behind it.                                                *)
FirstOf(page, posts) ==
  IF posts = {} THEN page = 0
  ELSE \E first \in posts : /\ page = first.page
                            /\ \A p \in posts \ {first} : Before(first.way, p.way)

FirstInReadingOrder ==
  q.about = "value" => FirstOf(PageFrom(q.value), Signposts[MaxNesting][q.value])

-----------------------------------------------------------------------------
(* Sources of up to MaxPages pages and one more, in each style of pagination *)
(* the client's tests know.  The pages' own numbers and links back are      *)
(* there too, where a source of the style would give them.  Page p has one *)
(* item, "p", and one without an id.                                       *)
Styles == {"next_page", "next", "links", "_links", "meta", "header"}

Object(f)   == [fields |-> [k \in Names |-> IF k \in DOMAIN f THEN f[k] ELSE Missing]]
Say(key, v) == [k \in {key} |-> v]
Href(page)  == Object(Say("href", Leaf(page)))

Links(p, more, n) ==
  Object([k \in {"self", "last", IF more = 0 THEN "first" ELSE "next"} |->
            Href(CASE k = "self" -> p [] k = "next" -> more [] k \in {"first", "last"} -> n)])

Meta(p, more) ==
  Object([k \in {"page"} \cup (IF more = 0 THEN {} ELSE {"next_page"}) |->
            Leaf(IF k = "page" THEN p ELSE more)])

Body(s, p, more, n) ==
  CASE s \in {"next_page", "next"} -> Say(s, Leaf(more))
    [] s = "_links" -> Say("_links", Links(p, more, n))
    [] s = "links"  -> Say("links", [items |-> IF more = 0 THEN <<>> ELSE <<Leaf(more)>>])
    [] s = "meta"   -> Say("meta", Meta(p, more))
    [] s = "header" -> [k \in {} |-> Missing]

Item(id, text) == [id |-> id, title |-> text, name |-> Absent, display_name |-> Absent, email |-> text]

ItemsOf(p) == <<Item(Digits(p), Words(p)), Item(Absent, Words(p))>>

Response(s, p, n, broken) ==
  LET more == IF p < n THEN p + 1 ELSE 0
  IN  [status |-> IF p = broken THEN 500 ELSE 200,
       lists  |-> Say(IF s = "meta" THEN "data" ELSE "items", [malformed |-> FALSE, items |-> ItemsOf(p)]),
       body   |-> Body(s, p, more, n),
       link   |-> IF s = "header" THEN more ELSE 0]

AskSource == \E s \in Styles, n \in 1..(MaxPages + 1), broken \in 0..(MaxPages + 1) :
               q' = [about |-> "source", style |-> s, length |-> n, broken |-> broken]

(* The lists the service gets are whole: a source that numbers its pages    *)
(* 1..n is read from the first to the last, each page once, in order, in   *)
(* every style, also when it is as long as the limit and although pages    *)
(* carry links to themselves and to the last; and when one of its pages    *)
(* fails, or there is one too many, there is no list at all.               *)
ReadWhole(s, n, broken) ==
  LET shows    == Walk([p \in 1..n |-> GetShowsPage(Response(s, p, n, broken))])
      personas == Walk([p \in 1..n |-> GetPersonasPage(Response(s, p, n, broken))])
  IN  IF broken \in 1..n \/ n > MaxPages THEN shows.failed /\ personas.failed
      ELSE /\ ~shows.failed /\ ~personas.failed
           /\ shows.items = [p \in 1..n |-> [id |-> Digits(p), title |-> Words(p)]]
           /\ personas.items = [p \in 1..n |-> [id |-> p, name |-> Words(p), email |-> Words(p)]]

EveryPageOnce == q.about = "source" => ReadWhole(q.style, q.length, q.broken)

-----------------------------------------------------------------------------
Nothing == [about |-> "nothing"]

Ask == AskAuthorizer \/ AskBoard \/ AskForm \/ AskMail \/ AskValue \/ AskSource

Init == q = Nothing

Next == \/ q = Nothing /\ Ask
        \/ q # Nothing /\ q' = Nothing

Spec == Init /\ [][Next]_q
=============================================================================
