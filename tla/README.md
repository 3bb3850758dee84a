# Air Cover in TLA+

Air Cover is a web application with which the members of a radio station post *sub requests* ("I
need somebody to do my show"), take them and give them up again. The Go server keeps users,
sessions, magic links and sub requests in one SQL database, reads the station's show catalog from
the Spinitron API through a cache, and mails members about requests from a background worker.

This directory specifies the parts of it that are hard to test - concurrent handlers over
unprotected database statements, a stale-while-revalidate cache, a bounded queue drained at
shutdown, single-use login links that expire, starts that fail half-way - and what a member's browser
makes of the answers. It checks them with TLC on small instances, and proves the most important
properties with TLAPS for every instance. `PROJECT.json` lists the components,
the runs, which source lines each definition translates, the faults the properties catch, the
hazards, the findings and the theorems.

## The system

| part | state | operations |
|---|---|---|
| sub-request service (`app/subrequests`, `outbound/sqlite`) | rows of `sub_requests`, the AUTOINCREMENT counter | Create, Delete, ApplyAction (take, untake), Get, ListDashboard |
| authorization (`app/authorization`, `outbound/authorization/casbin`) | the policy, in memory and in the table `casbin_rule`; constant while the server serves | Authorize, twice: casbin in the server, hand-written rules in tests; the seeding of the table |
| asynchronous notifier (`outbound/email/subrequest_notifier.go`) | a buffered channel of 32, a worker goroutine | three offers, Start, Stop |
| mail senders (`outbound/email/email.go`) | none | compose and send to requester, taker, or all active users |
| server life cycle (`cmd/server.go`) | the main goroutine, the listener, the stop goroutine, the database handle | configure, open, migrate, seed, boot, serve, drain, stop the notifier, close, exit |
| configuration (`platform/config`) | none after the start | flags before environment, defaults, validation |
| catalog (`outbound/spinitron/catalog.go`) | a list of shows and one of personas, each with expiry and refresh flag, under one mutex | ListShows, ListPersonas, Prefetch, background refresh |
| Spinitron client (`outbound/spinitron/spinitron.go`) | none | the shows or personas of one page, and where the next one is |
| router, middleware and handlers (`inbound/api`) | none | validate, limit, authenticate, check the origin, call a service, answer |
| pages (`inbound/ui`, `inbound/presenter`) | none on the server; in the browser a page, its buttons, a cookie | board, details, admin page, login page; three scripts |
| sign-in and sessions (`app/auth`, `inbound/api/auth.go`) | `magic_links`, `sessions` | RequestLogin, VerifyMagicLink, AuthMiddleware, Logout |
| accounts (`app/admin`, `app/bootstrap`) | `users` | EnsureMasterUser, CreateUser, UpdateUser, ImportCatalogUsers |

How they meet. A request passes the session middleware, which reads the clock, the session and the
user by separate statements, and is then served by a handler goroutine that runs several more with
no transaction around them; only the import of users has one. The services share nothing but the
database, the catalog (under its mutex) and the notifier's channel. A service that made a change
offers an event to the channel without waiting; the worker receives events in order, asks the
database for recipients where it must, and mails. At a shutdown the main goroutine first drains the
handlers, then closes the channel and waits for the worker, then closes the database; both waits
have a timeout, and a failing listener skips the first.

What is hard in it:

* copies of rows go stale between the check of a permission and the UPDATE or DELETE that relies
  on it, and between the write and the read-back for its notification;
* statements may fail, or be done and lose their reply (the database may be a remote libsql server);
* two members take one request, or give it up and take it again, at the same time;
* one link is opened twice at once; sessions end and users are disabled in mid-request;
* fetches of the catalog overlap, break off half-way, and are stored in any order;
* the queue is full, the worker hangs in a send, the process must stop;
* pages outlive what they show: their buttons are pressed, redirects followed and magic links opened
  when session, role and row are no longer what they were;
* starts fail half-way or are killed, accounts are created by two requests at once, administrators disable one
  another.

What makes each part correct:

* *sub requests*: only an open request is taken, never by its poster; only its taker gives it up;
  only its poster or an administrator deletes it; the answer tells what was done; the buttons shown
  work;
* *notifier and server*: an accepted event is not lost, doubled or overtaken; handlers never wait;
  a shutdown ends, and one that was not forced leaves no change unannounced;
* *mails*: none about a change that was not made, none to the wrong member;
* *catalog*: only whole lists, one refresh at a time, no step back, no walk without end;
* *sign-in*: a link makes at most one session, a session cannot outlive it by more than its
  lifetime, and nobody is let in by a session ended, or as a user disabled, before he came;
* *accounts*: the master account is there while the server serves, only an administrator's update
  changes an account, and the admin page offers him nothing that is refused or costs him his office;
* *policy*: what is served is served under the whole baseline, after any sequence of broken starts;
* *pages*: board and detail page tell the same of a request, the form's shows are accepted, both mail
  providers deliver the same mail;
* *site*: navigations end, a script's success is one, offers that are still good work, sign-in lands.

## The modules

| module | models | is composed from |
|---|---|---|
| `Authorization` | both rule sets | |
| `Coverage` | what the sub-request service promises, with no step of a handler in sight (abstract) | |
| `SubRequests` | the service over its repository; implements `Coverage` | `Authorization`, `Coverage` (INSTANCE) |
| `SubRequestsAudit` | its answers, with a history of each request | `SubRequests` |
| `Mailbox` | what the notifier promises, with no channel, worker or drain in sight (abstract) | |
| `AsyncNotifier` | channel, offers, worker, Stop | |
| `Server` | start-up with the policy table, main goroutine, handlers and notifier, crashes; implements `Mailbox` | `AsyncNotifier`, `Mailbox` (INSTANCE) |
| `Notifications` | the service with the notifier behind it, and the mails; implements `Mailbox` | `SubRequests`, `AsyncNotifier`, `Mailbox` (INSTANCE) |
| `Catalog`, `CatalogAudit` | the cache; with a history of when the first fetches were over | |
| `Shows` | what the client makes of the items of a response (pure functions) | |
| `Paging` | finding the next page in a response, and the walk over the pages (pure functions) | `Shows` |
| `Pages` | board, detail page and the form on the board (pure functions) | `Authorization`, `Shows` |
| `Config`, `Mails` | the configuration; what the mail providers are given and deliver (pure functions) | `Mails` uses `Config` |
| `Auth`, `AuthAudit` | links, sessions, middleware; with a history of each request | |
| `Accounts` | the users table, seeding and administration, the forms of the admin page | `Authorization` |
| `Web` | routes, middleware, cookie and answers (pure functions of a request) | |
| `Questions` | one question at a time to the functions of access, pages and mails: what they have to answer | `Pages`, `Mails`, `Paging` |
| `Browser` | a member's tab in front of `Web`, with session, role and row changing behind it | `Web`, `Authorization` |
| `*Proofs` | theorems about the module named, for all values of its constants | |
| `MC*` | instances and symmetries for TLC; `MCFunctions` adds to `Questions` only which JSON values are asked of | |

Some modules have extra definitions marked `fault:` next to the ones they are variants of
(`TakeRefusal_NoOwnerCheck`, `Drained_NoWait`, ...). No specification uses them. Each is a bug one
could plausibly write at that place in the code; put in the place of the right one it makes TLC
report the property it is paired with in `PROJECT.json`, so no property there holds of just any
code.

### SubRequests

A handler is a small state machine (`pc`) with the request it serves (`job`), the event it has built
and its answer. One step is one database statement and the local computation up to the next one:

| code | actions |
|---|---|
| `Create` | `BeginCreate`, `CreateWrite`, `Notify` |
| `Delete` | `BeginDelete` (load and authorize), `DeleteWrite` |
| `ApplyAction(take)` | `BeginTake`, `TakeWrite`, `Missed` (the second query after an UPDATE of no row), `TakeDetail` (the read-back), `Notify` |
| `ApplyAction(untake)` | `BeginUntake`, `UntakeDetail` (read before), `UntakeWrite`, `Missed`, `Notify` |
| any failing statement | `BeginFails`, `StatementFails`, or `ReplyLost` when the write went through |

The refusals (`TakeRefusal`, ...) are the code's early returns in order. What a row contains besides
poster and taker (show, times, notes) is left out: no check of the service after `Create`'s own
depends on it. `Capabilities` is what the pages offer; `ButtonsWork` compares it with the refusals,
which different code decides.

*Refinement.* `ImplementsCoverage` maps a request to an ask from its first read to its write, which
carries it out whole. In `Coverage` an ask is carried out only by one entitled to it *at that very
moment*; the code checks earlier, on a copy. That this is enough rests on two facts a reader of
`TakeSubRequest` does not see there: ids are never used again, and a row never changes its poster.

### AsyncNotifier, Server, Notifications

Events are numbered in order of acceptance, so that the channel's order is visible. `Offer` has the
three outcomes of the `select` (accepted, dropped, panic on a closed channel). `Server` adds the
main goroutine of `runServer` with its deferred calls in their order, the goroutine that runs
`Stop`, and handlers that commit and then offer; a failing listener leaves handlers running, as
`runServer` then returns without `Shutdown`. Before that come the steps of `buildInfrastructure`, each
of which may fail: configuration, `InitDB` with the migrations, `NewAuthorizer`. `rules` is the policy
in the enforcer and `stored` the table, which may hold anything that earlier versions (`Retired`) and
broken-off starts left there; `AddPoliciesEx` adds the missing rules to both, `SavePolicy` replaces the
table. `Die` may happen at any step and loses everything but the table; `Restart` is the next process.
`Notifications` puts `SubRequests` where `Server` has
nameless commits, while the server serves: `Serve` is any step of a handler but the offer, `Post`
the offer, `Worker` the worker with the mail it composes. `made` is the
history of the changes made to the table, read off the rows before and after a step, not off what the
handlers say.

*Refinement.* To everybody else the notifier is a `Mailbox`: what it accepts is worked off once and in
order, also after `Stop`, for as long as the process lives; what it has no room for, or comes after
`Stop`, is refused at once. `ImplementsMailbox` (of `Server`) and `WorksAsMailbox` (of `Notifications`)
map what is pending to `Unfinished`, the event in the worker's hand and those in the channel, in the
latter with the events themselves for their numbers. Taking an event out of the channel is then no step at
all, being done with it is one. An event dropped and one met by the closed channel are both refused; a
process that exits or dies gives its box up, and the next one has a fresh one.

### Catalog, Paging and Shows

`Catalog` is one of the two lists; they have nothing but the mutex in common. A list is known by the
versions of the source its first and last page were read at. Cold calls fetch for themselves and
store unconditionally, as `ListShows` does; a call that finds an expired list starts the refresh if
the flag is down. A page may name any next page, one already read included. *Where* a response
names it is `Paging`: the search through nested objects and arrays in `pageFromGeneric`, the
special reading of `meta`, the `Link` header last; statuses and malformed lists that are failures; the
walk over the pages up to the limit. Both recurse in the code; here they are recursive functions, the
search of the depth of nesting (`PageIn`, up to `MaxNesting`, beyond which `encoding/json` refuses to
read) and the walk of how many pages may still be read (`from`). `Shows` decodes the items (ids that are numbers or texts, titles
with their substitutes, items passed over); `Picked` is the loop that appends what it does not pass over.

### Auth and Accounts

A token is known by the number of the row it was made for. `job.now` is the clock as the handler
read it, one statement or more before the time is used. `UseLink` is the single
`DELETE ... RETURNING`. A link is no longer good at its expiry, a session still is, as in the code.
`Accounts` starts with any table an earlier run may have left, and the process may stop at every
step; `viewer` is the account as the middleware read it and is not read again. `Forms` is what the
admin page puts beside an account: `canDeactivate` decides on both forms, the template on which.

### Pages, Config, Mails and Questions

`Pages` composes what three layers do to a row on its way to the reader: the service (`View`: title,
buttons, past or not), the presenter (status) and the templates (`TableRow`, `DetailCard`). The text of
a show's id is known by what `strconv.Atoi` makes of it, which the service, the personas and the form
each ask again. `Mails` keeps apart what the two providers are *given* (Resend three lists of
addresses, SendGrid personalizations with keys that may be missing) from what they *deliver*, the
external part, so that both can be compared; the base of its links comes from `Config`.
`SortedByTitle` is a set of outcomes: `sort.Slice` is not stable, and shows of one title come in any
order. `Questions` has one variable, the question asked, so that what is true of every answer is an
invariant. What a search ought to find is said by `Signposts`: every page named in a value with the
way to it, of which the first in reading order is the one (`FirstOf`).

### Web and Browser

`Web` is the handler chain as functions: `Routes` with their groups, `Refusal` in the order of the
middleware (validator, limiter, session, role, origin), `Handle` with what each handler makes of a
service's result. `Browser` has one tab. A request is sent (`Visit`, `Submit`, `Press`), answered
(`TurnAway`, `LookupFails`, `Succeed`, `Fail`) and received (`Follow` a redirect with the method rules
of 302 and 303, `Show` a page, `ScriptDone`), and may break off in between. Cookies (Secure, SameSite),
fetch metadata and the Origin header are what a browser does with them; that part is external.
`EndSession`, `ChangeRole` and `OthersAct` happen at any time, which is how the other modules' actions
look from here. `place` is how the site is reached (plain, TLS, a proxy the server knows or not),
`agent` whether the browser sends fetch metadata.

## What is checked

| run | specification and bounds | what it shows |
|---|---|---|
| `subrequests_safety` | two handlers, three users, one row | shapes; `NoSelfCover`, `AuthorityStands`, `ButtonsWork`; every answer was right at some moment of its request (`AnswersJustified`) and tells whether it changed the table (`AnswersTellTheEffect`); the refinement of `Coverage` |
| `subrequests_liveness` | two handlers, two users | every request is answered |
| `taken_event_taker` | two handlers, two users | *violated*: see the findings |
| `server` | three handlers, a channel of two, five events, two rules of the baseline and a retired one | `PolicyGranted`; the refinement of `Mailbox`; panics only in forced shutdowns; a clean shutdown is clean; it ends; handlers never wait; events are worked off by a worker that runs |
| `mail_safety` | two handlers, three users, one row, four announced changes, a channel of one | `NoFalseAlarm`: at no time more events of a kind than changes; `RightRecipients` |
| `last_word` | the same, three changes | *violated*: see the findings |
| `catalog` | two callers, two pages, three versions | one refresh, whole lists, no step back once settled, the flag comes down, every fetch ends |
| `functions` | see below | `PolicyParity`: the two authorizers agree; `FirstInReadingOrder`, `EveryPageOnce`: the next page is found and every page read once; `BoardInOrder`: the board's order, and that the detail page tells the same; `OfferedShowsAccepted`: what the form offers it accepts, under the right title; `SendersAgree`: the same mail by either provider, to the right people, with links that lead somewhere |
| `site` | one tab, one row, four ways to the site, two kinds of browser, one failing statement | `NavigationsArrive`, `NoFalseSuccess`, `OfferedWorks`, `SignInLands` |
| `auth_safety` | two handlers, two users, two links and sessions, lifetimes of one tick, three instants | single use, bounded sessions, `AdmittedWithCause` |
| `accounts_safety` | three emails with one the master's, two handlers, any first table | `MasterPresent`, `AdminPageHonest`, `UpdatedOnlyByUpdate`, `LastAdminGoes` |
| `duplicate_create` | the same | *violated*: see the findings |

*Why these bounds are enough to be interesting.* Statements name one row by its id, so that requests
about different rows do not meet; one row with an ever-growing counter suffices for every race, and
`NoSelfCover`'s fault (ids used again) shows with one id. Three users are a poster, a taker and
somebody else. Two handlers make every race of two requests; those of three are covered by the
proofs. In `server` three handlers, a channel of two and five events make the channel full while
the worker holds another event and one more handler has still to offer. In `catalog` two callers
have a cold fetch each and a refresh each; two pages make lists that straddle a version and fetches
that break off; three versions make an older, a newer and a newest list. In `auth_safety` lifetimes
of one tick put every expiry within the three instants, at it and past it. In `site` one tab suffices
because tabs share only cookie and session, and `EndSession`, `ChangeRole` and `OthersAct` do to them
whatever another tab could; one failing statement (`MaxFailures`) can strike any request of a chain.
`functions` asks one question per state, some 120 000: all subjects, actions and rows of three users; JSON
values nested twice (every key in front of every other, every kind inside every kind); sources of up
to four pages (the limit) and one more in six styles of pagination, one of the pages failing; boards of up to four rows around the clock, ties included; catalogs of up to two shows with
numbers, texts, negative, empty and missing ids; a catalog with two shows of one id for
the board; mails of four kinds, up to two active members, every port, address and provider set, unset or
out of range, either flag given or not, an empty database among them. `MaxRows`, `MaxTime` (instants on the board),
`MaxNumber`, `MaxShows` and `MaxActive` are the bounds of these questions, and the proofs fix none of them. `MaxId`, `MaxEvents`,
`MaxChanges`, `MaxVersion`, `MaxLinks`, `MaxSessions`, `MaxTime` bound what grows for ever in the
program; they stand in guards (a post, a commit, a tick that would exceed them does not happen).
`Buffer`, `MaxPages` and `MaxNesting` are constants of the code made small, `LinkTTL` and `SessionTTL`
too; `Values` are the JSON values asked of.

Symmetry (users, handlers) is used in runs of safety properties only. `MCNotifications` has a VIEW:
an idle handler's last job, event and answer, and the count of dropped events, are read by no action
and no property of that run. Its four changes are a create, a take, a give-up and another take, so that an
event may name a later taker than the one it is about; `RightRecipients` asks that the copy still go to
somebody who has taken the request.
`Server.cfg` and `Browser.cfg` switch deadlock checking off: an exited process need not be started
again, and a member may leave the page open for ever.

### Fairness

* `SubRequests`: a handler that works goes on. Database calls end, by a result, an error or the
  request's context; a goroutine that can run is scheduled.
* `Server`: the main goroutine and the handlers run, and both waits of the main goroutine have
  timers. **Nothing** is assumed of the worker or of the goroutine in `Stop`, so that
  `ShutdownEnds` and `HandlersNeverWait` hold with a worker that hangs in a send for ever. That a
  *running* worker works everything off is stated with its fairness as a premise
  (`EventsWorkedOff`; then only a `Stop` given up at its timeout leaves some behind): the SendGrid
  client has a timeout of ten seconds, a query ends. Requests,
  signals and listener failures are never forced.
* `Server`, with crashes: `Die` and `Restart` are never forced, so `ShutdownEnds` speaks of a process
  that is let alone or dies, which is an end too.
* `Browser`: the server answers a request that reaches it (`SubRequests` and `Server` say why) and the
  browser handles an answer it has. Nobody has to press, visit or change anything, and the connection
  may always break.
* `Catalog`: a fetch goes on. Its requests run under a context of five seconds, and no mutex is
  held meanwhile. Callers need not call; the source need not change.

### Findings

1. **The taken notification can name another taker, or nobody** (`taken_event_taker`,
   `app/subrequests/service.go:387`). The event is read back by id after the UPDATE; a give-up in
   between makes "<taker> took your sub request" lack its taker, a give-up and a take make it name
   the wrong one.
2. **The last mail can be the wrong one** (`last_word`, `service.go:436`). Handlers offer their
   events after committing, in any order; after a give-up and a take in quick succession the
   poster's last mail may say that his show is no longer covered when it is, or the reverse.
3. **A lost race of two creates is a 500** (`duplicate_create`, `app/admin/service.go:89`). The
   UNIQUE violation is not mapped to "user exists" as the lookup before it is.

Met on the way, in line with what the code intends or silent about it, and not counted as findings:

* While the first, cold fetches of the catalog compete, an older list can be stored over a newer
  one; `OnlyForward` is therefore about the time after them.
* That a session was valid and that its user was enabled need not have held at one same moment of
  the request; `AdmittedWithCause` claims both, not both at once.
* Disabled users keep their links and sessions, which work again when they are enabled; expired
  rows are never purged. Taken and untaken mails go to disabled users too.
* The master account is only looked up by its email: one that was disabled or demoted is not
  restored by a restart. Two administrators can disable each other at once, a lone one can demote
  himself; `LastAdminGoes` says that there is no third way. Emails are compared case-sensitively.
* The role a request acts on is the one read at its start.
* An answer of the source without `items` or `data` counts as an empty last page.
* Accepted events live in memory and go with the process.
* A rule dropped from `baselinePolicies` stays in the table and granted: `PolicyGranted` claims that
  the baseline is contained in the policy, not that it is all of it.
* A start that fails after opening the database leaves the handle to the exit of the process.
* The middleware answers an expired session with 302. A script's PATCH or DELETE is redirected with its
  method and refused by the login page, so that the script reports a failure; a 303 there would make it
  report a success (`NoFalseSuccess`).
* Behind a proxy that is not configured as trusted, a browser without fetch metadata is refused every
  change: `OfferedWorks` has that as a premise (`Recognizable`).
* Two shows of one id, should the source send them, are not refused, and nothing tells them
  apart: the board, which looks titles up in the sorted list, may name the one and the detail
  page the other. `BoardInOrder` asks for a title of one of them.
* `inbound/api/openapi.yaml` gives 302 where creating, updating and importing users answer 303, and 401
  where a page that is not for its reader is answered by a redirect. No run is about the document.
* A failing session lookup at `/` clears a good cookie. The form's times are read as UTC, whatever the
  form says of the station's time zone. A show whose id is no positive number is offered and refused.
* An import with the catalog out of reach is answered as a success. The limit on sign-ins counts by the
  address of the connection, which behind a proxy is everybody's.

## What is proved

`tlapm` checks every proof to the last leaf. The assumptions are those on the constants: `NoUser`
is no user and `None` none of the values it stands apart from, handlers are finitely many, `Buffer`,
`MaxPages` and the lifetimes are positive naturals, `MaxNesting` at least two (the code's own is
10000), `Values` any JSON values no deeper than that, bounds naturals, `Master` an email. `Baseline` and
`Retired` are any sets of rules. The number of users, handlers, callers, rows, events, pages and
instants is arbitrary.

* **`SubRequestsProofs`**, of the service: `NobodyCoversHimself`, `CheckedPermissionsStand`,
  `PagesAreHonest`, `TypeCorrect` and `Refinement` (`Spec => ImplementsCoverage`). `NoSelfCover` is
  not inductive: the UPDATE of a take does not look at the poster. The invariant `IInv` adds
  `AuthorityStands` (what the handler was allowed on its copy it is still allowed on the row), and this
  is kept only because of `IdsRunUp` (the id in a handler's hands cannot come to mean another row).
  `TableInv` and `MoveInv` carry the argument: one handler moves, the table makes at most one of four
  writes, and the poster of an allocated row stays. For the refinement, each of the four writes is the
  board's action of its ask (`WriteSettles`), all else files or drops an ask.
  *Of its answers*: `EveryAnswerDeserved` and `AnswersTell`. What a handler may answer at each place of
  its program is tied to what the history saw since its request began; `HistoryHarmless` says that the
  history only watches, so that all that is proved of the service holds of the audit too.
  *Of the mails*: `ServiceUndisturbed` (`MailSpec => Spec`: the service with the notifier behind it is
  the service), `MailsGoToThoseConcerned` and `NothingMadeUp`. The table goes on changing between the
  building of an event and its mail; what carries over is the history, which only grows. `Ledger` ties
  it to the table, and every event in a handler's hands, in the channel or in the mail is `Due` by it.
  `NoFalseAlarm` counts. It is not inductive, since a handler that has taken a row and is about to read
  it back counts nowhere in it; the strengthening `OfferedOnce` is that the events accepted of a kind
  about a row, and the handlers that hold or will get one (`Owing`), are together no more than the
  row's entries of the kind in the history. The notifier's part is
  cited from `AsyncNotifierProofs`.
* **`AsyncNotifierProofs`, `ServerProofs`** `TypeCorrect`, `NoEventForgotten`, `NoPanicAfterDrain`,
  `Clean`. The strengthening `Phases` says what the place of each goroutine tells of the others: the
  channel is closed only by `Stop`, `Stop` runs only past the drain, a drained server has no handler
  left. `MailboxKept` (`Spec => ImplementsMailbox`) and, behind the service, `EventsKeptInOrder`
  (`MailSpec => WorksAsMailbox`): `NothingForgotten` makes what is unfinished a stretch of the list of all
  events accepted, from the last finished to the last accepted (`UnfinishedAre`, `Waiting`), and each step
  of the notifier moves one end of it or neither (`OfferSeen`, `WorkSeen`, `OneMoreWaits`, `OneLessWaits`).
  `BaselineInForce`: past the seeding the rules in memory contain the baseline, past the saving
  they are the table, and a new process starts over from the table.
* **`CatalogProofs`** `SingleRefresh`, `WholeLists`, `Forward`: the running refresh read nothing
  older than the cache (`SettledFacts`), and nothing else stores before it ends.
* **`AuthProofs`** `SingleUse`, `Bounded`: link numbers are handed out once (`LinksNumbered`), and
  a handler that creates a session read its clock before the link expired (`HeldInTime`).
  `Admission`: who is let in came with a session and an account that were good at some moment of his
  request, though each is asked for by a statement of its own.
* **`AccountsProofs`** `MasterStays`, `OnlyUpdates`, `LastOne`, `PageHonest`, from `StartsAlone` (no
  handler works while the master account is seeded) and `SelfKept` (a request that disables its own
  viewer never gets as far as the UPDATE).
* **`BrowserProofs`** `ScriptsTellTheTruth`, `SignInArrives`, `ButtonsDoTheirJob`, from `Invariance`. A
  script learns only the status at the end of the redirects; its report is true because of what is under
  way at each moment (`ScriptsHold`): the middleware's redirect leaves a DELETE or PATCH its method, and
  only the row's own address answers that with a success. `OnTheWay` follows a good link to the board.
* **`QuestionsProofs`** `Parity` and `RulesAgree`: the two rule sets agree for every subject and
  resource. `SameMailFromEither`: the two providers deliver one `Envelope`, for any addresses, active
  list and port. `BoardTellsTheTable`: the upcoming rows and the history together are the table, each
  once, in their orders, for any number of rows, and the detail page agrees with the row it is linked
  from (`SameEntry`), in the title as far as ids are used once. `WhatIsOfferedIsAccepted`: for any number of shows and any ids. The loop `Picked` and the sort
  stand behind both: `PickedInOrder` says that a loop's result is the elements at the places picked, in
  order (`Leads`), `SortKeepsTitles` that whatever order the sort leaves, the
  title found under an id is one of a show with that id. What a loop computes is shown by
  induction, stated as a set of naturals without a least element outside it (`SetInduction`); that the
  recursive function there stands for exists at all is `LevelsExist`.
  *Of the client*: `FirstIsFound`, for values of any width nested as deep as can be read. By induction
  on the depth (`FirstAtEveryDepth`, `LessDeep`): the ways through an earlier part come before those
  through a later one, and within a part they keep their order (`BeforeAcross`, `BeforeWithin`), so that
  the first of the first part that names a page is the first of the whole (`FirstOfParts`).
  `EveryPageRead`, for any limit on the pages and any source up to one page longer: in each style the
  page found next is the next (`NextOne`), and what is left to read from a page on, when so many may be
  read, is known in closed form (`RestOf`); each step of the walk keeps to it (`OneBack`, `WalkReads`).

*Only model-checked.* Everything temporal beyond `[]` (`RequestsAnswered`, `ShutdownEnds`,
`HandlersNeverWait`, `EventsWorkedOff`, `FlagComesDown`, `CallsEnd`, `NavigationsArrive`): liveness under
fairness is out of the prover's reach. Every invariant and every action property of the passing runs is
a theorem; `WorksAsMailbox` is one that no run checks.

## What is not modelled

* The layout and wording of mails and pages, the preview script of the form, generated queries,
  conversions of rows, logging: data without behaviour of their own.
* The casbin library, its adapter, the rate limiter, the request validator, the mail providers, the
  source of the catalog and the browser are not in this repository. They are modelled from how the code
  uses them (the adapter as a table, limiter and validator as refusals at any time).
* Clients other than the pages: those that ask for JSON are answered 401, 403 and 400 in place of
  redirects and pages (`HandleAuthError`, `Refusal`), and no run plays such a client. Two scripts of
  one page at the same time.
* The `migrate` command: one call of the migration library, without a server running.
* The repository contract tests are tests; what they expect was read with the statements.

## Plan

Done, in this order: `Authorization`, `Coverage` and `SubRequests` with their proofs; the notifier
and the server; the catalog; sign-in; accounts; the composition in `Notifications`; paging; the
start-up with its failures and crashes; the pure functions of pages, shows, mails and configuration;
the router, the middleware and a browser in front of them; the admin page. Then the proofs
of all safety properties, those about the two recursive functions last, and the abstract mailbox that the
notifier implements.

Next: `Auth` composed with `Accounts`, the middleware over the real users table, so that
`AdmittedWithCause` speaks of the administrators' updates.
