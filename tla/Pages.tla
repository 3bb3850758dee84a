-------------------------------- MODULE Pages --------------------------------
(***************************************************************************)
(* What the pages of the sub board show, and what becomes of the form on   *)
(* it: ListDashboard, Get and the checks of Create (app/subrequests), the  *)
(* presenter, the templates of the two pages and the parsing of the form.  *)
(* Reads that change nothing, as pure functions of the table, the catalog  *)
(* and the clock.                                                          *)
(*                                                                         *)
(* A row of the table has a poster, a taker, a show and two instants.  The *)
(* catalog is the list of shows the client decoded (Shows).                *)
(***************************************************************************)
EXTENDS Authorization, Shows, SequencesExt

UnknownShow == Words(-1)

(* showTitlesByID and showTitle: of two shows with one id, the later one.   *)
ShowTitle(shows, id) ==
  LET those == {i \in DOMAIN shows : Readable(shows[i].id) /\ shows[i].id.digits = id}
  IN  IF those = {} \/ shows[Max(those)].title = Empty
      THEN UnknownShow ELSE shows[Max(those)].title

Status(sr) == IF sr.takenBy # NoUser THEN "filled" ELSE "open"

(* One entry of a page, as the queries join it, ListDashboard and Get build *)
(* it and subRequestView passes it on.  A member stands for his address.    *)
View(v, shows, now, sr) ==
  [id |-> sr.id, title |-> ShowTitle(shows, sr.show), requester |-> sr.postedBy,
   taker |-> sr.takenBy, start |-> sr.start, end |-> sr.end, status |-> Status(sr),
   buttons |-> Capabilities(v, sr), past |-> sr.start < now]

(* What the two templates make of an entry: the board colours a row by its  *)
(* taker's address and links it to its own page; that page spells out the   *)
(* status.                                                                 *)
TableRow(view) ==
  [link |-> view.id, what |-> view.title, who |-> view.requester, when |-> view.start,
   coveredBy |-> view.taker, lasts |-> view.end - view.start, buttons |-> view.buttons,
   colour |-> IF view.taker = NoUser THEN "available" ELSE "taken"]

DetailCard(view) ==
  [what |-> view.title, status |-> view.status, who |-> view.requester, coveredBy |-> view.taker,
   starts |-> view.start, ends |-> view.end, lasts |-> view.end - view.start,
   buttons |-> view.buttons]

(* The select of the form. *)
Options(shows) ==
  [i \in DOMAIN shows |->
     [value |-> shows[i].id,
      label |-> IF shows[i].title # Empty THEN shows[i].title ELSE shows[i].id]]

(* Shows are sorted by title, in place: before the titles are looked up.    *)
(* The sort is not stable, so there may be more than one outcome.           *)
TextBefore(a, b) ==
  CASE Readable(a) /\ Readable(b)   -> a.digits < b.digits
    [] ~Readable(a) /\ ~Readable(b) -> a.words < b.words
    [] OTHER -> Readable(a)

SortedByTitle(shows) ==
  {sorted \in {[i \in DOMAIN shows |-> shows[p[i]]] : p \in Bijection(DOMAIN shows, DOMAIN shows)} :
     \A i, j \in DOMAIN shows : i < j => ~TextBefore(sorted[j].title, sorted[i].title)}

Dashboard_PastForward(v, sorted, now, listed) ==     \* fault: the history keeps the query's order
  LET views == [i \in DOMAIN listed |-> View(v, sorted, now, listed[i])]
      Those(past) == Picked(views, {i \in DOMAIN views : views[i].past = past})
  IN  [options |-> Options(sorted), upcoming |-> Those(FALSE), past |-> Those(TRUE)]

(* The rows come from the query in the order of their start; the past ones  *)
(* are turned round.                                                       *)
Dashboard(v, sorted, now, listed) ==
  LET views == [i \in DOMAIN listed |-> View(v, sorted, now, listed[i])]
      Those(past) == Picked(views, {i \in DOMAIN views : views[i].past = past})
  IN  [options |-> Options(sorted), upcoming |-> Those(FALSE), past |-> Reverse(Those(TRUE))]

(* The page of one row; there is none when the query does not find it.      *)
Detail(v, shows, now, found) == {DetailCard(View(v, shows, now, sr)) : sr \in found}

-----------------------------------------------------------------------------
(* parseCreateSubRequestInput: the show must be a number, the times must be *)
(* times (one that is not is TimeGarbled); they are read as UTC, whatever  *)
(* clock the member has in mind.                                           *)
TimeGarbled == -1

FormReadable(form) ==
  Readable(form.show) /\ form.start # TimeGarbled /\ form.end # TimeGarbled

ShowExists(shows, id) ==
  \E i \in DOMAIN shows : Readable(shows[i].id) /\ shows[i].id.digits = id

(* validateCreateInput: what a create is refused as, "none" if it is not.   *)
CreateRefusal(form, now, catalog) ==
  IF \/ ~FormReadable(form)
     \/ form.show.digits <= 0
     \/ form.start <= now
     \/ form.end <= form.start
     \/ form.notesTooLong
  THEN "invalid"
  ELSE IF catalog.failed THEN "badGateway"
  ELSE IF ~ShowExists(catalog.items, form.show.digits) THEN "invalid"
  ELSE "none"

(* The row a create that is not refused inserts. *)
RowOf(v, form, id) ==
  [id |-> id, postedBy |-> v.id, takenBy |-> NoUser, show |-> form.show.digits,
   start |-> form.start, end |-> form.end]
=============================================================================
