-------------------------------- MODULE Paging --------------------------------
(***************************************************************************)
(* How the Spinitron client finds its way from page to page                *)
(* (internal/adapters/outbound/spinitron/spinitron.go, findNextPage and    *)
(* below), and the walk over the pages in catalog.go, as pure functions of *)
(* the responses; what it makes of the items of one is Shows.              *)
(*                                                                         *)
(* A JSON value is one of                                                  *)
(*   [page |-> n]    a number or a string; n > 0 when it names a page, as  *)
(*                   itself or in the page parameter of a URL, else 0      *)
(*   [items |-> s]   an array                                              *)
(*   [fields |-> f]  an object: what there is under each key, or Missing.  *)
(* A response is its status, its lists, its body, a function of the other  *)
(* keys looked at, and the page its Link header marks rel="next", 0 if     *)
(* none.                                                                   *)
(***************************************************************************)
EXTENDS Shows

CONSTANTS MaxPages,     \* maxCatalogPages, 100 in the source
          MaxNesting    \* how deep the values may be nested that encoding/json reads, 10000

ASSUME PagingAssumption == MaxPages \in Nat \ {0} /\ MaxNesting \in Nat \ {0, 1}

Missing == [missing |-> TRUE]

(* The keys looked at, in the order pageFromGeneric takes them; and others. *)
Keys  == <<"next", "next_page", "page", "href", "url">>
Names == {"next", "next_page", "page", "href", "url", "self", "first", "last"}

Scalars == [page : Nat]

Nest(values) == values \cup [items : Seq(values)]
                       \cup [fields : [Names -> values \cup {Missing}]]

Json[depth \in 0..MaxNesting] ==
  IF depth = 0 THEN Scalars ELSE Nest(Json[depth - 1])

Leaf(n) == [page |-> n]

IsLeaf(v)   == "page" \in DOMAIN v
IsObject(v) == "fields" \in DOMAIN v
IsArray(v)  == "items" \in DOMAIN v

(* The first of the candidates that is a page, 0 if none is. *)
FirstPage(candidates) ==
  LET named == {i \in DOMAIN candidates : candidates[i] > 0}
  IN  IF named = {} THEN 0 ELSE candidates[Min(named)]

(* What there is in an array, in its order, or in an object, by Keys. *)
Parts(v) == IF IsArray(v) THEN v.items ELSE [i \in DOMAIN Keys |-> v.fields[Keys[i]]]

There(v) == {i \in DOMAIN Parts(v) : Parts(v)[i] # Missing}

(* pageFromGeneric, told what it finds in the parts: those that name no     *)
(* page are passed over.                                                   *)
Candidates(v, below) ==
  [i \in DOMAIN Parts(v) |-> IF i \in There(v) THEN below[Parts(v)[i]] ELSE 0]

Find_Commits(v, below) ==       \* fault: an object's first key is final, page or not
  CASE IsLeaf(v)   -> v.page
    [] IsArray(v)  -> FirstPage(Candidates(v, below))
    [] IsObject(v) -> IF There(v) = {} THEN 0 ELSE below[Parts(v)[Min(There(v))]]

Find(v, below) == IF IsLeaf(v) THEN v.page ELSE FirstPage(Candidates(v, below))

PageIn[depth \in 0..MaxNesting] == [v \in Json[depth] |-> Find(v, PageIn[depth - 1])]

PageFrom(v) == PageIn[MaxNesting][v]

Field(object, key) ==
  IF key \in DOMAIN object /\ object[key] # Missing THEN PageFrom(object[key]) ELSE 0

(* parseNextPageFromMeta: of the meta object only what says next counts,    *)
(* not the number of the page itself.                                      *)
FromMeta_Generic(meta) == PageFrom(meta)        \* fault: read like any other value

FromMeta(meta) ==
  IF IsObject(meta)
  THEN FirstPage(<<Field(meta.fields, "next_page"), Field(meta.fields, "next")>>)
  ELSE 0

(* findNextPage *)
NextPage(response) ==
  LET body == response.body
  IN  FirstPage(<<Field(body, "next_page"), Field(body, "next"),
                  Field(body, "_links"), Field(body, "links"),
                  IF "meta" \in DOMAIN body THEN FromMeta(body["meta"]) ELSE 0,
                  response.link>>)

-----------------------------------------------------------------------------
(* GetShowsPage and GetPersonasPage: any status but 2xx, and a list that    *)
(* is not one of objects, is an error; a response without a list is an     *)
(* empty page, and the last one whatever else it says.                     *)
TheList(response) ==
  LET present == {"items", "data"} \cap DOMAIN response.lists
  IN  IF present = {} THEN [malformed |-> FALSE, items |-> <<>>]
      ELSE response.lists[IF "items" \in present THEN "items" ELSE "data"]

PageOf(response, items) ==
  IF response.status \notin 200..299 \/ TheList(response).malformed THEN Failure
  ELSE IF {"items", "data"} \cap DOMAIN response.lists = {} THEN Page(<<>>, 0)
  ELSE Page(items, NextPage(response))

GetShowsPage(response)    == PageOf(response, ShowsOf(TheList(response).items))
GetPersonasPage(response) == PageOf(response, PersonasOf(TheList(response).items))

(* fetchShows and fetchPersonas: the items of all pages from the first on;  *)
(* a page that fails, or one more than may be read, fails the whole.       *)
ReadOn(source, page, left, rest) ==
  LET next == source[page].next
  IN  IF left = 0 \/ source[page].failed THEN Failure
      ELSE IF next = 0 THEN Page(source[page].items, 0)
      ELSE IF rest[next].failed THEN Failure
      ELSE Page(source[page].items \o rest[next].items, 0)

Walk(source) ==
  LET from[left \in 0..MaxPages] ==
        [page \in DOMAIN source |-> ReadOn(source, page, left, from[left - 1])]
  IN  from[MaxPages][1]
=============================================================================
