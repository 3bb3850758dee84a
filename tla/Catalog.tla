------------------------------- MODULE Catalog -------------------------------
(***************************************************************************)
(* The cached catalog of the radio's programme                             *)
(* (internal/adapters/outbound/spinitron/catalog.go).  It holds two lists, *)
(* shows and personas, each with its own fields, functions and expiry and  *)
(* nothing but the mutex in common; this module is one of them.  Prefetch  *)
(* is one more caller of each.                                             *)
(*                                                                         *)
(* The source changes as it likes; a list is known here by the versions of *)
(* the source its first and its last page were read at, and by whether the *)
(* walk over the pages came to its end.                                    *)
(***************************************************************************)
EXTENDS Naturals

CONSTANTS Callers,      \* goroutines that ask for the list, one call each at a time
          MaxPages,     \* maxCatalogPages, 100 in the source
          MaxVersion    \* bound: versions of the source

ASSUME MaxPagesAssumption == MaxPages \in Nat \ {0}

VARIABLES source,       \* version of the source's list
          cache,        \* the cached list
          loaded,       \* a list has been stored
          expired,      \* now is not before the expiry
          refreshing,   \* the flag that a background refresh is running
          call,         \* the fetch of each caller that found no list
          refresh       \* the background fetch each caller's last call started

vars == <<source, cache, loaded, expired, refreshing, call, refresh>>

Nothing == [oldest |-> 0, newest |-> 0, whole |-> FALSE]
Lists   == [oldest : Nat, newest : Nat, whole : BOOLEAN]

(* A fetch: the walk over the pages, then its outcome awaiting the mutex.   *)
Fetches  == [at : {"none", "reading", "whole", "failed"}, pages : 0..MaxPages, list : Lists]
NoFetch  == [at |-> "none", pages |-> 0, list |-> Nothing]
NewFetch == [NoFetch EXCEPT !.at = "reading"]

Init == /\ source = 1
        /\ cache = Nothing
        /\ loaded = FALSE /\ expired = FALSE /\ refreshing = FALSE
        /\ call = [c \in Callers |-> NoFetch]
        /\ refresh = [c \in Callers |-> NoFetch]

-----------------------------------------------------------------------------
(* The walk over the pages: what fetch f can be after one more request.     *)

With(list, last) == [oldest |-> IF list = Nothing THEN source ELSE list.oldest,
                     newest |-> source,
                     whole  |-> last]

PageRead_NoLimit(f) ==           \* fault: no limit, the pages run in a circle
  {[at |-> IF last THEN "whole" ELSE "reading", pages |-> (f.pages + 1) % MaxPages,
    list |-> With(f.list, last)] : last \in BOOLEAN}

(* One page, the last or with another to follow: NextPage may name any      *)
(* page, one already read included.                                        *)
PageRead(f) ==
  {[at |-> IF last THEN "whole" ELSE "reading", pages |-> f.pages + 1, list |-> With(f.list, last)] :
     last \in IF f.pages < MaxPages THEN BOOLEAN ELSE {}}

PageFails_KeepsPart(f) ==        \* fault: what was read so far is returned
  {[f EXCEPT !.at = "whole"]}

(* The request fails or times out, or there are more than MaxPages pages.   *)
PageFails(f) == {[f EXCEPT !.at = "failed"]}

FetchStep(f) == PageRead(f) \cup PageFails(f)

-----------------------------------------------------------------------------
(* Under the mutex. *)

Store(list) == cache' = list /\ loaded' = TRUE /\ expired' = FALSE

(* A call that finds no list fetches one itself, outside the mutex. *)
CallCold(c) ==
  /\ call[c].at = "none" /\ ~loaded
  /\ call' = [call EXCEPT ![c] = NewFetch]
  /\ UNCHANGED <<source, cache, loaded, expired, refreshing, refresh>>

StartRefresh_NoFlag(c) ==        \* fault: the flag is not looked at
  /\ call[c].at = "none" /\ loaded /\ expired
  /\ refresh[c].at = "none"
  /\ refreshing' = TRUE
  /\ refresh' = [refresh EXCEPT ![c] = NewFetch]
  /\ UNCHANGED <<source, cache, loaded, expired, call>>

(* A call that finds a list answers with it, and if it is expired and no    *)
(* refresh is running, starts one.  A call that need not changes nothing.   *)
StartRefresh(c) ==
  /\ call[c].at = "none" /\ loaded /\ expired
  /\ ~refreshing
  /\ refreshing' = TRUE
  /\ refresh' = [refresh EXCEPT ![c] = NewFetch]
  /\ UNCHANGED <<source, cache, loaded, expired, call>>

CallReads(c) ==
  /\ call[c].at = "reading"
  /\ \E f \in FetchStep(call[c]) : call' = [call EXCEPT ![c] = f]
  /\ UNCHANGED <<source, cache, loaded, expired, refreshing, refresh>>

(* Its list is stored whatever the cache has become meanwhile. *)
CallStores(c) ==
  /\ call[c].at = "whole"
  /\ Store(call[c].list)
  /\ call' = [call EXCEPT ![c] = NoFetch]
  /\ UNCHANGED <<source, refreshing, refresh>>

CallFails(c) ==
  /\ call[c].at = "failed"
  /\ call' = [call EXCEPT ![c] = NoFetch]
  /\ UNCHANGED <<source, cache, loaded, expired, refreshing, refresh>>

RefreshReads(c) ==
  /\ refresh[c].at = "reading"
  /\ \E f \in FetchStep(refresh[c]) : refresh' = [refresh EXCEPT ![c] = f]
  /\ UNCHANGED <<source, cache, loaded, expired, refreshing, call>>

RefreshStores(c) ==
  /\ refresh[c].at = "whole"
  /\ Store(refresh[c].list)
  /\ refreshing' = FALSE
  /\ refresh' = [refresh EXCEPT ![c] = NoFetch]
  /\ UNCHANGED <<source, call>>

RefreshFails_KeepsFlag(c) ==     \* fault: the flag is reset on success only
  /\ refresh[c].at = "failed"
  /\ refresh' = [refresh EXCEPT ![c] = NoFetch]
  /\ UNCHANGED <<source, cache, loaded, expired, refreshing, call>>

RefreshFails(c) ==
  /\ refresh[c].at = "failed"
  /\ refreshing' = FALSE
  /\ refresh' = [refresh EXCEPT ![c] = NoFetch]
  /\ UNCHANGED <<source, cache, loaded, expired, call>>

-----------------------------------------------------------------------------
(* The world: the source is edited, time passes. *)

SourceChanges == /\ source < MaxVersion
                 /\ source' = source + 1
                 /\ UNCHANGED <<cache, loaded, expired, refreshing, call, refresh>>

Expire == /\ loaded /\ ~expired
          /\ expired' = TRUE
          /\ UNCHANGED <<source, cache, loaded, refreshing, call, refresh>>

CallGoesOn(c)    == CallReads(c) \/ CallStores(c) \/ CallFails(c)
RefreshGoesOn(c) == RefreshReads(c) \/ RefreshStores(c) \/ RefreshFails(c)

Next == \/ \E c \in Callers : CallCold(c) \/ StartRefresh(c) \/ CallGoesOn(c) \/ RefreshGoesOn(c)
        \/ SourceChanges \/ Expire

Spec == Init /\ [][Next]_vars

(* Every page request ends, by its context's timeout if not before, and no  *)
(* mutex is held during one.                                               *)
Fairness == \A c \in Callers : WF_vars(CallGoesOn(c)) /\ WF_vars(RefreshGoesOn(c))

-----------------------------------------------------------------------------
TypeOK ==
  /\ source \in Nat \ {0}
  /\ cache \in Lists
  /\ loaded \in BOOLEAN /\ expired \in BOOLEAN /\ refreshing \in BOOLEAN
  /\ call \in [Callers -> Fetches]
  /\ refresh \in [Callers -> Fetches]

(* The flag is up exactly while one background refresh is running, and      *)
(* there is never a second one.                                            *)
OneRefresh ==
  LET busy == {c \in Callers : refresh[c].at # "none"}
  IN  /\ refreshing <=> busy # {}
      /\ \A c, d \in busy : c = d

(* A cached list is whole: a fetch that fails half-way, or runs into the    *)
(* page limit, leaves the cache as it was.                                 *)
OnlyWholeLists == loaded => cache.whole /\ cache.oldest > 0

(* The flag comes down after every refresh, so that a stale list is always  *)
(* refreshed again.                                                        *)
FlagComesDown == refreshing ~> ~refreshing

(* Every fetch ends, even if the pages' NextPage run in circles.            *)
CallsEnd == \A c \in Callers : call[c].at # "none" ~> call[c].at = "none"
=============================================================================
