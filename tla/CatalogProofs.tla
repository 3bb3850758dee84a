---------------------------- MODULE CatalogProofs ----------------------------
(***************************************************************************)
(* The catalog's safety for any number of callers, pages and versions.      *)
(*                                                                         *)
(* That the settled cache moves only forward rests on the refresh that is   *)
(* running having read nothing older than the cache (SettledFacts), and on  *)
(* its being the only one (OneRefresh), so that nothing is stored before    *)
(* it ends.                                                                *)
(***************************************************************************)
EXTENDS CatalogAudit, TLAPS

(* A list that was read page by page from a source that only grows. *)
Good(list) == /\ list.oldest <= list.newest /\ list.newest <= source
              /\ list.oldest > 0 \/ list = Nothing

GoodFetch(f) == /\ Good(f.list)
                /\ f.at = "none" => f.list = Nothing
                /\ f.at = "whole" => f.list.whole /\ f.list.oldest > 0

SettledFacts ==
  /\ loaded
  /\ \A c \in Callers : /\ call[c].at = "none"
                        /\ refresh[c].list.oldest > 0 => refresh[c].list.oldest >= cache.newest

IInv ==
  /\ TypeOK
  /\ OneRefresh
  /\ \A c \in Callers : GoodFetch(call[c]) /\ GoodFetch(refresh[c])
  /\ Good(cache)
  /\ OnlyWholeLists

(* Where the catalog is settled, or becomes so, the facts hold.             *)
AuditInv == IInv /\ (settled => SettledFacts)

LEMMA InitInv == Init => IInv
<1> SUFFICES ASSUME Init PROVE IInv
  OBVIOUS
<1>1. Nothing \in Lists /\ NoFetch \in Fetches
  BY MaxPagesAssumption DEF Nothing, Lists, NoFetch, Fetches
<1>2. TypeOK
  <2>1. /\ source = 1 /\ cache = Nothing /\ loaded = FALSE /\ expired = FALSE /\ refreshing = FALSE
        /\ call = [c \in Callers |-> NoFetch] /\ refresh = [c \in Callers |-> NoFetch]
    BY DEF Init
  <2>2. call \in [Callers -> Fetches] /\ refresh \in [Callers -> Fetches]
    BY <1>1, <2>1
  <2>3. source \in Nat \ {0} /\ cache \in Lists
    BY <1>1, <2>1
  <2> QED BY <2>1, <2>2, <2>3 DEF TypeOK
<1>3. OneRefresh
  BY DEF Init, OneRefresh, NoFetch
<1>4. Good(Nothing) /\ GoodFetch(NoFetch)
  BY DEF Init, Good, GoodFetch, Nothing, NoFetch
<1> QED BY <1>2, <1>3, <1>4 DEF Init, IInv, OnlyWholeLists

-----------------------------------------------------------------------------
(* One request of a fetch leaves a good fetch, which has read nothing older *)
(* than it had, or than the source is now.                                 *)
LEMMA StepGood ==
  ASSUME TypeOK, NEW f \in Fetches, GoodFetch(f), f.at = "reading", NEW g \in FetchStep(f)
  PROVE  /\ g \in Fetches /\ GoodFetch(g)
         /\ g.at # "none"
         /\ g.list.oldest > 0 => g.list.oldest = f.list.oldest \/ g.list.oldest = source
<1>0. source \in Nat \ {0}
  BY DEF TypeOK
<1>1. CASE g \in PageFails(f)
  <2>1. g = [at |-> "failed", pages |-> f.pages, list |-> f.list]
    BY <1>1 DEF PageFails, Fetches
  <2> QED BY <2>1 DEF Fetches, GoodFetch, Good
<1>2. CASE g \in PageRead(f)
  <2>1. PICK last \in BOOLEAN : /\ f.pages < MaxPages
                                /\ g = [at |-> IF last THEN "whole" ELSE "reading",
                                        pages |-> f.pages + 1, list |-> With(f.list, last)]
    BY <1>2 DEF PageRead
  <2> DEFINE l == With(f.list, last)
  <2>2. /\ l.newest = source /\ l.whole = last
        /\ l.oldest = IF f.list = Nothing THEN source ELSE f.list.oldest
        /\ l \in Lists
    BY <1>0 DEF With, Fetches, Lists
  <2>3. l.oldest > 0 /\ l.oldest <= source
    BY <1>0, <2>2 DEF GoodFetch, Good, Fetches, Lists
  <2>4. /\ g.list = l /\ g.pages = f.pages + 1
        /\ g.at = IF last THEN "whole" ELSE "reading"
    BY <2>1
  <2>5. Good(g.list)
    BY <2>2, <2>3, <2>4, <1>0 DEF Good
  <2>6. GoodFetch(g)
    BY <2>2, <2>3, <2>4, <2>5 DEF GoodFetch
  <2>7. g \in Fetches
    BY <2>1, <2>2, MaxPagesAssumption DEF Fetches
  <2> QED BY <2>2, <2>4, <2>6, <2>7
<1> QED BY <1>1, <1>2 DEF FetchStep

(* A new fetch, and none at all, are good ones. *)
LEMMA FreshFetches == /\ NoFetch \in Fetches /\ NewFetch \in Fetches
                      /\ NoFetch.at = "none" /\ NewFetch.at = "reading"
                      /\ NoFetch.list = Nothing /\ NewFetch.list = Nothing
                      /\ Nothing \in Lists /\ Nothing.oldest = 0 /\ Nothing.newest = 0
<1>1. Nothing \in Lists /\ Nothing.oldest = 0 /\ Nothing.newest = 0
  BY DEF Nothing, Lists
<1>2. NoFetch = [at |-> "none", pages |-> 0, list |-> Nothing]
  BY DEF NoFetch
<1>3. NewFetch = [at |-> "reading", pages |-> 0, list |-> Nothing]
  BY <1>2 DEF NewFetch
<1>4. 0 \in 0..MaxPages
  BY MaxPagesAssumption
<1>5. NoFetch \in Fetches /\ NewFetch \in Fetches
  BY <1>1, <1>2, <1>3, <1>4 DEF Fetches
<1> QED BY <1>1, <1>2, <1>3, <1>5

LEMMA FreshGood == TypeOK => GoodFetch(NoFetch) /\ GoodFetch(NewFetch) /\ Good(Nothing)
BY FreshFetches DEF TypeOK, GoodFetch, Good

-----------------------------------------------------------------------------
(* One lemma per kind of step: the invariant, and the settled facts where   *)
(* they hold.                                                              *)

Keeps == IInv' /\ (SettledFacts => SettledFacts')

LEMMA CallColdKeeps ==
  ASSUME IInv, NEW c \in Callers, CallCold(c)
  PROVE  Keeps
BY FreshFetches, FreshGood DEF CallCold, Keeps, IInv, TypeOK, OneRefresh, OnlyWholeLists, SettledFacts, Good, GoodFetch

LEMMA StartRefreshKeeps ==
  ASSUME IInv, NEW c \in Callers, StartRefresh(c)
  PROVE  Keeps
BY FreshFetches, FreshGood DEF StartRefresh, Keeps, IInv, TypeOK, OneRefresh, OnlyWholeLists, SettledFacts, Good, GoodFetch

LEMMA CallReadsKeeps ==
  ASSUME IInv, NEW c \in Callers, CallReads(c)
  PROVE  Keeps
<1>1. PICK f \in FetchStep(call[c]) : call' = [call EXCEPT ![c] = f]
  BY DEF CallReads
<1>2. f \in Fetches /\ GoodFetch(f) /\ f.at # "none"
  BY <1>1, StepGood DEF CallReads, IInv, TypeOK
<1>3. ~SettledFacts
  BY DEF CallReads, SettledFacts
<1> QED BY <1>1, <1>2, <1>3 DEF CallReads, Keeps, IInv, TypeOK, OneRefresh, OnlyWholeLists, Good, GoodFetch

LEMMA RefreshReadsKeeps ==
  ASSUME IInv, NEW c \in Callers, RefreshReads(c)
  PROVE  Keeps
<1>1. PICK f \in FetchStep(refresh[c]) : refresh' = [refresh EXCEPT ![c] = f]
  BY DEF RefreshReads
<1>2. /\ f \in Fetches /\ GoodFetch(f) /\ f.at # "none"
      /\ f.list.oldest > 0 => f.list.oldest = refresh[c].list.oldest \/ f.list.oldest = source
  BY <1>1, StepGood DEF RefreshReads, IInv, TypeOK
<1>3. UNCHANGED <<source, cache, loaded, expired, refreshing, call>> /\ refresh[c].at = "reading"
  BY DEF RefreshReads
<1>4. TypeOK'
  BY <1>1, <1>2, <1>3 DEF IInv, TypeOK
<1>5. OneRefresh'
  BY <1>1, <1>2, <1>3 DEF IInv, TypeOK, OneRefresh
<1>6. (\A d \in Callers : GoodFetch(call[d]) /\ GoodFetch(refresh[d]))' /\ Good(cache)' /\ OnlyWholeLists'
  BY <1>1, <1>2, <1>3 DEF IInv, TypeOK, Good, GoodFetch, OnlyWholeLists
<1>7. ASSUME SettledFacts PROVE SettledFacts'
  <2>1. cache.newest <= source
    BY DEF IInv, Good
  <2> QED BY <1>1, <1>2, <1>3, <1>7, <2>1 DEF SettledFacts, IInv, TypeOK, Fetches, Lists
<1> QED BY <1>4, <1>5, <1>6, <1>7 DEF Keeps, IInv

(* A store of a whole list, and the fetch that stored it over. *)
LEMMA CallStoresKeeps ==
  ASSUME IInv, NEW c \in Callers, CallStores(c) \/ CallFails(c)
  PROVE  Keeps
<1>1. call' = [call EXCEPT ![c] = NoFetch] /\ UNCHANGED <<source, refreshing, refresh>>
  BY DEF CallStores, CallFails
<1>2. \/ UNCHANGED <<cache, loaded, expired>>
      \/ /\ cache' = call[c].list /\ cache'.whole /\ cache'.oldest > 0
         /\ loaded' = TRUE /\ expired' = FALSE
  BY DEF CallStores, CallFails, Store, IInv, GoodFetch
<1>3. ~SettledFacts
  BY DEF CallStores, CallFails, SettledFacts
<1>4. TypeOK'
  <2>1. call[c].list \in Lists
    BY DEF IInv, TypeOK, Fetches
  <2>2. cache' \in Lists /\ loaded' \in BOOLEAN /\ expired' \in BOOLEAN
    BY <1>2, <2>1 DEF IInv, TypeOK
  <2>3. call' \in [Callers -> Fetches]
    BY <1>1, FreshFetches DEF IInv, TypeOK
  <2> QED BY <1>1, <2>2, <2>3 DEF IInv, TypeOK
<1>5. OneRefresh'
  BY <1>1 DEF IInv, OneRefresh
<1>6. (\A d \in Callers : GoodFetch(call[d]) /\ GoodFetch(refresh[d]))'
  BY <1>1, FreshGood DEF IInv, TypeOK, Good, GoodFetch
<1>7. Good(cache)' /\ OnlyWholeLists'
  BY <1>1, <1>2 DEF IInv, Good, GoodFetch, OnlyWholeLists
<1> QED BY <1>3, <1>4, <1>5, <1>6, <1>7 DEF Keeps, IInv

LEMMA RefreshEndsKeeps ==
  ASSUME IInv, NEW c \in Callers, RefreshStores(c) \/ RefreshFails(c)
  PROVE  Keeps
<1>1. /\ refresh' = [refresh EXCEPT ![c] = NoFetch] /\ refreshing' = FALSE
      /\ UNCHANGED <<source, call>>
      /\ refresh[c].at # "none"
  BY DEF RefreshStores, RefreshFails
<1>2. \/ UNCHANGED <<cache, loaded, expired>>
      \/ /\ cache' = refresh[c].list /\ cache'.whole /\ cache'.oldest > 0
         /\ loaded' = TRUE /\ expired' = FALSE
  BY DEF RefreshStores, RefreshFails, Store, IInv, GoodFetch
<1>3. \A d \in Callers : refresh'[d].at = "none"
  BY <1>1, FreshFetches DEF IInv, TypeOK, OneRefresh
<1>4. TypeOK'
  <2>1. refresh[c].list \in Lists
    BY DEF IInv, TypeOK, Fetches
  <2>2. cache' \in Lists /\ loaded' \in BOOLEAN /\ expired' \in BOOLEAN
    BY <1>2, <2>1 DEF IInv, TypeOK
  <2>3. refresh' \in [Callers -> Fetches]
    BY <1>1, FreshFetches DEF IInv, TypeOK
  <2> QED BY <1>1, <2>2, <2>3 DEF IInv, TypeOK
<1>5. OneRefresh'
  BY <1>1, <1>3 DEF OneRefresh
<1>6. (\A d \in Callers : GoodFetch(call[d]) /\ GoodFetch(refresh[d]))'
  BY <1>1, FreshGood DEF IInv, TypeOK, Good, GoodFetch
<1>7. Good(cache)' /\ OnlyWholeLists'
  BY <1>1, <1>2 DEF IInv, Good, GoodFetch, OnlyWholeLists
<1>8. \A d \in Callers : refresh'[d].list.oldest = 0
  BY <1>3, <1>6, FreshFetches DEF GoodFetch
<1>9. SettledFacts => SettledFacts'
  <2>1. UNCHANGED call /\ (loaded => loaded')
    BY <1>1, <1>2
  <2>2. \A d \in Callers : ~(refresh'[d].list.oldest > 0)
    BY <1>8
  <2> QED BY <2>1, <2>2 DEF SettledFacts
<1> QED BY <1>4, <1>5, <1>6, <1>7, <1>9 DEF Keeps, IInv

LEMMA WorldKeeps ==
  ASSUME IInv, SourceChanges \/ Expire
  PROVE  Keeps
<1>1. /\ source' \in Nat \ {0} /\ source' >= source /\ expired' \in BOOLEAN
      /\ UNCHANGED <<cache, loaded, refreshing, call, refresh>>
  <2>1. CASE SourceChanges   BY <2>1 DEF SourceChanges, IInv, TypeOK
  <2>2. CASE Expire          BY <2>2 DEF Expire, IInv, TypeOK
  <2> QED BY <2>1, <2>2
<1>2. TypeOK' /\ OneRefresh' /\ OnlyWholeLists' /\ (SettledFacts => SettledFacts')
  BY <1>1 DEF IInv, TypeOK, OneRefresh, OnlyWholeLists, SettledFacts
<1>3. \A list \in Lists : Good(list) => Good(list)'
  BY <1>1 DEF Good, Lists, IInv, TypeOK
<1>4. Good(cache)' /\ \A c \in Callers : GoodFetch(call[c])' /\ GoodFetch(refresh[c])'
  BY <1>1, <1>3 DEF IInv, TypeOK, GoodFetch, Fetches, Good
<1> QED BY <1>2, <1>4, <1>1 DEF Keeps, IInv

LEMMA NextKeeps == IInv /\ Next => Keeps
BY CallColdKeeps, StartRefreshKeeps, CallReadsKeeps, RefreshReadsKeeps, CallStoresKeeps,
   RefreshEndsKeeps, WorldKeeps DEF Next, CallGoesOn, RefreshGoesOn

LEMMA QuietSettles == IInv /\ Quiet => SettledFacts
BY FreshFetches DEF IInv, GoodFetch, Quiet, SettledFacts

LEMMA AuditNextInv == AuditInv /\ [AuditNext]_<<vars, settled>> => AuditInv'
<1> SUFFICES ASSUME AuditInv, [AuditNext]_<<vars, settled>> PROVE AuditInv'
  OBVIOUS
<1>1. CASE AuditNext
  <2>1. settled' => SettledFacts
    BY <1>1, QuietSettles DEF AuditNext, AuditInv
  <2> QED BY <1>1, <2>1, NextKeeps DEF AuditNext, AuditInv, Keeps
<1>2. CASE UNCHANGED <<vars, settled>>
  BY <1>2 DEF vars, AuditInv, IInv, TypeOK, OneRefresh, OnlyWholeLists, SettledFacts, Good, GoodFetch
<1> QED BY <1>1, <1>2

-----------------------------------------------------------------------------
(* The inductive invariant, with the settled facts. *)
THEOREM Invariance == AuditSpec => []AuditInv
<1>1. AuditInit => AuditInv
  BY InitInv DEF AuditInit, AuditInv
<1> QED BY <1>1, AuditNextInv, PTL DEF AuditSpec

(* Shapes, and no fetch of more than MaxPages pages. *)
THEOREM TypeCorrect == AuditSpec => []TypeOK
<1>1. AuditInv => TypeOK BY DEF AuditInv, IInv
<1> QED BY <1>1, Invariance, PTL

(* The flag is up exactly while the one background refresh runs. *)
THEOREM SingleRefresh == AuditSpec => []OneRefresh
<1>1. AuditInv => OneRefresh BY DEF AuditInv, IInv
<1> QED BY <1>1, Invariance, PTL

(* No fetch that broke off is ever cached. *)
THEOREM WholeLists == AuditSpec => []OnlyWholeLists
<1>1. AuditInv => OnlyWholeLists BY DEF AuditInv, IInv
<1> QED BY <1>1, Invariance, PTL

(* After the first fetches, what is cached never gets older. *)
THEOREM Forward == AuditSpec => OnlyForward
<1>1. ASSUME AuditInv, [AuditNext]_<<vars, settled>>, settled, cache' # cache
      PROVE  cache'.oldest >= cache.newest
  <2>1. SettledFacts
    BY <1>1 DEF AuditInv
  <2>2. Next
    BY <1>1 DEF AuditNext, vars
  <2>3. PICK c \in Callers : CallStores(c) \/ RefreshStores(c)
    BY <1>1, <2>2 DEF Next, CallGoesOn, RefreshGoesOn, CallCold, StartRefresh, CallReads, CallFails,
                      RefreshReads, RefreshFails, SourceChanges, Expire
  <2>4. RefreshStores(c)
    BY <2>1, <2>3 DEF CallStores, SettledFacts
  <2>5. cache' = refresh[c].list /\ refresh[c].list.oldest > 0
    BY <1>1, <2>4 DEF RefreshStores, Store, AuditInv, IInv, GoodFetch
  <2> QED BY <2>1, <2>5 DEF SettledFacts
<1>2. AuditInv /\ [AuditNext]_<<vars, settled>> =>
        [settled /\ cache' # cache => cache'.oldest >= cache.newest]_<<vars, settled>>
  BY <1>1
<1> QED BY <1>2, Invariance, PTL DEF AuditSpec, OnlyForward
=============================================================================
