-------------------------- MODULE SubRequestsProofs --------------------------
(***************************************************************************)
(* Proofs about SubRequests, for any users, handlers and number of rows:   *)
(* nobody covers a show for himself, the service implements Coverage, and  *)
(* its answers are deserved and tell what was done.  Then about            *)
(* Notifications, for any channel besides: the composition is still the    *)
(* service, every mail goes to those its change concerned, and no change   *)
(* is announced that was not made.                                         *)
(***************************************************************************)
EXTENDS SubRequestsAudit, Notifications, AsyncNotifierProofs, FiniteSetTheorems, TLAPS

(* Each action has one entry in the policy, so a request is allowed when   *)
(* the resource has that entry's type and that entry's rule matches.       *)
LEMMA OneEntryPerAction ==
  ASSUME NEW s, NEW r, NEW p \in BaselinePolicies
  PROVE  Authorize(s, p.action, r) <=> r.type = p.type /\ MatchesRule(p.rule, s, r)
<1>1. \A q \in BaselinePolicies : q.action = p.action => q = p
  BY DEF BaselinePolicies, Rule
<1>2. QED
  BY <1>1 DEF Authorize, Enforce

-----------------------------------------------------------------------------
(* What a resource built from a row holds, and so what the rules on sub    *)
(* requests say of the row itself.                                         *)

LEMMA RowResource ==
  ASSUME NEW sr
  PROVE  LET r == SubRequestResource(sr) IN
         /\ r.type = "subrequest"
         /\ r.owner = sr.postedBy
         /\ r.taker = sr.takenBy
         /\ r.hasTaker <=> sr.takenBy # NoUser
         /\ r.open <=> sr.takenBy = NoUser
BY DEF SubRequestResource, Blank

LEMMA DeleteRule ==
  ASSUME NEW v, NEW sr
  PROVE  Authorize(v, "subrequest:delete", SubRequestResource(sr))
            <=> sr.postedBy = v.id \/ v.admin
<1>1. Rule("subrequest:delete", "subrequest", "owner_or_admin") \in BaselinePolicies
  BY DEF BaselinePolicies
<1>2. Authorize(v, "subrequest:delete", SubRequestResource(sr))
        <=> /\ SubRequestResource(sr).type = "subrequest"
            /\ MatchesRule("owner_or_admin", v, SubRequestResource(sr))
  BY <1>1, OneEntryPerAction DEF Rule
<1>3. QED
  BY <1>2, RowResource DEF MatchesRule

LEMMA TakeRule ==
  ASSUME NEW v, NEW sr
  PROVE  Authorize(v, "subrequest:take", SubRequestResource(sr))
            <=> sr.takenBy = NoUser /\ sr.postedBy # v.id
<1>1. Rule("subrequest:take", "subrequest", "open_non_owner") \in BaselinePolicies
  BY DEF BaselinePolicies
<1>2. Authorize(v, "subrequest:take", SubRequestResource(sr))
        <=> /\ SubRequestResource(sr).type = "subrequest"
            /\ MatchesRule("open_non_owner", v, SubRequestResource(sr))
  BY <1>1, OneEntryPerAction DEF Rule
<1>3. QED
  BY <1>2, RowResource DEF MatchesRule

LEMMA UntakeRule ==
  ASSUME NEW v, NEW sr
  PROVE  Authorize(v, "subrequest:untake", SubRequestResource(sr))
            <=> sr.takenBy # NoUser /\ sr.takenBy = v.id
<1>1. Rule("subrequest:untake", "subrequest", "taker") \in BaselinePolicies
  BY DEF BaselinePolicies
<1>2. Authorize(v, "subrequest:untake", SubRequestResource(sr))
        <=> /\ SubRequestResource(sr).type = "subrequest"
            /\ MatchesRule("taker", v, SubRequestResource(sr))
  BY <1>1, OneEntryPerAction DEF Rule
<1>3. QED
  BY <1>2, RowResource DEF MatchesRule

-----------------------------------------------------------------------------
USE UsersAssumption, MaxIdAssumption

(* The inductive invariant: the shape of the state, the property, and what *)
(* keeps a stale copy of a row good enough to act on.                      *)
IInv == TypeOK /\ NoSelfCover /\ IdsRunUp /\ AuthorityStands

-----------------------------------------------------------------------------
(* The table.  A write changes one row, and never an allocated row's poster *)
(* other than by removing the row.                                         *)

TableStep(h) == \/ pc[h] = "insert" /\ Insert(h)
                \/ pc[h] = "delete" /\ Remove(h)
                \/ pc[h] = "take"   /\ SetTaker(h)
                \/ pc[h] = "untake" /\ ClearTaker(h)
                \/ UNCHANGED <<rows, nextId>>

TableOK == /\ rows \in [Ids -> Rows \cup {NoRow}]
           /\ nextId \in 1..(MaxId + 1)
           /\ NoSelfCover
           /\ \A id \in Ids : id >= nextId => rows[id] = NoRow

PosterStays ==
  /\ nextId <= nextId'
  /\ \A id \in 1..(nextId - 1) :
       rows[id].postedBy = rows'[id].postedBy \/ rows'[id].postedBy = NoUser

LEMMA TableInv ==
  ASSUME IInv, NEW h \in Handlers, TableStep(h)
  PROVE  TableOK' /\ PosterStays
<1> USE DEF TableOK, PosterStays, Ids, Rows, NoRow, Exists
<1>0. TableOK
  BY DEF IInv, TypeOK, IdsRunUp
<1>1. CASE pc[h] = "insert" /\ Insert(h)
  <2>1. job[h].viewer.id \in Users
    BY <1>1 DEF IInv, AuthorityStands, Jobs, Viewer
  <2>2. QED
    BY <1>0, <1>1, <2>1 DEF Insert, NoSelfCover
<1>2. CASE pc[h] = "delete" /\ Remove(h)
  <2>1. job[h].id \in 1..(nextId - 1)
    BY <1>2 DEF IInv, IdsRunUp
  <2>2. /\ rows' = [rows EXCEPT ![job[h].id] = NoRow] /\ nextId' = nextId
        /\ NoRow.postedBy = NoUser
    BY <1>2 DEF Remove
  <2>3. rows' \in [Ids -> Rows \cup {NoRow}]
    BY <1>0, <2>2
  <2>4. \A id \in Ids : rows'[id] = rows[id] \/ rows'[id] = NoRow
    BY <1>0, <2>2
  <2>5. NoSelfCover'
    BY <1>0, <2>2, <2>4 DEF NoSelfCover
  <2>6. QED
    BY <1>0, <2>2, <2>3, <2>4, <2>5
<1>3. CASE pc[h] = "take" /\ SetTaker(h)
  <2>1. /\ job[h].id \in 1..(nextId - 1)
        /\ job[h].viewer.id \in Users
        /\ rows[job[h].id].postedBy # job[h].viewer.id
    BY <1>3 DEF IInv, IdsRunUp, AuthorityStands, Jobs, Viewer
  <2>2. QED
    BY <1>0, <1>3, <2>1 DEF SetTaker, CanSetTaker, NoSelfCover
<1>4. CASE pc[h] = "untake" /\ ClearTaker(h)
  <2>1. /\ job[h].id \in 1..(nextId - 1)
        /\ job[h].viewer.id \in Users
    BY <1>4 DEF IInv, IdsRunUp, AuthorityStands, Jobs, Viewer
  <2>2. QED
    BY <1>0, <1>4, <2>1 DEF ClearTaker, CanClearTaker, NoSelfCover
<1>5. CASE UNCHANGED <<rows, nextId>>
  BY <1>0, <1>5 DEF NoSelfCover
<1>6. QED
  BY <1>1, <1>2, <1>3, <1>4, <1>5 DEF TableStep

-----------------------------------------------------------------------------
(* One handler moves: the others keep what they were allowed, because the  *)
(* poster of the row they read stays.                                      *)

LEMMA MoveInv ==
  ASSUME IInv, NEW h \in Handlers, TableStep(h),
         NEW l \in Labels, pc' = [pc EXCEPT ![h] = l],
         NEW j \in Jobs, job' = [job EXCEPT ![h] = j],
         event' \in [Handlers -> Events \cup {NoEvent}],
         answer' \in [Handlers -> Answers],
         l \notin {"idle", "insert"} => j.id \in 1..(nextId' - 1),
         l = "insert" => j.op = "create",
         l = "take"   => j.op = "take" /\ rows'[j.id].postedBy # j.viewer.id,
         l = "delete" => /\ j.op = "delete"
                         /\ rows'[j.id].postedBy # NoUser =>
                              j.viewer.admin \/ rows'[j.id].postedBy = j.viewer.id,
         l \in {"untakeDetail", "untake"} => j.op = "untake"
  PROVE  IInv'
<1>1. TableOK' /\ PosterStays
  BY TableInv
<1>2. /\ pc \in [Handlers -> Labels]
      /\ job \in [Handlers -> Jobs \cup {NoJob}]
      /\ nextId \in Nat /\ nextId' \in Nat
  BY <1>1 DEF IInv, TypeOK, TableOK
<1>3. TypeOK'
  BY <1>1, <1>2 DEF TypeOK, TableOK
<1>4. NoSelfCover'
  BY <1>1 DEF TableOK
<1>5. IdsRunUp'
  <2>1. ASSUME NEW g \in Handlers, pc'[g] \notin {"idle", "insert"}
        PROVE  job'[g].id \in 1..(nextId' - 1)
    BY <1>1, <1>2, <2>1 DEF IInv, IdsRunUp, PosterStays
  <2>2. QED
    BY <1>1, <2>1 DEF IdsRunUp, TableOK
<1>6. AuthorityStands'
  <2> SUFFICES ASSUME NEW g \in Handlers
               PROVE  LET k == job'[g] IN
                      /\ pc'[g] # "idle" => k \in Jobs
                      /\ pc'[g] = "insert" => k.op = "create"
                      /\ pc'[g] = "take"   => k.op = "take" /\ rows'[k.id].postedBy # k.viewer.id
                      /\ pc'[g] = "delete" => /\ k.op = "delete"
                                              /\ rows'[k.id].postedBy # NoUser =>
                                                   k.viewer.admin \/ rows'[k.id].postedBy = k.viewer.id
                      /\ pc'[g] \in {"untakeDetail", "untake"} => k.op = "untake"
    BY DEF AuthorityStands, Exists
  <2>1. CASE g = h
    BY <1>2, <2>1
  <2>2. CASE g # h
    <3>1. pc'[g] = pc[g] /\ job'[g] = job[g]
      BY <1>2, <2>2
    <3>2. CASE pc[g] \in {"take", "delete"}
      <4>1. /\ job[g].id \in 1..(nextId - 1)
            /\ job[g].viewer.id \in Users
        BY <3>2 DEF IInv, IdsRunUp, AuthorityStands, Jobs, Viewer
      <4>2. \/ rows[job[g].id].postedBy = rows'[job[g].id].postedBy
            \/ rows'[job[g].id].postedBy = NoUser
        BY <1>1, <4>1 DEF PosterStays
      <4>3. QED
        BY <3>1, <3>2, <4>1, <4>2 DEF IInv, AuthorityStands, Exists
    <3>3. CASE pc[g] \notin {"take", "delete"}
      BY <3>1, <3>3 DEF IInv, AuthorityStands
    <3>4. QED
      BY <3>2, <3>3
  <2>3. QED
    BY <2>1, <2>2
<1>7. QED
  BY <1>3, <1>4, <1>5, <1>6 DEF IInv

(* A step of a handler writes the table once at most. *)
LEMMA StepWritesOnce ==
  ASSUME NEW h \in Handlers, Step(h)
  PROVE  TableStep(h)
<1>1. CASE Arrive(h)
  BY <1>1 DEF Arrive, BeginCreate, BeginDelete, BeginTake, BeginUntake, BeginFails, Begin, TableStep
<1>2. CASE Work(h)
  BY <1>2 DEF Work, CreateWrite, DeleteWrite, TakeWrite, UntakeWrite, Missed, StatementFails,
              ReplyLost, TakeDetail, UntakeDetail, Notify, TableStep, SetTaker, ClearTaker, Remove
<1>3. QED
  BY <1>1, <1>2 DEF Step

-----------------------------------------------------------------------------
(* Every step of a handler is such a move. *)

LEMMA InitInv == Init => IInv
<1> SUFFICES ASSUME Init PROVE IInv
  OBVIOUS
<1>1. TypeOK
  BY DEF Init, TypeOK, Ids, Labels, Answers
<1>2. NoSelfCover /\ IdsRunUp /\ AuthorityStands
  BY DEF Init, NoSelfCover, IdsRunUp, AuthorityStands, Exists, NoRow, Ids
<1>3. QED
  BY <1>1, <1>2 DEF IInv

(* A request comes in: what it may go on to do is what the row it read allows. *)
LEMMA BeginInv ==
  ASSUME IInv, NEW h \in Handlers, NEW v \in Viewer(Users), NEW id \in {0} \cup Ids,
         NEW op \in {"create", "take", "untake", "delete"},
         NEW refusal \in Answers, NEW label \in {"insert", "delete", "take", "untakeDetail"},
         Begin(h, op, v, id, refusal, label),
         refusal = "none" =>
            /\ label = "insert" => op = "create"
            /\ label # "insert" => id \in Ids /\ Exists(id)
            /\ label = "take"   => op = "take" /\ rows[id].postedBy # v.id
            /\ label = "delete" => op = "delete" /\ (v.admin \/ rows[id].postedBy = v.id)
            /\ label = "untakeDetail" => op = "untake"
  PROVE  IInv'
<1> DEFINE j == [op |-> op, viewer |-> v, id |-> id]
           l == IF refusal = "none" THEN label ELSE "idle"
<1>1. j \in Jobs /\ l \in Labels
  BY DEF Jobs, Labels
<1>2. /\ TableStep(h)
      /\ pc' = [pc EXCEPT ![h] = l]
      /\ job' = [job EXCEPT ![h] = j]
      /\ UNCHANGED <<rows, nextId>>
  BY DEF Begin, TableStep
<1>3. event' \in [Handlers -> Events \cup {NoEvent}] /\ answer' \in [Handlers -> Answers]
  BY DEF Begin, IInv, TypeOK
<1>4. l \notin {"idle", "insert"} => j.id \in 1..(nextId' - 1)
  <2>1. ASSUME id \in Ids, Exists(id) PROVE id \in 1..(nextId - 1)
    BY <2>1 DEF IInv, TypeOK, IdsRunUp, Exists, NoRow, Ids
  <2>2. QED
    BY <1>2, <2>1
<1> HIDE DEF j
<1>5. j.op = op /\ j.viewer = v /\ j.id = id
  BY DEF j
<1>6. QED
  BY <1>1, <1>2, <1>3, <1>4, <1>5, MoveInv

LEMMA ArriveInv ==
  ASSUME IInv, NEW h \in Handlers, Arrive(h)
  PROVE  IInv'
<1> USE DEF Answers, Ids
<1>1. PICK v \in Viewer(Users) :
        \/ BeginCreate(h, v)
        \/ \E id \in Ids : \/ BeginDelete(h, v, id) \/ BeginTake(h, v, id)
                           \/ BeginUntake(h, v, id) \/ BeginFails(h, v, id)
  BY DEF Arrive
<1>2. CASE BeginCreate(h, v)
  BY <1>2, BeginInv DEF BeginCreate
<1>3. ASSUME NEW id \in Ids, BeginDelete(h, v, id) PROVE IInv'
  <2>1. DeleteRefusal(v, id) \in Answers
    BY DEF DeleteRefusal
  <2>2. DeleteRefusal(v, id) = "none" =>
          Exists(id) /\ (v.admin \/ rows[id].postedBy = v.id)
    BY DeleteRule DEF DeleteRefusal
  <2>3. QED
    BY <1>3, <2>1, <2>2, BeginInv DEF BeginDelete
<1>4. ASSUME NEW id \in Ids, BeginTake(h, v, id) PROVE IInv'
  <2>1. TakeRefusal(v, id) \in Answers
    BY DEF TakeRefusal
  <2>2. TakeRefusal(v, id) = "none" => Exists(id) /\ rows[id].postedBy # v.id
    BY TakeRule DEF TakeRefusal
  <2>3. QED
    BY <1>4, <2>1, <2>2, BeginInv DEF BeginTake
<1>5. ASSUME NEW id \in Ids, BeginUntake(h, v, id) PROVE IInv'
  <2>1. UntakeRefusal(v, id) \in Answers
    BY DEF UntakeRefusal
  <2>2. UntakeRefusal(v, id) = "none" => Exists(id)
    BY DEF UntakeRefusal
  <2>3. QED
    BY <1>5, <2>1, <2>2, BeginInv DEF BeginUntake
<1>6. ASSUME NEW id \in Ids, BeginFails(h, v, id) PROVE IInv'
  <2>1. PICK op \in {"delete", "take", "untake"} : Begin(h, op, v, id, "error", "idle")
    BY <1>6 DEF BeginFails
  <2>2. Begin(h, op, v, id, "error", "insert")
    BY <2>1 DEF Begin
  <2>3. QED
    BY <2>2, BeginInv
<1>7. QED
  BY <1>1, <1>2, <1>3, <1>4, <1>5, <1>6

(* A working handler goes on or answers, keeping its request.              *)
LEMMA GoOnInv ==
  ASSUME IInv, NEW h \in Handlers, TableStep(h), pc[h] \notin {"idle", "insert"},
         NEW l \in {"idle", "takeMissed", "takeDetail", "untakeMissed", "untake", "notify"},
         pc' = [pc EXCEPT ![h] = l], UNCHANGED job,
         event' \in [Handlers -> Events \cup {NoEvent}],
         answer' \in [Handlers -> Answers],
         l = "untake" => job[h].op = "untake"
  PROVE  IInv'
<1>1. job[h] \in Jobs /\ job' = [job EXCEPT ![h] = job[h]]
  BY DEF IInv, TypeOK, AuthorityStands
<1>2. job[h].id \in 1..(nextId' - 1)
  <2>1. job[h].id \in 1..(nextId - 1) /\ nextId \in Nat /\ nextId' \in Nat
    BY TableInv DEF IInv, TypeOK, TableOK, IdsRunUp
  <2>2. QED
    BY <2>1, TableInv DEF PosterStays
<1>3. QED
  BY <1>1, <1>2, MoveInv DEF Labels

(* A handler answers: whatever it was about to do, it does no more.        *)
LEMMA RespondInv ==
  ASSUME IInv, NEW h \in Handlers, TableStep(h), pc[h] # "idle",
         NEW a \in Answers, Respond(h, a), UNCHANGED <<job, event>>
  PROVE  IInv'
<1>1. job[h] \in Jobs /\ job' = [job EXCEPT ![h] = job[h]]
  BY DEF IInv, TypeOK, AuthorityStands
<1>2. answer' \in [Handlers -> Answers] /\ event' \in [Handlers -> Events \cup {NoEvent}]
  BY DEF IInv, TypeOK, Respond
<1>3. QED
  BY <1>1, <1>2, MoveInv DEF Labels, Respond

LEMMA WorkInv ==
  ASSUME IInv, NEW h \in Handlers, Work(h)
  PROVE  IInv'
<1> USE DEF Answers
<1>0. /\ answer \in [Handlers -> Answers]
      /\ event \in [Handlers -> Events \cup {NoEvent}]
      /\ pc[h] # "idle" => job[h] \in Jobs
      /\ pc[h] \notin {"idle", "insert"} => job[h].id \in Ids
  BY DEF IInv, TypeOK, AuthorityStands, IdsRunUp, Ids
<1>1. CASE CreateWrite(h)
  <2> DEFINE j == [job[h] EXCEPT !.id = nextId]
             e == [kind |-> "created", id |-> nextId,
                   requester |-> job[h].viewer.id, taker |-> NoUser]
  <2>1. TableStep(h) /\ pc' = [pc EXCEPT ![h] = "notify"] /\ UNCHANGED answer
    BY <1>1 DEF CreateWrite, TableStep, Goto
  <2>2. j \in Jobs /\ j.id = nextId /\ e \in Events /\ nextId' = nextId + 1 /\ nextId \in Nat \ {0}
    BY <1>0, <1>1 DEF CreateWrite, Insert, Jobs, Events, Viewer, Ids
  <2>3. job' = [job EXCEPT ![h] = j] /\ event' = [event EXCEPT ![h] = e]
    BY <1>1 DEF CreateWrite
  <2>4. event' \in [Handlers -> Events \cup {NoEvent}]
    BY <1>0, <2>2, <2>3
  <2> HIDE DEF j, e
  <2>5. j.id \in 1..(nextId' - 1)
    BY <2>2
  <2>6. QED
    BY <1>0, <2>1, <2>2, <2>3, <2>4, <2>5, MoveInv DEF Labels
<1>2. CASE DeleteWrite(h)
  <2>1. TableStep(h) /\ (Respond(h, "ok") \/ Respond(h, "notFound")) /\ UNCHANGED <<job, event>>
    BY <1>2 DEF DeleteWrite, TableStep
  <2>2. QED
    BY <1>2, <2>1, RespondInv DEF DeleteWrite
<1>3. CASE TakeWrite(h)
  <2>1. /\ TableStep(h) /\ UNCHANGED <<job, event, answer>>
        /\ \/ pc' = [pc EXCEPT ![h] = "takeDetail"]
           \/ pc' = [pc EXCEPT ![h] = "takeMissed"]
    BY <1>3 DEF TakeWrite, TableStep, Goto
  <2>2. QED
    BY <1>0, <1>3, <2>1, GoOnInv DEF TakeWrite
<1>4. CASE UntakeWrite(h)
  <2>1. CASE ClearTaker(h) /\ event[h] = NoEvent
    <3>1. TableStep(h) /\ Respond(h, "ok") /\ UNCHANGED <<job, event>>
      BY <1>4, <2>1 DEF UntakeWrite, TableStep, ClearTaker
    <3>2. QED
      BY <1>4, <3>1, RespondInv DEF UntakeWrite
  <2>2. CASE ~(ClearTaker(h) /\ event[h] = NoEvent)
    <3>1. /\ TableStep(h) /\ UNCHANGED <<job, event, answer>>
          /\ \/ pc' = [pc EXCEPT ![h] = "notify"]
             \/ pc' = [pc EXCEPT ![h] = "untakeMissed"]
      BY <1>4, <2>2 DEF UntakeWrite, TableStep, Goto
    <3>2. QED
      BY <1>0, <1>4, <3>1, GoOnInv DEF UntakeWrite
  <2>3. QED
    BY <2>1, <2>2
<1>5. CASE Missed(h)
  <2>1. TableStep(h) /\ (Respond(h, "conflict") \/ Respond(h, "notFound")) /\ UNCHANGED <<job, event>>
    BY <1>5 DEF Missed, TableStep
  <2>2. QED
    BY <1>5, <2>1, RespondInv DEF Missed
<1>6. CASE StatementFails(h)
  <2>1. TableStep(h) /\ Respond(h, "error") /\ UNCHANGED <<job, event>>
    BY <1>6 DEF StatementFails, TableStep
  <2>2. QED
    BY <1>6, <2>1, RespondInv DEF StatementFails
<1>7. CASE ReplyLost(h)
  <2>1. TableStep(h) /\ Respond(h, "error") /\ UNCHANGED <<job, event>>
    BY <1>7 DEF ReplyLost, TableStep
  <2>2. QED
    BY <1>7, <2>1, RespondInv DEF ReplyLost
<1>8. CASE TakeDetail(h)
  <2>1. TableStep(h) /\ UNCHANGED job
    BY <1>8 DEF TakeDetail, TableStep
  <2>2. CASE Respond(h, "ok") /\ UNCHANGED event
    BY <1>8, <2>1, <2>2, RespondInv DEF TakeDetail
  <2>3. CASE Exists(job[h].id) /\ event' = [event EXCEPT ![h] = TakenEvent(h)] /\ Goto(h, "notify")
    <3>1. rows[job[h].id] \in Rows
      BY <1>0, <1>8, <2>3 DEF TakeDetail, IInv, TypeOK, Exists, NoRow
    <3>2. TakenEvent(h) \in Events
      BY <1>0, <1>8, <3>1 DEF TakeDetail, TakenEvent, Events, Rows
    <3>3. event' \in [Handlers -> Events \cup {NoEvent}]
      BY <1>0, <2>3, <3>2
    <3>4. QED
      BY <1>0, <1>8, <2>1, <2>3, <3>3, GoOnInv DEF TakeDetail, Goto
  <2>4. QED
    BY <1>8, <2>2, <2>3 DEF TakeDetail
<1>9. CASE UntakeDetail(h)
  <2>1. TableStep(h) /\ UNCHANGED <<job, answer>> /\ pc' = [pc EXCEPT ![h] = "untake"]
    BY <1>9 DEF UntakeDetail, TableStep, Goto
  <2>2. event' \in [Handlers -> Events \cup {NoEvent}]
    <3>1. CASE UNCHANGED event
      BY <1>0, <3>1
    <3>2. CASE ~UNCHANGED event
      <4> DEFINE e == [kind |-> "untaken", id |-> job[h].id,
                       requester |-> rows[job[h].id].postedBy, taker |-> job[h].viewer.id]
      <4>1. Exists(job[h].id) /\ event' = [event EXCEPT ![h] = e] /\ pc[h] = "untakeDetail"
        BY <1>9, <3>2 DEF UntakeDetail
      <4>2. rows[job[h].id] \in Rows
        BY <1>0, <4>1 DEF IInv, TypeOK, Exists, NoRow
      <4>3. e \in Events
        BY <1>0, <4>1, <4>2 DEF Events, Rows, Jobs, Viewer
      <4>4. QED
        BY <1>0, <4>1, <4>3
    <3>3. QED
      BY <3>1, <3>2
  <2>3. job[h].op = "untake"
    BY <1>9 DEF UntakeDetail, IInv, AuthorityStands
  <2>4. QED
    BY <1>0, <1>9, <2>1, <2>2, <2>3, GoOnInv DEF UntakeDetail
<1>10. CASE Notify(h)
  <2>1. TableStep(h) /\ Respond(h, "ok") /\ UNCHANGED <<job, event>>
    BY <1>10 DEF Notify, TableStep
  <2>2. QED
    BY <1>10, <2>1, RespondInv DEF Notify
<1>11. QED
  BY <1>1, <1>2, <1>3, <1>4, <1>5, <1>6, <1>7, <1>8, <1>9, <1>10 DEF Work

LEMMA NextInv == IInv /\ [Next]_vars => IInv'
<1> SUFFICES ASSUME IInv, [Next]_vars PROVE IInv'
  OBVIOUS
<1>1. CASE Next
  BY <1>1, ArriveInv, WorkInv DEF Next, Step
<1>2. CASE UNCHANGED vars
  BY <1>2 DEF vars, IInv, TypeOK, NoSelfCover, IdsRunUp, AuthorityStands, Exists
<1>3. QED
  BY <1>1, <1>2

(* The inductive invariant holds of every behaviour. *)
THEOREM Invariance == Spec => []IInv
<1>1. QED
  BY InitInv, NextInv, PTL DEF Spec

(* Every variable keeps its shape, whatever the handlers interleave. *)
THEOREM TypeCorrect == Spec => []TypeOK
<1>1. IInv => TypeOK
  BY DEF IInv
<1>2. QED
  BY <1>1, Invariance, PTL

(* Nobody covers a show for himself: TakeSubRequest's UPDATE names no owner, *)
(* and need not, as the row its handler read cannot have become the viewer's. *)
THEOREM NobodyCoversHimself == Spec => []NoSelfCover
<1>1. IInv => NoSelfCover
  BY DEF IInv
<1>2. QED
  BY <1>1, Invariance, PTL

(* A permission checked on a copy of the row is still good at the write.   *)
THEOREM CheckedPermissionsStand == Spec => []AuthorityStands
<1>1. IInv => AuthorityStands
  BY DEF IInv
<1>2. QED
  BY <1>1, Invariance, PTL

(* A page shows a button for a row as it stands exactly when pressing it    *)
(* would succeed, whoever looks.                                           *)
THEOREM PagesAreHonest == Spec => []ButtonsWork
<1>1. TypeOK => ButtonsWork
  <2> SUFFICES ASSUME TypeOK, NEW id \in Ids, NEW v \in Viewer(Users), Exists(id)
               PROVE  LET shown == Capabilities(v, rows[id])
                      IN  /\ "delete" \in shown <=> DeleteRefusal(v, id) = "none"
                          /\ "take" \in shown <=> TakeRefusal(v, id) = "none" /\ rows[id].takenBy = NoUser
                          /\ "untake" \in shown <=> UntakeRefusal(v, id) = "none" /\ rows[id].takenBy = v.id
    BY DEF ButtonsWork
  <2> DEFINE sr == rows[id]
  <2>1. v.id # NoUser
    BY DEF Viewer
  <2>2. "delete" \in Capabilities(v, sr) <=> Authorize(v, "subrequest:delete", SubRequestResource(sr))
    BY DEF Capabilities
  <2>3. "take" \in Capabilities(v, sr)
          <=> sr.takenBy = NoUser /\ Authorize(v, "subrequest:take", SubRequestResource(sr))
    BY DEF Capabilities
  <2>4. "untake" \in Capabilities(v, sr) <=> Authorize(v, "subrequest:untake", SubRequestResource(sr))
    BY DEF Capabilities
  <2>5. DeleteRefusal(v, id) = "none" <=> Authorize(v, "subrequest:delete", SubRequestResource(sr))
    BY DEF DeleteRefusal
  <2>6. TakeRefusal(v, id) = "none"
          <=> sr.takenBy = NoUser /\ Authorize(v, "subrequest:take", SubRequestResource(sr))
    BY DEF TakeRefusal
  <2>7. UntakeRefusal(v, id) = "none" <=> Authorize(v, "subrequest:untake", SubRequestResource(sr))
    BY DEF UntakeRefusal
  <2>8. QED
    BY <2>1, <2>2, <2>3, <2>4, <2>5, <2>6, <2>7, UntakeRule
<1>2. QED
  BY <1>1, TypeCorrect, PTL

-----------------------------------------------------------------------------
(* The refinement.  A request stands as an ask from its first read to its  *)
(* write; the write carries the ask out, every other end of it drops it.   *)

NoAsk == [op |-> "none", by |-> NoUser, admin |-> FALSE, id |-> 0]
asks  == [h \in Handlers |-> AskOf(h)]

(* A step of one handler changes that handler's ask alone. *)
LEMMA OneAskMoves ==
  ASSUME IInv, NEW h \in Handlers, Step(h)
  PROVE  asks' = [asks EXCEPT ![h] = AskOf(h)']
<1>1. pc \in [Handlers -> Labels] /\ job \in [Handlers -> Jobs \cup {NoJob}]
  BY DEF IInv, TypeOK
<1>2. ASSUME NEW g \in Handlers, g # h
      PROVE  pc'[g] = pc[g] /\ job'[g] = job[g]
  <2>1. CASE Arrive(h)
    BY <1>1, <1>2, <2>1 DEF Arrive, BeginCreate, BeginDelete, BeginTake, BeginUntake,
                            BeginFails, Begin
  <2>2. CASE Work(h)
    BY <1>1, <1>2, <2>2 DEF Work, CreateWrite, DeleteWrite, TakeWrite, UntakeWrite, Missed,
         StatementFails, ReplyLost, TakeDetail, UntakeDetail, Notify, Goto, Respond
  <2>3. QED
    BY <2>1, <2>2 DEF Step
<1>3. ASSUME NEW g \in Handlers, g # h
      PROVE  AskOf(g)' = AskOf(g)
  BY <1>2, <1>3 DEF AskOf
<1>4. QED
  BY <1>3 DEF asks

(* A write carries out the ask of its handler. *)
LEMMA WriteSettles ==
  ASSUME IInv, NEW h \in Handlers, Step(h), AskOf(h)' = NoAsk,
         \/ pc[h] = "insert" /\ Insert(h)
         \/ pc[h] = "delete" /\ Remove(h)
         \/ pc[h] = "take"   /\ SetTaker(h)
         \/ pc[h] = "untake" /\ ClearTaker(h)
  PROVE  Board!Next
<1>1. /\ asks[h] = AskOf(h)
      /\ asks' = [asks EXCEPT ![h] = NoAsk]
  BY OneAskMoves DEF asks
<1>2. /\ AskOf(h) = [op |-> job[h].op, by |-> job[h].viewer.id,
                     admin |-> job[h].viewer.admin, id |-> job[h].id]
      /\ job[h].op \in {"create", "take", "untake", "delete"}
      /\ job[h].viewer.id \in Users
  BY DEF AskOf, IInv, AuthorityStands, Jobs, Viewer
<1>3. /\ AskOf(h).op = job[h].op /\ AskOf(h).by = job[h].viewer.id
      /\ AskOf(h).admin = job[h].viewer.admin /\ AskOf(h).id = job[h].id
      /\ AskOf(h) # NoAsk
  BY <1>2 DEF NoAsk
<1>4. pc[h] # "insert" => job[h].id \in Ids
  BY DEF IInv, TypeOK, IdsRunUp, Ids
<1> USE DEF Board!Ids, Board!Settle, Board!NoAsk, Board!NoRow, Ids, NoRow, Exists, asks, NoAsk
<1>5. CASE pc[h] = "insert" /\ Insert(h)
  <2>1. job[h].op = "create"
    BY <1>5 DEF IInv, AuthorityStands
  <2>2. Board!Post(h)
    BY <1>1, <1>3, <1>5, <2>1 DEF Insert, Board!Post
  <2>3. QED
    BY <2>2 DEF Board!Next
<1>6. CASE pc[h] = "delete" /\ Remove(h)
  <2>1. job[h].op = "delete" /\ (job[h].viewer.admin \/ rows[job[h].id].postedBy = job[h].viewer.id)
    BY <1>6 DEF IInv, AuthorityStands, Remove
  <2>2. Board!Withdraw(h)
    BY <1>1, <1>3, <1>4, <1>6, <2>1 DEF Remove, Board!Withdraw
  <2>3. QED
    BY <2>2 DEF Board!Next
<1>7. CASE pc[h] = "take" /\ SetTaker(h)
  <2>1. job[h].op = "take" /\ rows[job[h].id].postedBy # job[h].viewer.id
    BY <1>7 DEF IInv, AuthorityStands
  <2>2. Board!Cover(h)
    BY <1>1, <1>3, <1>4, <1>7, <2>1 DEF SetTaker, CanSetTaker, Board!Cover
  <2>3. QED
    BY <2>2 DEF Board!Next
<1>8. CASE pc[h] = "untake" /\ ClearTaker(h)
  <2>1. job[h].op = "untake"
    BY <1>8 DEF IInv, AuthorityStands
  <2>2. Board!Release(h)
    BY <1>1, <1>3, <1>4, <1>8, <2>1 DEF ClearTaker, CanClearTaker, Board!Release
  <2>3. QED
    BY <2>2 DEF Board!Next
<1>9. QED
  BY <1>5, <1>6, <1>7, <1>8

(* A step that leaves the table alone files an ask, drops it or is silent.  *)
LEMMA QuietStep ==
  ASSUME IInv, IInv', NEW h \in Handlers, Step(h), UNCHANGED <<rows, nextId>>,
         AskOf(h) = NoAsk \/ AskOf(h)' = NoAsk \/ AskOf(h)' = AskOf(h)
  PROVE  [Board!Next]_(Board!cvars)
<1>1. asks' = [asks EXCEPT ![h] = AskOf(h)'] /\ asks[h] = AskOf(h)
  BY OneAskMoves DEF asks
<1>2. AskOf(h)' \in Board!Asks \cup {NoAsk}
  <2>1. (AskOf(h) \in Board!Asks \cup {NoAsk})'
    BY DEF IInv, AuthorityStands, AskOf, NoAsk, Jobs, Viewer, Ids, Board!Asks, Board!Ids
  <2>2. QED
    BY <2>1 DEF Board!Asks, NoAsk, Board!Ids
<1>3. CASE AskOf(h)' = AskOf(h)
  BY <1>1, <1>3 DEF Board!cvars, asks
<1>4. CASE AskOf(h) = NoAsk /\ AskOf(h)' # NoAsk
  <2>1. Board!File(h)
    BY <1>1, <1>2, <1>4 DEF Board!File, Board!NoAsk, NoAsk, asks
  <2>2. QED
    BY <2>1 DEF Board!Next
<1>5. CASE AskOf(h) # NoAsk /\ AskOf(h)' = NoAsk
  <2>1. Board!Drop(h)
    BY <1>1, <1>5 DEF Board!Drop, Board!NoAsk, NoAsk, asks
  <2>2. QED
    BY <2>1 DEF Board!Next
<1>6. QED
  BY <1>3, <1>4, <1>5

LEMMA BoardStep ==
  ASSUME IInv, IInv', NEW h \in Handlers, Step(h)
  PROVE  [Board!Next]_(Board!cvars)
<1>0. pc \in [Handlers -> Labels]
  BY DEF IInv, TypeOK
<1> USE DEF AskOf, NoAsk
<1>1. CASE Arrive(h)
  <2>1. UNCHANGED <<rows, nextId>> /\ AskOf(h) = NoAsk
    BY <1>1 DEF Arrive, BeginCreate, BeginDelete, BeginTake, BeginUntake, BeginFails, Begin
  <2>2. QED
    BY <2>1, QuietStep
<1>2. CASE CreateWrite(h)
  <2>1. pc[h] = "insert" /\ Insert(h) /\ AskOf(h)' = NoAsk
    BY <1>0, <1>2 DEF CreateWrite, Goto
  <2>2. QED
    BY <2>1, WriteSettles
<1>3. CASE DeleteWrite(h)
  <2>1. pc[h] = "delete" /\ AskOf(h)' = NoAsk
    BY <1>0, <1>3 DEF DeleteWrite, Respond
  <2>2. CASE Remove(h)
    BY <2>1, <2>2, WriteSettles
  <2>3. CASE UNCHANGED <<rows, nextId>>
    BY <2>1, <2>3, QuietStep
  <2>4. QED
    BY <1>3, <2>2, <2>3 DEF DeleteWrite
<1>4. CASE TakeWrite(h)
  <2>1. pc[h] = "take" /\ AskOf(h)' = NoAsk
    BY <1>0, <1>4 DEF TakeWrite, Goto
  <2>2. CASE SetTaker(h)
    BY <2>1, <2>2, WriteSettles
  <2>3. CASE UNCHANGED <<rows, nextId>>
    BY <2>1, <2>3, QuietStep
  <2>4. QED
    BY <1>4, <2>2, <2>3 DEF TakeWrite
<1>5. CASE UntakeWrite(h)
  <2>1. pc[h] = "untake" /\ AskOf(h)' = NoAsk
    BY <1>0, <1>5 DEF UntakeWrite, Goto, Respond
  <2>2. CASE ClearTaker(h)
    BY <2>1, <2>2, WriteSettles
  <2>3. CASE UNCHANGED <<rows, nextId>>
    BY <2>1, <2>3, QuietStep
  <2>4. QED
    BY <1>5, <2>2, <2>3 DEF UntakeWrite
<1>6. CASE ReplyLost(h)
  <2>1. AskOf(h)' = NoAsk
    BY <1>0, <1>6 DEF ReplyLost, Respond
  <2>2. QED
    BY <1>6, <2>1, WriteSettles DEF ReplyLost
<1>7. CASE StatementFails(h)
  <2>1. UNCHANGED <<rows, nextId>> /\ AskOf(h)' = NoAsk
    BY <1>0, <1>7 DEF StatementFails, Respond
  <2>2. QED
    BY <2>1, QuietStep
<1>8. CASE Missed(h) \/ TakeDetail(h) \/ Notify(h)
  <2>1. UNCHANGED <<rows, nextId>> /\ AskOf(h) = NoAsk
    BY <1>8 DEF Missed, TakeDetail, Notify
  <2>2. QED
    BY <2>1, QuietStep
<1>9. CASE UntakeDetail(h)
  <2>1. UNCHANGED <<rows, nextId>> /\ AskOf(h)' = AskOf(h)
    BY <1>0, <1>9 DEF UntakeDetail, Goto
  <2>2. QED
    BY <2>1, QuietStep
<1>10. QED
  BY <1>1, <1>2, <1>3, <1>4, <1>5, <1>6, <1>7, <1>8, <1>9 DEF Step, Work

(* The service implements Coverage: under any interleaving of handlers,    *)
(* failed statements and lost replies, the table moves only as the board   *)
(* does, by the one entitled to it, at most once for each request.         *)
THEOREM Refinement == Spec => ImplementsCoverage
<1>1. Init => Board!Init
  BY DEF Init, Board!Init, Board!Ids, Board!NoRow, Board!NoAsk, Ids, NoRow, AskOf
<1>2. IInv /\ IInv' /\ [Next]_vars => [Board!Next]_(Board!cvars)
  <2>1. CASE UNCHANGED vars
    BY <2>1 DEF vars, Board!cvars, AskOf
  <2>2. QED
    BY <2>1, BoardStep DEF Next
<1>3. QED
  BY <1>1, <1>2, Invariance, PTL DEF Spec, ImplementsCoverage, Board!Spec

-----------------------------------------------------------------------------
(* The answers, with the history SubRequestsAudit keeps.                    *)

(* What each answer stands for: *)
LEMMA Deserts ==
  ASSUME TypeOK, NEW j \in Jobs
  PROVE  /\ j.op = "create" => Deserved(rows, j) = {"ok", "invalid", "badGateway"}
         /\ j.op # "create" /\ ~Exists(j.id) /\ j.id \in Ids => Deserved(rows, j) = {"notFound"}
         /\ j.op = "take" /\ Exists(j.id) =>
              Deserved(rows, j) = IF rows[j.id].takenBy # NoUser THEN {"conflict"}
                                  ELSE IF rows[j.id].postedBy = j.viewer.id THEN {"forbidden"} ELSE {"ok"}
         /\ j.op = "untake" /\ Exists(j.id) =>
              Deserved(rows, j) = IF rows[j.id].takenBy = j.viewer.id THEN {"ok"} ELSE {"forbidden", "conflict"}
         /\ j.op = "delete" /\ Exists(j.id) =>
              Deserved(rows, j) = IF j.viewer.admin \/ rows[j.id].postedBy = j.viewer.id THEN {"ok"} ELSE {"forbidden"}
<1>1. j.op \in {"create", "take", "untake", "delete"}
  BY DEF Jobs
<1>2. j.id \in Ids => (Exists(j.id) <=> rows[j.id] # NoRow)
  BY DEF TypeOK, Exists, Rows, NoRow
<1>3. Exists(j.id) => rows[j.id] # NoRow
  BY DEF Exists, NoRow
<1>4. CASE j.op = "create"
  BY <1>4 DEF Deserved
<1>5. CASE j.op # "create" /\ rows[j.id] = NoRow
  BY <1>2, <1>3, <1>5 DEF Deserved
<1>6. CASE j.op # "create" /\ rows[j.id] # NoRow
  BY <1>1, <1>2, <1>6 DEF Deserved
<1> QED BY <1>4, <1>5, <1>6

Before == {"insert", "delete", "take", "takeMissed", "untakeDetail", "untake", "untakeMissed"}

(* What the history tells of a handler: until its write it has changed      *)
(* nothing and deserves what the table says now; when its UPDATE has touched *)
(* no row that is still there, it has deserved a conflict; after the write  *)
(* it has deserved its 204.                                                *)
Told(h) ==
  /\ pc[h] \in Before => ~changed[h] /\ Deserved(rows, job[h]) \subseteq deserved[h]
  /\ pc[h] \in {"takeMissed", "untakeMissed"} =>
       job[h].op # "create" /\ (Exists(job[h].id) => "conflict" \in deserved[h])
  /\ pc[h] \in {"takeDetail", "notify"} => changed[h] /\ "ok" \in deserved[h]
  /\ Answered(h) => answer[h] \in deserved[h] /\ (changed[h] <=> answer[h] = "ok")

History == changed \in [Handlers -> BOOLEAN] /\ \A h \in Handlers : Told(h)

AuditInv == IInv /\ History


(* One handler moves; what is told of the others stays true.                *)
LEMMA OthersTold ==
  ASSUME AuditInv, IInv', NEW h \in Handlers, AuditStep(h), NEW g \in Handlers, g # h
  PROVE  Told(g)'
<1>1. pc'[g] = pc[g] /\ job'[g] = job[g] /\ answer'[g] = answer[g]
  <2>1. /\ pc \in [Handlers -> Labels] /\ job \in [Handlers -> Jobs \cup {NoJob}]
        /\ answer \in [Handlers -> Answers] /\ Step(h)
    BY DEF AuditInv, IInv, TypeOK, AuditStep
  <2>2. CASE Arrive(h)
    BY <2>1, <2>2 DEF Arrive, BeginCreate, BeginDelete, BeginTake, BeginUntake, BeginFails, Begin
  <2>3. CASE Work(h)
    BY <2>1, <2>3 DEF Work, CreateWrite, DeleteWrite, TakeWrite, UntakeWrite, Missed,
         StatementFails, ReplyLost, TakeDetail, UntakeDetail, Notify, Goto, Respond
  <2> QED BY <2>1, <2>2, <2>3 DEF Step
<1>2. /\ changed'[g] = changed[g]
      /\ pc[g] # "idle" => deserved'[g] = deserved[g] \cup Deserved(rows', job[g])
      /\ pc[g] = "idle" => deserved'[g] = deserved[g]
  BY DEF AuditStep, AuditInv, History
<1>3. Told(g)
  BY DEF AuditInv, History
<1>4. pc[g] \notin {"idle", "insert"} /\ Exists(job[g].id)' => Exists(job[g].id)
  <2>1. TableStep(h)
    BY StepWritesOnce DEF AuditStep
  <2>2. pc[g] \notin {"idle", "insert"} => job[g].id \in 1..(nextId - 1)
    BY DEF AuditInv, IInv, IdsRunUp
  <2>3. \A id \in 1..(nextId - 1) : rows'[id].postedBy \in {rows[id].postedBy, NoUser}
    BY <2>1, TableInv DEF AuditInv, PosterStays
  <2> QED BY <1>1, <2>2, <2>3 DEF Exists
<1>5. Answered(g)' <=> Answered(g)
  BY <1>1 DEF Answered
<1> QED
  BY <1>1, <1>2, <1>3, <1>4, <1>5 DEF Told, Before

(* What the history does of the handler that moves. *)
LEMMA OwnHistory ==
  ASSUME AuditInv, NEW h \in Handlers, AuditStep(h)
  PROVE  /\ changed' \in [Handlers -> BOOLEAN]
         /\ pc[h] = "idle" => /\ deserved'[h] = Deserved(rows, job'[h])
                              /\ changed'[h] <=> rows' # rows
         /\ pc[h] # "idle" => /\ deserved'[h] = deserved[h]
                              /\ changed'[h] <=> changed[h] \/ rows' # rows
  BY DEF AuditStep, AuditInv, History

(* A request comes in: a refusal is what it deserves. *)
LEMMA ArriveTold ==
  ASSUME AuditInv, IInv', NEW h \in Handlers, AuditStep(h), Arrive(h)
  PROVE  Told(h)'
<1> DEFINE Just(refusal) == refusal \in {"none", "error"} \/ refusal \in Deserved(rows, job'[h])
<1>0. /\ pc \in [Handlers -> Labels] /\ job \in [Handlers -> Jobs \cup {NoJob}]
      /\ answer \in [Handlers -> Answers] /\ TypeOK
  BY DEF AuditInv, IInv, TypeOK
<1>1. ASSUME NEW op, NEW v, NEW id, NEW refusal \in Answers \ {"ok"},
             NEW label \in {"insert", "delete", "take", "untakeDetail", "idle"},
             Begin(h, op, v, id, refusal, label), Just(refusal)
      PROVE  Told(h)'
  <2>1. /\ pc[h] = "idle" /\ UNCHANGED rows /\ answer'[h] = refusal
        /\ pc'[h] = IF refusal = "none" THEN label ELSE "idle"
    BY <1>0, <1>1 DEF Begin
  <2>2. deserved'[h] = Deserved(rows', job'[h]) /\ ~changed'[h]
    BY <2>1, OwnHistory
  <2> QED BY <1>1, <2>1, <2>2 DEF Told, Before, Answered
<1>2. ASSUME NEW op \in {"create", "take", "untake", "delete"}, NEW v \in Viewer(Users),
             NEW id \in {0} \cup Ids, NEW refusal, NEW label, Begin(h, op, v, id, refusal, label)
      PROVE  job'[h] \in Jobs /\ job'[h].op = op /\ job'[h].viewer = v /\ job'[h].id = id
  BY <1>0, <1>2 DEF Begin, Jobs
<1>3. PICK v \in Viewer(Users) :
        \/ BeginCreate(h, v)
        \/ \E id \in Ids : \/ BeginDelete(h, v, id) \/ BeginTake(h, v, id)
                           \/ BeginUntake(h, v, id) \/ BeginFails(h, v, id)
  BY DEF Arrive
<1>4. CASE BeginCreate(h, v)
  <2>1. PICK refusal \in {"none", "invalid", "badGateway"} : Begin(h, "create", v, 0, refusal, "insert")
    BY <1>4 DEF BeginCreate
  <2>2. job'[h] \in Jobs /\ job'[h].op = "create"
    BY <1>2, <2>1
  <2>3. Deserved(rows, job'[h]) = {"ok", "invalid", "badGateway"}
    BY <1>0, <2>2, Deserts
  <2> QED BY <1>1, <2>1, <2>3 DEF Answers
<1>5. ASSUME NEW id \in Ids, BeginDelete(h, v, id) PROVE Told(h)'
  <2>1. job'[h] \in Jobs /\ job'[h].op = "delete" /\ job'[h].viewer = v /\ job'[h].id = id
    BY <1>2, <1>5 DEF BeginDelete
  <2>2. DeleteRefusal(v, id) \in {"notFound", "forbidden", "none"}
    BY DEF DeleteRefusal
  <2>3. DeleteRefusal(v, id) # "none" => DeleteRefusal(v, id) \in Deserved(rows, job'[h])
    BY <1>0, <2>1, Deserts, DeleteRule DEF DeleteRefusal
  <2> QED BY <1>1, <1>5, <2>2, <2>3 DEF BeginDelete, Answers
<1>6. ASSUME NEW id \in Ids, BeginTake(h, v, id) PROVE Told(h)'
  <2>1. job'[h] \in Jobs /\ job'[h].op = "take" /\ job'[h].viewer = v /\ job'[h].id = id
    BY <1>2, <1>6 DEF BeginTake
  <2>2. TakeRefusal(v, id) \in {"notFound", "conflict", "forbidden", "none"}
    BY DEF TakeRefusal
  <2>3. TakeRefusal(v, id) # "none" => TakeRefusal(v, id) \in Deserved(rows, job'[h])
    BY <1>0, <2>1, Deserts, TakeRule DEF TakeRefusal
  <2> QED BY <1>1, <1>6, <2>2, <2>3 DEF BeginTake, Answers
<1>7. ASSUME NEW id \in Ids, BeginUntake(h, v, id) PROVE Told(h)'
  <2>1. job'[h] \in Jobs /\ job'[h].op = "untake" /\ job'[h].viewer = v /\ job'[h].id = id
    BY <1>2, <1>7 DEF BeginUntake
  <2>2. UntakeRefusal(v, id) \in {"notFound", "forbidden", "none"}
    BY DEF UntakeRefusal
  <2>3. UntakeRefusal(v, id) # "none" => UntakeRefusal(v, id) \in Deserved(rows, job'[h])
    BY <1>0, <2>1, Deserts, UntakeRule DEF UntakeRefusal, Viewer
  <2> QED BY <1>1, <1>7, <2>2, <2>3 DEF BeginUntake, Answers
<1>8. ASSUME NEW id \in Ids, BeginFails(h, v, id) PROVE Told(h)'
  BY <1>1, <1>8 DEF BeginFails, Answers
<1> QED BY <1>3, <1>4, <1>5, <1>6, <1>7, <1>8

(* A write changes the table, and is deserved. *)
LEMMA WriteDeserved ==
  ASSUME AuditInv, NEW h \in Handlers,
         \/ pc[h] = "insert" /\ Insert(h)
         \/ pc[h] = "delete" /\ Remove(h)
         \/ pc[h] = "take"   /\ SetTaker(h)
         \/ pc[h] = "untake" /\ ClearTaker(h)
  PROVE  rows' # rows /\ "ok" \in deserved[h]
<1>0. /\ rows \in [Ids -> Rows \cup {NoRow}] /\ TypeOK /\ job[h] \in Jobs /\ job[h].viewer.id # NoUser
      /\ pc[h] # "insert" => job[h].id \in Ids
      /\ Deserved(rows, job[h]) \subseteq deserved[h]
  BY DEF AuditInv, IInv, TypeOK, AuthorityStands, IdsRunUp, Ids, Jobs, Viewer, History, Told, Before
<1>1. CASE pc[h] = "insert" /\ Insert(h)
  <2>1. job[h].op = "create" /\ rows[nextId] = NoRow
    BY <1>1 DEF AuditInv, IInv, AuthorityStands, IdsRunUp, Insert, Ids
  <2>2. rows'[nextId].postedBy = job[h].viewer.id
    BY <1>0, <1>1 DEF Insert
  <2> QED BY <1>0, <2>1, <2>2, Deserts DEF NoRow
<1>2. CASE pc[h] = "delete" /\ Remove(h)
  <2>1. /\ job[h].op = "delete" /\ Exists(job[h].id)
        /\ job[h].viewer.admin \/ rows[job[h].id].postedBy = job[h].viewer.id
    BY <1>2 DEF AuditInv, IInv, AuthorityStands, Remove
  <2>2. rows'[job[h].id].postedBy = NoUser
    BY <1>0, <1>2 DEF Remove, NoRow
  <2> QED BY <1>0, <2>1, <2>2, Deserts DEF Exists
<1>3. CASE pc[h] = "take" /\ SetTaker(h)
  <2>1. /\ job[h].op = "take" /\ Exists(job[h].id) /\ rows[job[h].id].takenBy = NoUser
        /\ rows[job[h].id].postedBy # job[h].viewer.id
    BY <1>3 DEF AuditInv, IInv, AuthorityStands, SetTaker, CanSetTaker
  <2>2. rows'[job[h].id].takenBy = job[h].viewer.id
    BY <1>0, <1>3, <2>1 DEF SetTaker, Exists, Rows, NoRow
  <2> QED BY <1>0, <2>1, <2>2, Deserts
<1>4. CASE pc[h] = "untake" /\ ClearTaker(h)
  <2>1. job[h].op = "untake" /\ Exists(job[h].id) /\ rows[job[h].id].takenBy = job[h].viewer.id
    BY <1>4 DEF AuditInv, IInv, AuthorityStands, ClearTaker, CanClearTaker
  <2>2. rows'[job[h].id].takenBy = NoUser
    BY <1>0, <1>4, <2>1 DEF ClearTaker, Exists, Rows, NoRow
  <2> QED BY <1>0, <2>1, <2>2, Deserts
<1> QED BY <1>1, <1>2, <1>3, <1>4

(* An UPDATE or DELETE that touches no row: the row is gone, or a conflict  *)
(* is deserved.                                                            *)
LEMMA MissDeserved ==
  ASSUME AuditInv, NEW h \in Handlers, pc[h] \in {"delete", "take", "untake", "takeMissed", "untakeMissed"}
  PROVE  /\ job[h].op # "create"
         /\ ~Exists(job[h].id) => "notFound" \in deserved[h]
         /\ pc[h] = "take" /\ ~CanSetTaker(h) /\ Exists(job[h].id) => "conflict" \in deserved[h]
         /\ pc[h] = "untake" /\ ~CanClearTaker(h) /\ Exists(job[h].id) => "conflict" \in deserved[h]
         /\ pc[h] \in {"takeMissed", "untakeMissed"} /\ Exists(job[h].id) => "conflict" \in deserved[h]
<1>0. /\ TypeOK /\ job[h] \in Jobs /\ job[h].id \in Ids
      /\ Deserved(rows, job[h]) \subseteq deserved[h]
      /\ pc[h] = "take" => job[h].op = "take"
      /\ pc[h] = "untake" => job[h].op = "untake"
      /\ pc[h] = "delete" => job[h].op = "delete"
      /\ pc[h] \in {"takeMissed", "untakeMissed"} =>
           job[h].op # "create" /\ (Exists(job[h].id) => "conflict" \in deserved[h])
  BY DEF AuditInv, IInv, TypeOK, AuthorityStands, IdsRunUp, Ids, History, Told, Before
<1>1. job[h].op # "create"
  BY <1>0
<1> QED BY <1>0, <1>1, Deserts DEF CanSetTaker, CanClearTaker

(* A working handler goes on, or answers. *)
LEMMA WorkTold ==
  ASSUME AuditInv, IInv', NEW h \in Handlers, AuditStep(h), Work(h)
  PROVE  Told(h)'
<1>0. /\ pc \in [Handlers -> Labels] /\ answer \in [Handlers -> Answers] /\ Told(h)
      /\ job \in [Handlers -> Jobs \cup {NoJob}] /\ TypeOK /\ pc[h] # "idle"
      /\ deserved'[h] = deserved[h] /\ (changed'[h] <=> changed[h] \/ rows' # rows)
  <2>1. pc[h] # "idle"
    BY DEF Work, CreateWrite, DeleteWrite, TakeWrite, UntakeWrite, Missed, StatementFails,
           ReplyLost, TakeDetail, UntakeDetail, Notify
  <2> QED BY <2>1, OwnHistory DEF AuditInv, IInv, TypeOK, History
<1>1. ASSUME NEW a, Respond(h, a), a \in {"error", "none"} \/ (a \in deserved[h] /\ (changed'[h] <=> a = "ok"))
      PROVE  Told(h)'
  <2>1. pc'[h] = "idle" /\ answer'[h] = a
    BY <1>0, <1>1 DEF Respond
  <2> QED BY <1>0, <1>1, <2>1 DEF Told, Before, Answered
<1>2. ASSUME pc'[h] \in {"takeDetail", "notify"}, changed'[h], "ok" \in deserved[h]
      PROVE  Told(h)'
  BY <1>0, <1>2 DEF Told, Before, Answered
<1>3. CASE CreateWrite(h)
  BY <1>0, <1>2, <1>3, WriteDeserved DEF CreateWrite, Goto
<1>4. CASE DeleteWrite(h)
  <2>1. CASE Remove(h) /\ Respond(h, "ok")
    BY <1>0, <1>1, <1>4, <2>1, WriteDeserved DEF DeleteWrite
  <2>2. CASE ~Exists(job[h].id) /\ Respond(h, "notFound") /\ UNCHANGED <<rows, nextId>>
    BY <1>0, <1>1, <1>4, <2>2, MissDeserved DEF DeleteWrite, Told, Before
  <2> QED BY <1>4, <2>1, <2>2 DEF DeleteWrite
<1>5. CASE TakeWrite(h)
  <2>1. CASE SetTaker(h) /\ Goto(h, "takeDetail")
    BY <1>0, <1>2, <1>5, <2>1, WriteDeserved DEF TakeWrite, Goto
  <2>2. CASE ~CanSetTaker(h) /\ Goto(h, "takeMissed") /\ UNCHANGED <<rows, nextId>>
    <3>1. pc'[h] = "takeMissed" /\ UNCHANGED <<rows, job>> /\ pc[h] = "take"
      BY <1>0, <1>5, <2>2 DEF TakeWrite, Goto
    <3> QED BY <1>0, <2>2, <3>1, MissDeserved DEF Told, Before, Answered, Exists
  <2> QED BY <1>5, <2>1, <2>2 DEF TakeWrite
<1>6. CASE UntakeWrite(h)
  <2>1. CASE ClearTaker(h)
    <3>1. rows' # rows /\ "ok" \in deserved[h]
      BY <1>6, <2>1, WriteDeserved DEF UntakeWrite
    <3>2. Respond(h, "ok") \/ Goto(h, "notify")
      BY <1>6, <2>1 DEF UntakeWrite, ClearTaker
    <3> QED BY <1>0, <1>1, <1>2, <3>1, <3>2 DEF Goto
  <2>2. CASE ~CanClearTaker(h) /\ Goto(h, "untakeMissed") /\ UNCHANGED <<rows, nextId>>
    <3>1. pc'[h] = "untakeMissed" /\ UNCHANGED <<rows, job>> /\ pc[h] = "untake"
      BY <1>0, <1>6, <2>2 DEF UntakeWrite, Goto
    <3> QED BY <1>0, <2>2, <3>1, MissDeserved DEF Told, Before, Answered, Exists
  <2> QED BY <1>6, <2>1, <2>2 DEF UntakeWrite
<1>7. CASE Missed(h)
  BY <1>0, <1>1, <1>7, MissDeserved DEF Missed, Told, Before
<1>8. CASE StatementFails(h) \/ ReplyLost(h)
  BY <1>1, <1>8 DEF StatementFails, ReplyLost
<1>9. CASE TakeDetail(h)
  <2>1. changed'[h] /\ "ok" \in deserved[h]
    BY <1>0, <1>9 DEF TakeDetail, Told
  <2> QED BY <1>0, <1>1, <1>2, <1>9, <2>1 DEF TakeDetail, Goto
<1>10. CASE UntakeDetail(h)
  <2>1. pc[h] = "untakeDetail" /\ pc'[h] = "untake" /\ UNCHANGED <<rows, job>>
    BY <1>0, <1>10 DEF UntakeDetail, Goto
  <2> QED BY <1>0, <2>1 DEF Told, Before, Answered
<1>11. CASE Notify(h)
  BY <1>0, <1>1, <1>11 DEF Notify, Told
<1> QED BY <1>3, <1>4, <1>5, <1>6, <1>7, <1>8, <1>9, <1>10, <1>11 DEF Work

LEMMA AuditNextInv == AuditInv /\ [AuditNext]_avars => AuditInv'
<1> SUFFICES ASSUME AuditInv, [AuditNext]_avars PROVE AuditInv'
  OBVIOUS
<1>1. IInv'
  BY NextInv DEF AuditInv, AuditNext, AuditStep, Next, avars
<1>2. ASSUME NEW h \in Handlers, AuditStep(h) PROVE AuditInv'
  <2>1. Told(h)'
    BY <1>1, <1>2, ArriveTold, WorkTold DEF AuditStep, Step
  <2>2. \A g \in Handlers : Told(g)'
    BY <1>1, <1>2, <2>1, OthersTold
  <2> QED BY <1>1, <1>2, <2>2, OwnHistory DEF AuditInv, History
<1>3. CASE UNCHANGED avars
  BY <1>1, <1>3 DEF AuditInv, History, Told, Answered, Exists, Deserved, avars, vars
<1> QED BY <1>2, <1>3 DEF AuditNext

(* The invariant of the service and its history. *)
THEOREM AuditInvariance == AuditSpec => []AuditInv
<1>1. AuditInit => AuditInv
  BY InitInv DEF AuditInit, AuditInv, History, Told, Before, Answered, Init
<1> QED BY <1>1, AuditNextInv, PTL DEF AuditSpec

(* Every 204, 403, 404 and 409 was the right answer at some moment between  *)
(* the request and its reply, whatever others did to the row between its    *)
(* two or three statements.                                                *)
THEOREM EveryAnswerDeserved == AuditSpec => []AnswersJustified
<1>1. AuditInv => AnswersJustified
  BY DEF AuditInv, History, Told, AnswersJustified
<1> QED BY <1>1, AuditInvariance, PTL

(* A 204 is given by a request that changed the table, and a refusal by one *)
(* that did not: no lost race passes for a success, no success for a loss. *)
THEOREM AnswersTell == AuditSpec => []AnswersTellTheEffect
<1>1. AuditInv => AnswersTellTheEffect
  BY DEF AuditInv, History, Told, AnswersTellTheEffect
<1> QED BY <1>1, AuditInvariance, PTL

(* The history watches and never interferes: what is proved of Spec holds   *)
(* of the specification with the history too.                              *)
THEOREM HistoryHarmless == AuditSpec => Spec
<1>1. AuditInit => Init
  BY DEF AuditInit
<1>2. [AuditNext]_avars => [Next]_vars
  BY DEF AuditNext, AuditStep, Next, avars
<1> QED BY <1>1, <1>2, PTL DEF AuditSpec, Spec

-----------------------------------------------------------------------------
(* The composition with the notifier (Notifications): it is still the       *)
(* service, every mail goes to those its change concerned, and no change   *)
(* is announced that was not made.                                         *)
(*                                                                         *)
(* A mail is written from an event that was built one or more steps before *)
(* it was offered, and offered long before it is sent.  What carries over  *)
(* all that time is not the table, which goes on changing, but the history *)
(* of changes, which only grows: the row an event names was posted once,   *)
(* by the one the event names, and covered by the one it names, if any.    *)
(* That no change is announced twice is a count: the events accepted and   *)
(* those still owed about a row are no more than its entries.              *)

(* Who posted the rows and who has taken them, by the history. *)
Posters == [id \in Ids |-> By("created", id)]
Takers  == [id \in Ids |-> By("taken", id)]

(* The history agrees with the table. *)
Ledger ==
  /\ made \in Seq(Changes)
  /\ \A id \in Ids :
       /\ id >= nextId => Posters[id] = {}
       /\ Exists(id) => Posters[id] = {rows[id].postedBy}
       /\ rows[id].takenBy # NoUser => rows[id].takenBy \in Takers[id]

(* An event that may be mailed, going by posters p and takers t. *)
Due(p, t, e) == /\ e \in Events
                /\ p[e.id] = {e.requester}
                /\ e.kind # "created" /\ e.taker # NoUser => e.taker \in t[e.id]

(* The untaken event a handler has ready before its UPDATE: it is due once  *)
(* the UPDATE has found its viewer covering the show.                      *)
Ready(p, e, j) == /\ e \in Events
                  /\ e.kind = "untaken" /\ e.id = j.id /\ e.taker = j.viewer.id
                  /\ p[e.id] = {e.requester}

HandlersHold ==
  \A h \in Handlers :
     /\ pc[h] = "notify" => Due(Posters, Takers, event[h])
     /\ pc[h] = "untakeDetail" => event[h] = NoEvent
     /\ pc[h] = "untake" /\ event[h] # NoEvent => Ready(Posters, event[h], job[h])

ChannelHolds ==
  /\ events \in Seq(Events) /\ Len(events) = accepted
  /\ \A n \in 1..Len(events) : Due(Posters, Takers, events[n])

MailInHand ==
  /\ worker = "send" => \E active \in SUBSET Users : mail = Compose(InHand, active)
  /\ worker # "send" => mail = NoMail

(* The handlers that are bound to offer an event of a kind about a row: they *)
(* hold it, or have taken the row and read it back next.                   *)
Owing(kind, id) ==
  Offering(kind, id)
    \cup {h \in Handlers : kind = "taken" /\ pc[h] = "takeDetail" /\ job[h].id = id}

Kinds == {"created", "taken", "untaken"}

(* Each change is offered once at most. *)
OfferedOnce ==
  \A kind \in Kinds, id \in Ids :
     Cardinality(Accepted(kind, id)) + Cardinality(Owing(kind, id)) <= Cardinality(Entries(kind, id))

MInv == /\ IInv /\ NotifierTypeOK /\ NothingForgotten
        /\ Ledger /\ HandlersHold /\ ChannelHolds /\ MailInHand
        /\ OfferedOnce

-----------------------------------------------------------------------------
(* The history. *)

(* A change is entered under its kind and its row, with who made it. *)
LEMMA Entered ==
  ASSUME made \in Seq(Changes), NEW c \in Changes, made' = Append(made, c)
  PROVE  /\ made' \in Seq(Changes)
         /\ \A kind, id :
              IF c.kind = kind /\ c.id = id
              THEN /\ Entries(kind, id)' = Entries(kind, id) \cup {Len(made) + 1}
                   /\ By(kind, id)' = By(kind, id) \cup {c.by}
              ELSE /\ Entries(kind, id)' = Entries(kind, id)
                   /\ By(kind, id)' = By(kind, id)
<1>1. /\ made' \in Seq(Changes) /\ Len(made') = Len(made) + 1 /\ Len(made) \in Nat
      /\ \A n \in 1..Len(made) : made'[n] = made[n]
      /\ made'[Len(made) + 1] = c
  OBVIOUS
<1> SUFFICES ASSUME NEW kind, NEW id
             PROVE  IF c.kind = kind /\ c.id = id
                    THEN /\ Entries(kind, id)' = Entries(kind, id) \cup {Len(made) + 1}
                         /\ By(kind, id)' = By(kind, id) \cup {c.by}
                    ELSE /\ Entries(kind, id)' = Entries(kind, id)
                         /\ By(kind, id)' = By(kind, id)
  BY <1>1
<1>2. 1..Len(made') = (1..Len(made)) \cup {Len(made) + 1}
  BY <1>1
<1>3. Entries(kind, id)' = Entries(kind, id) \cup
        (IF c.kind = kind /\ c.id = id THEN {Len(made) + 1} ELSE {})
  BY <1>1, <1>2 DEF Entries
<1>4. \A n \in Entries(kind, id) : made'[n].by = made[n].by
  BY <1>1 DEF Entries
<1>5. {made'[n].by : n \in Entries(kind, id)} = By(kind, id)
  BY <1>4 DEF By
<1>6. {made'[n].by : n \in Entries(kind, id) \cup {Len(made) + 1}} = By(kind, id) \cup {c.by}
  <2>1. made'[Len(made) + 1].by = c.by
    BY <1>1
  <2>2. {made'[n].by : n \in Entries(kind, id) \cup {Len(made) + 1}}
          = {made'[n].by : n \in Entries(kind, id)} \cup {made'[Len(made) + 1].by}
    OBVIOUS
  <2>3. QED
    BY <1>5, <2>1, <2>2
<1>7. By(kind, id)' = {made'[n].by : n \in Entries(kind, id)'}
  BY DEF By
<1>8. QED
  BY <1>3, <1>5, <1>6, <1>7

(* The change a step of a handler makes: one at most, and which. *)
LEMMA OneChange ==
  ASSUME IInv, NEW h \in Handlers, Serve(h)
  PROVE  \/ /\ pc[h] = "insert" /\ Insert(h) /\ nextId \in Ids /\ job[h].viewer.id \in Users
            /\ made' = Append(made, [kind |-> "created", id |-> nextId, by |-> job[h].viewer.id])
         \/ /\ pc[h] = "take" /\ SetTaker(h) /\ job[h].id \in Ids /\ job[h].viewer.id \in Users
            /\ made' = Append(made, [kind |-> "taken", id |-> job[h].id, by |-> job[h].viewer.id])
         \/ /\ pc[h] = "untake" /\ ClearTaker(h) /\ job[h].id \in Ids /\ job[h].viewer.id \in Users
            /\ made' = Append(made, [kind |-> "untaken", id |-> job[h].id, by |-> job[h].viewer.id])
         \/ /\ pc[h] = "delete" /\ Remove(h) /\ UNCHANGED made
         \/ UNCHANGED <<rows, nextId, made>>
<1>0. /\ rows \in [Ids -> Rows \cup {NoRow}]
      /\ nextId \in 1..(MaxId + 1) /\ \A id \in Ids : id >= nextId => rows[id] = NoRow
      /\ pc[h] # "idle" => job[h].viewer.id \in Users
      /\ pc[h] \notin {"idle", "insert"} => job[h].id \in Ids
      /\ NoUser \notin Users
  BY UsersAssumption, MaxIdAssumption DEF IInv, TypeOK, AuthorityStands, IdsRunUp, Jobs, Viewer, Ids
<1>1. TableStep(h)
  BY StepWritesOnce DEF Serve
<1>2. \/ \E c \in Changes : Made(c) /\ made' = Append(made, c)
      \/ (\A c \in Changes : ~Made(c)) /\ UNCHANGED made
  BY DEF Serve
(* One change that is made and is the only one is the one entered. *)
<1>3. ASSUME NEW c \in Changes, Made(c), \A d \in Changes : Made(d) => d = c
      PROVE  made' = Append(made, c)
  BY <1>2, <1>3
<1>4. ASSUME NEW c \in Changes, Made(c) PROVE c.by \in Users /\ c.id \in Ids /\ c.kind \in Kinds
                                            /\ c = [kind |-> c.kind, id |-> c.id, by |-> c.by]
  BY DEF Changes, Kinds
<1>5. CASE pc[h] = "insert" /\ Insert(h)
  <2> DEFINE c == [kind |-> "created", id |-> nextId, by |-> job[h].viewer.id]
  <2>1. nextId \in Ids /\ job[h].viewer.id \in Users /\ nextId >= nextId /\ rows[nextId] = NoRow
    BY <1>0, <1>5 DEF Insert, Ids
  <2>2. c \in Changes /\ c.kind = "created" /\ c.id = nextId /\ c.by = job[h].viewer.id
    BY <2>1 DEF Changes
  <2>3. /\ rows'[nextId] = [postedBy |-> job[h].viewer.id, takenBy |-> NoUser]
        /\ \A id \in Ids : id # nextId => rows'[id] = rows[id]
    BY <1>0, <1>5, <2>1 DEF Insert
  <2>4. rows'[nextId] # NoRow /\ rows'[nextId].postedBy = job[h].viewer.id /\ rows'[nextId].takenBy = NoUser
    BY <1>0, <2>1, <2>3 DEF NoRow
  <2> HIDE DEF c
  <2>5. Made(c)
    BY <2>1, <2>2, <2>4 DEF Made
  <2>6. ASSUME NEW d \in Changes, Made(d) PROVE d = c
    <3>1. d.id = nextId
      BY <1>4, <2>3, <2>6 DEF Made
    <3>2. d.kind = "created"
      <4>1. rows[nextId].takenBy = NoUser
        BY <2>1 DEF NoRow
      <4>2. QED
        BY <1>0, <1>4, <2>1, <2>6, <3>1, <4>1 DEF Made, Kinds
    <3>3. d.by = job[h].viewer.id
      BY <2>4, <2>6, <3>1, <3>2 DEF Made
    <3>4. QED
      BY <1>4, <2>6, <3>1, <3>2, <3>3 DEF c
  <2>7. made' = Append(made, c)
    BY <1>3, <2>2, <2>5, <2>6
  <2>8. QED
    BY <1>5, <2>1, <2>7 DEF c
<1>6. CASE pc[h] = "take" /\ SetTaker(h)
  <2> DEFINE c == [kind |-> "taken", id |-> job[h].id, by |-> job[h].viewer.id]
  <2>1. /\ job[h].id \in Ids /\ job[h].viewer.id \in Users
        /\ rows[job[h].id].postedBy # NoUser /\ rows[job[h].id].takenBy = NoUser
    BY <1>0, <1>6 DEF SetTaker, CanSetTaker, Exists
  <2>2. c \in Changes /\ c.kind = "taken" /\ c.id = job[h].id /\ c.by = job[h].viewer.id
    BY <2>1 DEF Changes
  <2>3. /\ rows[job[h].id] \in Rows
        /\ rows'[job[h].id] = [rows[job[h].id] EXCEPT !.takenBy = job[h].viewer.id]
        /\ \A id \in Ids : id # job[h].id => rows'[id] = rows[id]
    BY <1>0, <1>6, <2>1 DEF SetTaker, NoRow
  <2>4. /\ rows'[job[h].id].takenBy = job[h].viewer.id
        /\ rows'[job[h].id].postedBy # NoUser
        /\ rows[job[h].id] # NoRow /\ rows'[job[h].id] # NoRow /\ rows'[job[h].id] # rows[job[h].id]
    BY <1>0, <2>1, <2>3 DEF NoRow, Rows
  <2> HIDE DEF c
  <2>5. Made(c)
    BY <2>1, <2>2, <2>4 DEF Made
  <2>6. ASSUME NEW d \in Changes, Made(d) PROVE d = c
    <3>1. d.id = job[h].id
      BY <1>4, <2>3, <2>6 DEF Made
    <3>2. d.kind = "taken"
      BY <1>0, <1>4, <2>1, <2>4, <2>6, <3>1 DEF Made, Kinds
    <3>3. d.by = job[h].viewer.id
      BY <2>4, <2>6, <3>1, <3>2 DEF Made
    <3>4. QED
      BY <1>4, <2>6, <3>1, <3>2, <3>3 DEF c
  <2>7. made' = Append(made, c)
    BY <1>3, <2>2, <2>5, <2>6
  <2>8. QED
    BY <1>6, <2>1, <2>7 DEF c
<1>7. CASE pc[h] = "untake" /\ ClearTaker(h)
  <2> DEFINE c == [kind |-> "untaken", id |-> job[h].id, by |-> job[h].viewer.id]
  <2>1. /\ job[h].id \in Ids /\ job[h].viewer.id \in Users
        /\ rows[job[h].id].postedBy # NoUser /\ rows[job[h].id].takenBy = job[h].viewer.id
    BY <1>0, <1>7 DEF ClearTaker, CanClearTaker, Exists
  <2>2. c \in Changes /\ c.kind = "untaken" /\ c.id = job[h].id /\ c.by = job[h].viewer.id
    BY <2>1 DEF Changes
  <2>3. /\ rows[job[h].id] \in Rows
        /\ rows'[job[h].id] = [rows[job[h].id] EXCEPT !.takenBy = NoUser]
        /\ \A id \in Ids : id # job[h].id => rows'[id] = rows[id]
    BY <1>0, <1>7, <2>1 DEF ClearTaker, NoRow
  <2>4. /\ rows'[job[h].id].takenBy = NoUser
        /\ rows'[job[h].id].postedBy # NoUser
        /\ rows[job[h].id] # NoRow /\ rows'[job[h].id] # NoRow /\ rows'[job[h].id] # rows[job[h].id]
    BY <1>0, <2>1, <2>3 DEF NoRow, Rows
  <2> HIDE DEF c
  <2>5. Made(c)
    BY <2>1, <2>2, <2>4 DEF Made
  <2>6. ASSUME NEW d \in Changes, Made(d) PROVE d = c
    <3>1. d.id = job[h].id
      BY <1>4, <2>3, <2>6 DEF Made
    <3>2. d.kind = "untaken"
      BY <1>0, <1>4, <2>1, <2>4, <2>6, <3>1 DEF Made, Kinds
    <3>3. d.by = job[h].viewer.id
      BY <2>1, <2>6, <3>1, <3>2 DEF Made
    <3>4. QED
      BY <1>4, <2>6, <3>1, <3>2, <3>3 DEF c
  <2>7. made' = Append(made, c)
    BY <1>3, <2>2, <2>5, <2>6
  <2>8. QED
    BY <1>7, <2>1, <2>7 DEF c
<1>8. CASE \/ pc[h] = "delete" /\ Remove(h)
           \/ UNCHANGED <<rows, nextId>>
  <2>1. \A id \in Ids : rows'[id] = rows[id] \/ rows'[id] = NoRow
    BY <1>0, <1>8 DEF Remove
  <2>2. \A c \in Changes : ~Made(c)
    BY <1>4, <2>1 DEF Made
  <2>3. UNCHANGED made
    BY <1>2, <2>2
  <2>4. QED
    BY <1>8, <2>3
<1>9. QED
  BY <1>1, <1>5, <1>6, <1>7, <1>8 DEF TableStep

-----------------------------------------------------------------------------
(* What is due stays due: who posted a row is settled once, and who has     *)
(* taken one stays so for good.                                            *)

Grows == \A id \in Ids :
           /\ Posters[id] # {} => Posters'[id] = Posters[id]
           /\ Takers[id] \subseteq Takers'[id]

LEMMA DueStays ==
  ASSUME Grows, NEW e
  PROVE  /\ Due(Posters, Takers, e) => Due(Posters', Takers', e)
         /\ \A j : Ready(Posters, e, j) => Ready(Posters', e, j)
<1>1. e \in Events => e.id \in Ids /\ e.requester \in Users /\ e.taker \in Users \cup {NoUser}
  BY DEF Events
<1> HIDE DEF Posters, Takers
<1>2. QED
  BY <1>1 DEF Due, Ready, Grows

(* One step of a handler, with the change it makes entered. *)
LEMMA LedgerKept ==
  ASSUME IInv, Ledger, NEW h \in Handlers, Serve(h)
  PROVE  Ledger' /\ Grows
<1>0. /\ rows \in [Ids -> Rows \cup {NoRow}] /\ nextId \in 1..(MaxId + 1) /\ nextId \in Nat
      /\ \A id \in Ids : id \in Nat /\ (id >= nextId => rows[id] = NoRow)
      /\ made \in Seq(Changes) /\ NoUser \notin Users
  BY UsersAssumption, MaxIdAssumption DEF IInv, TypeOK, IdsRunUp, Ledger, Ids
<1>1. \A id \in Ids : /\ Posters[id] = By("created", id) /\ Posters'[id] = By("created", id)'
                      /\ Takers[id] = By("taken", id) /\ Takers'[id] = By("taken", id)'
  BY DEF Posters, Takers
<1>2. \A id \in Ids :
        /\ id >= nextId => By("created", id) = {}
        /\ rows[id].postedBy # NoUser => By("created", id) = {rows[id].postedBy}
        /\ rows[id].takenBy # NoUser => rows[id].takenBy \in By("taken", id)
  BY <1>1 DEF Ledger, Exists
<1>3. SUFFICES /\ made' \in Seq(Changes)
               /\ \A id \in Ids :
                    /\ id >= nextId' => By("created", id)' = {}
                    /\ rows'[id].postedBy # NoUser => By("created", id)' = {rows'[id].postedBy}
                    /\ rows'[id].takenBy # NoUser => rows'[id].takenBy \in By("taken", id)'
                    /\ By("created", id) # {} => By("created", id)' = By("created", id)
                    /\ By("taken", id) \subseteq By("taken", id)'
  BY <1>1, <1>3 DEF Ledger, Grows, Exists
<1>4. CASE /\ pc[h] = "insert" /\ Insert(h) /\ nextId \in Ids /\ job[h].viewer.id \in Users
           /\ made' = Append(made, [kind |-> "created", id |-> nextId, by |-> job[h].viewer.id])
  <2> DEFINE c == [kind |-> "created", id |-> nextId, by |-> job[h].viewer.id]
  <2>1. c \in Changes /\ c.kind = "created" /\ c.id = nextId /\ c.by = job[h].viewer.id
    BY <1>4 DEF Changes
  <2> HIDE DEF c
  <2>2. /\ made' \in Seq(Changes)
        /\ \A id \in Ids : /\ By("taken", id)' = By("taken", id)
                           /\ By("created", id)' = IF id = nextId THEN By("created", id) \cup {job[h].viewer.id}
                                                                  ELSE By("created", id)
    BY <1>0, <1>4, <2>1, Entered DEF c
  <2>3. /\ nextId' = nextId + 1
        /\ \A id \in Ids : rows'[id] = IF id = nextId THEN [postedBy |-> job[h].viewer.id, takenBy |-> NoUser]
                                                      ELSE rows[id]
    BY <1>0, <1>4 DEF Insert
  <2>4. By("created", nextId) = {} /\ nextId >= nextId
    BY <1>0, <1>2, <1>4
  <2>5. QED
    BY <1>0, <1>2, <2>2, <2>3, <2>4
<1>5. CASE /\ pc[h] = "take" /\ SetTaker(h) /\ job[h].id \in Ids /\ job[h].viewer.id \in Users
           /\ made' = Append(made, [kind |-> "taken", id |-> job[h].id, by |-> job[h].viewer.id])
  <2> DEFINE c == [kind |-> "taken", id |-> job[h].id, by |-> job[h].viewer.id]
  <2>1. c \in Changes /\ c.kind = "taken" /\ c.id = job[h].id /\ c.by = job[h].viewer.id
    BY <1>5 DEF Changes
  <2> HIDE DEF c
  <2>2. /\ made' \in Seq(Changes)
        /\ \A id \in Ids : /\ By("created", id)' = By("created", id)
                           /\ By("taken", id)' = IF id = job[h].id THEN By("taken", id) \cup {job[h].viewer.id}
                                                                   ELSE By("taken", id)
    BY <1>0, <1>5, <2>1, Entered DEF c
  <2>3. /\ nextId' = nextId
        /\ \A id \in Ids : id # job[h].id => rows'[id] = rows[id]
        /\ rows'[job[h].id].postedBy = rows[job[h].id].postedBy
        /\ rows'[job[h].id].takenBy = job[h].viewer.id
    BY <1>0, <1>5 DEF SetTaker, Rows, NoRow
  <2>4. QED
    BY <1>0, <1>2, <2>2, <2>3
<1>6. CASE /\ pc[h] = "untake" /\ ClearTaker(h) /\ job[h].id \in Ids /\ job[h].viewer.id \in Users
           /\ made' = Append(made, [kind |-> "untaken", id |-> job[h].id, by |-> job[h].viewer.id])
  <2> DEFINE c == [kind |-> "untaken", id |-> job[h].id, by |-> job[h].viewer.id]
  <2>1. c \in Changes /\ c.kind = "untaken" /\ c.id = job[h].id /\ c.by = job[h].viewer.id
    BY <1>6 DEF Changes
  <2> HIDE DEF c
  <2>2. /\ made' \in Seq(Changes)
        /\ \A id \in Ids : By("created", id)' = By("created", id) /\ By("taken", id)' = By("taken", id)
    BY <1>0, <1>6, <2>1, Entered DEF c
  <2>3. /\ nextId' = nextId
        /\ \A id \in Ids : id # job[h].id => rows'[id] = rows[id]
        /\ rows'[job[h].id].postedBy = rows[job[h].id].postedBy
        /\ rows'[job[h].id].takenBy = NoUser
    BY <1>0, <1>6 DEF ClearTaker, Rows, NoRow
  <2>4. QED
    BY <1>0, <1>2, <2>2, <2>3
<1>7. CASE \/ pc[h] = "delete" /\ Remove(h) /\ UNCHANGED made
           \/ UNCHANGED <<rows, nextId, made>>
  <2>1. \A id \in Ids : By("created", id)' = By("created", id) /\ By("taken", id)' = By("taken", id)
    BY <1>7 DEF By, Entries
  <2>2. nextId' = nextId /\ \A id \in Ids : rows'[id] = rows[id] \/ rows'[id] = NoRow
    BY <1>0, <1>7 DEF Remove
  <2>3. QED
    BY <1>0, <1>2, <1>7, <2>1, <2>2 DEF NoRow
<1>8. QED
  BY OneChange, <1>4, <1>5, <1>6, <1>7

-----------------------------------------------------------------------------
(* The service's steps: each is one write of the table at most, and leaves *)
(* its handler with an event that is due, if with any.                     *)

(* The other handlers stay where they are, with what they hold. *)
LEMMA OthersStay ==
  ASSUME IInv, NEW h \in Handlers, Step(h), NEW g \in Handlers \ {h}
  PROVE  pc'[g] = pc[g] /\ event'[g] = event[g] /\ job'[g] = job[g]
<1>1. /\ pc \in [Handlers -> Labels] /\ event \in [Handlers -> Events \cup {NoEvent}]
      /\ job \in [Handlers -> Jobs \cup {NoJob}]
  BY DEF IInv, TypeOK
<1>2. CASE Arrive(h)
  BY <1>1, <1>2 DEF Arrive, BeginCreate, BeginDelete, BeginTake, BeginUntake, BeginFails, Begin
<1>3. CASE Work(h)
  BY <1>1, <1>3 DEF Work, CreateWrite, DeleteWrite, TakeWrite, UntakeWrite, Missed,
       StatementFails, ReplyLost, TakeDetail, UntakeDetail, Notify, Goto, Respond
<1>4. QED
  BY <1>2, <1>3 DEF Step

(* One handler moves, and the events the others hold stay due. *)
LEMMA HandlersMove ==
  ASSUME IInv, Grows, HandlersHold, NEW h \in Handlers, Step(h),
         pc'[h] = "notify" => Due(Posters', Takers', event'[h]),
         pc'[h] = "untakeDetail" => event'[h] = NoEvent,
         pc'[h] = "untake" /\ event'[h] # NoEvent => Ready(Posters', event'[h], job'[h])
  PROVE  HandlersHold'
<1> SUFFICES ASSUME NEW g \in Handlers
             PROVE  /\ pc'[g] = "notify" => Due(Posters', Takers', event'[g])
                    /\ pc'[g] = "untakeDetail" => event'[g] = NoEvent
                    /\ pc'[g] = "untake" /\ event'[g] # NoEvent => Ready(Posters', event'[g], job'[g])
  BY DEF HandlersHold
<1>1. CASE g = h
  BY <1>1
<1>2. CASE g # h
  <2>1. pc'[g] = pc[g] /\ event'[g] = event[g] /\ job'[g] = job[g]
    BY <1>2, OthersStay
  <2>2. QED
    BY <2>1, DueStays DEF HandlersHold
<1>3. QED
  BY <1>1, <1>2

LEMMA StepHolds ==
  ASSUME IInv, Ledger, HandlersHold, Ledger', Grows, NEW h \in Handlers, Step(h), pc[h] # "notify"
  PROVE  HandlersHold'
<1>0. /\ pc \in [Handlers -> Labels] /\ event \in [Handlers -> Events \cup {NoEvent}]
      /\ rows \in [Ids -> Rows \cup {NoRow}]
      /\ job \in [Handlers -> Jobs \cup {NoJob}]
      /\ pc[h] # "idle" => job[h] \in Jobs /\ job[h].viewer.id \in Users
      /\ pc[h] \notin {"idle", "insert"} => job[h].id \in Ids
  BY MaxIdAssumption DEF IInv, TypeOK, AuthorityStands, IdsRunUp, Jobs, Viewer, Ids
(* A step that ends with the handler idle, or at a label without an event. *)
<1>1. ASSUME NEW l \in Labels \ {"notify", "untakeDetail", "untake"}, pc' = [pc EXCEPT ![h] = l],
             UNCHANGED <<job, event>>
      PROVE  HandlersHold'
  <2>1. pc'[h] = l
    BY <1>0, <1>1
  <2>2. QED
    BY <1>1, <2>1, HandlersMove
<1>2. CASE Arrive(h)
  <2>1. PICK l \in {"idle", "insert", "delete", "take", "untakeDetail"} : pc' = [pc EXCEPT ![h] = l]
    BY <1>2 DEF Arrive, BeginCreate, BeginDelete, BeginTake, BeginUntake, BeginFails, Begin
  <2>2. event'[h] = NoEvent /\ pc'[h] = l
    BY <1>0, <1>2, <2>1 DEF Arrive, BeginCreate, BeginDelete, BeginTake, BeginUntake, BeginFails, Begin
  <2>3. QED
    BY <2>1, <2>2, HandlersMove
<1>3. CASE CreateWrite(h)
  <2> DEFINE e == [kind |-> "created", id |-> nextId, requester |-> job[h].viewer.id, taker |-> NoUser]
  <2>1. /\ pc'[h] = "notify" /\ event'[h] = e
        /\ nextId \in Ids /\ rows'[nextId].postedBy = job[h].viewer.id
        /\ job[h].viewer.id \in Users
    BY <1>0, <1>3 DEF CreateWrite, Insert, Goto
  <2>2. Posters'[nextId] = {job[h].viewer.id}
    BY <2>1, UsersAssumption DEF Ledger, Exists
  <2>3. e \in Events /\ e.kind = "created" /\ e.id = nextId /\ e.requester = job[h].viewer.id
    BY <2>1 DEF Events
  <2> HIDE DEF e
  <2>4. Due(Posters', Takers', e)
    BY <2>2, <2>3 DEF Due
  <2>5. QED
    BY <2>1, <2>4, HandlersMove
<1>4. CASE DeleteWrite(h) \/ Missed(h) \/ StatementFails(h) \/ ReplyLost(h)
  <2>1. pc' = [pc EXCEPT ![h] = "idle"] /\ UNCHANGED <<job, event>>
    BY <1>4 DEF DeleteWrite, Missed, StatementFails, ReplyLost, Respond
  <2>2. QED
    BY <1>1, <2>1 DEF Labels
<1>5. CASE TakeWrite(h)
  <2>1. PICK l \in {"takeDetail", "takeMissed"} : pc' = [pc EXCEPT ![h] = l]
    BY <1>5 DEF TakeWrite, Goto
  <2>2. UNCHANGED <<job, event>>
    BY <1>5 DEF TakeWrite
  <2>3. QED
    BY <1>1, <2>1, <2>2 DEF Labels
<1>6. CASE UntakeWrite(h)
  <2>0. UNCHANGED <<job, event>> /\ pc[h] = "untake"
    BY <1>6 DEF UntakeWrite
  <2>1. CASE ClearTaker(h) /\ event[h] # NoEvent
    <3>1. Ready(Posters, event[h], job[h])
      BY <2>0, <2>1 DEF HandlersHold
    <3>2. rows[job[h].id].takenBy = job[h].viewer.id
      BY <2>1 DEF ClearTaker, CanClearTaker
    <3>3. job[h].viewer.id \in Takers[job[h].id]
      BY <1>0, <2>0, <3>2, UsersAssumption DEF Ledger
    <3>4. Due(Posters', Takers', event[h])
      BY <3>1, <3>3, DueStays DEF Due, Ready
    <3>5. pc'[h] = "notify" /\ event'[h] = event[h]
      BY <1>0, <1>6, <2>0, <2>1 DEF UntakeWrite, Goto, ClearTaker
    <3>6. QED
      BY <2>0, <3>4, <3>5, HandlersMove
  <2>2. CASE ~(ClearTaker(h) /\ event[h] # NoEvent)
    <3>1. PICK l \in {"idle", "untakeMissed"} : pc' = [pc EXCEPT ![h] = l]
      BY <1>6, <2>2 DEF UntakeWrite, Goto, Respond
    <3>2. QED
      BY <1>1, <2>0, <3>1 DEF Labels
  <2>3. QED
    BY <2>1, <2>2
<1>7. CASE TakeDetail(h)
  <2>1. CASE Respond(h, "ok") /\ UNCHANGED event
    BY <1>1, <1>7, <2>1 DEF TakeDetail, Respond, Labels
  <2>2. CASE Exists(job[h].id) /\ event' = [event EXCEPT ![h] = TakenEvent(h)] /\ Goto(h, "notify")
    <3> DEFINE r == rows[job[h].id]
    <3>1. r \in Rows /\ job[h].id \in Ids /\ UNCHANGED <<rows, job>>
      BY <1>0, <1>7, <2>2 DEF TakeDetail, Exists, NoRow
    <3>2. /\ Posters'[job[h].id] = {r.postedBy}
          /\ r.takenBy # NoUser => r.takenBy \in Takers'[job[h].id]
      BY <3>1, UsersAssumption DEF Ledger, Rows, Exists
    <3>3. /\ TakenEvent(h) \in Events
          /\ TakenEvent(h).id = job[h].id
          /\ TakenEvent(h).requester = r.postedBy /\ TakenEvent(h).taker = r.takenBy
      BY <3>1 DEF TakenEvent, Events, Rows
    <3>4. Due(Posters', Takers', TakenEvent(h))
      BY <3>2, <3>3 DEF Due
    <3>5. pc'[h] = "notify" /\ event'[h] = TakenEvent(h)
      BY <1>0, <2>2 DEF Goto
    <3> HIDE DEF r
    <3>6. QED
      BY <2>2, <3>1, <3>4, <3>5, HandlersMove
  <2>3. QED
    BY <1>7, <2>1, <2>2 DEF TakeDetail
<1>8. CASE UntakeDetail(h)
  <2>0. /\ pc[h] = "untakeDetail" /\ pc'[h] = "untake" /\ UNCHANGED <<rows, job>>
        /\ event[h] = NoEvent
    BY <1>0, <1>8 DEF UntakeDetail, Goto, HandlersHold
  <2>1. CASE UNCHANGED event
    <3>1. event'[h] = NoEvent
      BY <2>0, <2>1
    <3>2. QED
      BY <2>0, <3>1, HandlersMove
  <2>2. CASE ~UNCHANGED event
    <3> DEFINE e == [kind |-> "untaken", id |-> job[h].id,
                     requester |-> rows[job[h].id].postedBy, taker |-> job[h].viewer.id]
    <3>1. Exists(job[h].id) /\ event'[h] = e
      BY <1>0, <1>8, <2>2 DEF UntakeDetail
    <3>2. rows[job[h].id] \in Rows /\ job[h].id \in Ids
      BY <1>0, <2>0, <3>1 DEF Exists, NoRow
    <3>3. Posters'[job[h].id] = {rows[job[h].id].postedBy}
      BY <2>0, <3>2, UsersAssumption DEF Ledger, Rows, Exists
    <3>4. /\ e \in Events /\ e.kind = "untaken" /\ e.id = job[h].id
          /\ e.requester = rows[job[h].id].postedBy /\ e.taker = job[h].viewer.id
      BY <1>0, <2>0, <3>2 DEF Events, Rows
    <3> HIDE DEF e
    <3>5. Ready(Posters', e, job'[h])
      BY <2>0, <3>3, <3>4 DEF Ready
    <3>6. QED
      BY <2>0, <3>1, <3>5, HandlersMove
  <2>3. QED
    BY <2>1, <2>2
<1>9. QED
  BY <1>2, <1>3, <1>4, <1>5, <1>6, <1>7, <1>8 DEF Step, Work, Notify

-----------------------------------------------------------------------------
(* What is owed.  A handler comes to owe an event only by a step that makes *)
(* its change, and offering it settles the debt.                           *)

LEMMA CountsFinite ==
  ASSUME MInv, NEW kind, NEW id
  PROVE  /\ IsFiniteSet(Accepted(kind, id)) /\ Cardinality(Accepted(kind, id)) \in Nat
         /\ IsFiniteSet(Owing(kind, id))    /\ Cardinality(Owing(kind, id)) \in Nat
         /\ IsFiniteSet(Entries(kind, id))  /\ Cardinality(Entries(kind, id)) \in Nat
         /\ Len(events) + 1 \notin Accepted(kind, id)
         /\ Len(made) + 1 \notin Entries(kind, id)
<1>1. Len(events) \in Nat /\ Len(made) \in Nat
  BY DEF MInv, ChannelHolds, Ledger
<1>2. IsFiniteSet(1..Len(events)) /\ IsFiniteSet(1..Len(made))
  BY <1>1, FS_Interval
<1>3. /\ Accepted(kind, id) \in SUBSET (1..Len(events)) /\ Entries(kind, id) \in SUBSET (1..Len(made))
      /\ Owing(kind, id) \in SUBSET Handlers
  BY DEF Accepted, Entries, Owing, Offering
<1>4. IsFiniteSet(Accepted(kind, id)) /\ IsFiniteSet(Owing(kind, id)) /\ IsFiniteSet(Entries(kind, id))
  BY <1>2, <1>3, HandlersAssumption, FS_Subset
<1>5. QED
  BY <1>1, <1>3, <1>4, FS_CardinalityType

(* A handler at work: only it can come to owe, and not without a change. *)
LEMMA OwesWhatItMade ==
  ASSUME MInv, NEW h \in Handlers, Serve(h), NEW kind \in Kinds, NEW id \in Ids
  PROVE  /\ Owing(kind, id)' \subseteq Owing(kind, id) \cup {h}
         /\ \/ /\ h \in Owing(kind, id)' => h \in Owing(kind, id)
               /\ Entries(kind, id)' = Entries(kind, id)
            \/ Entries(kind, id)' = Entries(kind, id) \cup {Len(made) + 1}
<1>0. /\ pc \in [Handlers -> Labels] /\ event \in [Handlers -> Events \cup {NoEvent}]
      /\ job \in [Handlers -> Jobs \cup {NoJob}] /\ made \in Seq(Changes) /\ IInv
      /\ Step(h) /\ pc[h] # "notify"
  BY DEF MInv, IInv, TypeOK, Ledger, Serve
<1>1. Owing(kind, id)' \subseteq Owing(kind, id) \cup {h}
  <2> SUFFICES ASSUME NEW g \in Handlers, g # h, g \in Owing(kind, id)'
               PROVE  g \in Owing(kind, id)
    BY DEF Owing, Offering
  <2>1. pc'[g] = pc[g] /\ event'[g] = event[g] /\ job'[g] = job[g]
    BY <1>0, OthersStay
  <2>2. QED
    BY <2>1 DEF Owing, Offering
(* The handler owes nothing new unless it goes on to offer what it changed. *)
<1>2. ASSUME NEW c \in Changes, made' = Append(made, c),
             h \in Owing(kind, id)' => c.kind = kind /\ c.id = id
      PROVE  \/ /\ h \in Owing(kind, id)' => h \in Owing(kind, id)
                /\ Entries(kind, id)' = Entries(kind, id)
             \/ Entries(kind, id)' = Entries(kind, id) \cup {Len(made) + 1}
  BY <1>0, <1>2, Entered
<1>3. CASE /\ pc[h] = "insert" /\ Insert(h) /\ nextId \in Ids /\ job[h].viewer.id \in Users
           /\ made' = Append(made, [kind |-> "created", id |-> nextId, by |-> job[h].viewer.id])
  <2> DEFINE c == [kind |-> "created", id |-> nextId, by |-> job[h].viewer.id]
  <2>1. c \in Changes /\ c.kind = "created" /\ c.id = nextId
    BY <1>3 DEF Changes
  <2> HIDE DEF c
  <2>2. pc'[h] \in {"idle", "notify"} /\ (pc'[h] = "notify" => event'[h].kind = "created" /\ event'[h].id = nextId)
    BY <1>0, <1>3 DEF Step, Arrive, BeginCreate, BeginDelete, BeginTake, BeginUntake, BeginFails, Begin,
         Work, CreateWrite, DeleteWrite, TakeWrite, UntakeWrite, Missed,
         StatementFails, ReplyLost, TakeDetail, UntakeDetail, Notify, Goto, Respond
  <2>3. h \in Owing(kind, id)' => c.kind = kind /\ c.id = id
    BY <2>1, <2>2 DEF Owing, Offering
  <2>4. QED
    BY <1>1, <1>2, <1>3, <2>1, <2>3 DEF c
<1>4. CASE /\ pc[h] = "take" /\ SetTaker(h) /\ job[h].id \in Ids /\ job[h].viewer.id \in Users
           /\ made' = Append(made, [kind |-> "taken", id |-> job[h].id, by |-> job[h].viewer.id])
  <2> DEFINE c == [kind |-> "taken", id |-> job[h].id, by |-> job[h].viewer.id]
  <2>1. c \in Changes /\ c.kind = "taken" /\ c.id = job[h].id
    BY <1>4 DEF Changes
  <2> HIDE DEF c
  <2>2. pc'[h] \notin {"notify"} /\ job'[h] = job[h]
    BY <1>0, <1>4 DEF Step, Arrive, BeginCreate, BeginDelete, BeginTake, BeginUntake, BeginFails, Begin,
         Work, CreateWrite, DeleteWrite, TakeWrite, UntakeWrite, Missed,
         StatementFails, ReplyLost, TakeDetail, UntakeDetail, Notify, Goto, Respond
  <2>3. h \in Owing(kind, id)' => c.kind = kind /\ c.id = id
    BY <2>1, <2>2 DEF Owing, Offering
  <2>4. QED
    BY <1>1, <1>2, <1>4, <2>1, <2>3 DEF c
<1>5. CASE /\ pc[h] = "untake" /\ ClearTaker(h) /\ job[h].id \in Ids /\ job[h].viewer.id \in Users
           /\ made' = Append(made, [kind |-> "untaken", id |-> job[h].id, by |-> job[h].viewer.id])
  <2> DEFINE c == [kind |-> "untaken", id |-> job[h].id, by |-> job[h].viewer.id]
  <2>1. c \in Changes /\ c.kind = "untaken" /\ c.id = job[h].id
    BY <1>5 DEF Changes
  <2> HIDE DEF c
  <2>2. /\ pc'[h] \notin {"takeDetail"}
        /\ pc'[h] = "notify" => event'[h] = event[h] /\ event[h] # NoEvent
    BY <1>0, <1>5 DEF Step, Arrive, BeginCreate, BeginDelete, BeginTake, BeginUntake, BeginFails, Begin,
         Work, CreateWrite, DeleteWrite, TakeWrite, UntakeWrite, Missed, CanClearTaker, ClearTaker,
         StatementFails, ReplyLost, TakeDetail, UntakeDetail, Notify, Goto, Respond
  <2>3. event[h] # NoEvent => event[h].kind = "untaken" /\ event[h].id = job[h].id
    BY <1>5 DEF MInv, HandlersHold, Ready
  <2>4. h \in Owing(kind, id)' => c.kind = kind /\ c.id = id
    BY <2>1, <2>2, <2>3 DEF Owing, Offering
  <2>5. QED
    BY <1>1, <1>2, <1>5, <2>1, <2>4 DEF c
<1>6. CASE \/ pc[h] = "delete" /\ Remove(h) /\ UNCHANGED made
           \/ UNCHANGED <<rows, nextId, made>>
  <2>1. UNCHANGED made
    BY <1>6
  <2>2. Entries(kind, id)' = Entries(kind, id)
    BY <2>1 DEF Entries
  <2>3. \/ pc'[h] \notin {"notify", "takeDetail"}
        \/ /\ pc[h] = "takeDetail" /\ pc'[h] = "notify"
           /\ event'[h].kind = "taken" /\ event'[h].id = job[h].id
    <3>1. CASE Arrive(h)
      BY <1>0, <3>1 DEF Arrive, BeginCreate, BeginDelete, BeginTake, BeginUntake, BeginFails, Begin
    <3>2. CASE CreateWrite(h) \/ TakeWrite(h) \/ UntakeWrite(h)
      <4>1. CASE pc'[h] \in {"idle", "takeMissed", "untakeMissed"}
        BY <4>1
      <4>2. CASE \/ pc[h] = "insert" /\ Insert(h)
                 \/ pc[h] = "take" /\ SetTaker(h)
                 \/ pc[h] = "untake" /\ ClearTaker(h)
        <5>1. UNCHANGED <<rows, nextId>>
          BY <1>6, <4>2
        <5>2. nextId' # nextId \/ rows' # rows
          <6>1. /\ rows \in [Ids -> Rows \cup {NoRow}] /\ nextId \in Nat
                /\ pc[h] # "insert" => job[h].viewer.id \in Users /\ job[h].id \in Ids
            BY <1>0, <4>2, UsersAssumption, MaxIdAssumption
               DEF IInv, TypeOK, AuthorityStands, IdsRunUp, Jobs, Viewer, Ids
          <6>2. ~Insert(h) => rows'[job[h].id].takenBy # rows[job[h].id].takenBy
            BY <4>2, <6>1, UsersAssumption
               DEF SetTaker, CanSetTaker, ClearTaker, CanClearTaker, Rows, NoRow
          <6>3. QED
            BY <6>1, <6>2 DEF Insert
        <5>3. QED
          BY <5>1, <5>2
      <4>3. QED
        BY <1>0, <3>2, <4>1, <4>2 DEF CreateWrite, TakeWrite, UntakeWrite, Goto
    <3>3. CASE DeleteWrite(h) \/ Missed(h) \/ StatementFails(h) \/ ReplyLost(h) \/ UntakeDetail(h)
      BY <1>0, <3>3 DEF DeleteWrite, Missed, StatementFails, ReplyLost, UntakeDetail, Goto, Respond
    <3>4. CASE TakeDetail(h)
      BY <1>0, <3>4 DEF TakeDetail, TakenEvent, Goto, Respond
    <3>5. QED
      BY <1>0, <3>1, <3>2, <3>3, <3>4 DEF Step, Work, Notify
  <2>4. h \in Owing(kind, id)' => h \in Owing(kind, id)
    BY <2>3 DEF Owing, Offering
  <2>5. QED
    BY <1>1, <2>2, <2>4
<1>7. QED
  BY <1>0, <1>1, <1>3, <1>4, <1>5, <1>6, OneChange

LEMMA ServeOwes ==
  ASSUME MInv, NEW h \in Handlers, Serve(h)
  PROVE  OfferedOnce'
<1> SUFFICES ASSUME NEW kind \in Kinds, NEW id \in Ids
             PROVE  Cardinality(Accepted(kind, id)') + Cardinality(Owing(kind, id)')
                      <= Cardinality(Entries(kind, id)')
  BY DEF OfferedOnce
<1> DEFINE A == Accepted(kind, id)
           O == Owing(kind, id)
           E == Entries(kind, id)
<1>1. /\ IsFiniteSet(O) /\ Cardinality(O) \in Nat /\ Cardinality(A) \in Nat
      /\ IsFiniteSet(E) /\ Cardinality(E) \in Nat /\ Len(made) + 1 \notin E
  BY CountsFinite
<1>2. Cardinality(A) + Cardinality(O) <= Cardinality(E)
  BY DEF MInv, OfferedOnce
<1>3. A' = A
  BY DEF Serve, Accepted
<1>4. /\ O' \subseteq O \cup {h}
      /\ \/ (h \in O' => h \in O) /\ E' = E
         \/ E' = E \cup {Len(made) + 1}
  BY OwesWhatItMade
<1> HIDE DEF A, O, E
<1>5. CASE (h \in O' => h \in O) /\ E' = E
  <2>1. O' \in SUBSET O
    BY <1>4, <1>5
  <2>2. Cardinality(O') <= Cardinality(O) /\ IsFiniteSet(O')
    BY <1>1, <2>1, FS_Subset
  <2>3. Cardinality(O') \in Nat
    BY <2>2, FS_CardinalityType
  <2>4. QED
    BY <1>1, <1>2, <1>3, <1>5, <2>2, <2>3 DEF A, O, E
<1>6. CASE E' = E \cup {Len(made) + 1}
  <2>1. /\ IsFiniteSet(O \cup {h})
        /\ Cardinality(O \cup {h}) = IF h \in O THEN Cardinality(O) ELSE Cardinality(O) + 1
    BY <1>1, FS_AddElement
  <2>2. Cardinality(O') <= Cardinality(O \cup {h}) /\ IsFiniteSet(O')
    BY <1>4, <2>1, FS_Subset
  <2>3. Cardinality(O') \in Nat /\ Cardinality(O') <= Cardinality(O) + 1
    BY <1>1, <2>1, <2>2, FS_CardinalityType
  <2>4. Cardinality(E') = Cardinality(E) + 1
    BY <1>1, <1>6, FS_AddElement
  <2>5. QED
    BY <1>1, <1>2, <1>3, <2>3, <2>4 DEF A, O, E
<1>7. QED
  BY <1>4, <1>5, <1>6

LEMMA PostOwes ==
  ASSUME MInv, NEW h \in Handlers, Post(h)
  PROVE  OfferedOnce'
<1> SUFFICES ASSUME NEW kind \in Kinds, NEW id \in Ids
             PROVE  Cardinality(Accepted(kind, id)') + Cardinality(Owing(kind, id)')
                      <= Cardinality(Entries(kind, id)')
  BY DEF OfferedOnce
<1> DEFINE A == Accepted(kind, id)
           O == Owing(kind, id)
           E == Entries(kind, id)
           about == event[h].kind = kind /\ event[h].id = id
<1>1. /\ IsFiniteSet(O) /\ Cardinality(O) \in Nat /\ IsFiniteSet(A) /\ Cardinality(A) \in Nat
      /\ Cardinality(E) \in Nat /\ Len(events) + 1 \notin A
  BY CountsFinite
<1>2. Cardinality(A) + Cardinality(O) <= Cardinality(E)
  BY DEF MInv, OfferedOnce
<1>3. E' = E
  BY DEF Post, Entries
<1>4. /\ pc \in [Handlers -> Labels] /\ pc[h] = "notify" /\ pc' = [pc EXCEPT ![h] = "idle"]
      /\ UNCHANGED <<event, job>> /\ events \in Seq(Events)
  BY DEF MInv, IInv, TypeOK, ChannelHolds, Post, Notify, Respond
<1>5. O' = O \ {h} /\ (about <=> h \in O)
  BY <1>4 DEF Owing, Offering
<1>6. events' = events \/ (events' = Append(events, event[h]) /\ event[h] \in Events)
  BY <1>4 DEF Post, MInv, HandlersHold, Due
<1>7. A' = A \/ (about /\ A' = A \cup {Len(events) + 1})
  <2>1. CASE events' = events
    BY <2>1 DEF Accepted
  <2>2. CASE events' = Append(events, event[h]) /\ event[h] \in Events
    <3>1. /\ Len(events') = Len(events) + 1 /\ Len(events) \in Nat
          /\ \A n \in 1..Len(events) : events'[n] = events[n]
          /\ events'[Len(events) + 1] = event[h]
      BY <1>4, <2>2
    <3>2. 1..Len(events') = (1..Len(events)) \cup {Len(events) + 1}
      BY <3>1
    <3>3. QED
      BY <3>1, <3>2 DEF Accepted
  <2>3. QED
    BY <1>6, <2>1, <2>2
<1> HIDE DEF A, O, E, about
<1>8. \/ Cardinality(A') = Cardinality(A)
      \/ about /\ Cardinality(A') = Cardinality(A) + 1
  BY <1>1, <1>7, FS_AddElement
<1>9. Cardinality(O') = IF about THEN Cardinality(O) - 1 ELSE Cardinality(O)
  BY <1>1, <1>5, FS_RemoveElement
<1>10. Cardinality(A') + Cardinality(O') <= Cardinality(E')
  BY <1>1, <1>2, <1>3, <1>8, <1>9
<1>11. QED
  BY <1>10 DEF A, O, E

-----------------------------------------------------------------------------
(* Every step of the composition. *)

LEMMA MailInitInv == MailInit => MInv
<1> SUFFICES ASSUME MailInit PROVE MInv
  OBVIOUS
<1> USE DEF MailInit
<1>1. IInv /\ NotifierTypeOK /\ NothingForgotten
  BY InitInv, NotifierStarts
<1>2. Ledger
  <2>1. made = <<>> /\ made \in Seq(Changes) /\ \A id \in Ids : rows[id] = NoRow
    BY DEF Init
  <2>2. \A id \in Ids : Posters[id] = {}
    BY <2>1 DEF Posters, By, Entries
  <2>3. QED
    BY <2>1, <2>2 DEF Ledger, NoRow, Exists
<1>3. HandlersHold
  BY DEF Init, HandlersHold
<1>4. ChannelHolds /\ MailInHand
  BY DEF NotifierInit, ChannelHolds, MailInHand
<1>5. OfferedOnce
  <2> SUFFICES ASSUME NEW kind \in Kinds, NEW id \in Ids
               PROVE  Cardinality(Accepted(kind, id)) + Cardinality(Owing(kind, id))
                        <= Cardinality(Entries(kind, id))
    BY DEF OfferedOnce
  <2>1. Accepted(kind, id) = {} /\ Entries(kind, id) = {}
    BY DEF Accepted, Entries
  <2>2. Owing(kind, id) = {}
    BY DEF Init, Owing, Offering
  <2>3. QED
    BY <2>1, <2>2, FS_EmptySet
<1>6. QED
  BY <1>1, <1>2, <1>3, <1>4, <1>5 DEF MInv

(* The table changes; what was due stays due. *)
LEMMA ServeInv ==
  ASSUME MInv, NEW h \in Handlers, Serve(h)
  PROVE  MInv'
<1>1. Step(h) /\ pc[h] # "notify" /\ UNCHANGED <<nvars, events, mail>>
  BY DEF Serve
<1>2. IInv'
  BY <1>1, NextInv DEF MInv, Next
<1>3. Ledger' /\ Grows
  BY LedgerKept DEF MInv
<1>4. HandlersHold'
  BY <1>1, <1>3, StepHolds DEF MInv
<1>5. NotifierTypeOK' /\ NothingForgotten'
  BY <1>1 DEF MInv, nvars, NotifierTypeOK, NothingForgotten
<1>6. ChannelHolds'
  BY <1>1, <1>3, DueStays DEF MInv, ChannelHolds, nvars
<1>7. MailInHand'
  BY <1>1 DEF MInv, MailInHand, InHand, nvars
<1>8. OfferedOnce'
  BY ServeOwes DEF MInv
<1>9. QED
  BY <1>2, <1>3, <1>4, <1>5, <1>6, <1>7, <1>8 DEF MInv

(* An event is offered: if it is accepted, it is one that was due. *)
LEMMA PostInv ==
  ASSUME MInv, NEW h \in Handlers, Post(h)
  PROVE  MInv'
<1>1. /\ Step(h) /\ pc[h] = "notify" /\ UNCHANGED <<rows, nextId, job, event, mail, made>>
      /\ Offer /\ pc' = [pc EXCEPT ![h] = "idle"]
  BY DEF Post, Notify, Step, Work, Respond
<1>2. IInv'
  BY <1>1, NextInv DEF MInv, Next
<1>3. Ledger' /\ Grows
  <2>1. Posters' = Posters /\ Takers' = Takers
    BY <1>1 DEF Posters, Takers, By, Entries
  <2>2. QED
    BY <1>1, <2>1 DEF MInv, Ledger, Grows, Exists
<1>4. HandlersHold'
  BY <1>1, <1>3, HandlersMove DEF MInv, IInv, TypeOK
<1>5. NotifierTypeOK' /\ NothingForgotten' /\ worker' = worker
  BY <1>1, OfferKeeps DEF MInv
<1>6. /\ \/ accepted' = accepted + 1 /\ events' = Append(events, event[h])
         \/ accepted' = accepted /\ events' = events
      /\ received' = received /\ accepted \in Nat
  BY <1>1 DEF MInv, NotifierTypeOK, Post, Offer
<1>7. Due(Posters, Takers, event[h]) /\ event[h] \in Events
  BY <1>1 DEF MInv, HandlersHold, Due
<1>8. ChannelHolds'
  <2>1. CASE accepted' = accepted /\ events' = events
    BY <1>1, <1>3, <2>1, DueStays DEF MInv, ChannelHolds
  <2>2. CASE accepted' = accepted + 1 /\ events' = Append(events, event[h])
    <3>1. events \in Seq(Events) /\ Len(events) = accepted /\ \A n \in 1..Len(events) : Due(Posters, Takers, events[n])
      BY DEF MInv, ChannelHolds
    <3>2. /\ events' \in Seq(Events) /\ Len(events') = accepted + 1
          /\ \A n \in 1..Len(events') : events'[n] = IF n \in 1..Len(events) THEN events[n] ELSE event[h]
      BY <1>7, <2>2, <3>1
    <3>3. \A n \in 1..Len(events') : Due(Posters', Takers', events'[n])
      BY <1>3, <1>7, <3>1, <3>2, DueStays
    <3>4. QED
      BY <2>2, <3>2, <3>3 DEF ChannelHolds
  <2>3. QED
    BY <1>6, <2>1, <2>2
<1>9. MailInHand'
  <2>1. worker = "send" => received \in 1..Len(events)
    BY DEF MInv, NotifierTypeOK, NothingForgotten, ChannelHolds
  <2>2. worker = "send" => events'[received] = events[received]
    BY <1>6, <1>7, <2>1 DEF MInv, ChannelHolds
  <2>3. QED
    BY <1>1, <1>5, <1>6, <2>2 DEF MInv, MailInHand, InHand
<1>10. OfferedOnce'
  BY PostOwes DEF MInv
<1>11. QED
  BY <1>2, <1>3, <1>4, <1>5, <1>8, <1>9, <1>10 DEF MInv

(* The worker writes its mail from the event it received last. *)
LEMMA WorkerMailInv ==
  ASSUME MInv, Worker
  PROVE  MInv'
<1>1. UNCHANGED <<vars, events, made>>
  BY DEF Worker
<1>0. Posters' = Posters /\ Takers' = Takers
  BY <1>1 DEF Posters, Takers, By, Entries
<1>2. IInv' /\ Ledger' /\ HandlersHold'
  BY <1>0, <1>1 DEF MInv, vars, IInv, TypeOK, NoSelfCover, IdsRunUp, AuthorityStands, Exists,
              Ledger, HandlersHold
<1>3. NotifierTypeOK' /\ NothingForgotten' /\ accepted' = accepted
  <2>1. CASE TakeUp
    BY <2>1, ReceiveKeeps DEF MInv, TakeUp, Receive
  <2>2. CASE Address \/ Deliver
    BY <2>2, WorkOnKeeps DEF MInv, Address, Deliver, ListSome, ListNone, Send
  <2>3. QED
    BY <2>1, <2>2 DEF Worker
<1>4. ChannelHolds'
  BY <1>0, <1>1, <1>3 DEF MInv, ChannelHolds
<1>5. MailInHand'
  <2>1. CASE TakeUp
    BY <1>1, <2>1 DEF TakeUp, MailInHand, InHand
  <2>2. CASE Address
    BY <1>1, <2>2 DEF MInv, Address, ListSome, ListNone, MailInHand, InHand
  <2>3. CASE Deliver
    BY <2>3 DEF Deliver, Send, MailInHand
  <2>4. QED
    BY <2>1, <2>2, <2>3 DEF Worker
<1>6. OfferedOnce'
  BY <1>1 DEF MInv, vars, OfferedOnce, Accepted, Owing, Offering, Entries
<1>7. QED
  BY <1>2, <1>3, <1>4, <1>5, <1>6 DEF MInv

LEMMA MailNextInv == MInv /\ [MailNext]_mvars => MInv'
<1> SUFFICES ASSUME MInv, [MailNext]_mvars PROVE MInv'
  OBVIOUS
<1>1. CASE MailNext
  BY <1>1, ServeInv, PostInv, WorkerMailInv DEF MailNext
<1>2. CASE UNCHANGED mvars
  <2>1. Posters' = Posters /\ Takers' = Takers
    BY <1>2 DEF mvars, Posters, Takers, By, Entries
  <2>2. IInv'
    BY <1>2, NextInv DEF mvars, MInv
  <2>3. NotifierTypeOK' /\ NothingForgotten' /\ MailInHand'
    BY <1>2 DEF mvars, nvars, MInv, NotifierTypeOK, NothingForgotten, MailInHand, InHand
  <2>4. Ledger' /\ HandlersHold' /\ ChannelHolds'
    BY <1>2, <2>1 DEF mvars, vars, nvars, MInv, Ledger, Exists, HandlersHold, ChannelHolds
  <2>5. OfferedOnce'
    BY <1>2 DEF mvars, vars, MInv, OfferedOnce, Accepted, Owing, Offering, Entries
  <2>6. QED
    BY <2>2, <2>3, <2>4, <2>5 DEF MInv
<1>3. QED
  BY <1>1, <1>2

-----------------------------------------------------------------------------
(* The composition's invariant. *)
THEOREM MailInvariance == MailSpec => []MInv
<1>1. QED
  BY MailInitInv, MailNextInv, PTL DEF MailSpec

(* The notifier never touches the service's state: with it behind, the      *)
(* service still makes only its own steps, so all that is proved of Spec -  *)
(* Coverage, NoSelfCover, ButtonsWork - holds of the composition too.      *)
THEOREM ServiceUndisturbed == MailSpec => Spec
<1>1. MailInit => Init
  BY DEF MailInit
<1>2. [MailNext]_mvars => [Next]_vars
  BY DEF MailNext, Worker, Serve, Post, Next, Step, Work, mvars
<1>3. QED
  BY <1>1, <1>2, PTL DEF MailSpec, Spec

(* Members are told only of changes that were made, and of each once at     *)
(* most: the events accepted or about to be offered about a row are never  *)
(* more than its changes, whatever is dropped, refused or lost on the way. *)
THEOREM NothingMadeUp == MailSpec => []NoFalseAlarm
<1>1. MInv => NoFalseAlarm
  <2> SUFFICES ASSUME MInv, NEW c \in Changes
               PROVE  Announced(c.kind, c.id) <= TimesMade(c.kind, c.id)
    BY DEF NoFalseAlarm
  <2>1. c.kind \in Kinds /\ c.id \in Ids
    BY DEF Changes, Kinds
  <2> DEFINE A == Accepted(c.kind, c.id)
             O == Owing(c.kind, c.id)
             P == Offering(c.kind, c.id)
             E == Entries(c.kind, c.id)
  <2>2. /\ IsFiniteSet(O) /\ Cardinality(O) \in Nat /\ Cardinality(A) \in Nat
        /\ Cardinality(E) \in Nat
    BY CountsFinite
  <2>3. P \in SUBSET O
    BY DEF Owing
  <2>4. Cardinality(A) + Cardinality(O) <= Cardinality(E)
    BY <2>1 DEF MInv, OfferedOnce
  <2> HIDE DEF A, O, P, E
  <2>5. Cardinality(P) <= Cardinality(O) /\ Cardinality(P) \in Nat
    BY <2>2, <2>3, FS_Subset, FS_CardinalityType
  <2>6. Cardinality(A) + Cardinality(P) <= Cardinality(E)
    BY <2>2, <2>4, <2>5
  <2>7. QED
    BY <2>6 DEF Announced, TimesMade, A, P, E
<1>2. QED
  BY <1>1, MailInvariance, PTL

(* Every mail about a take or a cancelled cover goes to the one who posted  *)
(* the request, with copies only to members who have covered it, whatever  *)
(* happened to the row since the handler read it.                          *)
THEOREM MailsGoToThoseConcerned == MailSpec => []RightRecipients
<1>1. MInv => RightRecipients
  <2> SUFFICES ASSUME MInv, mail.kind \in {"taken", "untaken"}
               PROVE  /\ mail.to # {} /\ mail.to = By("created", mail.id)
                      /\ mail.copies \subseteq By("taken", mail.id)
    BY DEF RightRecipients
  <2>1. worker = "send"
    BY DEF MInv, MailInHand, NoMail
  <2>2. received \in 1..Len(events)
    BY <2>1 DEF MInv, NotifierTypeOK, NothingForgotten, ChannelHolds
  <2>3. PICK active \in SUBSET Users : mail = Compose(InHand, active)
    BY <2>1 DEF MInv, MailInHand
  <2>4. Due(Posters, Takers, InHand) /\ InHand.id \in Ids
    BY <2>2 DEF MInv, ChannelHolds, InHand, Due, Events
  <2>5. /\ mail.kind = InHand.kind /\ mail.id = InHand.id /\ InHand.kind # "created"
        /\ mail.to = {InHand.requester} /\ mail.copies = {InHand.taker} \ {NoUser}
    BY <2>3 DEF Compose
  <2>6. Posters[InHand.id] = By("created", InHand.id) /\ Takers[InHand.id] = By("taken", InHand.id)
    BY <2>4 DEF Posters, Takers
  <2>7. QED
    BY <2>4, <2>5, <2>6 DEF Due
<1>2. QED
  BY <1>1, MailInvariance, PTL

-----------------------------------------------------------------------------
(* The notifier as the service sees it: a mailbox with the events in it.    *)
Posted == Waiting(events, accepted, finished)

LEMMA PostedUnread ==
  MInv => accepted \in Nat /\ finished \in Nat /\ finished <= accepted /\ Unread = Posted
<1> SUFFICES ASSUME MInv
             PROVE  accepted \in Nat /\ finished \in Nat /\ finished <= accepted /\ Unread = Posted
  OBVIOUS
<1>1. /\ accepted \in Nat /\ finished \in Nat /\ finished <= accepted
      /\ Unfinished = [i \in 1..(accepted - finished) |-> finished + i]
  BY UnfinishedAre DEF MInv
<1>2. /\ DOMAIN Unfinished = 1..(accepted - finished)
      /\ \A i \in 1..(accepted - finished) : Unfinished[i] = finished + i
  BY <1>1
<1>3. Unread = [i \in 1..(accepted - finished) |-> events[finished + i]]
  BY <1>2 DEF Unread
<1> QED BY <1>1, <1>3 DEF Posted, Waiting

LEMMA UnreadNext ==
  ASSUME MInv'
  PROVE  Unread' = Waiting(events', accepted', finished')
<1>1. (MInv => accepted \in Nat /\ finished \in Nat /\ finished <= accepted /\ Unread = Posted)'
  BY PostedUnread, PTL
<1> QED BY <1>1 DEF Posted, Waiting

(* The event a handler offers is put behind the others, or refused. *)
LEMMA PostBoxed ==
  ASSUME MInv, MInv', NEW h \in Handlers, Post(h)
  PROVE  Box!Accept \/ Box!Refuse
<1> DEFINE u == Unread
           v == Unread'
<1>1. /\ accepted \in Nat /\ finished \in Nat /\ finished <= accepted
      /\ u = Waiting(events, accepted, finished)
  BY PostedUnread DEF Posted
<1>2. Offer /\ events' = IF accepted' > accepted THEN Append(events, event[h]) ELSE events
  BY DEF Post
<1>3. /\ finished' = finished /\ closed' = closed
      /\ \/ /\ ~closed /\ accepted - finished <= Buffer
            /\ accepted' = accepted + 1 /\ dropped' + panics' = dropped + panics
         \/ /\ closed \/ accepted - finished >= Buffer
            /\ accepted' = accepted /\ dropped' + panics' = dropped + panics + 1
  BY <1>2, OfferSeen DEF MInv
<1>4. v = Waiting(events', accepted', finished)
  BY <1>3, UnreadNext
<1>5. Len(Waiting(events, accepted, finished)) = accepted - finished
  BY <1>1, OneMoreWaits
<1>6. CASE /\ ~closed /\ accepted - finished <= Buffer
           /\ accepted' = accepted + 1 /\ dropped' + panics' = dropped + panics
  <2>1. /\ events \in Seq(Events) /\ Len(events) = accepted /\ event[h] \in Events
        /\ events' = Append(events, event[h])
    <3>1. pc[h] = "notify"
      BY DEF Post, Notify
    <3> QED BY <1>1, <1>2, <1>6, <3>1 DEF MInv, ChannelHolds, HandlersHold, Due
  <2>2. \A n \in 1..accepted : events'[n] = events[n]
    BY <2>1
  <2>3. Waiting(events', accepted, finished) = Waiting(events, accepted, finished)
    BY <1>1, <2>2, SameWait
  <2>4. /\ Waiting(events', accepted + 1, finished)
             = Append(Waiting(events', accepted, finished), events'[accepted + 1])
        /\ Len(Waiting(events', accepted + 1, finished)) = accepted - finished + 1
        /\ Waiting(events', accepted + 1, finished)[accepted - finished + 1] = events'[accepted + 1]
    BY <1>1, OneMoreWaits
  <2> HIDE DEF u, v
  <2>5. /\ ~closed /\ Len(u) <= Buffer /\ Len(v) = Len(u) + 1
        /\ v = Append(u, v[Len(v)])
    BY <1>1, <1>4, <1>5, <1>6, <2>3, <2>4
  <2> QED BY <2>5, <1>3, <1>6 DEF Box!Accept, u, v
<1>7. CASE /\ closed \/ accepted - finished >= Buffer
           /\ accepted' = accepted /\ dropped' + panics' = dropped + panics + 1
  <2> HIDE DEF u, v
  <2>1. (closed \/ Len(u) >= Buffer) /\ v = u
    BY <1>1, <1>2, <1>4, <1>5, <1>7
  <2> QED BY <2>1, <1>3, <1>7 DEF Box!Refuse, u, v
<1> QED BY <1>3, <1>6, <1>7

(* The worker works one event off, or goes unnoticed. *)
LEMMA WorkerBoxed ==
  ASSUME MInv, MInv', Worker
  PROVE  Box!WorkOff \/ UNCHANGED Box!bvars
<1> DEFINE u == Unread
           v == Unread'
<1>1. /\ accepted \in Nat /\ finished \in Nat /\ finished <= accepted
      /\ u = Waiting(events, accepted, finished)
  BY PostedUnread DEF Posted
<1>2. (Receive \/ ListSome \/ ListNone \/ Send) /\ events' = events
  BY DEF Worker, TakeUp, Address, Deliver
<1>3. /\ UNCHANGED <<accepted, closed, dropped, panics>>
      /\ finished' = finished \/ (finished' = finished + 1 /\ finished < accepted)
  BY <1>2, WorkSeen DEF MInv
<1>4. v = Waiting(events, accepted, finished')
  BY <1>2, <1>3, UnreadNext
<1> HIDE DEF u, v
<1>5. CASE finished' = finished
  <2>1. v = u
    BY <1>1, <1>4, <1>5
  <2> QED BY <2>1, <1>3 DEF Box!bvars, u, v
<1>6. CASE finished' = finished + 1 /\ finished < accepted
  <2>1. u # <<>> /\ v = Tail(u)
    BY <1>1, <1>4, <1>6, OneLessWaits
  <2> QED BY <2>1, <1>3 DEF Box!WorkOff, u, v
<1> QED BY <1>3, <1>5, <1>6

(* Behind the service too the notifier is a mailbox: every event accepted   *)
(* is kept as it was offered, behind those accepted before it, until the   *)
(* worker has done with it, and a handler is refused only by a full one.    *)
THEOREM EventsKeptInOrder == MailSpec => WorksAsMailbox
<1>1. MailInit => Box!Init
  <2> SUFFICES ASSUME MailInit PROVE Box!Init
    OBVIOUS
  <2>1. /\ jobs = <<>> /\ worker = "receive" /\ dropped = 0 /\ panics = 0 /\ closed = FALSE
    BY DEF MailInit, NotifierInit
  <2>2. Unfinished = <<>> \o <<>>
    BY <2>1 DEF Unfinished
  <2>3. Unread = <<>>
    BY <2>2 DEF Unread
  <2> QED BY <2>1, <2>3 DEF Box!Init, Box!Fresh
<1>2. MInv /\ MInv' /\ [MailNext]_mvars => [Box!Next]_(Box!bvars)
  <2> SUFFICES ASSUME MInv, MInv', [MailNext]_mvars PROVE [Box!Next]_(Box!bvars)
    OBVIOUS
  <2>1. ASSUME UNCHANGED <<nvars, events>> PROVE UNCHANGED Box!bvars
    BY <2>1 DEF nvars, Box!bvars, Unread, Unfinished
  <2>2. CASE UNCHANGED mvars
    BY <2>1, <2>2 DEF mvars
  <2>3. CASE Worker
    BY <2>3, WorkerBoxed DEF Box!Next
  <2>4. ASSUME NEW h \in Handlers, Serve(h) PROVE UNCHANGED Box!bvars
    BY <2>1, <2>4 DEF Serve
  <2>5. ASSUME NEW h \in Handlers, Post(h) PROVE [Box!Next]_(Box!bvars)
    BY <2>5, PostBoxed DEF Box!Next
  <2> QED BY <2>2, <2>3, <2>4, <2>5 DEF MailNext
<1> QED BY <1>1, <1>2, MailInvariance, PTL DEF MailSpec, WorksAsMailbox, Box!Spec
=============================================================================
