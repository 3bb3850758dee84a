---------------------------- MODULE Notifications ----------------------------
(***************************************************************************)
(* What members are told: the sub-request service (SubRequests) with the   *)
(* background notifier (AsyncNotifier) behind it, while the server serves. *)
(* A handler that has changed the table offers its event to the channel in *)
(* a step of its own; the worker turns each event it receives into one     *)
(* mail.  Nothing ties the order of the offers to that of the changes.     *)
(*                                                                         *)
(* made is a history variable: the changes made to the table, in order.     *)
(***************************************************************************)
EXTENDS SubRequests, AsyncNotifier, FiniteSetsExt

CONSTANT MaxChanges     \* bound: changes that call for a notification

ASSUME HandlersAssumption == IsFiniteSet(Handlers)

VARIABLES events,       \* the events the channel accepted, by their number
          mail,         \* the mail the worker is about to send
          made          \* the changes made to the table

mvars == <<vars, nvars, events, mail, made>>

Changes == [kind : {"created", "taken", "untaken"}, id : Ids, by : Users]
NoMail  == [kind |-> "none", id |-> 0, to |-> {}, copies |-> {}]

MailInit == /\ Init /\ NotifierInit
            /\ events = <<>>
            /\ mail = NoMail
            /\ made = <<>>

-----------------------------------------------------------------------------
(* The sender's part.  A created event goes to the station's own address,   *)
(* which is nobody here, with blind copies to the active users; a taken or *)
(* untaken event goes to the requester, with a copy to whom the event      *)
(* names, if it names somebody.                                            *)
Compose_ToTaker(e, active) ==   \* fault: recipient and copy are swapped
  [kind   |-> e.kind, id |-> e.id,
   to     |-> IF e.kind = "created" THEN {} ELSE {e.taker} \ {NoUser},
   copies |-> IF e.kind = "created" THEN active ELSE {e.requester}]

Compose(e, active) ==
  [kind   |-> e.kind, id |-> e.id,
   to     |-> IF e.kind = "created" THEN {} ELSE {e.requester},
   copies |-> IF e.kind = "created" THEN active ELSE {e.taker} \ {NoUser}]

InHand == events[received]

(* The worker takes the next event; a created one waits for its recipients. *)
TakeUp ==
  /\ Receive
  /\ worker' = IF events[received'].kind = "created" THEN "list" ELSE "send"
  /\ mail' = IF worker' = "send" THEN Compose(events[received'], {}) ELSE NoMail

(* ListActiveUsers: some users are enabled, or it fails or finds none.      *)
Address == \/ /\ ListSome
              /\ \E active \in (SUBSET Users) \ {{}} : mail' = Compose(InHand, active)
           \/ ListNone /\ UNCHANGED mail

(* Sent, or the sender failed and said so in the log; there is no retry.    *)
Deliver == Send /\ mail' = NoMail

Worker == /\ TakeUp \/ Address \/ Deliver
          /\ UNCHANGED <<vars, events, made>>

-----------------------------------------------------------------------------
(* The service's part: any step but the offer, with the change it made.     *)

Made(c) ==
  LET was == rows[c.id]
      is  == rows'[c.id]
  IN  /\ was # is /\ is # NoRow
      /\ CASE c.kind = "created" -> was = NoRow /\ is.postedBy = c.by
           [] c.kind = "taken"   -> was # NoRow /\ is.takenBy = c.by
           [] c.kind = "untaken" -> is.takenBy = NoUser /\ was.takenBy = c.by

Serve(h) ==
  /\ Step(h) /\ pc[h] # "notify"
  /\ rows' = rows \/ Len(made) < MaxChanges
  /\ \/ \E c \in Changes : Made(c) /\ made' = Append(made, c)
     \/ (\A c \in Changes : ~Made(c)) /\ UNCHANGED made
  /\ UNCHANGED <<nvars, events, mail>>

(* The event is offered; a full channel drops it, with a line in the log.   *)
Post(h) ==
  /\ Notify(h) /\ Offer
  /\ events' = IF accepted' > accepted THEN Append(events, event[h]) ELSE events
  /\ UNCHANGED <<mail, made>>

MailNext == Worker \/ \E h \in Handlers : Serve(h) \/ Post(h)

MailSpec == MailInit /\ [][MailNext]_mvars

-----------------------------------------------------------------------------
(* The events of a kind about a row that were accepted, the handlers about  *)
(* to offer one, and the changes of that kind that were made.              *)
Accepted(kind, id) == {n \in 1..Len(events) : events[n].kind = kind /\ events[n].id = id}
Offering(kind, id) == {h \in Handlers : pc[h] = "notify" /\ event[h].kind = kind /\ event[h].id = id}
Entries(kind, id)  == {n \in 1..Len(made) : made[n].kind = kind /\ made[n].id = id}

Announced(kind, id) == Cardinality(Accepted(kind, id)) + Cardinality(Offering(kind, id))
TimesMade(kind, id) == Cardinality(Entries(kind, id))

(* Who made the changes of a kind to a row. *)
By(kind, id) == {made[n].by : n \in Entries(kind, id)}

(* No false alarm: members are never told of a change that was not made,    *)
(* nor twice of one that was; a request that lost its race, or whose write *)
(* failed, announces nothing.                                              *)
NoFalseAlarm ==
  \A c \in Changes : Announced(c.kind, c.id) <= TimesMade(c.kind, c.id)

(* The mail in the worker's hand is for those it concerns, however much     *)
(* later it goes out: it is addressed to the one who posted the request,   *)
(* and copied to nobody who has not covered it at some time.               *)
RightRecipients ==
  mail.kind \in {"taken", "untaken"} =>
    /\ mail.to # {} /\ mail.to = By("created", mail.id)
    /\ mail.copies \subseteq By("taken", mail.id)

(* With the events themselves in it the notifier is a mailbox still, which  *)
(* is never shut here: what a handler has posted reaches the worker as it  *)
(* was, once and in its turn, however many handlers post meanwhile.        *)
Unread == [i \in DOMAIN Unfinished |-> events[Unfinished[i]]]

Box == INSTANCE Mailbox WITH Room <- Buffer, pending <- Unread, refused <- dropped + panics,
                             shut <- closed, alive <- TRUE

WorksAsMailbox == Box!Spec

(* When every change of cover has been announced and mailed, the last mail  *)
(* about a request tells whether it is covered ("<taker> took your sub     *)
(* request", "Your sub request is no longer covered").                     *)
AllTold(id) ==
  /\ \A h \in Handlers : pc[h] = "idle"
  /\ worker = "receive" /\ jobs = <<>>
  /\ \A kind \in {"taken", "untaken"} : Announced(kind, id) = TimesMade(kind, id)

LastWordTrue ==
  \A id \in Ids :
    LET told == {n \in 1..Len(events) : events[n].id = id /\ events[n].kind # "created"}
    IN  Exists(id) /\ AllTold(id) /\ told # {} =>
          (events[Max(told)].kind = "taken" <=> rows[id].takenBy # NoUser)
=============================================================================
