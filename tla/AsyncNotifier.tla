---------------------------- MODULE AsyncNotifier ----------------------------
(***************************************************************************)
(* The background notifier (internal/adapters/outbound/email): a buffered  *)
(* channel, handlers that offer events without waiting, one worker that    *)
(* mails them in order, and a Stop that closes the channel and waits for   *)
(* the worker to empty it.                                                 *)
(*                                                                         *)
(* Accepted events are numbered 1, 2, ... in the order of acceptance; the  *)
(* number is what the channel carries here.                                *)
(***************************************************************************)
EXTENDS Naturals, Sequences

CONSTANT Buffer         \* capacity of the channel, 32 in the server

ASSUME BufferAssumption == Buffer \in Nat \ {0}

VARIABLES jobs,         \* the channel
          closed,       \* it has been closed
          worker,       \* the worker goroutine: "receive", "list", "send" or "gone"
          accepted,     \* events accepted so far; the number of the last one
          received,     \* events the worker has received so far
          finished,     \* events it is done with
          dropped,      \* events refused because the channel was full
          panics        \* sends on the closed channel, recovered by the router

nvars == <<jobs, closed, worker, accepted, received, finished, dropped, panics>>

NotifierInit == /\ jobs = <<>>
                /\ closed = FALSE
                /\ worker = "receive"
                /\ accepted = 0 /\ received = 0 /\ finished = 0
                /\ dropped = 0 /\ panics = 0

(* A new process starts with a new notifier. *)
NotifierAnew == /\ jobs' = <<>>
                /\ closed' = FALSE
                /\ worker' = "receive"
                /\ accepted' = 0 /\ received' = 0 /\ finished' = 0
                /\ dropped' = 0 /\ panics' = 0

Offered == accepted + dropped + panics

-----------------------------------------------------------------------------
(* A handler offers an event: select { case jobs <- event: default: }.      *)
(* A send on a closed channel panics, in a select too.                     *)

Offer_Grows ==                   \* fault: no capacity
  \/ /\ ~closed
     /\ jobs' = Append(jobs, accepted + 1)
     /\ accepted' = accepted + 1
     /\ UNCHANGED <<closed, worker, received, finished, dropped, panics>>
  \/ /\ closed
     /\ panics' = panics + 1
     /\ UNCHANGED <<jobs, closed, worker, accepted, received, finished, dropped>>

Offer_Blocking ==                \* fault: the handler waits for room
  /\ ~closed /\ Len(jobs) < Buffer
  /\ jobs' = Append(jobs, accepted + 1)
  /\ accepted' = accepted + 1
  /\ UNCHANGED <<closed, worker, received, finished, dropped, panics>>

Offer_DropsOldest ==             \* fault: room is made by discarding the oldest event
  /\ ~closed
  /\ jobs' = Append(IF Len(jobs) = Buffer THEN Tail(jobs) ELSE jobs, accepted + 1)
  /\ accepted' = accepted + 1
  /\ UNCHANGED <<closed, worker, received, finished, dropped, panics>>

Offer ==
  \/ /\ ~closed /\ Len(jobs) < Buffer
     /\ jobs' = Append(jobs, accepted + 1)
     /\ accepted' = accepted + 1
     /\ UNCHANGED <<closed, worker, received, finished, dropped, panics>>
  \/ /\ ~closed /\ Len(jobs) = Buffer
     /\ dropped' = dropped + 1
     /\ UNCHANGED <<jobs, closed, worker, accepted, received, finished, panics>>
  \/ /\ closed
     /\ panics' = panics + 1
     /\ UNCHANGED <<jobs, closed, worker, accepted, received, finished, dropped>>

-----------------------------------------------------------------------------
(* The worker: for job := range jobs { process(job) }; close(done).         *)

(* A created event is mailed to the users active now, so they are listed   *)
(* first; taken and untaken events carry their recipients.                 *)
Receive ==
  /\ worker = "receive" /\ jobs # <<>>
  /\ jobs' = Tail(jobs)
  /\ received' = received + 1
  /\ worker' \in {"list", "send"}
  /\ UNCHANGED <<closed, accepted, finished, dropped, panics>>

(* The query for the active users found some. *)
ListSome ==
  /\ worker = "list"
  /\ worker' = "send"
  /\ UNCHANGED <<jobs, closed, accepted, received, finished, dropped, panics>>

(* It failed, or found none: the event is over. *)
ListNone ==
  /\ worker = "list"
  /\ worker' = "receive"
  /\ finished' = finished + 1
  /\ UNCHANGED <<jobs, closed, accepted, received, dropped, panics>>

(* A failed send is logged; the event is over either way. *)
Send ==
  /\ worker = "send"
  /\ worker' = "receive"
  /\ finished' = finished + 1
  /\ UNCHANGED <<jobs, closed, accepted, received, dropped, panics>>

LoopEnds_AtClose ==              \* fault: the worker leaves as soon as Stop is called
  /\ worker = "receive" /\ closed
  /\ worker' = "gone"
  /\ UNCHANGED <<jobs, closed, accepted, received, finished, dropped, panics>>

(* The range loop ends when the channel is closed and empty. *)
LoopEnds ==
  /\ worker = "receive" /\ closed /\ jobs = <<>>
  /\ worker' = "gone"
  /\ UNCHANGED <<jobs, closed, accepted, received, finished, dropped, panics>>

(* Stop, in two steps: close the channel; return once the worker is gone.   *)
CloseJobs ==
  /\ ~closed
  /\ closed' = TRUE
  /\ UNCHANGED <<jobs, worker, accepted, received, finished, dropped, panics>>

WorkerGone == worker = "gone"

-----------------------------------------------------------------------------
NotifierTypeOK ==
  /\ jobs \in Seq(Nat) /\ Len(jobs) <= Buffer
  /\ closed \in BOOLEAN
  /\ worker \in {"receive", "list", "send", "gone"}
  /\ accepted \in Nat /\ received \in Nat /\ finished \in Nat
  /\ dropped \in Nat /\ panics \in Nat

(* The events accepted and not worked off, by their numbers: the one in the *)
(* worker's hand and those in the channel.                                 *)
Unfinished == (IF worker \in {"list", "send"} THEN <<received>> ELSE <<>>) \o jobs

(* No accepted event is lost, doubled or overtaken: the channel holds, in  *)
(* order, exactly those accepted and not yet received, and the worker has  *)
(* at most the last one it received in hand.                               *)
NothingForgotten ==
  /\ Len(jobs) = accepted - received
  /\ \A i \in 1..Len(jobs) : jobs[i] = received + i
  /\ finished = IF worker \in {"list", "send"} THEN received - 1 ELSE received
=============================================================================
