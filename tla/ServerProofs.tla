---------------------------- MODULE ServerProofs ----------------------------
(***************************************************************************)
(* The safety of the server's start, of its shutdown and of its notifier,  *)
(* for any number of handlers, events and rules, any capacity of the       *)
(* channel, and any number of deaths and restarts.                         *)
(*                                                                         *)
(* The properties are not inductive alone: that a panicking handler means  *)
(* a forced shutdown needs to know that the channel is closed only by Stop *)
(* and Stop called only past the drain, and that a drained server has no   *)
(* handler left.  Phases collects what each goroutine's place says of the  *)
(* others.                                                                 *)
(***************************************************************************)
EXTENDS Server, AsyncNotifierProofs

Early == Starting \cup {"serving", "draining", "stopping"}

Phases ==
  /\ main \in Early => stopper = "none"
  /\ stopper = "none" => ~closed
  /\ panics > 0 => closed
  /\ WorkerGone => closed /\ jobs = <<>>
  /\ stopper = "stopped" => WorkerGone
  /\ main = "stopped" => stopper = "stopped"
  /\ ~dbOpen => main \in {"config", "open", "stopped", "abandoned", "exited"}
  /\ main \in Starting \/ drained => \A h \in Handlers : handler[h] = "idle"

(* How far the seeding of the policy has come. *)
Seeded ==
  /\ main = "seed" => rules = stored
  /\ main \notin {"config", "open", "migrate", "seed", "exited"}
       => Baseline \subseteq rules /\ rules = stored

IInv == TypeOK /\ NothingForgotten /\ PanicOnlyWhenForced /\ Phases /\ Seeded

(* The server starts within the invariant.                                  *)
LEMMA InitInv == Init => IInv
<1> SUFFICES ASSUME Init PROVE IInv
  OBVIOUS
<1>1. NotifierTypeOK /\ NothingForgotten
  BY NotifierStarts DEF Init
<1>2. TypeOK
  BY <1>1 DEF Init, TypeOK, Starting
<1>3. PanicOnlyWhenForced /\ Phases /\ Seeded
  BY DEF Init, NotifierInit, PanicOnlyWhenForced, Phases, Seeded, Early, Starting, WorkerGone
<1> QED BY <1>1, <1>2, <1>3 DEF IInv

-----------------------------------------------------------------------------
(* The main goroutine and the one that calls Stop. *)

(* A step of the start: nothing but the phase, the database and the policy. *)
LEMMA StartUpInv ==
  ASSUME IInv,
         LoadConfig \/ OpenDB \/ Migrate \/ AddBaseline \/ SavePolicy \/ SeedFails
  PROVE  IInv'
<1> USE DEF Starting, Early, StartUp, MainGoes, pvars
<1>1. /\ main \in Starting /\ main' \in Starting \cup {"exited"}
      /\ dbOpen' \in BOOLEAN
      /\ ~dbOpen' => main' \in {"config", "open", "exited"}
      /\ UNCHANGED <<nvars, drained, stopper, handler>>
  BY DEF IInv, TypeOK, Phases, LoadConfig, OpenDB, Migrate, AddBaseline, SavePolicy, SeedFails
<1>2. /\ NotifierTypeOK' /\ NothingForgotten' /\ (WorkerGone <=> WorkerGone')
      /\ UNCHANGED <<jobs, closed, panics>>
  BY <1>1 DEF IInv, TypeOK, NotifierTypeOK, NothingForgotten, nvars, WorkerGone
<1>3. /\ rules' \subseteq Baseline \cup Retired /\ stored' \subseteq Baseline \cup Retired
      /\ Seeded'
  BY DEF IInv, TypeOK, Seeded, LoadConfig, OpenDB, Migrate, AddBaseline, SavePolicy, SeedFails
<1>4. TypeOK' /\ PanicOnlyWhenForced'
  BY <1>1, <1>2, <1>3 DEF IInv, TypeOK, PanicOnlyWhenForced
<1>5. Phases'
  BY <1>1, <1>2 DEF IInv, Phases
<1> QED BY <1>2, <1>3, <1>4, <1>5 DEF IInv

(* Death and restart leave a process that has done nothing yet. *)
LEMMA ForgetInv ==
  ASSUME IInv, Die \/ Restart
  PROVE  IInv'
<1>1. /\ main' \in {"config", "exited"} /\ Forget
  BY DEF Die, Restart
<1>2. /\ jobs' = <<>> /\ worker' = "receive" /\ closed' = FALSE
      /\ accepted' = 0 /\ received' = 0 /\ finished' = 0 /\ dropped' = 0 /\ panics' = 0
  BY <1>1 DEF Forget, NotifierAnew
<1>3. NotifierTypeOK' /\ NothingForgotten'
  BY <1>1, NotifierRestarts DEF Forget
<1>4. /\ drained' = FALSE /\ stopper' = "none" /\ dbOpen' = FALSE /\ rules' = {}
      /\ handler' = [h \in Handlers |-> "idle"] /\ stored' = stored
  BY <1>1 DEF Forget
<1>5. TypeOK'
  BY <1>1, <1>3, <1>4 DEF IInv, TypeOK, Starting
<1>6. PanicOnlyWhenForced' /\ Phases' /\ Seeded'
  BY <1>1, <1>2, <1>4 DEF PanicOnlyWhenForced, Phases, Seeded, Starting, Early, WorkerGone
<1> QED BY <1>3, <1>5, <1>6 DEF IInv

LEMMA MainInv ==
  ASSUME IInv, MainStep \/ Signal \/ ListenFails
  PROVE  IInv'
<1> DEFINE Later == Boot \/ Drained \/ DrainTimeout \/ SpawnStop \/ Stopped \/ StopTimeout
                    \/ CloseDatabase \/ Exit \/ Signal \/ ListenFails
<1>0. CASE LoadConfig \/ OpenDB \/ Migrate \/ AddBaseline \/ SavePolicy \/ SeedFails
  BY <1>0, StartUpInv
<1>1. ASSUME Later
      PROVE  /\ UNCHANGED <<nvars, pvars, handler>>
             /\ main' \notin {"config", "open", "migrate", "seed", "save", "boot"}
             /\ main \notin {"config", "open", "migrate", "seed", "save"}
             /\ main = "exited" => main' = "exited"
  BY <1>1 DEF MainGoes, Boot, Drained, DrainTimeout, SpawnStop, Stopped, StopTimeout,
             CloseDatabase, Exit, Signal, ListenFails
<1>2. ASSUME Later
      PROVE  /\ NotifierTypeOK' /\ NothingForgotten' /\ (WorkerGone <=> WorkerGone')
             /\ rules' \subseteq Baseline \cup Retired /\ stored' \subseteq Baseline \cup Retired
             /\ panics \in Nat /\ UNCHANGED <<jobs, closed, panics>>
  BY <1>1, <1>2 DEF IInv, TypeOK, NotifierTypeOK, NothingForgotten, nvars, pvars, WorkerGone
<1>3. ASSUME Later PROVE Seeded'
  <2>1. main \notin {"config", "open", "migrate", "seed", "exited"} \/ main' = "exited"
    BY <1>1, <1>3
  <2> QED BY <1>1, <1>3, <2>1 DEF IInv, Seeded, pvars
<1>4. ASSUME Later PROVE TypeOK' /\ PanicOnlyWhenForced' /\ Phases'
  <2> USE DEF IInv, TypeOK, PanicOnlyWhenForced, Phases, Early, Starting, MainGoes
  <2>1. CASE Boot
    <3>1. main = "boot" /\ main' \in {"serving", "stopping"} /\ drained' \in BOOLEAN
          /\ UNCHANGED <<stopper, dbOpen, handler>>
      BY <2>1 DEF Boot
    <3>2. panics = 0 /\ \A h \in Handlers : handler[h] = "idle"
      BY <3>1, <1>2, <1>4
    <3> QED BY <3>1, <3>2, <1>2, <1>4
  <2>2. CASE Drained         BY <2>2, <1>2, <1>4 DEF Drained
  <2>3. CASE DrainTimeout    BY <2>3, <1>2, <1>4 DEF DrainTimeout
  <2>4. CASE SpawnStop       BY <2>4, <1>2, <1>4 DEF SpawnStop
  <2>5. CASE Stopped         BY <2>5, <1>2, <1>4 DEF Stopped
  <2>6. CASE StopTimeout     BY <2>6, <1>2, <1>4 DEF StopTimeout
  <2>7. CASE CloseDatabase
    <3>1. main \in {"stopped", "abandoned"} /\ dbOpen' = FALSE
          /\ UNCHANGED <<main, drained, stopper, handler>>
      BY <2>7 DEF CloseDatabase
    <3>2. TypeOK' /\ PanicOnlyWhenForced'
      BY <3>1, <1>2, <1>4
    <3>3. Phases'
      BY <3>1, <1>2, <1>4
    <3> QED BY <3>2, <3>3
  <2>8. CASE Exit            BY <2>8, <1>2, <1>4 DEF Exit
  <2>9. CASE Signal          BY <2>9, <1>2, <1>4 DEF Signal
  <2>10. CASE ListenFails    BY <2>10, <1>2, <1>4 DEF ListenFails
  <2> QED BY <1>4, <2>1, <2>2, <2>3, <2>4, <2>5, <2>6, <2>7, <2>8, <2>9, <2>10
<1> QED BY <1>0, <1>2, <1>3, <1>4 DEF MainStep, IInv

LEMMA StopInv ==
  ASSUME IInv, StopStep
  PROVE  IInv'
<1> USE DEF IInv, TypeOK, PanicOnlyWhenForced, Phases, Seeded, Early, Starting, pvars
<1>1. CASE StopClose
  BY <1>1 DEF StopClose, CloseJobs, svars, NotifierTypeOK, NothingForgotten, WorkerGone
<1>2. CASE StopReturns
  BY <1>2 DEF StopReturns, nvars, NotifierTypeOK, NothingForgotten, WorkerGone
<1> QED BY <1>1, <1>2 DEF StopStep

LEMMA WorkerInv ==
  ASSUME IInv, WorkerStep
  PROVE  IInv'
<1> USE DEF IInv, TypeOK, PanicOnlyWhenForced, Phases, Seeded, Early, Starting, pvars
<1>1. UNCHANGED <<svars, pvars, closed, panics>>
  BY DEF WorkerStep, Receive, ListSome, ListNone, Send, LoopEnds
<1>2. NotifierTypeOK' /\ NothingForgotten'
  BY ReceiveKeeps, WorkOnKeeps DEF WorkerStep
<1>3. /\ WorkerGone => FALSE
      /\ WorkerGone' => closed /\ jobs' = <<>>
  BY DEF WorkerStep, Receive, ListSome, ListNone, Send, LoopEnds, WorkerGone
<1> QED BY <1>1, <1>2, <1>3 DEF svars

-----------------------------------------------------------------------------
(* The handlers. *)

LEMMA HandlerInv ==
  ASSUME IInv, NEW h \in Handlers, Request(h) \/ Finish(h)
  PROVE  IInv'
<1> USE DEF IInv, TypeOK, PanicOnlyWhenForced, Phases, Seeded, Early, Starting, pvars
<1>1. CASE Request(h) \/ Commit(h) \/ NoCommit(h)
  <2>1. /\ UNCHANGED <<nvars, main, drained, stopper, dbOpen, pvars>>
        /\ handler' \in [Handlers -> {"idle", "busy", "committed"}]
    BY <1>1 DEF Request, Commit, NoCommit
  <2>2. ~(main \in Starting \/ drained)
    BY <1>1 DEF Request, Commit, NoCommit
  <2>3. NotifierTypeOK' /\ NothingForgotten' /\ (WorkerGone <=> WorkerGone')
    BY <2>1 DEF nvars, NotifierTypeOK, NothingForgotten, WorkerGone
  <2> QED BY <2>1, <2>2, <2>3 DEF nvars
<1>2. CASE Notify(h)
  <2>1. /\ Offer /\ UNCHANGED <<main, drained, stopper, dbOpen, pvars>>
        /\ handler' \in [Handlers -> {"idle", "busy", "committed"}]
        /\ ~(main \in Starting \/ drained)
    BY <1>2 DEF Notify
  <2>2. /\ NotifierTypeOK' /\ NothingForgotten' /\ UNCHANGED <<closed, worker>>
        /\ closed => jobs' = jobs
        /\ ~closed => panics' = panics
    BY <2>1, OfferKeeps
  <2> QED BY <2>1, <2>2 DEF WorkerGone
<1> QED BY <1>1, <1>2 DEF Finish

LEMMA NextInv == IInv /\ [Next]_vars => IInv'
<1> SUFFICES ASSUME IInv, [Next]_vars PROVE IInv'
  OBVIOUS
<1>1. CASE UNCHANGED vars
  BY <1>1 DEF vars, nvars, svars, pvars, IInv, TypeOK, NotifierTypeOK, NothingForgotten,
              PanicOnlyWhenForced, Phases, Seeded, Early, WorkerGone
<1> QED BY <1>1, MainInv, ForgetInv, StopInv, WorkerInv, HandlerInv DEF Next

-----------------------------------------------------------------------------
(* The inductive invariant of the server. *)
THEOREM Invariance == Spec => []IInv
BY InitInv, NextInv, PTL DEF Spec

(* Shapes, and the channel within its capacity. *)
THEOREM TypeCorrect == Spec => []TypeOK
<1>1. IInv => TypeOK BY DEF IInv
<1> QED BY <1>1, Invariance, PTL

(* Accepted events are neither lost, doubled nor overtaken. *)
THEOREM NoEventForgotten == Spec => []NothingForgotten
<1>1. IInv => NothingForgotten BY DEF IInv
<1> QED BY <1>1, Invariance, PTL

(* A handler can meet the closed channel only if the drain was not complete. *)
THEOREM NoPanicAfterDrain == Spec => []PanicOnlyWhenForced
<1>1. IInv => PanicOnlyWhenForced BY DEF IInv
<1> QED BY <1>1, Invariance, PTL

(* A serving server enforces at least the baseline, and has stored it. *)
THEOREM BaselineInForce == Spec => []PolicyGranted
<1>1. IInv => PolicyGranted
  BY DEF IInv, Seeded, PolicyGranted, Starting, Running
<1> QED BY <1>1, Invariance, PTL

(* What a complete shutdown leaves: nothing committed unannounced, nothing *)
(* accepted unfinished, no worker on a closed database.                    *)
THEOREM Clean == Spec => []CleanShutdown
<1>1. IInv => CleanShutdown
  BY DEF IInv, TypeOK, NotifierTypeOK, NothingForgotten, Phases, Starting, CleanShutdown, Owed, WorkerGone
<1> QED BY <1>1, Invariance, PTL
-----------------------------------------------------------------------------
(* The notifier as its users see it.                                        *)

(* The channel and the worker's hand together hold the numbers of the      *)
(* events accepted after the last one finished.                            *)
Number == [n \in Nat |-> n]
Held   == Waiting(Number, accepted, finished)

LEMMA PendingAre ==
  NotifierTypeOK /\ NothingForgotten =>
    accepted \in Nat /\ finished \in Nat /\ finished <= accepted /\ Unfinished = Held
<1> SUFFICES ASSUME NotifierTypeOK, NothingForgotten
             PROVE  accepted \in Nat /\ finished \in Nat /\ finished <= accepted /\ Unfinished = Held
  OBVIOUS
<1>1. /\ accepted \in Nat /\ finished \in Nat /\ finished <= accepted
      /\ Unfinished = [i \in 1..(accepted - finished) |-> finished + i]
  BY UnfinishedAre
<1>2. \A i \in 1..(accepted - finished) : Number[finished + i] = finished + i
  BY <1>1 DEF Number
<1> QED BY <1>1, <1>2 DEF Held, Waiting

(* A new notifier is a fresh box.                                          *)
Empty == jobs = <<>> /\ worker = "receive" /\ dropped = 0 /\ panics = 0 /\ closed = FALSE

LEMMA NewBox == Empty => Box!Fresh
<1> SUFFICES ASSUME Empty PROVE Box!Fresh
  OBVIOUS
<1> USE DEF Empty
<1>1. Unfinished = <<>> \o <<>>
  BY DEF Unfinished
<1> QED BY <1>1 DEF Box!Fresh

(* An offer puts one event into the box, or is refused.                     *)
LEMMA OfferBoxed ==
  ASSUME IInv, IInv', Offer, UNCHANGED main
  PROVE  Box!Accept \/ Box!Refuse
<1> DEFINE u == Unfinished
           v == Unfinished'
<1>1. /\ accepted \in Nat /\ finished \in Nat /\ finished <= accepted
      /\ u = Waiting(Number, accepted, finished)
  BY PendingAre DEF IInv, TypeOK, Held
<1>2. v = Held'
  <2>1. (NotifierTypeOK /\ NothingForgotten =>
           accepted \in Nat /\ finished \in Nat /\ finished <= accepted /\ Unfinished = Held)'
    BY PendingAre, PTL
  <2> QED BY <2>1 DEF IInv, TypeOK
<1>3. /\ finished' = finished /\ closed' = closed
      /\ \/ /\ ~closed /\ accepted - finished <= Buffer
            /\ accepted' = accepted + 1 /\ dropped' + panics' = dropped + panics
         \/ /\ closed \/ accepted - finished >= Buffer
            /\ accepted' = accepted /\ dropped' + panics' = dropped + panics + 1
  BY OfferSeen DEF IInv, TypeOK
<1>4. v = Waiting(Number, accepted', finished)
  BY <1>2, <1>3 DEF Held, Waiting
<1>5. /\ Waiting(Number, accepted + 1, finished)
           = Append(Waiting(Number, accepted, finished), Number[accepted + 1])
      /\ Len(Waiting(Number, accepted, finished)) = accepted - finished
      /\ Len(Waiting(Number, accepted + 1, finished)) = accepted - finished + 1
      /\ Waiting(Number, accepted + 1, finished)[accepted - finished + 1] = Number[accepted + 1]
  BY <1>1, OneMoreWaits
<1> HIDE DEF u, v
<1>6. CASE /\ ~closed /\ accepted - finished <= Buffer
           /\ accepted' = accepted + 1 /\ dropped' + panics' = dropped + panics
  <2>1. /\ ~closed /\ Len(u) <= Buffer /\ Len(v) = Len(u) + 1
        /\ v = Append(u, v[Len(v)])
    BY <1>1, <1>4, <1>5, <1>6
  <2> QED BY <2>1, <1>3, <1>6 DEF Box!Accept, u, v
<1>7. CASE /\ closed \/ accepted - finished >= Buffer
           /\ accepted' = accepted /\ dropped' + panics' = dropped + panics + 1
  <2>1. (closed \/ Len(u) >= Buffer) /\ v = u
    BY <1>1, <1>4, <1>5, <1>7
  <2> QED BY <2>1, <1>3, <1>7 DEF Box!Refuse, u, v
<1> QED BY <1>3, <1>6, <1>7

(* A step of the worker works one event off, or goes unnoticed.             *)
LEMMA WorkBoxed ==
  ASSUME IInv, IInv', WorkerStep
  PROVE  Box!WorkOff \/ UNCHANGED Box!bvars
<1> DEFINE u == Unfinished
           v == Unfinished'
<1>1. /\ accepted \in Nat /\ finished \in Nat /\ finished <= accepted
      /\ u = Waiting(Number, accepted, finished)
  BY PendingAre DEF IInv, TypeOK, Held
<1>2. v = Held'
  <2>1. (NotifierTypeOK /\ NothingForgotten =>
           accepted \in Nat /\ finished \in Nat /\ finished <= accepted /\ Unfinished = Held)'
    BY PendingAre, PTL
  <2> QED BY <2>1 DEF IInv, TypeOK
<1>3. /\ UNCHANGED <<accepted, closed, dropped, panics, main>>
      /\ finished' = finished \/ (finished' = finished + 1 /\ finished < accepted)
  BY WorkSeen DEF IInv, TypeOK, WorkerStep, svars
<1>4. v = Waiting(Number, accepted, finished')
  BY <1>2, <1>3 DEF Held, Waiting
<1> HIDE DEF u, v
<1>5. CASE finished' = finished
  <2>1. v = u
    BY <1>1, <1>4, <1>5
  <2> QED BY <2>1, <1>3 DEF Box!bvars, Running, u, v
<1>6. CASE finished' = finished + 1 /\ finished < accepted
  <2>1. u # <<>> /\ v = Tail(u)
    BY <1>1, <1>4, <1>6, OneLessWaits
  <2> QED BY <2>1, <1>3 DEF Box!WorkOff, u, v
<1> QED BY <1>3, <1>5, <1>6

(* Where the notifier does not move, neither does the box; it is given up   *)
(* when the process exits.                                                 *)
LEMMA RestBoxed ==
  ASSUME UNCHANGED nvars, main # "exited"
  PROVE  Box!GiveUp \/ UNCHANGED Box!bvars
<1>1. Unfinished' = Unfinished /\ closed' = closed /\ dropped' + panics' = dropped + panics
  BY DEF nvars, Unfinished
<1> QED BY <1>1 DEF Box!GiveUp, Box!bvars, Running

LEMMA BoxStep ==
  ASSUME IInv, IInv', Next
  PROVE  [Box!Next]_(Box!bvars)
<1>1. CASE MainStep \/ Signal \/ ListenFails
  <2>1. UNCHANGED nvars /\ main # "exited"
    BY <1>1 DEF MainStep, LoadConfig, OpenDB, Migrate, AddBaseline, SavePolicy, SeedFails, Boot, Drained,
       DrainTimeout, SpawnStop, Stopped, StopTimeout, CloseDatabase, Exit, Signal, ListenFails, StartUp, MainGoes
  <2> QED BY <2>1, RestBoxed DEF Box!Next
<1>2. CASE Die \/ Restart
  <2>1. Empty' /\ (Running' <=> ~Running)
    BY <1>2 DEF Die, Restart, Forget, NotifierAnew, Running, Empty
  <2>2. Box!Fresh'
    BY <2>1, NewBox, PTL
  <2> QED BY <2>1, <2>2 DEF Box!Next, Box!GiveUp, Box!Replace
<1>3. CASE Running /\ StopClose
  <2>1. ~closed /\ closed' = TRUE /\ UNCHANGED <<jobs, worker, received, dropped, panics, main>>
    BY <1>3 DEF StopClose, CloseJobs, svars
  <2>2. Unfinished' = Unfinished /\ Running'
    BY <1>3, <2>1 DEF Unfinished, Running
  <2> QED BY <1>3, <2>1, <2>2 DEF Box!Next, Box!Shut
<1>4. CASE Running /\ StopReturns
  BY <1>4, RestBoxed DEF StopReturns, Running, Box!Next
<1>5. CASE Running /\ WorkerStep
  <2>1. Running'
    BY <1>5 DEF WorkerStep, svars, Running
  <2> QED BY <1>5, <2>1, WorkBoxed DEF Box!Next
<1>6. ASSUME Running, NEW h \in Handlers, Request(h) \/ Finish(h)
      PROVE  [Box!Next]_(Box!bvars)
  <2>1. CASE Request(h) \/ Commit(h) \/ NoCommit(h)
    <3>1. UNCHANGED nvars /\ main # "exited"
      BY <1>6, <2>1 DEF Request, Commit, NoCommit, Running
    <3> QED BY <3>1, RestBoxed DEF Box!Next
  <2>2. CASE Notify(h)
    <3>1. Offer /\ UNCHANGED main /\ Running'
      BY <1>6, <2>2 DEF Notify, Running
    <3> QED BY <1>6, <3>1, OfferBoxed DEF Box!Next
  <2> QED BY <1>6, <2>1, <2>2 DEF Finish
<1> QED BY <1>1, <1>2, <1>3, <1>4, <1>5, <1>6 DEF Next, StopStep

(* The server's notifier, with its channel, its worker, Stop, both timeouts *)
(* and a process that may die at any moment, is a mailbox: what it accepts  *)
(* it works off once and in order for as long as the process lives, and it  *)
(* makes nobody wait.                                                      *)
THEOREM MailboxKept == Spec => ImplementsMailbox
<1>1. Init => Box!Init
  <2> SUFFICES ASSUME Init PROVE Box!Init
    OBVIOUS
  <2>1. Empty /\ main = "config"
    BY DEF Init, NotifierInit, Empty
  <2> QED BY <2>1, NewBox DEF Box!Init, Running
<1>2. IInv /\ IInv' /\ [Next]_vars => [Box!Next]_(Box!bvars)
  <2> SUFFICES ASSUME IInv, IInv', [Next]_vars PROVE [Box!Next]_(Box!bvars)
    OBVIOUS
  <2>1. CASE UNCHANGED vars
    BY <2>1 DEF vars, nvars, svars, Box!bvars, Unfinished, Running
  <2> QED BY <2>1, BoxStep
<1> QED BY <1>1, <1>2, Invariance, PTL DEF Spec, ImplementsMailbox, Box!Spec
=============================================================================
