------------------------------- MODULE Server -------------------------------
(***************************************************************************)
(* The life of the server process (internal/cmd/server.go).  It reads its  *)
(* configuration, opens and migrates the database, seeds the authorization *)
(* policy and the master account, and serves until a signal or a failing   *)
(* listener; it then drains the HTTP handlers within a timeout, stops the  *)
(* notifier within another, closes the database and exits.  Handlers, the  *)
(* notifier's worker and the main goroutine run concurrently; a timeout    *)
(* may expire whenever its owner waits.  The process may die at any moment *)
(* and be started again: the policy table is what outlives it here.        *)
(***************************************************************************)
EXTENDS AsyncNotifier, FiniteSets

CONSTANTS Handlers,     \* request handlers running at a time
          MaxEvents,    \* bound: changes committed that call for a notification
          Baseline,     \* the rules of this version's baselinePolicies
          Retired       \* rules that only an earlier version had

ASSUME MaxEventsAssumption == MaxEvents \in Nat

VARIABLES main,         \* where runServer is
          drained,      \* Shutdown returned nil: no handler is left, none will come
          stopper,      \* the goroutine that calls Stop: "none", "running", "stopped"
          dbOpen,       \* the database handle is open
          handler,      \* each handler: "idle", "busy", or "committed" with an event to offer
          rules,        \* the policy the enforcer has in memory
          stored        \* the table casbin_rule

svars == <<main, drained, stopper, dbOpen, handler>>
pvars == <<rules, stored>>
vars  == <<nvars, svars, pvars>>

(* The table holds whatever earlier versions and broken-off starts left.    *)
Init == /\ NotifierInit
        /\ main = "config"
        /\ drained = FALSE
        /\ stopper = "none"
        /\ dbOpen = FALSE
        /\ handler = [h \in Handlers |-> "idle"]
        /\ rules = {}
        /\ stored \in SUBSET (Baseline \cup Retired)

Running == main # "exited"

Starting == {"config", "open", "migrate", "seed", "save", "boot"}

-----------------------------------------------------------------------------
(* The main goroutine. *)

MainGoes(from, to) == main = from /\ main' = to

(* A start-up step that neither the handlers nor the notifier notice. *)
StartUp(from, to) == /\ MainGoes(from, to)
                     /\ UNCHANGED <<nvars, drained, stopper, handler>>

(* The configuration is read and checked, or refused. *)
LoadConfig == /\ StartUp("config", "open") \/ StartUp("config", "exited")
              /\ UNCHANGED <<dbOpen, pvars>>

OpenDB == /\ \/ StartUp("open", "migrate") /\ dbOpen' = TRUE
             \/ StartUp("open", "exited")  /\ UNCHANGED dbOpen
          /\ UNCHANGED pvars

(* Ping and the migrations.  When they fail InitDB returns without closing  *)
(* what it opened.                                                         *)
Migrate == \/ /\ StartUp("migrate", "seed")
              /\ rules' = stored                  \* LoadPolicy
              /\ UNCHANGED <<dbOpen, stored>>
           \/ /\ StartUp("migrate", "exited")
              /\ UNCHANGED <<dbOpen, pvars>>

AddBaseline_WhenEmpty ==         \* fault: only an empty table is seeded
  /\ StartUp("seed", "save")
  /\ rules' = IF rules = {} THEN Baseline ELSE rules
  /\ stored' = rules'
  /\ UNCHANGED dbOpen

(* AddPoliciesEx adds those that are missing, to the table as well. *)
AddBaseline == /\ StartUp("seed", "save")
               /\ rules' = rules \cup Baseline
               /\ stored' = stored \cup Baseline
               /\ UNCHANGED dbOpen

(* SavePolicy replaces the table by the policy in memory. *)
SavePolicy == /\ StartUp("save", "boot")
              /\ stored' = rules
              /\ UNCHANGED <<dbOpen, rules>>

(* Either fails: buildInfrastructure closes the database.  Of the rules to  *)
(* be added any may have been stored.                                      *)
SeedFails == /\ StartUp("seed", "exited") \/ StartUp("save", "exited")
             /\ dbOpen' = FALSE
             /\ \E added \in SUBSET Baseline : stored' = stored \cup added
             /\ UNCHANGED rules

(* The notifier is started and EnsureMasterUser run, then the server        *)
(* listens; an error of the latter ends runServer before anything is       *)
(* served, and its deferred calls do the rest.                             *)
Boot ==
  /\ \/ MainGoes("boot", "serving") /\ UNCHANGED drained
     \/ MainGoes("boot", "stopping") /\ drained' = TRUE
  /\ UNCHANGED <<nvars, stopper, dbOpen, handler, pvars>>

(* SIGINT or SIGTERM: Shutdown is called. *)
Signal == /\ MainGoes("serving", "draining")
          /\ UNCHANGED <<nvars, drained, stopper, dbOpen, handler, pvars>>

(* The listener fails: runServer returns without Shutdown, connections and *)
(* their handlers stay as they are.                                        *)
ListenFails == /\ MainGoes("serving", "stopping")
               /\ UNCHANGED <<nvars, drained, stopper, dbOpen, handler, pvars>>

Drained_NoWait ==                \* fault: Close instead of Shutdown
  /\ MainGoes("draining", "stopping")
  /\ drained' = TRUE
  /\ UNCHANGED <<nvars, stopper, dbOpen, handler, pvars>>

Drained == /\ MainGoes("draining", "stopping")
           /\ \A h \in Handlers : handler[h] = "idle"
           /\ drained' = TRUE
           /\ UNCHANGED <<nvars, stopper, dbOpen, handler, pvars>>

(* The shutdown timeout: "graceful shutdown failed". *)
DrainTimeout == /\ MainGoes("draining", "stopping")
                /\ UNCHANGED <<nvars, drained, stopper, dbOpen, handler, pvars>>

(* stopNotifierWithTimeout: Stop runs in a goroutine of its own. *)
SpawnStop == /\ MainGoes("stopping", "waiting")
             /\ stopper' = "running"
             /\ UNCHANGED <<nvars, drained, dbOpen, handler, pvars>>

StopClose == /\ stopper = "running"
             /\ CloseJobs
             /\ UNCHANGED <<svars, pvars>>

StopReturns_NoWait ==            \* fault: Stop does not wait for the worker
  /\ stopper = "running" /\ closed
  /\ stopper' = "stopped"
  /\ UNCHANGED <<nvars, main, drained, dbOpen, handler, pvars>>

StopReturns == /\ stopper = "running" /\ closed /\ WorkerGone
               /\ stopper' = "stopped"
               /\ UNCHANGED <<nvars, main, drained, dbOpen, handler, pvars>>

Stopped == /\ MainGoes("waiting", "stopped")
           /\ stopper = "stopped"
           /\ UNCHANGED <<nvars, drained, stopper, dbOpen, handler, pvars>>

StopTimeout_Never ==             \* fault: no timer, main waits for Stop however long it takes
  /\ FALSE
  /\ UNCHANGED vars

StopTimeout == /\ MainGoes("waiting", "abandoned")
               /\ UNCHANGED <<nvars, drained, stopper, dbOpen, handler, pvars>>

(* database.Close, deferred first and so run last, then the exit. *)
CloseDatabase == /\ main \in {"stopped", "abandoned"}
                 /\ dbOpen
                 /\ dbOpen' = FALSE
                 /\ UNCHANGED <<nvars, main, drained, stopper, handler, pvars>>

Exit == /\ main \in {"stopped", "abandoned"}
        /\ ~dbOpen
        /\ main' = "exited"
        /\ UNCHANGED <<nvars, drained, stopper, dbOpen, handler, pvars>>

MainStep == \/ LoadConfig \/ OpenDB \/ Migrate \/ AddBaseline \/ SavePolicy \/ SeedFails
            \/ Boot \/ Drained \/ DrainTimeout \/ SpawnStop
            \/ Stopped \/ StopTimeout \/ CloseDatabase \/ Exit

StopStep == StopClose \/ StopReturns

(* Memory is lost; the table is not. *)
Forget == /\ NotifierAnew
          /\ drained' = FALSE
          /\ stopper' = "none"
          /\ dbOpen' = FALSE
          /\ handler' = [h \in Handlers |-> "idle"]
          /\ rules' = {}
          /\ UNCHANGED stored

(* The process dies: killed, a signal while it starts, or a second signal.  *)
(* The queue and the changes not yet offered are lost with it.             *)
Die == Running /\ main' = "exited" /\ Forget

Restart == ~Running /\ main' = "config" /\ Forget

-----------------------------------------------------------------------------
(* Handlers and the worker, while the process lives. *)

(* A request starts on a new connection or on one that is still open: until *)
(* Shutdown has seen every connection idle.                                *)
Request(h) == /\ main \notin Starting /\ Running /\ ~drained
              /\ handler[h] = "idle"
              /\ handler' = [handler EXCEPT ![h] = "busy"]
              /\ UNCHANGED <<nvars, main, drained, stopper, dbOpen, pvars>>

Owed == {h \in Handlers : handler[h] = "committed"}

(* It commits a change that calls for a notification, or ends without one.  *)
Commit(h) == /\ handler[h] = "busy" /\ dbOpen
             /\ Offered + Cardinality(Owed) < MaxEvents
             /\ handler' = [handler EXCEPT ![h] = "committed"]
             /\ UNCHANGED <<nvars, main, drained, stopper, dbOpen, pvars>>

NoCommit(h) == /\ handler[h] = "busy"
               /\ handler' = [handler EXCEPT ![h] = "idle"]
               /\ UNCHANGED <<nvars, main, drained, stopper, dbOpen, pvars>>

Notify(h) == /\ handler[h] = "committed"
             /\ Offer
             /\ handler' = [handler EXCEPT ![h] = "idle"]
             /\ UNCHANGED <<main, drained, stopper, dbOpen, pvars>>

Finish(h) == Commit(h) \/ NoCommit(h) \/ Notify(h)

WorkerStep == /\ \/ Receive
                 \/ dbOpen /\ ListSome
                 \/ ListNone
                 \/ Send
                 \/ LoopEnds
              /\ UNCHANGED <<svars, pvars>>

Next == \/ MainStep \/ Signal \/ ListenFails \/ Die \/ Restart
        \/ /\ Running
           /\ \/ StopStep
              \/ WorkerStep
              \/ \E h \in Handlers : Request(h) \/ Finish(h)

Spec == Init /\ [][Next]_vars

(* Main and the handlers run; nothing is assumed of the worker, which may   *)
(* hang in a send, nor of Stop, which waits for it.                        *)
FairSpec == /\ Spec
            /\ WF_vars(MainStep)
            /\ \A h \in Handlers : WF_vars(Running /\ Finish(h))

-----------------------------------------------------------------------------
(* Shapes; the channel never holds more than its capacity. *)
TypeOK ==
  /\ NotifierTypeOK
  /\ main \in Starting \cup {"serving", "draining", "stopping", "waiting", "stopped",
                            "abandoned", "exited"}
  /\ drained \in BOOLEAN /\ dbOpen \in BOOLEAN
  /\ stopper \in {"none", "running", "stopped"}
  /\ handler \in [Handlers -> {"idle", "busy", "committed"}]
  /\ rules \subseteq Baseline \cup Retired /\ stored \subseteq Baseline \cup Retired

(* Nobody looks into the notifier: to its users it is a mailbox that takes  *)
(* what it has room for, refuses the rest at once, and works off all it    *)
(* took in order, each event once, also after Stop, for as long as the     *)
(* process lives.                                                          *)
Box == INSTANCE Mailbox WITH Room <- Buffer, pending <- Unfinished, refused <- dropped + panics,
                             shut <- closed, alive <- Running

ImplementsMailbox == Box!Spec

(* A handler meets the closed channel, and panics after its change has been *)
(* committed, only when the drain did not complete: while Shutdown returns  *)
(* nil, stopping the notifier strands nobody.                              *)
PanicOnlyWhenForced == panics > 0 => ~drained

(* After a complete drain and a completed Stop, no handler is left between  *)
(* its change and its event, every event accepted has been worked off, and  *)
(* each was worked off while the database was open to it: past the start,   *)
(* the database is closed under a working worker only if Stop was given up. *)
CleanShutdown ==
  /\ drained /\ stopper = "stopped" => Owed = {} /\ jobs = <<>> /\ finished = accepted
  /\ ~dbOpen /\ ~WorkerGone => /\ main \in {"config", "open", "abandoned", "exited"}
                               /\ stopper # "stopped"

(* From the first request to the last the enforcer grants at least what     *)
(* this version's baseline grants, and what it has in memory is what the   *)
(* next process will find, whatever starts failed or died before.          *)
PolicyGranted ==
  main \notin Starting /\ Running => Baseline \subseteq rules /\ rules = stored

(* A shutdown that has begun ends, whatever the handlers and the worker do. *)
ShutdownEnds ==
  main \in {"draining", "stopping", "waiting", "stopped", "abandoned"} ~> main = "exited"

(* No handler waits for the notifier: after its change it offers the event  *)
(* and ends, even when the worker is stuck and the channel full.            *)
HandlersNeverWait ==
  \A h \in Handlers : handler[h] = "committed" ~> handler[h] = "idle" \/ ~Running

(* Every accepted event is worked off, unless the process dies or exits on  *)
(* a Stop it has given up waiting for: if the worker runs, that is, as     *)
(* every query and send of it ends.                                        *)
WorkerRuns == WF_vars(Running /\ WorkerStep)

GivenUp == ~Running /\ stopper # "stopped"

EventsWorkedOff ==
  WorkerRuns => \A n \in 1..MaxEvents : accepted >= n ~> finished >= n \/ GivenUp
=============================================================================
