------------------------------ MODULE AuthAudit ------------------------------
(***************************************************************************)
(* Auth with a history of each request: what was true at some moment since  *)
(* it began.  The middleware reads the clock, the session and the user at   *)
(* three moments, between which sessions end and users are disabled.        *)
(***************************************************************************)
EXTENDS Auth, TLC

VARIABLES liveOnce,     \* the request's session was in the table and not past its expiry
          enabledOnce   \* the session's user was enabled

history == <<liveOnce, enabledOnce>>

Asking(h) == pc[h] \in {"session", "user", "in"}
Live(h)   == \E s \in sessions : s.id = job[h].id /\ clock <= s.until

(* The owner is known by the row until the row is found, by the job after. *)
OwnerOn(h)    == \E s \in sessions : s.id = job[h].id /\ enabled[s.user]
OwnerFound(h) == pc[h] \in {"user", "in"} /\ enabled[job[h].user]

AuditInit == /\ Init
             /\ liveOnce = [h \in Handlers |-> FALSE]
             /\ enabledOnce = [h \in Handlers |-> FALSE]

(* The state before and the state after a step are both moments of the      *)
(* request it belongs to.                                                  *)
AuditNext ==
  /\ Next
  /\ liveOnce' = [h \in Handlers |-> Asking(h)' /\ (liveOnce[h] \/ (Asking(h) /\ Live(h)) \/ Live(h)')]
  /\ enabledOnce' = [h \in Handlers |->
        Asking(h)' /\ \/ enabledOnce[h]
                      \/ Asking(h) /\ (OwnerOn(h) \/ OwnerFound(h))
                      \/ OwnerOn(h)' \/ OwnerFound(h)']

AuditSpec == AuditInit /\ [][AuditNext]_<<vars, history>>

(* A request that is let in had, at moments of its own, a session in the    *)
(* table that was not past its expiry, and an enabled user: a session       *)
(* ended, or a user disabled, before the request began lets nobody in.      *)
AdmittedWithCause == \A h \in Handlers : pc[h] = "in" => liveOnce[h] /\ enabledOnce[h]

(* Users and handlers are interchangeable. *)
Symmetry == Permutations(Users) \cup Permutations(Handlers)
=============================================================================
