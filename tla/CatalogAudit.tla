---------------------------- MODULE CatalogAudit ----------------------------
(***************************************************************************)
(* Catalog with a history variable.  While the first fetches compete, an    *)
(* older list can be stored over a newer one; settled is set in the first   *)
(* state that has a list and no fetch in flight, and no call fetches for    *)
(* itself after that.                                                      *)
(***************************************************************************)
EXTENDS Catalog

VARIABLE settled

Quiet == /\ loaded
         /\ \A c \in Callers : call[c].at = "none" /\ refresh[c].at = "none"

AuditInit == Init /\ settled = FALSE
AuditNext == Next /\ settled' = (settled \/ Quiet)
AuditSpec == AuditInit /\ [][AuditNext]_<<vars, settled>>

FairAuditSpec == AuditSpec /\ Fairness

(* Once the first fetches are over, the cache only moves forward: every    *)
(* page of a list stored was read no earlier than every page of the one it  *)
(* replaces.                                                               *)
OnlyForward == [][settled /\ cache' # cache => cache'.oldest >= cache.newest]_<<vars, settled>>
=============================================================================
