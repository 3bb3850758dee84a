--------------------------- MODULE MCNotifications ---------------------------
(* Instances of Notifications for TLC: users and handlers are alike; an     *)
(* idle handler's last request, event and answer are read by nobody, nor   *)
(* is how many events were dropped.                                        *)
EXTENDS Notifications, TLC

Symmetry == Permutations(Users) \cup Permutations(Handlers)

View == <<rows, nextId, pc,
          [h \in Handlers |-> IF pc[h] = "idle" THEN <<>> ELSE <<job[h], event[h]>>],
          jobs, closed, worker, accepted, received, finished, panics, events, mail, made>>
=============================================================================
