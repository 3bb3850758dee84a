---------------------------- MODULE MCSubRequests ----------------------------
(* SubRequests on a few users, handlers and rows. *)
EXTENDS SubRequests, TLC

(* Users and handlers are interchangeable: safety only. *)
Symmetry == Permutations(Users) \cup Permutations(Handlers)
==============================================================================
