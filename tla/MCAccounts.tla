----------------------------- MODULE MCAccounts -----------------------------
(* The master's account and two others, and two handlers; the handlers are  *)
(* interchangeable, and so are the two others.                             *)
EXTENDS Accounts, TLC
CONSTANTS m, a, b
Symmetry == Permutations(Handlers) \cup Permutations(Emails \ {Master})
=============================================================================
