----------------------------- MODULE MCFunctions -----------------------------
(***************************************************************************)
(* The questions of Questions over bounded inputs.  The values under the   *)
(* keys of a response are nested twice, with every key in front of a later *)
(* one and every kind of value inside every other.                         *)
(***************************************************************************)
EXTENDS Questions

Arrays(values) == {[items |-> s] : s \in UNION {[1..n -> values] : n \in 0..2}}
Objects(keys, values) == {Object(f) : f \in UNION {[K -> values] : K \in SUBSET keys}}

Flat   == {Leaf(n) : n \in 0..2}
Nested == Flat \cup Arrays(Flat) \cup Objects({"next", "next_page", "href"}, Flat)

MCValues == Nested \cup Arrays(Nested) \cup Objects({"next", "page"}, Nested)
=============================================================================
