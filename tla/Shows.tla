-------------------------------- MODULE Shows --------------------------------
(***************************************************************************)
(* What the Spinitron client makes of the items of one response            *)
(* (internal/adapters/outbound/spinitron/spinitron.go): the ones it can use *)
(* and the titles it gives them.  Pure functions of the items.              *)
(*                                                                         *)
(* A text is known by what strconv.Atoi makes of it: Digits(n), or         *)
(* Words(k), which it refuses.  A field of an item that is missing or is   *)
(* of a type the client does not read is Absent.                           *)
(***************************************************************************)
EXTENDS Integers, Sequences, FiniteSetsExt

Digits(n) == [digits |-> n]
Words(k)  == [words |-> k]
Empty     == Words(0)
Absent    == [absent |-> TRUE]
Number(n) == [number |-> n]      \* a JSON number, without its fraction

Readable(text) == "digits" \in DOMAIN text
IsText(field)  == DOMAIN field \subseteq {"digits", "words"}
IsNumber(field) == "number" \in DOMAIN field

NormalizeID_AsFloat(raw) ==      \* fault: a number is printed with a fraction
  IF IsText(raw) THEN raw ELSE IF IsNumber(raw) THEN Words(9) ELSE Empty

(* Spinitron's ids are numbers in some responses and strings in others.     *)
NormalizeID(raw) ==
  IF IsText(raw) THEN raw ELSE IF IsNumber(raw) THEN Digits(raw.number) ELSE Empty

(* The first of these that is a text and not empty, or else the id.         *)
NormalizeTitle(item) ==
  LET fields == <<item.title, item.name, item.display_name>>
      named  == {i \in 1..3 : IsText(fields[i]) /\ fields[i] # Empty}
  IN  IF named = {} THEN NormalizeID(item.id) ELSE fields[Min(named)]

(* A loop that appends to a result what it does not pass over: the elements *)
(* of s at these places, in their order.                                   *)
Picked(s, places) ==
  LET result[n \in 0..Len(s)] ==
        IF n = 0 THEN <<>>
        ELSE IF n \in places THEN Append(result[n - 1], s[n]) ELSE result[n - 1]
  IN  result[Len(s)]

(* Items without an id are passed over. *)
ShowsOf(items) ==
  LET usable == Picked(items, {i \in DOMAIN items : NormalizeID(items[i].id) # Empty})
  IN  [i \in DOMAIN usable |-> [id    |-> NormalizeID(usable[i].id),
                                title |-> NormalizeTitle(usable[i])]]

(* A persona's id must be a number for the database besides. *)
PersonasOf(items) ==
  LET usable == Picked(items, {i \in DOMAIN items : Readable(NormalizeID(items[i].id))})
  IN  [i \in DOMAIN usable |->
         [id    |-> NormalizeID(usable[i].id).digits,
          name  |-> NormalizeTitle(usable[i]),
          email |-> IF IsText(usable[i].email) THEN usable[i].email ELSE Empty]]

(* A page of a list, or a whole list; or the failure to get it.            *)
Page(items, next) == [failed |-> FALSE, items |-> items, next |-> next]
Failure           == [failed |-> TRUE, items |-> <<>>, next |-> 0]
=============================================================================
