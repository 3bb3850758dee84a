------------------------------ MODULE Coverage ------------------------------
(***************************************************************************)
(* What the sub-request service promises, with no database statement,      *)
(* handler step or cache in sight.  Members file asks; an ask is carried   *)
(* out at most once, in one step, and only when the one who filed it is    *)
(* entitled to that change of the board at that very moment.               *)
(*   - a request for cover gets a number no other request ever had;        *)
(*   - only an open request is covered, and never by its poster;           *)
(*   - cover is released by the one who gives it, and by nobody else;      *)
(*   - a request is withdrawn by its poster or by an admin.                *)
(* SubRequests implements this specification.                              *)
(***************************************************************************)
EXTENDS Naturals

CONSTANTS Users,      \* the station's users
          Desks,      \* whoever carries an ask at a time: one request handler each
          MaxId,      \* bound: how many requests for cover are ever posted
          NoUser      \* nobody

VARIABLES board,      \* the requests for cover: number |-> poster and coverer
          nextId,     \* the number of the next one posted
          asks        \* the ask each desk is holding

cvars == <<board, nextId, asks>>

Ids   == 1..MaxId
NoRow == [postedBy |-> NoUser, takenBy |-> NoUser]

Asks == [op : {"create", "take", "untake", "delete"},
         by : Users, admin : BOOLEAN, id : {0} \cup Ids]
NoAsk == [op |-> "none", by |-> NoUser, admin |-> FALSE, id |-> 0]

Init == /\ board = [i \in Ids |-> NoRow]
        /\ nextId = 1
        /\ asks = [d \in Desks |-> NoAsk]

(* An ask is filed, or leaves the desk without effect: refused or failed. *)
File(d) == /\ asks[d] = NoAsk
           /\ asks'[d] \in Asks
           /\ asks' = [asks EXCEPT ![d] = asks'[d]]
           /\ UNCHANGED <<board, nextId>>

Drop(d) == /\ asks[d] # NoAsk
           /\ asks' = [asks EXCEPT ![d] = NoAsk]
           /\ UNCHANGED <<board, nextId>>

(* The desk carries out an ask of this kind; the ask is spent. *)
Settle(d, op) == /\ asks[d] # NoAsk
                 /\ asks[d].op = op
                 /\ asks' = [asks EXCEPT ![d] = NoAsk]

Post(d) ==
  /\ Settle(d, "create")
  /\ nextId \in Ids
  /\ board' = [board EXCEPT ![nextId] = [postedBy |-> asks[d].by, takenBy |-> NoUser]]
  /\ nextId' = nextId + 1

Cover(d) ==
  /\ Settle(d, "take")
  /\ asks[d].id \in Ids
  /\ board[asks[d].id].postedBy \notin {NoUser, asks[d].by}
  /\ board[asks[d].id].takenBy = NoUser
  /\ board' = [board EXCEPT ![asks[d].id].takenBy = asks[d].by]
  /\ UNCHANGED nextId

Release(d) ==
  /\ Settle(d, "untake")
  /\ asks[d].id \in Ids
  /\ board[asks[d].id].takenBy = asks[d].by
  /\ board' = [board EXCEPT ![asks[d].id].takenBy = NoUser]
  /\ UNCHANGED nextId

Withdraw(d) ==
  /\ Settle(d, "delete")
  /\ asks[d].id \in Ids
  /\ board[asks[d].id].postedBy # NoUser
  /\ asks[d].admin \/ board[asks[d].id].postedBy = asks[d].by
  /\ board' = [board EXCEPT ![asks[d].id] = NoRow]
  /\ UNCHANGED nextId

Next == \E d \in Desks : \/ File(d) \/ Drop(d)
                         \/ Post(d) \/ Cover(d) \/ Release(d) \/ Withdraw(d)

Spec == Init /\ [][Next]_cvars
=============================================================================
