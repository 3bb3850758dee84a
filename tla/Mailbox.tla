------------------------------- MODULE Mailbox -------------------------------
(***************************************************************************)
(* What the background notifier promises, with no channel, worker or drain *)
(* in sight.  An event handed in is either accepted for good or refused on *)
(* the spot; nobody waits.  The accepted ones are worked off one by one,    *)
(* each once, in the order they came; none is lost while the box lives.    *)
(*   - no more than Room + 1 events are pending at a time;                 *)
(*   - only a full box, or one that has been shut, refuses;                *)
(*   - a box that has been shut accepts nothing more, and still works off  *)
(*     what it has;                                                        *)
(*   - what is pending when the box is given up may be lost.               *)
(* Server and Notifications implement this specification.                  *)
(***************************************************************************)
EXTENDS Naturals, Sequences

CONSTANT Room           \* events that may wait behind the one worked on

VARIABLES pending,      \* events accepted and not worked off, the oldest first
          refused,      \* how many were refused
          shut,         \* the box accepts nothing more
          alive         \* the box is there

bvars == <<pending, refused, shut, alive>>

Fresh == pending = <<>> /\ refused = 0 /\ shut = FALSE

Init == Fresh /\ alive = TRUE

(* Any event may come, also one that is pending already; it is put last.    *)
Accept == /\ ~shut
          /\ Len(pending) <= Room
          /\ Len(pending') = Len(pending) + 1
          /\ pending' = Append(pending, pending'[Len(pending')])
          /\ UNCHANGED <<refused, shut>>

(* No room behind the one worked on, or shut.                               *)
Refuse == /\ shut \/ Len(pending) >= Room
          /\ refused' = refused + 1
          /\ UNCHANGED <<pending, shut>>

WorkOff == /\ pending # <<>>
           /\ pending' = Tail(pending)
           /\ UNCHANGED <<refused, shut>>

Shut == /\ ~shut
        /\ shut' = TRUE
        /\ UNCHANGED <<pending, refused>>

(* It is given up, and another one takes its place. *)
GiveUp == /\ alive /\ ~alive'
          /\ UNCHANGED <<pending, refused, shut>> \/ Fresh'

Replace == ~alive /\ alive' /\ Fresh'

Next == \/ /\ alive /\ alive'
           /\ Accept \/ Refuse \/ WorkOff \/ Shut
        \/ GiveUp \/ Replace

Spec == Init /\ [][Next]_bvars
=============================================================================
