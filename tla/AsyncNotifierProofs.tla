------------------------- MODULE AsyncNotifierProofs -------------------------
(***************************************************************************)
(* What each step of the notifier does to the order of the events in its   *)
(* channel, for any capacity.  The modules that compose the notifier with  *)
(* what is around it (ServerProofs, SubRequestsProofs) rest on these.      *)
(***************************************************************************)
EXTENDS AsyncNotifier, SequenceTheorems, TLAPS

(* The channel starts empty. *)
LEMMA NotifierStarts ==
  ASSUME NotifierInit
  PROVE  NotifierTypeOK /\ NothingForgotten
<1>1. /\ jobs = <<>> /\ worker = "receive" /\ closed = FALSE
      /\ accepted = 0 /\ received = 0 /\ finished = 0 /\ dropped = 0 /\ panics = 0
  BY DEF NotifierInit
<1>2. jobs \in Seq(Nat) /\ Len(jobs) = 0
  BY <1>1
<1>3. NotifierTypeOK
  <2>1. Len(jobs) <= Buffer
    BY <1>2, BufferAssumption
  <2>2. closed \in BOOLEAN /\ worker \in {"receive", "list", "send", "gone"}
    BY <1>1
  <2>3. /\ accepted \in Nat /\ received \in Nat /\ finished \in Nat
        /\ dropped \in Nat /\ panics \in Nat
    BY <1>1
  <2> QED BY <1>2, <2>1, <2>2, <2>3 DEF NotifierTypeOK
<1>4. NothingForgotten
  BY <1>1, <1>2 DEF NothingForgotten
<1> QED BY <1>3, <1>4

(* So does that of the next process. *)
LEMMA NotifierRestarts ==
  ASSUME NotifierAnew
  PROVE  NotifierTypeOK' /\ NothingForgotten'
<1>1. /\ jobs' = <<>> /\ worker' = "receive" /\ closed' = FALSE
      /\ accepted' = 0 /\ received' = 0 /\ finished' = 0 /\ dropped' = 0 /\ panics' = 0
  BY DEF NotifierAnew
<1>2. jobs' \in Seq(Nat) /\ Len(jobs') = 0
  BY <1>1
<1>3. Len(jobs') <= Buffer
  BY <1>2, BufferAssumption
<1>4. NotifierTypeOK'
  BY <1>1, <1>2, <1>3 DEF NotifierTypeOK
<1>5. NothingForgotten'
  BY <1>1, <1>2 DEF NothingForgotten
<1> QED BY <1>4, <1>5

LEMMA OfferKeeps ==
  ASSUME NotifierTypeOK, NothingForgotten, Offer
  PROVE  /\ NotifierTypeOK' /\ NothingForgotten'
         /\ UNCHANGED <<closed, worker>>
         /\ panics' > panics => closed
         /\ closed => jobs' = jobs
         /\ ~closed => panics' = panics
<1> USE BufferAssumption DEF NotifierTypeOK, NothingForgotten
<1>1. CASE /\ ~closed /\ Len(jobs) < Buffer
           /\ jobs' = Append(jobs, accepted + 1)
           /\ accepted' = accepted + 1
           /\ UNCHANGED <<closed, worker, received, finished, dropped, panics>>
  <2>1. jobs \in Seq(Nat) /\ accepted + 1 \in Nat
    OBVIOUS
  <2>2. /\ jobs' \in Seq(Nat) /\ Len(jobs') = Len(jobs) + 1
        /\ \A i \in 1..Len(jobs) : jobs'[i] = jobs[i]
        /\ jobs'[Len(jobs) + 1] = accepted + 1
    BY <1>1, <2>1, AppendProperties
  <2>3. \A i \in 1..Len(jobs') : jobs'[i] = received + i
    <3> SUFFICES ASSUME NEW i \in 1..Len(jobs') PROVE jobs'[i] = received + i
      OBVIOUS
    <3>1. CASE i \in 1..Len(jobs)    BY <3>1, <2>2
    <3>2. CASE i = Len(jobs) + 1     BY <3>2, <2>2
    <3> QED BY <3>1, <3>2, <2>2
  <2>4. NotifierTypeOK' BY <1>1, <2>2
  <2>5. NothingForgotten' BY <1>1, <2>2, <2>3
  <2> QED BY <1>1, <2>4, <2>5
<1>2. CASE /\ ~closed /\ dropped' = dropped + 1
           /\ UNCHANGED <<jobs, closed, worker, accepted, received, finished, panics>>
  BY <1>2
<1>3. CASE /\ closed /\ panics' = panics + 1
           /\ UNCHANGED <<jobs, closed, worker, accepted, received, finished, dropped>>
  BY <1>3
<1> QED BY <1>1, <1>2, <1>3 DEF Offer

LEMMA ReceiveKeeps ==
  ASSUME NotifierTypeOK, NothingForgotten, Receive
  PROVE  NotifierTypeOK' /\ NothingForgotten'
<1> USE BufferAssumption DEF NotifierTypeOK, NothingForgotten, Receive
<1>1. /\ jobs' \in Seq(Nat) /\ Len(jobs') = Len(jobs) - 1
      /\ \A i \in 1..Len(jobs') : jobs'[i] = jobs[i + 1]
  OBVIOUS
<1> QED BY <1>1

(* The worker's other steps touch no event in the channel. *)
LEMMA WorkOnKeeps ==
  ASSUME NotifierTypeOK, NothingForgotten, ListSome \/ ListNone \/ Send \/ LoopEnds
  PROVE  NotifierTypeOK' /\ NothingForgotten'
<1>1. UNCHANGED jobs
  BY DEF ListSome, ListNone, Send, LoopEnds
<1>2. NotifierTypeOK'
  <2>1. jobs' \in Seq(Nat) /\ Len(jobs') <= Buffer
    BY <1>1 DEF NotifierTypeOK
  <2>2. /\ UNCHANGED <<closed, accepted, received, dropped, panics>>
        /\ worker' \in {"receive", "list", "send", "gone"}
        /\ finished' = finished \/ finished' = finished + 1
    BY DEF ListSome, ListNone, Send, LoopEnds
  <2> QED BY <2>1, <2>2 DEF NotifierTypeOK
<1>3. NothingForgotten'
  BY <1>1 DEF NotifierTypeOK, NothingForgotten, ListSome, ListNone, Send, LoopEnds
<1> QED BY <1>2, <1>3

-----------------------------------------------------------------------------
(* The notifier as a mailbox.  Of a list e of all the events accepted, the  *)
(* first a so far, those from f + 1 on are waiting, if f are finished.      *)
Waiting(e, a, f) == [i \in 1..(a - f) |-> e[f + i]]

LEMMA ListOfLength ==
  ASSUME NEW S, NEW n \in Nat, NEW w \in [1..n -> S]
  PROVE  w \in Seq(S) /\ Len(w) = n
OBVIOUS

(* Only the events accepted so far matter of the list.                      *)
LEMMA SameWait ==
  ASSUME NEW a \in Nat, NEW f \in Nat, f <= a, NEW e, NEW g, \A n \in 1..a : g[n] = e[n]
  PROVE  Waiting(g, a, f) = Waiting(e, a, f)
<1>1. \A i \in 1..(a - f) : f + i \in 1..a
  OBVIOUS
<1>2. \A i \in 1..(a - f) : g[f + i] = e[f + i]
  BY <1>1
<1> QED BY <1>2 DEF Waiting

(* One more is accepted, or one is worked off.                             *)
LEMMA OneMoreWaits ==
  ASSUME NEW a \in Nat, NEW f \in Nat, f <= a, NEW e
  PROVE  /\ Waiting(e, a + 1, f) = Append(Waiting(e, a, f), e[a + 1])
         /\ Len(Waiting(e, a, f)) = a - f
         /\ Len(Waiting(e, a + 1, f)) = a - f + 1
         /\ Waiting(e, a + 1, f)[a - f + 1] = e[a + 1]
<1> DEFINE S == {e[n] : n \in 1..a} \cup {e[a + 1]}
           w == Waiting(e, a, f)
           v == Waiting(e, a + 1, f)
<1>1. a - f \in Nat /\ a + 1 - f = a - f + 1 /\ f + (a - f + 1) = a + 1
  OBVIOUS
<1>2. /\ DOMAIN w = 1..(a - f) /\ \A i \in 1..(a - f) : w[i] = e[f + i] /\ f + i \in 1..a
      /\ DOMAIN v = 1..(a - f + 1) /\ \A i \in 1..(a - f + 1) : v[i] = e[f + i]
  BY <1>1 DEF Waiting
<1>3. v = [i \in 1..(a - f + 1) |-> v[i]] /\ w = [i \in 1..(a - f) |-> w[i]]
  BY <1>1 DEF Waiting
<1> HIDE DEF w, v
<1>4. \A i \in 1..(a - f + 1) : v[i] = IF i <= a - f THEN w[i] ELSE e[a + 1]
  <2> SUFFICES ASSUME NEW i \in 1..(a - f + 1) PROVE v[i] = IF i <= a - f THEN w[i] ELSE e[a + 1]
    OBVIOUS
  <2>1. CASE i <= a - f
    <3>1. i \in 1..(a - f)
      BY <1>1, <2>1
    <3>2. v[i] = e[f + i] /\ w[i] = e[f + i] /\ f + i \in 1..a
      BY <1>2, <3>1
    <3>3. QED BY <2>1, <3>2
  <2>2. CASE ~(i <= a - f)
    <3>1. i = a - f + 1
      BY <1>1, <2>2
    <3>2. QED BY <1>1, <1>2, <2>2, <3>1
  <2>3. QED BY <2>1, <2>2
<1>5. /\ \A i \in 1..(a - f) : w[i] \in S
      /\ \A i \in 1..(a - f + 1) : v[i] \in S
  <2>1. \A i \in 1..(a - f) : w[i] \in S
    BY <1>2
  <2>2. \A i \in 1..(a - f + 1) : i <= a - f => i \in 1..(a - f)
    BY <1>1
  <2>3. QED BY <1>4, <2>1, <2>2
<1>6. e[a + 1] \in S
  OBVIOUS
<1> HIDE DEF S
<1>7. w \in Seq(S) /\ Len(w) = a - f /\ v \in Seq(S) /\ Len(v) = a - f + 1
  <2>1. w \in [1..(a - f) -> S] /\ v \in [1..(a - f + 1) -> S]
    BY <1>3, <1>5
  <2>2. a - f \in Nat /\ a - f + 1 \in Nat
    BY <1>1
  <2>3. QED BY <2>1, <2>2, ListOfLength
<1>8. /\ Append(w, e[a + 1]) \in Seq(S) /\ Len(Append(w, e[a + 1])) = a - f + 1
      /\ \A i \in 1..(a - f) : Append(w, e[a + 1])[i] = w[i]
      /\ Append(w, e[a + 1])[a - f + 1] = e[a + 1]
  BY <1>6, <1>7, AppendProperties
<1>9. \A i \in 1..(a - f + 1) : v[i] = Append(w, e[a + 1])[i]
  <2>1. \A i \in 1..(a - f + 1) : i \in 1..(a - f) \/ i = a - f + 1
    BY <1>1
  <2>2. ~(a - f + 1 <= a - f) /\ \A i \in 1..(a - f) : i <= a - f
    BY <1>1
  <2>3. QED BY <1>4, <1>8, <2>1, <2>2
<1>10. v = Append(w, e[a + 1])
  BY <1>7, <1>8, <1>9, SeqEqual
<1>11. v[a - f + 1] = e[a + 1]
  BY <1>8, <1>10
<1>12. QED
  BY <1>7, <1>10, <1>11 DEF w, v

LEMMA OneLessWaits ==
  ASSUME NEW a \in Nat, NEW f \in Nat, f < a, NEW e
  PROVE  Waiting(e, a, f) # <<>> /\ Waiting(e, a, f + 1) = Tail(Waiting(e, a, f))
<1> DEFINE S == {e[n] : n \in 1..a}
           w == Waiting(e, a, f)
           v == Waiting(e, a, f + 1)
<1>1. a - f \in Nat /\ a - f > 0 /\ a - (f + 1) = a - f - 1 /\ a - f - 1 \in Nat
  OBVIOUS
<1>2. /\ DOMAIN w = 1..(a - f) /\ \A i \in 1..(a - f) : w[i] = e[f + i] /\ f + i \in 1..a
      /\ DOMAIN v = 1..(a - f - 1) /\ \A i \in 1..(a - f - 1) : v[i] = e[f + 1 + i] /\ f + 1 + i \in 1..a
  BY <1>1 DEF Waiting
<1>3. v = [i \in 1..(a - f - 1) |-> v[i]] /\ w = [i \in 1..(a - f) |-> w[i]]
  BY <1>1 DEF Waiting
<1> HIDE DEF w, v
<1>4. /\ \A i \in 1..(a - f) : w[i] \in S
      /\ \A i \in 1..(a - f - 1) : v[i] \in S
  BY <1>2
<1> HIDE DEF S
<1>5. w \in Seq(S) /\ Len(w) = a - f /\ v \in Seq(S) /\ Len(v) = a - f - 1
  <2>1. w \in [1..(a - f) -> S] /\ v \in [1..(a - f - 1) -> S]
    BY <1>3, <1>4
  <2>2. QED BY <1>1, <2>1, ListOfLength
<1>6. w # <<>>
  BY <1>1, <1>5
<1>7. /\ Tail(w) \in Seq(S) /\ Len(Tail(w)) = a - f - 1
      /\ \A i \in 1..(a - f - 1) : Tail(w)[i] = w[i + 1]
  BY <1>1, <1>5, <1>6, HeadTailProperties
<1>8. \A i \in 1..(a - f - 1) : v[i] = Tail(w)[i]
  <2> SUFFICES ASSUME NEW i \in 1..(a - f - 1) PROVE v[i] = Tail(w)[i]
    OBVIOUS
  <2>1. i + 1 \in 1..(a - f) /\ f + (i + 1) = f + 1 + i
    BY <1>1
  <2>2. w[i + 1] = e[f + 1 + i]
    BY <1>2, <2>1
  <2>3. QED BY <1>2, <1>7, <2>2
<1>9. v = Tail(w)
  BY <1>5, <1>7, <1>8, SeqEqual
<1>10. QED
  BY <1>6, <1>9 DEF w, v

(* What is unfinished are the events after the last finished one.          *)
LEMMA UnfinishedAre ==
  ASSUME NotifierTypeOK, NothingForgotten
  PROVE  /\ accepted \in Nat /\ finished \in Nat /\ finished <= accepted
         /\ Unfinished = [i \in 1..(accepted - finished) |-> finished + i]
<1>1. /\ jobs \in Seq(Nat) /\ Len(jobs) \in Nat /\ Len(jobs) = accepted - received
      /\ \A i \in 1..Len(jobs) : jobs[i] = received + i
      /\ accepted \in Nat /\ received \in Nat /\ finished \in Nat
      /\ finished = IF worker \in {"list", "send"} THEN received - 1 ELSE received
  BY DEF NotifierTypeOK, NothingForgotten
<1>2. finished <= accepted
  BY <1>1
<1> DEFINE target == [i \in 1..(accepted - finished) |-> finished + i]
<1>3. target \in Seq(Nat) /\ Len(target) = accepted - finished
      /\ \A i \in 1..(accepted - finished) : target[i] = finished + i
  <2>1. accepted - finished \in Nat /\ \A i \in 1..(accepted - finished) : finished + i \in Nat
    BY <1>1, <1>2
  <2>2. QED BY <2>1
<1> HIDE DEF target
<1>4. CASE worker \in {"list", "send"}
  <2> DEFINE u == <<received>> \o jobs
  <2>1. Unfinished = u /\ finished = received - 1 /\ accepted - finished = Len(jobs) + 1
    BY <1>1, <1>4 DEF Unfinished
  <2>2. <<received>> \in Seq(Nat) /\ Len(<<received>>) = 1 /\ <<received>>[1] = received
    BY <1>1
  <2>3. /\ u \in Seq(Nat) /\ Len(u) = 1 + Len(jobs)
        /\ \A i \in 1..(1 + Len(jobs)) : u[i] = IF i <= 1 THEN <<received>>[i] ELSE jobs[i - 1]
    BY <1>1, <2>2, ConcatProperties
  <2> HIDE DEF u
  <2>4. \A i \in 1..(1 + Len(jobs)) : u[i] = finished + i
    <3> SUFFICES ASSUME NEW i \in 1..(1 + Len(jobs)) PROVE u[i] = finished + i
      OBVIOUS
    <3>1. CASE i = 1
      BY <1>1, <2>1, <2>2, <2>3, <3>1
    <3>2. CASE i # 1
      <4>1. i - 1 \in 1..Len(jobs) /\ ~(i <= 1)
        BY <1>1, <3>2
      <4>2. u[i] = received + (i - 1)
        BY <1>1, <2>3, <4>1
      <4>3. QED BY <1>1, <2>1, <4>2
    <3>3. QED BY <3>1, <3>2
  <2>5. Len(u) = Len(target) /\ \A i \in 1..Len(u) : u[i] = target[i]
    BY <1>1, <1>3, <2>1, <2>3, <2>4
  <2>6. u = target
    BY <1>3, <2>3, <2>5, SeqEqual
  <2>7. QED BY <1>1, <1>2, <2>1, <2>6 DEF target
<1>5. CASE worker \notin {"list", "send"}
  <2>1. Unfinished = <<>> \o jobs /\ finished = received
    BY <1>1, <1>5 DEF Unfinished
  <2>2. <<>> \o jobs = jobs
    BY <1>1, ConcatEmptySeq
  <2>3. jobs = target
    BY <1>1, <1>3, <2>1, SeqEqual
  <2>4. QED BY <1>1, <1>2, <2>1, <2>2, <2>3 DEF target
<1>6. QED
  BY <1>4, <1>5

(* What each step does, seen from outside.                                 *)
LEMMA OfferSeen ==
  ASSUME NotifierTypeOK, NothingForgotten, Offer
  PROVE  /\ UNCHANGED <<finished, closed>>
         /\ \/ /\ ~closed /\ accepted - finished <= Buffer
               /\ accepted' = accepted + 1 /\ dropped' + panics' = dropped + panics
            \/ /\ closed \/ accepted - finished >= Buffer
               /\ accepted' = accepted /\ dropped' + panics' = dropped + panics + 1
<1>1. /\ Len(jobs) \in Nat /\ Len(jobs) <= Buffer /\ Len(jobs) = accepted - received /\ Buffer \in Nat
      /\ accepted \in Nat /\ received \in Nat /\ finished \in Nat /\ dropped \in Nat /\ panics \in Nat
      /\ finished = received - 1 \/ finished = received
  BY BufferAssumption DEF NotifierTypeOK, NothingForgotten
<1>2. QED
  BY <1>1 DEF Offer

LEMMA WorkSeen ==
  ASSUME NotifierTypeOK, NothingForgotten, Receive \/ ListSome \/ ListNone \/ Send \/ LoopEnds
  PROVE  /\ UNCHANGED <<accepted, closed, dropped, panics>>
         /\ \/ finished' = finished
            \/ finished' = finished + 1 /\ finished < accepted
<1>1. /\ Len(jobs) \in Nat /\ Len(jobs) = accepted - received
      /\ accepted \in Nat /\ received \in Nat /\ finished \in Nat
      /\ worker \in {"list", "send"} => finished = received - 1
  BY DEF NotifierTypeOK, NothingForgotten
<1>2. QED
  BY <1>1 DEF Receive, ListSome, ListNone, Send, LoopEnds
=============================================================================
