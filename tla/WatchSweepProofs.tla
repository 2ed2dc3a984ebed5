-------------------------- MODULE WatchSweepProofs --------------------------
(***************************************************************************)
(* Theorems about WatchSweep for every board and every budget: its types,  *)
(* the bound on what a ticket can cost however the process and its calls   *)
(* fail, and that the memo keeps declined activity from being paid for.    *)
(***************************************************************************)
EXTENDS WatchSweep, FiniteSetTheorems, WellFoundedInduction, TLAPS

(* What a sweep has read of the counter is what the ticket carries until   *)
(* it writes it, since no other writer touches these labels.               *)
Looked == {"comments", "changes", "decide", "ask", "reserve"}
LookIsCurrent == pc \in Looked => look.counts = counts[InHand]

(* A sweep that asks has found the ticket short of its limit.              *)
AskedBelowLimit ==
    /\ pc \in {"ask", "reserve"} => ~Exhausted(look.counts)
    /\ pc = "reserve" => MaxCount \notin look.counts

(* What has been paid is on the ticket, and within the limit; a session    *)
(* about to be paid for is on it too.                                      *)
OnTicket(t, n) == n = 0 \/ \E c \in counts[t] : n <= c
PaidIsOnTicket == \A t \in Tickets : paid[t] <= MaxRetriage /\ OnTicket(t, paid[t])
ReservedFirst ==
    pc = "session" => paid[InHand] + 1 <= MaxRetriage /\ OnTicket(InHand, paid[InHand] + 1)

SpendInv == LookIsCurrent /\ AskedBelowLimit /\ PaidIsOnTicket /\ ReservedFirst

---------------------------------------------------------------------------
(* The ticket in hand is a ticket, and dropping it leaves tickets.         *)
LEMMA InHandIsTicket ==
    ASSUME TypeOK, queue # <<>>
    PROVE  InHand \in Tickets /\ Tail(queue) \in Seq(Tickets)
<1>1. queue \in Seq(Tickets) /\ queue # <<>>
  BY DEF TypeOK
<1>. QED BY <1>1 DEF InHand

(* The orders a search can answer in are sequences of tickets.             *)
LEMMA OrdersAreQueues ==
    ASSUME TypeOK, NEW q \in SetToSeqs(Watching)
    PROVE  q \in Seq(Tickets)
<1>1. IsFiniteSet(watched)
  BY TicketsAssumption, FS_Subset DEF TypeOK
<1>2. Cardinality(watched) \in Nat
  BY <1>1, FS_CardinalityType
<1>3. q \in [1..Cardinality(watched) -> watched]
  BY DEF SetToSeqs, Watching
<1>4. q \in Seq(watched)
  BY <1>2, <1>3
<1>. QED BY <1>4 DEF TypeOK

(* A reservation fits the counter.                                         *)
LEMMA ReservationFits ==
    ASSUME TypeOK, pc = "reserve", AskedBelowLimit, InHand \in Tickets,
           NEW ns \in Reservation(counts[InHand])
    PROVE  ns \subseteq 0..MaxCount
<1>1. PICK n \in Count(look.counts) : ns = (counts[InHand] \ look.counts) \cup {n + 1}
  BY DEF Reservation
<1>2. look.counts \subseteq 0..MaxCount /\ counts[InHand] \subseteq 0..MaxCount
  BY DEF TypeOK, Look
<1>3. n \in 0..MaxCount
  BY <1>1, <1>2, LimitAssumption DEF Count
<1>4. n # MaxCount
  BY <1>1, LimitAssumption DEF AskedBelowLimit, Count
<1>. QED BY <1>1, <1>2, <1>3, <1>4, LimitAssumption

(* What is foreign in a look, its dates, and the newest of them.           *)
LEMMA ForeignTypes ==
    ASSUME TypeOK
    PROVE  /\ Foreign(look) \subseteq Activity
           /\ Dates(Foreign(look)) \subseteq Time
           /\ NewestForeign(look) \subseteq Dates(Foreign(look))
           /\ NewestForeign(look) \subseteq Time
<1>1. look.acts \subseteq Activity
  BY DEF TypeOK, Look
<1>2. Foreign(look) \subseteq Activity
  BY <1>1 DEF Foreign
<1>3. Dates(Foreign(look)) \subseteq Time
  BY <1>2 DEF Dates, Activity
<1>. QED BY <1>2, <1>3 DEF NewestForeign

---------------------------------------------------------------------------
LEMMA TypeInit == Init => TypeOK
<1>. SUFFICES ASSUME Init PROVE TypeOK
  OBVIOUS
<1>1. 0 \in Time /\ {0} \subseteq 0..MaxCount
  BY BoundsAssumption, LimitAssumption DEF Time
<1>2. used \in [acts : 0..MaxActs, faults : 0..MaxFaults]
  BY BoundsAssumption DEF Init
<1>3. look \in Look
  BY <1>1 DEF Init, Look, NoLook
<1>. QED BY <1>1, <1>2, <1>3 DEF Init, TypeOK, Watching

(* The steps that leave the board alone keep its types.                    *)
LEMMA FailTypes ==
    ASSUME TypeOK, NEW f, Fail(f)
    PROVE  used' \in [acts : 0..MaxActs, faults : 0..MaxFaults]
BY BoundsAssumption DEF TypeOK, Fail

LEMMA ActTypes ==
    ASSUME TypeOK, Act
    PROVE  used' \in [acts : 0..MaxActs, faults : 0..MaxFaults]
<1>1. used \in [acts : 0..MaxActs, faults : 0..MaxFaults]
  BY DEF TypeOK
<1>2. used.acts + 1 \in 0..MaxActs
  BY <1>1, BoundsAssumption DEF Act
<1>3. used' = [used EXCEPT !.acts = used.acts + 1]
  BY DEF Act
<1>. QED BY <1>1, <1>2, <1>3

LEMMA LeaveTypes ==
    ASSUME TypeOK, queue # <<>>, Leave
    PROVE  /\ pc' = "next" /\ queue' \in Seq(Tickets)
           /\ look' = NoLook /\ look' \in Look /\ read' = {}
BY InHandIsTicket DEF Leave, Goto, Look, NoLook

LEMMA AbortTypes ==
    ASSUME Abort
    PROVE  /\ pc' = "idle" /\ queue' \in Seq(Tickets)
           /\ look' = NoLook /\ look' \in Look /\ read' = {}
BY DEF Abort, Goto, Look, NoLook

(* What each read of a fetch makes of the look.                            *)
LEMMA FirstRead ==
    ASSUME NEW w \in BOOLEAN, NEW c \in BOOLEAN, NEW ns \in SUBSET (0..MaxCount),
           NEW ws \in SUBSET Activity
    PROVE  [NoLook EXCEPT !.watched = w, !.closed = c, !.counts = ns, !.words = ws] \in Look
BY DEF NoLook, Look

LEMMA ReadsAreLooks ==
    ASSUME TypeOK, InHand \in Tickets
    PROVE  /\ [NoLook EXCEPT !.watched = InHand \in watched, !.closed = InHand \in closed,
                 !.counts = counts[InHand], !.words = OfKind(acts[InHand], "edit")] \in Look
           /\ [look EXCEPT !.mark = mark[InHand], !.acts = OfKind(acts[InHand], "comment"),
                 !.words = @ \cup OfKind(acts[InHand], "comment")] \in Look
           /\ [look EXCEPT !.acts = @ \cup OfKind(acts[InHand], "edit")] \in Look
<1>1. /\ counts[InHand] \in SUBSET (0..MaxCount)
      /\ mark[InHand] \in Time \cup {None}
      /\ (InHand \in watched) \in BOOLEAN /\ (InHand \in closed) \in BOOLEAN
  BY DEF TypeOK
<1>2. \A k : OfKind(acts[InHand], k) \in SUBSET Activity
  BY DEF TypeOK, OfKind
<1>3. look \in Look
  BY DEF TypeOK
<1>4. [NoLook EXCEPT !.watched = InHand \in watched, !.closed = InHand \in closed,
                 !.counts = counts[InHand], !.words = OfKind(acts[InHand], "edit")] \in Look
  BY <1>1, <1>2, FirstRead
<1>5. look.acts \cup OfKind(acts[InHand], "edit") \in SUBSET Activity
      /\ look.words \cup OfKind(acts[InHand], "comment") \in SUBSET Activity
  BY <1>2, <1>3 DEF Look
<1>. QED BY <1>1, <1>2, <1>3, <1>4, <1>5 DEF Look

LEMMA TypeStep == TypeOK /\ AskedBelowLimit /\ [Next]_vars => TypeOK'
<1>. SUFFICES ASSUME TypeOK, AskedBelowLimit, [Next]_vars PROVE TypeOK'
  OBVIOUS
<1>. USE DEF board, history, sweep
<1>1. CASE Search
  <2>1. CASE queue' \in SetToSeqs(Watching) /\ Goto("next") /\ UNCHANGED used
    BY <1>1, <2>1, OrdersAreQueues DEF Search, TypeOK, Goto
  <2>2. CASE Fail("search") /\ UNCHANGED <<queue, pc>>
    BY <1>1, <2>2, FailTypes DEF Search, TypeOK
  <2>. QED BY <1>1, <2>1, <2>2 DEF Search
<1>2. CASE Fetch
  <2>1. CASE Fail("look") /\ Abort
    BY <1>2, <2>1, FailTypes, AbortTypes DEF Fetch, FetchIssue, FetchComments, FetchChanges, TypeOK
  <2>2. CASE ~(Fail("look") /\ Abort)
    <3>1. queue # <<>> /\ InHand \in Tickets
      BY <1>2, InHandIsTicket DEF Fetch, FetchIssue, FetchComments, FetchChanges, TypeOK
    <3>2. look' \in Look
      BY <1>2, <2>2, <3>1, ReadsAreLooks DEF Fetch, FetchIssue, FetchComments, FetchChanges
    <3>3. pc' \in {"comments", "changes", "decide"} /\ UNCHANGED <<queue, read, used>>
      BY <1>2, <2>2 DEF Fetch, FetchIssue, FetchComments, FetchChanges, Goto
    <3>4. read \subseteq Activity
      BY DEF TypeOK
    <3>. QED BY <1>2, <3>1, <3>2, <3>3, <3>4
             DEF Fetch, FetchIssue, FetchComments, FetchChanges, TypeOK
  <2>. QED BY <2>1, <2>2
<1>3. CASE Decide
  <2>1. queue # <<>>
    BY <1>3 DEF Decide, TypeOK
  <2>2. CASE Leave
    BY <1>3, <2>1, <2>2, LeaveTypes DEF Decide, TypeOK
  <2>3. CASE ~Leave
    BY <1>3, <2>1, <2>3 DEF Decide, TypeOK, Goto
  <2>. QED BY <2>2, <2>3
<1>4. CASE EndWatch
  <2>1. queue # <<>>
    BY <1>4 DEF EndWatch, TypeOK
  <2>2. CASE Leave /\ UNCHANGED used
    BY <1>4, <2>1, <2>2, LeaveTypes DEF EndWatch, TypeOK
  <2>3. CASE Goto("note") /\ UNCHANGED <<queue, look, read, used>>
    BY <1>4, <2>1, <2>3 DEF EndWatch, TypeOK, Goto
  <2>4. CASE Abort /\ (Fail("label") \/ Fail("lost"))
    BY <1>4, <2>4, AbortTypes, FailTypes DEF EndWatch, TypeOK
  <2>. QED BY <1>4, <2>2, <2>3, <2>4 DEF EndWatch
<1>5. CASE Note
  <2>1. queue # <<>>
    BY <1>5 DEF Note, TypeOK
  <2>2. acts' \in [Tickets -> SUBSET Activity]
    <3>1. [at |-> now, kind |-> "comment"] \in Activity
      BY DEF TypeOK, Activity, Kind
    <3>2. CASE acts' = [acts EXCEPT ![InHand] = @ \cup {[at |-> now, kind |-> "comment"]}]
      BY <3>1, <3>2 DEF TypeOK
    <3>3. CASE UNCHANGED acts
      BY <3>3 DEF TypeOK
    <3>. QED BY <1>5, <3>2, <3>3 DEF Note
  <2>3. used' \in [acts : 0..MaxActs, faults : 0..MaxFaults]
    BY <1>5, FailTypes DEF Note, TypeOK
  <2>. QED BY <1>5, <2>1, <2>2, <2>3, LeaveTypes DEF Note, TypeOK
<1>6. CASE Ask
  <2>1. queue # <<>> /\ Foreign(look) \subseteq Activity
    BY <1>6, ForeignTypes DEF Ask, TypeOK
  <2>2. judged' \in [Tickets -> SUBSET Activity]
    BY <1>6, <2>1 DEF Ask, TypeOK
  <2>3. declined' \in [Tickets -> SUBSET Activity]
    <3>1. CASE UNCHANGED declined
      BY <3>1 DEF TypeOK
    <3>2. CASE declined' = [declined EXCEPT ![InHand] = @ \cup Foreign(look)]
      BY <2>1, <3>2 DEF TypeOK
    <3>. QED BY <1>6, <3>1, <3>2 DEF Ask
  <2>4. memo' \in [Tickets -> Time \cup {None}]
    <3>1. NewestForeign(look) \subseteq Time
      BY ForeignTypes
    <3>2. CASE UNCHANGED memo
      BY <3>2 DEF TypeOK
    <3>3. CASE \E at \in NewestForeign(look) : memo' = [memo EXCEPT ![InHand] = at]
      BY <3>1, <3>3 DEF TypeOK
    <3>. QED BY <1>6, <3>2, <3>3 DEF Ask
  <2>5. used' \in [acts : 0..MaxActs, faults : 0..MaxFaults]
    BY <1>6, FailTypes DEF Ask, TypeOK
  <2>6. late' \in [Tickets -> SUBSET Activity]
    <3>1. CASE UNCHANGED late
      BY <3>1 DEF TypeOK
    <3>2. CASE late' = [late EXCEPT ![InHand] = @ \cup Torn]
      <4>1. Torn \subseteq Activity
        BY <2>1, InHandIsTicket DEF Torn, TypeOK
      <4>. QED BY <3>2, <4>1 DEF TypeOK
    <3>. QED BY <1>6, <3>1, <3>2 DEF Ask
  <2>7. CASE Leave
    BY <1>6, <2>1, <2>2, <2>3, <2>4, <2>5, <2>6, <2>7, LeaveTypes DEF Ask, TypeOK
  <2>8. CASE Goto("reserve") /\ UNCHANGED <<queue, look, read, memo, declined>>
    BY <1>6, <2>1, <2>2, <2>3, <2>4, <2>5, <2>6, <2>8 DEF Ask, TypeOK, Goto
  <2>. QED BY <1>6, <2>7, <2>8 DEF Ask
<1>7. CASE Reserve
  <2>1. queue # <<>> /\ InHand \in Tickets /\ pc = "reserve"
    BY <1>7, InHandIsTicket DEF Reserve, TypeOK
  <2>2. counts' \in [Tickets -> SUBSET (0..MaxCount)]
    BY <1>7, <2>1, ReservationFits DEF Reserve, TypeOK
  <2>3. used' \in [acts : 0..MaxActs, faults : 0..MaxFaults]
    BY <1>7, FailTypes DEF Reserve, TypeOK
  <2>4. CASE Leave
    BY <1>7, <2>1, <2>2, <2>3, <2>4, LeaveTypes DEF Reserve, TypeOK
  <2>5. CASE Goto("session") /\ UNCHANGED <<queue, look, read, used>>
    BY <1>7, <2>1, <2>2, <2>3, <2>5 DEF Reserve, TypeOK, Goto
  <2>. QED BY <1>7, <2>4, <2>5 DEF Reserve
<1>8. CASE Session
  <2>1. queue # <<>> /\ InHand \in Tickets
    BY <1>8, InHandIsTicket DEF Session, TypeOK
  <2>2. paid' \in [Tickets -> Nat]
    BY <1>8, <2>1 DEF Session, TypeOK
  <2>3. SessionReads \subseteq Activity
    BY <2>1 DEF SessionReads, TypeOK
  <2>4. CASE read' = SessionReads /\ Goto("post") /\ UNCHANGED <<queue, look, used>>
    BY <1>8, <2>1, <2>2, <2>3, <2>4 DEF Session, TypeOK, Goto
  <2>5. CASE Fail("groom") /\ Leave
    BY <1>8, <2>1, <2>2, <2>5, LeaveTypes, FailTypes DEF Session, TypeOK
  <2>. QED BY <1>8, <2>4, <2>5 DEF Session
<1>9. CASE Post
  <2>1. queue # <<>> /\ InHand \in Tickets
    BY <1>9, InHandIsTicket DEF Post, TypeOK
  <2>2. mark' \in [Tickets -> Time \cup {None}] /\ judged' \in [Tickets -> SUBSET Activity]
    <3>1. CASE UNCHANGED <<mark, judged>>
      BY <3>1 DEF TypeOK
    <3>2. CASE /\ mark' = [mark EXCEPT ![InHand] = now]
               /\ judged' = [judged EXCEPT ![InHand] = @ \cup read]
      BY <2>1, <3>2 DEF TypeOK
    <3>. QED BY <1>9, <3>1, <3>2 DEF Post
  <2>3. watched' \subseteq Tickets
    <3>1. watched' \in {watched, watched \cup {InHand}, watched \ {InHand}}
      BY <1>9 DEF Post
    <3>. QED BY <2>1, <3>1 DEF TypeOK
  <2>4. used' \in [acts : 0..MaxActs, faults : 0..MaxFaults]
    BY <1>9, FailTypes DEF Post, TypeOK
  <2>. QED BY <1>9, <2>1, <2>2, <2>3, <2>4, LeaveTypes DEF Post, TypeOK
<1>10. CASE Finish
  BY <1>10 DEF Finish, TypeOK, Goto
<1>11. CASE Crash
  <2>1. memo' \in [Tickets -> Time \cup {None}] /\ declined' \in [Tickets -> SUBSET Activity]
    BY <1>11 DEF Crash
  <2>. QED BY <1>11, <2>1, AbortTypes, FailTypes DEF Crash, TypeOK
<1>12. CASE Clock
  BY <1>12, BoundsAssumption DEF Clock, TypeOK, Time
<1>13. ASSUME NEW t \in Tickets, Answer(t) PROVE TypeOK'
  <2>1. used' \in [acts : 0..MaxActs, faults : 0..MaxFaults]
    BY <1>13, ActTypes DEF Answer
  <2>2. acts' \in [Tickets -> SUBSET Activity] /\ late' \in [Tickets -> SUBSET Activity]
    <3>1. PICK a \in Activity :
              /\ acts' = [acts EXCEPT ![t] = @ \cup {a}]
              /\ late' = IF Missed(t, a) THEN [late EXCEPT ![t] = @ \cup {a}] ELSE late
      BY <1>13 DEF Answer
    <3>. QED BY <3>1 DEF TypeOK
  <2>. QED BY <1>13, <2>1, <2>2 DEF Answer, TypeOK
<1>14. ASSUME NEW t \in Tickets, Close(t) PROVE TypeOK'
  <2>1. used' \in [acts : 0..MaxActs, faults : 0..MaxFaults]
    BY <1>14, ActTypes DEF Close
  <2>2. closed' \subseteq Tickets
    BY <1>14 DEF Close, TypeOK
  <2>. QED BY <1>14, <2>1, <2>2 DEF Close, TypeOK
<1>15. ASSUME NEW t \in Tickets, Retriage(t) PROVE TypeOK'
  <2>1. used' \in [acts : 0..MaxActs, faults : 0..MaxFaults]
    BY <1>15, ActTypes DEF Retriage
  <2>2. mark' \in [Tickets -> Time \cup {None}] /\ judged' \in [Tickets -> SUBSET Activity] /\ watched' \subseteq Tickets
    BY <1>15 DEF Retriage, TypeOK
  <2>. QED BY <1>15, <2>1, <2>2 DEF Retriage, TypeOK
<1>16. CASE UNCHANGED vars
  BY <1>16 DEF vars, TypeOK
<1>. QED
  BY <1>1, <1>2, <1>3, <1>4, <1>5, <1>6, <1>7, <1>8, <1>9, <1>10, <1>11, <1>12, <1>13,
     <1>14, <1>15, <1>16 DEF Next, Sweep

---------------------------------------------------------------------------
LEMMA SpendInit == Init => SpendInv
BY LimitAssumption DEF Init, SpendInv, LookIsCurrent, Looked, AskedBelowLimit, PaidIsOnTicket, ReservedFirst, OnTicket

(* A step that keeps the counters, what is paid and where the sweep is     *)
(* keeps the invariant.                                                    *)
LEMMA QuietStep ==
    ASSUME SpendInv, UNCHANGED <<counts, paid, pc, queue, look>>
    PROVE  SpendInv'
BY DEF SpendInv, LookIsCurrent, Looked, AskedBelowLimit, PaidIsOnTicket, ReservedFirst, OnTicket, InHand

(* So does one after which no ticket is being dealt with.                  *)
LEMMA RestingStep ==
    ASSUME SpendInv, UNCHANGED <<counts, paid>>, pc' \notin Looked \cup {"session"}
    PROVE  SpendInv'
BY DEF SpendInv, LookIsCurrent, Looked, AskedBelowLimit, PaidIsOnTicket, ReservedFirst, OnTicket

(* The reservation puts on the ticket a number past what has been paid,    *)
(* within the limit.                                                       *)
LEMMA ReservationCovers ==
    ASSUME TypeOK, SpendInv, pc = "reserve", InHand \in Tickets,
           NEW ns \in Reservation(counts[InHand])
    PROVE  \E c \in ns : paid[InHand] + 1 <= c /\ c <= MaxRetriage
<1>1. look.counts = counts[InHand]
  BY DEF SpendInv, LookIsCurrent, Looked
<1>2. PICK n \in Count(look.counts) : ns = (counts[InHand] \ look.counts) \cup {n + 1}
  BY DEF Reservation
<1>3. look.counts \subseteq 0..MaxCount /\ paid[InHand] \in Nat
  BY DEF TypeOK, Look
<1>4. n \in Nat /\ \A m \in look.counts : m <= n
  BY <1>2, <1>3, LimitAssumption DEF Count
<1>5. paid[InHand] = 0 \/ \E c \in look.counts : paid[InHand] <= c
  BY <1>1 DEF SpendInv, PaidIsOnTicket, OnTicket
<1>6. paid[InHand] <= n
  BY <1>3, <1>4, <1>5, LimitAssumption
<1>7. ~(n >= MaxRetriage)
  BY <1>2 DEF SpendInv, AskedBelowLimit, Exhausted
<1>8. n + 1 \in ns
  BY <1>2
<1>. QED BY <1>3, <1>4, <1>6, <1>7, <1>8, LimitAssumption

LEMMA SpendStep == TypeOK /\ SpendInv /\ [Next]_vars => SpendInv'
<1>. SUFFICES ASSUME TypeOK, SpendInv, [Next]_vars PROVE SpendInv'
  OBVIOUS
<1>. USE DEF board, history, sweep
<1>1. CASE Search
  BY <1>1, RestingStep, QuietStep DEF Looked, Search, Goto
<1>2. CASE Fetch
  <2>1. UNCHANGED <<counts, paid>>
    BY <1>2 DEF Fetch, FetchIssue, FetchComments, FetchChanges
  <2>2. CASE Abort
    BY <2>1, <2>2, RestingStep DEF Abort, Goto, Looked
  <2>3. CASE /\ look'.counts = counts[InHand] /\ UNCHANGED queue
             /\ pc' \in {"comments", "changes", "decide"}
    BY <2>1, <2>3 DEF SpendInv, LookIsCurrent, Looked, AskedBelowLimit, PaidIsOnTicket,
                      ReservedFirst, OnTicket, InHand
  <2>4. CASE FetchIssue
    BY <2>2, <2>3, <2>4 DEF FetchIssue, Goto, NoLook
  <2>5. CASE FetchComments \/ FetchChanges
    <3>1. look.counts = counts[InHand] /\ look \in Look
      BY <2>5 DEF FetchComments, FetchChanges, SpendInv, LookIsCurrent, Looked, TypeOK
    <3>2. Abort \/ look'.counts = look.counts
      BY <2>5, <3>1 DEF FetchComments, FetchChanges, Look
    <3>. QED BY <2>2, <2>3, <2>5, <3>1, <3>2 DEF FetchComments, FetchChanges, Goto
  <2>. QED BY <1>2, <2>4, <2>5 DEF Fetch
<1>3. CASE Decide
  <2>1. CASE Leave
    BY <1>3, <2>1, RestingStep DEF Looked, Decide, Leave, Goto
  <2>2. CASE Goto("ask") /\ UNCHANGED <<queue, look, read>> /\ Decision(look) = "retriage"
    <3>1. ~Exhausted(look.counts)
      BY <2>2 DEF Decision
    <3>. QED BY <1>3, <2>2, <3>1 DEF Decide, Goto, SpendInv, LookIsCurrent, Looked, AskedBelowLimit,
                PaidIsOnTicket, ReservedFirst, OnTicket, InHand
  <2>3. CASE Goto("end")
    BY <1>3, <2>3, RestingStep DEF Looked, Decide, Goto
  <2>. QED BY <1>3, <2>1, <2>2, <2>3 DEF Decide
<1>4. CASE EndWatch
  <2>1. pc' \in {"next", "note", "idle"}
    BY <1>4 DEF EndWatch, Leave, Abort, Goto
  <2>. QED BY <1>4, <2>1, RestingStep DEF Looked, EndWatch
<1>5. CASE Note
  BY <1>5, RestingStep DEF Looked, Note, Leave, Goto
<1>6. CASE Ask
  <2>1. CASE Leave
    BY <1>6, <2>1, RestingStep DEF Looked, Ask, Leave, Goto
  <2>2. CASE Goto("reserve") /\ UNCHANGED <<queue, look, read>> /\ MaxCount \notin look.counts
    BY <1>6, <2>2 DEF Ask, Goto, SpendInv, LookIsCurrent, Looked, AskedBelowLimit, PaidIsOnTicket,
                      ReservedFirst, OnTicket, InHand
  <2>. QED BY <1>6, <2>1, <2>2 DEF Ask
<1>7. CASE Reserve
  <2>1. queue # <<>> /\ InHand \in Tickets /\ pc = "reserve"
    BY <1>7, InHandIsTicket DEF Reserve, TypeOK
  <2>2. CASE Fail("label") /\ Leave /\ UNCHANGED counts
    BY <1>7, <2>2, RestingStep DEF Looked, Reserve, Leave, Goto
  <2>3. CASE \E ns \in Reservation(counts[InHand]) : counts' = [counts EXCEPT ![InHand] = ns]
    <3>1. PICK ns \in Reservation(counts[InHand]) : counts' = [counts EXCEPT ![InHand] = ns]
      BY <2>3
    <3>2. PICK c \in ns : paid[InHand] + 1 <= c /\ c <= MaxRetriage
      BY <2>1, ReservationCovers
    <3>3. ns \subseteq 0..MaxCount
      BY <2>1, ReservationFits DEF SpendInv
    <3>4. paid[InHand] \in Nat /\ counts'[InHand] = ns /\ paid' = paid
      BY <1>7, <2>1, <3>1 DEF Reserve, TypeOK
    <3>5. PaidIsOnTicket'
      <4>1. \A t \in Tickets : t # InHand => counts'[t] = counts[t]
        BY <3>1 DEF TypeOK
      <4>2. \E d \in ns : paid[InHand] <= d
        BY <3>2, <3>3, <3>4
      <4>3. ASSUME NEW t \in Tickets PROVE (paid[t] <= MaxRetriage /\ OnTicket(t, paid[t]))'
        <5>1. CASE t = InHand
          BY <3>4, <4>2, <5>1 DEF SpendInv, PaidIsOnTicket, OnTicket
        <5>2. CASE t # InHand
          BY <3>4, <4>1, <5>2 DEF SpendInv, PaidIsOnTicket, OnTicket
        <5>. QED BY <5>1, <5>2
      <4>. QED BY <4>3 DEF PaidIsOnTicket
    <3>6. pc' \in {"session", "next"}
      BY <1>7 DEF Reserve, Leave, Goto
    <3>7. CASE pc' = "next"
      BY <3>5, <3>7 DEF SpendInv, LookIsCurrent, Looked, AskedBelowLimit, ReservedFirst
    <3>8. CASE pc' = "session"
      <4>1. InHand' = InHand
        BY <1>7, <3>8 DEF Reserve, Leave, Goto, InHand
      <4>2. paid[InHand] + 1 <= MaxRetriage
        BY <3>2, <3>3, <3>4, LimitAssumption
      <4>3. ReservedFirst'
        BY <3>2, <3>4, <4>1, <4>2 DEF ReservedFirst, OnTicket
      <4>. QED BY <3>5, <3>8, <4>3 DEF SpendInv, LookIsCurrent, Looked, AskedBelowLimit
    <3>. QED BY <3>6, <3>7, <3>8
  <2>. QED BY <1>7, <2>2, <2>3 DEF Reserve
<1>8. CASE Session
  <2>1. queue # <<>> /\ InHand \in Tickets /\ pc = "session" /\ paid[InHand] \in Nat
    BY <1>8, InHandIsTicket DEF Session, TypeOK
  <2>2. paid' = [paid EXCEPT ![InHand] = @ + 1] /\ counts' = counts
    BY <1>8 DEF Session
  <2>3. PaidIsOnTicket'
    <3>1. paid'[InHand] = paid[InHand] + 1 /\ \A t \in Tickets : t # InHand => paid'[t] = paid[t]
      BY <2>1, <2>2 DEF TypeOK
    <3>. QED BY <2>1, <2>2, <3>1 DEF SpendInv, PaidIsOnTicket, ReservedFirst, OnTicket
  <2>4. pc' \in {"next", "post"}
    BY <1>8 DEF Session, Leave, Goto
  <2>. QED BY <2>3, <2>4 DEF SpendInv, LookIsCurrent, Looked, AskedBelowLimit, ReservedFirst
<1>9. CASE Post
  BY <1>9, RestingStep DEF Looked, Post, Leave, Goto
<1>10. CASE Finish
  BY <1>10, RestingStep DEF Looked, Finish, Goto
<1>11. CASE Crash
  BY <1>11, RestingStep DEF Looked, Crash, Abort, Goto
<1>12. CASE Clock
  BY <1>12, QuietStep DEF Clock
<1>13. ASSUME NEW t \in Tickets, Answer(t) \/ Close(t) \/ Retriage(t) PROVE SpendInv'
  BY <1>13, QuietStep DEF Answer, Close, Retriage
<1>14. CASE UNCHANGED vars
  BY <1>14, QuietStep DEF vars
<1>. QED
  BY <1>1, <1>2, <1>3, <1>4, <1>5, <1>6, <1>7, <1>8, <1>9, <1>10, <1>11, <1>12, <1>13,
     <1>14 DEF Next, Sweep

---------------------------------------------------------------------------
LEMMA Inductive == Spec => [](TypeOK /\ SpendInv)
<1>1. Init => TypeOK /\ SpendInv
  BY TypeInit, SpendInit
<1>2. TypeOK /\ SpendInv /\ [Next]_vars => (TypeOK /\ SpendInv)'
  BY TypeStep, SpendStep DEF SpendInv
<1>. QED BY <1>1, <1>2, PTL DEF Spec

(* Every variable keeps its type, a sweep dealing with a ticket has it in  *)
(* hand, and nothing read for one ticket is kept for the next              *)
(* (runWatchSweep in watch/sweep.ts).                                      *)
THEOREM TypeCorrect == Spec => []TypeOK
BY Inductive, PTL

(* A ticket never costs more paid re-triages than MAX_RETRIAGE_PER_TICKET, *)
(* for any number of tickets and whatever fails, gets lost or restarts:    *)
(* the reservation of watch/retriage.ts is on the ticket before the run.   *)
THEOREM SpendIsBounded == Spec => []SpendBounded
<1>1. TypeOK /\ SpendInv => SpendBounded
  BY DEF SpendInv, PaidIsOnTicket, SpendBounded
<1>. QED BY <1>1, Inductive, PTL

---------------------------------------------------------------------------
(* The memo.  It keeps one instant per ticket, the newest declined, and    *)
(* stands for all that was: whatever the process has paid to decline is no *)
(* newer than it, and a sweep that asks has something newer to ask about.  *)
DeclinedIsRemembered == \A t \in Tickets : \A a \in declined[t] : a.at <= memo[t]
AsksOfNews == pc = "ask" => \E at \in NewestForeign(look) : at > memo[InHand]
MemoInv == DeclinedIsRemembered /\ AsksOfNews

(* Activity there is has a newest instant.                                 *)
LEMMA NewestExists ==
    ASSUME NEW S, S \subseteq Time, S # {}
    PROVE  \E m \in S : \A j \in S : j <= m
<1>. DEFINE ago == {MaxTime - i : i \in S}
            earlier == OpToRel(<, Nat)
<1>1. ago \subseteq Nat /\ ago # {}
  <2>1. \A i \in S : MaxTime - i \in Nat
    BY BoundsAssumption DEF Time
  <2>. QED BY <2>1
<1>2. PICK x \in ago : \A y \in ago : ~(<<y, x>> \in earlier)
  <2>. HIDE DEF ago, earlier
  <2>1. IsWellFoundedOn(earlier, Nat)
    BY NatLessThanWellFounded DEF earlier
  <2>. QED BY <1>1, <2>1, WFMin
<1>3. \A y \in ago : ~(y < x)
  BY <1>1, <1>2 DEF OpToRel
<1>4. PICK m \in S : x = MaxTime - m
  OBVIOUS
<1>5. \A j \in S : ~(MaxTime - j < MaxTime - m)
  BY <1>3, <1>4
<1>6. \A j \in S : j <= m
  BY <1>5, BoundsAssumption DEF Time
<1>. QED BY <1>6

LEMMA MemoQuiet ==
    ASSUME MemoInv, UNCHANGED <<memo, declined>>, pc' # "ask" \/ UNCHANGED <<pc, queue, look>>
    PROVE  MemoInv'
BY DEF MemoInv, DeclinedIsRemembered, AsksOfNews, InHand, NewestForeign, Dates, Foreign

(* Activity the memo has not seen has an instant past the memo's.          *)
LEMMA UnseenIsNews ==
    ASSUME TypeOK, InHand \in Tickets, Decision(look) = "retriage", ~MemoSeen(InHand, look)
    PROVE  \E at \in NewestForeign(look) : at > memo[InHand]
<1>1. Foreign(look) # {}
  BY DEF Decision
<1>2. Dates(Foreign(look)) \subseteq Time /\ Dates(Foreign(look)) # {}
  BY <1>1, ForeignTypes DEF Dates
<1>3. PICK at \in Dates(Foreign(look)) : \A j \in Dates(Foreign(look)) : j <= at
  BY <1>2, NewestExists
<1>4. at \in NewestForeign(look) /\ at \in Time /\ memo[InHand] \in Time \cup {None}
  BY <1>2, <1>3 DEF NewestForeign, TypeOK
<1>5. memo[InHand] = None \/ ~(at <= memo[InHand])
  BY <1>4 DEF MemoSeen
<1>6. at > memo[InHand]
  BY <1>4, <1>5 DEF Time, None
<1>. QED BY <1>4, <1>6

LEMMA MemoStep == TypeOK /\ MemoInv /\ [Next]_vars => MemoInv'
<1>. SUFFICES ASSUME TypeOK, MemoInv, [Next]_vars PROVE MemoInv'
  OBVIOUS
<1>. USE DEF board, history, sweep
<1>1. CASE Search \/ Fetch \/ EndWatch \/ Note \/ Reserve \/ Session \/ Post \/ Finish
  <2>1. UNCHANGED <<memo, declined>> /\ pc' # "ask"
    BY <1>1 DEF Search, Fetch, FetchIssue, FetchComments, FetchChanges, EndWatch, Note, Reserve, Session, Post, Finish, Goto, Leave, Abort
  <2>. QED BY <2>1, MemoQuiet
<1>2. CASE Decide
  <2>1. CASE pc' = "ask"
    <3>1. /\ Decision(look) = "retriage" /\ ~MemoSeen(InHand, look)
          /\ UNCHANGED <<queue, look, memo, declined>> /\ queue # <<>>
      BY <1>2, <2>1 DEF Decide, Goto, Leave, TypeOK
    <3>2. \E at \in NewestForeign(look) : at > memo[InHand]
      BY <3>1, InHandIsTicket, UnseenIsNews
    <3>. QED BY <3>1, <3>2 DEF MemoInv, DeclinedIsRemembered, AsksOfNews, InHand, NewestForeign, Dates, Foreign
  <2>2. CASE pc' # "ask"
    BY <1>2, <2>2, MemoQuiet DEF Decide
  <2>. QED BY <2>1, <2>2
<1>3. CASE Ask
  <2>1. pc = "ask" /\ pc' # "ask" /\ queue # <<>>
    BY <1>3 DEF Ask, Goto, Leave, TypeOK
  <2>2. CASE UNCHANGED <<memo, declined>>
    BY <2>1, <2>2, MemoQuiet
  <2>3. ASSUME NEW at \in NewestForeign(look), memo' = [memo EXCEPT ![InHand] = at],
               declined' = [declined EXCEPT ![InHand] = @ \cup Foreign(look)]
        PROVE  MemoInv'
    <3>1. /\ InHand \in Tickets /\ Foreign(look) \subseteq Activity
          /\ Dates(Foreign(look)) \subseteq Time /\ at \in Dates(Foreign(look))
      BY <2>1, InHandIsTicket, ForeignTypes
    <3>2. \A j \in Dates(Foreign(look)) : j <= at
      BY DEF NewestForeign
    <3>3. at > memo[InHand] /\ memo[InHand] \in Int /\ at \in Int
      <4>1. PICK news \in NewestForeign(look) : news > memo[InHand]
        BY <2>1 DEF MemoInv, AsksOfNews
      <4>2. news = at
        BY <3>1, <3>2, <4>1 DEF NewestForeign, Time
      <4>. QED BY <3>1, <4>1, <4>2 DEF TypeOK, Time, None
    <3>4. ASSUME NEW t \in Tickets, NEW a \in declined'[t] PROVE a.at <= memo'[t]
      <4>1. CASE t # InHand
        BY <2>3, <3>4, <4>1 DEF TypeOK, MemoInv, DeclinedIsRemembered
      <4>2. CASE t = InHand
        <5>1. memo'[t] = at /\ a \in declined[InHand] \cup Foreign(look)
          BY <2>3, <3>1, <3>4, <4>2 DEF TypeOK
        <5>2. CASE a \in declined[InHand]
          <6>1. a \in Activity /\ a.at <= memo[InHand]
            BY <3>1, <5>2 DEF TypeOK, MemoInv, DeclinedIsRemembered
          <6>2. a.at \in Int
            BY <6>1 DEF Activity, Time
          <6>. QED BY <3>3, <5>1, <6>1, <6>2
        <5>3. CASE a \in Foreign(look)
          BY <3>2, <5>1, <5>3 DEF Dates
        <5>. QED BY <5>1, <5>2, <5>3
      <4>. QED BY <4>1, <4>2
    <3>. QED BY <2>1, <3>4 DEF MemoInv, DeclinedIsRemembered, AsksOfNews
  <2>. QED BY <1>3, <2>2, <2>3 DEF Ask
<1>4. CASE Crash
  BY <1>4 DEF Crash, Abort, Goto, MemoInv, DeclinedIsRemembered, AsksOfNews
<1>5. CASE Clock
  BY <1>5, MemoQuiet DEF Clock
<1>6. ASSUME NEW t \in Tickets, Answer(t) \/ Close(t) \/ Retriage(t) PROVE MemoInv'
  BY <1>6, MemoQuiet DEF Answer, Close, Retriage
<1>7. CASE UNCHANGED vars
  BY <1>7, MemoQuiet DEF vars
<1>. QED BY <1>1, <1>2, <1>3, <1>4, <1>5, <1>6, <1>7 DEF Next, Sweep

(* What a process has paid to hear "no" about it never pays to ask about   *)
(* again: one instant per ticket is memory enough, whoever keeps talking,  *)
(* and a restart forgets both.                                             *)
THEOREM NeverAsksAgain == Spec => []AskedOnce
<1>1. Init => MemoInv
  BY DEF Init, MemoInv, DeclinedIsRemembered, AsksOfNews
<1>2. TypeOK /\ MemoInv => AskedOnce
  <2>. SUFFICES ASSUME TypeOK, MemoInv, pc = "ask", Foreign(look) \subseteq declined[InHand] PROVE FALSE
    BY DEF AskedOnce
  <2>1. InHand \in Tickets
    BY InHandIsTicket DEF TypeOK
  <2>2. PICK at \in NewestForeign(look) : at > memo[InHand]
    BY DEF MemoInv, AsksOfNews
  <2>3. at \in Dates(Foreign(look)) /\ at \in Time /\ memo[InHand] \in Time \cup {None}
    BY <2>1, <2>2, ForeignTypes DEF TypeOK
  <2>4. at <= memo[InHand]
    BY <2>1, <2>3 DEF MemoInv, DeclinedIsRemembered, Dates
  <2>. QED BY <2>2, <2>3, <2>4 DEF Time, None
<1>. QED BY <1>1, <1>2, Inductive, MemoStep, PTL DEF Spec
=============================================================================
