------------------------ MODULE ReviewRoundsProofs ------------------------
(***************************************************************************)
(* Theorems about ReviewRounds for every set of comments and threads,      *)
(* every budget and every choice of faults.                                *)
(***************************************************************************)
EXTENDS ReviewRounds, TLAPS

(* What the survey holds of the marker is the marker, until the landing:   *)
(* nobody else writes it.                                                  *)
Current == pc \notin {"idle", "undraft"} => snap.marker = marker

(* A round is begun only within the brakes the survey read.                *)
MayBegin ==
    pc \in {"attach", "start", "reserve", "mergeReserve"} =>
        /\ snap.marker.count < MaxTotalRounds
        /\ snap.marker.failedStarts < MaxFailedStarts
        /\ HumanRound(snap) \/ snap.marker.reviewerCount < MaxRounds

(* Every round run is in the marker's counts, and a round about to be run  *)
(* is in them already.                                                     *)
Counted ==
    /\ runs.all <= marker.count /\ runs.reviewer <= marker.reviewerCount
    /\ pc \in {"pass", "merge"} => runs.all < marker.count
    /\ pc = "pass" => HumanRound(snap) \/ runs.reviewer < marker.reviewerCount

BudgetInv == TypeOK /\ Current /\ MayBegin /\ Counted

LEMMA FailTypes == ASSUME NEW f \in Fault, faults \in 0..MaxFaults, Fail(f)
                   PROVE  faults' \in 0..MaxFaults
  BY SpanAssumption DEF Fail

LEMMA NoSnapType == NoSnap \in Snap /\ NoMarker \in Marker
  BY BudgetAssumption DEF NoSnap, NoMarker, Snap, Marker

(* A write that was not answered for either happened or did not.           *)
LEMMA WriteTypes ==
    ASSUME TypeOK, NEW m \in Marker, Written(m) \/ WriteFails(m)
    PROVE  /\ marker' \in {m, marker} /\ marker' \in Marker
           /\ posted' \in Nat /\ mangled' \in BOOLEAN /\ faults' \in 0..MaxFaults
<1>1. faults \in 0..MaxFaults /\ posted \in Nat /\ mangled \in BOOLEAN /\ marker \in Marker
  BY DEF TypeOK
<1>2. faults' \in 0..MaxFaults
  BY <1>1, SpanAssumption DEF Written, WriteFails, Fail
<1>3. Write(m) \/ UNCHANGED cursor
  BY DEF Written, WriteFails
<1>4. marker' \in {m, marker} /\ mangled' \in {FALSE, mangled} /\ posted' \in {posted, posted + 1}
  <2>1. CASE Write(m)
    <3>1. CASE snap.found
      BY <2>1, <3>1 DEF Write
    <3>2. CASE ~snap.found
      BY <2>1, <3>2 DEF Write
    <3> QED
      BY <3>1, <3>2
  <2> QED
    BY <1>3, <2>1 DEF cursor
<1>5. posted' \in Nat /\ marker' \in Marker
  BY <1>1, <1>4
<1>6. mangled' \in BOOLEAN
  BY <1>1, <1>4, Zenon
<1> QED
  BY <1>2, <1>4, <1>5, <1>6, Zenon

Reserved(k, n, d) ==
    [k EXCEPT !.count = k.count + 1, !.failedStarts = 0, !.reviewerCount = n, !.lastRead = d]

(* What a reservation writes keeps the marker's fields within the budgets. *)
LEMMA ReserveTypes ==
    ASSUME NEW k \in Marker, k.count < MaxTotalRounds, NEW n \in 0..MaxRounds, NEW d \in Nat
    PROVE  /\ Reserved(k, n, d) \in Marker
           /\ Reserved(k, n, d).count = k.count + 1
           /\ Reserved(k, n, d).reviewerCount = n
<1>1. k.count + 1 \in 0..MaxTotalRounds /\ 0 \in 0..MaxFailedStarts
  BY BudgetAssumption DEF Marker
<1>2. DOMAIN k = {"count", "reviewerCount", "failedStarts", "landed", "lastRead"}
  BY DEF Marker
<1>3. Reserved(k, n, d).count = k.count + 1 /\ Reserved(k, n, d).reviewerCount = n
  BY <1>2 DEF Reserved
<1>4. Reserved(k, n, d) \in Marker
  BY <1>1 DEF Reserved, Marker
<1> QED
  BY <1>3, <1>4

LEMMA InitBudget == Init => BudgetInv
<1> SUFFICES ASSUME Init PROVE BudgetInv
  OBVIOUS
<1>1. at \in [Comments -> Nat] /\ readBy \in [Comments -> Nat]
  BY DEF Init
<1>2. runs \in [all : Nat, reviewer : Nat] /\ remarks \in 0..MaxRemarks /\ faults \in 0..MaxFaults
  BY SpanAssumption DEF Init
<1>3. marker \in Marker /\ snap \in Snap
  BY NoSnapType DEF Init
<1>4. TypeOK
  BY <1>1, <1>2, <1>3 DEF Init, TypeOK, Pc, Product
<1>5. Current /\ MayBegin
  BY DEF Init, Current, MayBegin
<1>6. Counted
  BY DEF Init, Counted, NoMarker
<1> QED
  BY <1>4, <1>5, <1>6 DEF BudgetInv

(* The step, one case per action.                                          *)
LEMMA BudgetStep == BudgetInv /\ [Next]_vars => BudgetInv'
<1> SUFFICES ASSUME BudgetInv, [Next]_vars PROVE BudgetInv'
  OBVIOUS
<1> USE DEF BudgetInv
<1>1. ASSUME NEW c \in Comments, Comment(c) PROVE BudgetInv'
  <2>1. TypeOK'
    BY <1>1, FailTypes DEF Comment, TypeOK, Fault, cursor, tick, ghosts
  <2> QED
    BY <1>1, <2>1 DEF Comment, Current, MayBegin, Counted, HumanRound, cursor, tick, ghosts
<1>2. ASSUME NEW t \in Threads, Remark(t) \/ CloseThread(t) PROVE BudgetInv'
  <2>1. TypeOK'
    BY <1>2, SpanAssumption DEF Remark, CloseThread, TypeOK, cursor, tick, ghosts
  <2> QED
    BY <1>2, <2>1
       DEF Remark, CloseThread, Current, MayBegin, Counted, HumanRound, cursor, tick, ghosts
<1>3. CASE Approve \/ MarkReady \/ Mangle
  <2>1. TypeOK'
    BY <1>3, FailTypes DEF Approve, MarkReady, Mangle, TypeOK, Fault, people, cursor, tick, ghosts
  <2> QED
    BY <1>3, <2>1
       DEF Approve, MarkReady, Mangle, Current, MayBegin, Counted, HumanRound, cursor, tick, ghosts
<1>4. CASE Look
  <2>1. snap' \in Snap
    BY <1>4 DEF Look, Snap, TypeOK
  <2>2. TypeOK'
    BY <1>4, <2>1 DEF Look, TypeOK, Pc, people, cursor, ghosts
  <2> QED
    BY <1>4, <2>2 DEF Look, Current, MayBegin, Counted, cursor, ghosts
<1>5. CASE ReadThreads
  <2> DEFINE s == [snap EXCEPT !.threads = unanswered]
  <2>1. s \in Snap /\ s.marker = snap.marker
    BY DEF TypeOK, Snap, unanswered
  <2>2. TypeOK'
    BY <1>5, <2>1, NoSnapType, FailTypes
       DEF ReadThreads, TypeOK, Pc, Product, Fault, Rest, people, cursor
  <2>3. CASE pc' = "attach"
    <3>1. Actionable(s) /\ snap' = s
      BY <1>5, <2>3 DEF ReadThreads, Rest
    <3>2. MayBegin'
      BY <3>1, <2>1, BudgetAssumption
         DEF MayBegin, Actionable, Capped, Exhausted, Stalled, TypeOK, Snap, Marker
    <3> QED
      BY <1>5, <2>1, <2>2, <2>3, <3>1, <3>2
         DEF ReadThreads, Current, Counted, cursor
  <2>4. CASE pc' # "attach"
    BY <1>5, <2>2, <2>4 DEF ReadThreads, Rest, Current, MayBegin, Counted, cursor
  <2> QED
    BY <2>3, <2>4
<1>6. CASE Undraft
  <2>1. TypeOK'
    BY <1>6, NoSnapType, FailTypes DEF Undraft, Rest, TypeOK, Pc, Product, Fault, people, cursor, ghosts
  <2> QED
    BY <1>6, <2>1 DEF Undraft, Rest, Current, MayBegin, Counted, cursor, ghosts
<1>7. CASE Attach
  <2>1. TypeOK'
    BY <1>7, NoSnapType, FailTypes
       DEF Attach, Goto, Rest, TypeOK, Pc, Product, Fault, people, cursor, ghosts
  <2> QED
    BY <1>7, <2>1
       DEF Attach, Goto, Rest, Current, MayBegin, Counted, HumanRound, cursor, ghosts
<1>8. CASE FailedStart
  <2> DEFINE m == [snap.marker EXCEPT !.failedStarts = @ + 1]
  <2>1. m \in Marker /\ m.count = marker.count /\ m.reviewerCount = marker.reviewerCount
    BY <1>8, BudgetAssumption DEF FailedStart, Current, MayBegin, TypeOK, Snap, Marker
  <2>2. marker' \in {m, marker} /\ TypeOK'
    BY <1>8, <2>1, WriteTypes, NoSnapType
       DEF FailedStart, Rest, TypeOK, Pc, Product, people, ghosts
  <2> QED
    BY <1>8, <2>1, <2>2 DEF FailedStart, Rest, Current, MayBegin, Counted, ghosts
<1>9. CASE ReserveMerge
  <2> DEFINE m == [snap.marker EXCEPT !.count = @ + 1, !.failedStarts = 0]
  <2>0. /\ snap.marker = marker /\ marker \in Marker
        /\ marker.count < MaxTotalRounds
    BY <1>9 DEF ReserveMerge, Reserve, Current, MayBegin, TypeOK
  <2>1. /\ m \in Marker /\ m.count = marker.count + 1
        /\ m.reviewerCount = marker.reviewerCount
    <3>1. m = Reserved(marker, marker.reviewerCount, marker.lastRead)
      BY <2>0 DEF Marker, Reserved
    <3>2. marker.reviewerCount \in 0..MaxRounds /\ marker.lastRead \in Nat
      BY <2>0 DEF Marker
    <3> HIDE DEF m
    <3> QED
      BY <2>0, <3>1, <3>2, ReserveTypes
  <2>2. marker' \in {m, marker} /\ TypeOK'
    BY <1>9, <2>1, WriteTypes, NoSnapType
       DEF ReserveMerge, Reserve, Begin, Rest, TypeOK, Snap, Pc, Product, people, ghosts
  <2>3. Current'
    BY <1>9 DEF ReserveMerge, Reserve, Begin, Rest, Written, Write, Current, TypeOK, Snap
  <2>4. MayBegin'
    BY <1>9 DEF ReserveMerge, Reserve, Begin, Rest, MayBegin
  <2>5. runs' = runs /\ pc' \in {"merge", "idle"} /\ (pc' = "merge" => marker' = m)
    BY <1>9 DEF ReserveMerge, Reserve, Begin, Rest, Written, Write, ghosts
  <2>6. /\ runs.all \in Nat /\ runs.reviewer \in Nat
        /\ marker.count \in Nat /\ marker.reviewerCount \in Nat
    BY BudgetAssumption DEF TypeOK, Marker
  <2>7. Counted'
    <3> HIDE DEF m
    <3> QED
      BY <2>1, <2>2, <2>5, <2>6 DEF Counted
  <2> QED
    BY <2>2, <2>3, <2>4, <2>7
<1>10. CASE ReserveReview
  <2>0. PICK newest \in Dates(snap) :
          Reserve("reserve", "pass",
                  [snap.marker EXCEPT !.count = @ + 1, !.failedStarts = 0,
                      !.reviewerCount = IF HumanRound(snap) THEN @ ELSE @ + 1,
                      !.lastRead = newest])
    BY <1>10 DEF ReserveReview
  <2> DEFINE m == [snap.marker EXCEPT !.count = @ + 1, !.failedStarts = 0,
                      !.reviewerCount = IF HumanRound(snap) THEN @ ELSE @ + 1,
                      !.lastRead = newest]
  <2>1. newest \in Nat
    BY DEF Dates, TypeOK, Snap, Marker
  <2>a. /\ snap.marker = marker /\ marker \in Marker
        /\ marker.count < MaxTotalRounds
        /\ HumanRound(snap) \/ marker.reviewerCount < MaxRounds
    BY <2>0 DEF Reserve, Current, MayBegin, TypeOK
  <2>2. /\ m \in Marker /\ m.count = marker.count + 1
        /\ m.reviewerCount = IF HumanRound(snap) THEN marker.reviewerCount
                             ELSE marker.reviewerCount + 1
    <3> DEFINE k == IF HumanRound(snap) THEN marker.reviewerCount ELSE marker.reviewerCount + 1
    <3>1. k \in 0..MaxRounds
      BY <2>a, BudgetAssumption DEF Marker
    <3>2. m = Reserved(marker, k, newest)
      BY <2>a DEF Reserved
    <3> HIDE DEF k, m
    <3>3. m \in Marker /\ m.count = marker.count + 1 /\ m.reviewerCount = k
      BY <2>1, <2>a, <3>1, <3>2, ReserveTypes
    <3> QED
      BY <3>3 DEF k
  <2>3. marker' \in {m, marker} /\ TypeOK'
    BY <2>0, <2>2, WriteTypes, NoSnapType
       DEF Reserve, Begin, Rest, TypeOK, Snap, Pc, Product, people, ghosts
  <2>4. Current' /\ MayBegin'
    BY <2>0 DEF Reserve, Begin, Rest, Written, Write, Current, MayBegin, TypeOK, Snap
  <2>5. pc' = "pass" => marker' = m /\ (HumanRound(snap) <=> HumanRound(snap'))
    BY <2>0 DEF Reserve, Begin, Rest, Written, Write, HumanRound, TypeOK, Snap
  <2>b. runs' = runs /\ pc' \in {"pass", "idle"}
    BY <2>0 DEF Reserve, Begin, Rest, ghosts
  <2>c. /\ runs.all \in Nat /\ runs.reviewer \in Nat
        /\ marker.count \in Nat /\ marker.reviewerCount \in Nat
    BY BudgetAssumption DEF TypeOK, Marker
  <2>6. Counted'
    <3> HIDE DEF m
    <3> QED
      BY <2>2, <2>3, <2>5, <2>b, <2>c DEF Counted
  <2> QED
    BY <2>3, <2>4, <2>6
<1>11. CASE MergeRound
  <2>0. runs' \in [all : Nat, reviewer : Nat]
    BY <1>11 DEF MergeRound, TypeOK
  <2>1. TypeOK'
    BY <1>11, <2>0, NoSnapType DEF MergeRound, Rest, TypeOK, Pc, Product, people, cursor
  <2> QED
    BY <1>11, <2>1
       DEF MergeRound, Rest, Current, MayBegin, Counted, TypeOK, Marker, cursor
<1>12. CASE Pass
  <2>1. TypeOK'
    BY <1>12 DEF Pass, Outcome, TypeOK, Snap, Pc, Product, people, cursor
  <2>2. runs'.all <= marker.count /\ runs'.reviewer <= marker.reviewerCount
    BY <1>12 DEF Pass, Counted, TypeOK, Marker
  <2>3. pc' \in {"tell", "answer", "commit"} /\ snap' = snap
    BY <1>12 DEF Pass, Outcome
  <2> QED
    BY <1>12, <2>1, <2>2, <2>3 DEF Pass, Current, MayBegin, Counted, cursor
<1>13. CASE CommitAll \/ Push
  <2>1. TypeOK'
    BY <1>13, NoSnapType, FailTypes
       DEF CommitAll, Push, Goto, Rest, TypeOK, Pc, Product, Fault, people, cursor, ghosts
  <2> QED
    BY <1>13, <2>1
       DEF CommitAll, Push, Goto, Rest, Current, MayBegin, Counted, cursor, ghosts
<1>14. ASSUME NEW t \in Threads, ReplyThread(t) PROVE BudgetInv'
  <2>1. TypeOK'
    BY <1>14, FailTypes DEF ReplyThread, Reply, TypeOK, Fault, cursor, ghosts
  <2> QED
    BY <1>14, <2>1 DEF ReplyThread, Current, MayBegin, Counted, HumanRound, cursor, ghosts
<1>15. CASE TellWhoAsked \/ AnswerDone
  <2>1. TypeOK'
    BY <1>15, NoSnapType
       DEF TellWhoAsked, AnswerDone, Goto, Rest, TypeOK, Pc, Product, people, cursor, ghosts
  <2> QED
    BY <1>15, <2>1
       DEF TellWhoAsked, AnswerDone, Goto, Rest, Current, MayBegin, Counted, cursor, ghosts
<1>16. CASE Say
  <2>1. TypeOK'
    BY <1>16, FailTypes DEF Say, TypeOK, Pc, Fault, cursor
  <2> QED
    BY <1>16, <2>1 DEF Say, Current, MayBegin, Counted, cursor
<1>17. CASE Land
  <2> DEFINE m == [snap.marker EXCEPT !.landed = snap.marker.count]
  <2>1. m \in Marker /\ m.count = marker.count /\ m.reviewerCount = marker.reviewerCount
    BY <1>17 DEF Land, Current, TypeOK, Snap, Marker
  <2>2. marker' \in {m, marker} /\ TypeOK'
    BY <1>17, <2>1, WriteTypes, NoSnapType
       DEF Land, Goto, Rest, TypeOK, Pc, Product, people, ghosts
  <2> QED
    BY <1>17, <2>1, <2>2 DEF Land, Goto, Rest, Current, MayBegin, Counted, ghosts
<1>18. CASE Crash
  <2>1. TypeOK'
    BY <1>18, NoSnapType, FailTypes DEF Crash, Rest, TypeOK, Pc, Product, Fault, people, cursor, ghosts
  <2> QED
    BY <1>18, <2>1 DEF Crash, Rest, Current, MayBegin, Counted, cursor, ghosts
<1>19. CASE UNCHANGED vars
  BY <1>19 DEF vars, TypeOK, Current, MayBegin, Counted, HumanRound, people, cursor, tick, ghosts
<1> QED
  BY <1>1, <1>2, <1>3, <1>4, <1>5, <1>6, <1>7, <1>8, <1>9, <1>10, <1>11, <1>12, <1>13, <1>14,
     <1>15, <1>16, <1>17, <1>18, <1>19 DEF Next, People, Step

(* The review of a pull request keeps its types, its marker's counts       *)
(* within the budgets among them.                                          *)
THEOREM ReviewTypeCorrect == Spec => []TypeOK
<1>1. BudgetInv => TypeOK
  BY DEF BudgetInv
<1> QED
  BY <1>1, InitBudget, BudgetStep, PTL DEF Spec

(* No more rounds are paid for than MAX_PR_ROUNDS_TOTAL, nor reviewer's    *)
(* rounds than MAX_REVIEW_ITERATIONS, whatever is lost, crashes or is said.*)
THEOREM RoundsStayBounded == Spec => []RoundsBounded
<1>1. BudgetInv => RoundsBounded
  BY BudgetAssumption DEF BudgetInv, TypeOK, Marker, Counted, RoundsBounded
<1> QED
  BY <1>1, InitBudget, BudgetStep, PTL DEF Spec
---------------------------------------------------------------------------
(* The cursor.  A survey takes in only comments it has not passed, and     *)
(* what a pass reads it has passed already.                                *)
Surveying == {"threads", "attach", "start", "reserve", "mergeReserve"}
IsPassed(c) == 0 < at[c] /\ at[c] <= marker.lastRead
SurveyIsAhead == pc \in Surveying => \A c \in snap.comments : at[c] > marker.lastRead
ReadIsPassed == \A c \in Comments : readBy[c] > 0 => IsPassed(c) /\ readBy[c] = 1
PassReadsFirst == pc = "pass" => \A c \in snap.comments : readBy[c] = 0 /\ IsPassed(c)
CursorInv == SurveyIsAhead /\ ReadIsPassed /\ PassReadsFirst

(* A step that keeps the marker, the survey and what was said keeps it.    *)
LEMMA CursorQuiet ==
    ASSUME CursorInv, UNCHANGED <<at, marker, readBy>>, pc' # "pass" \/ pc = "pass",
           pc' \in Surveying => pc \in Surveying,
           pc' \in Surveying \cup {"pass"} => snap'.comments = snap.comments
    PROVE  CursorInv'
BY DEF CursorInv, SurveyIsAhead, ReadIsPassed, PassReadsFirst, IsPassed

(* A marker written with the survey's cursor in it.                        *)
LEMMA CursorWritten ==
    ASSUME BudgetInv, CursorInv, NEW m \in Marker, m.lastRead = snap.marker.lastRead,
           snap.marker = marker, Written(m) \/ WriteFails(m), UNCHANGED <<at, readBy>>,
           pc' \notin Surveying \cup {"pass"}
    PROVE  CursorInv'
<1>1. marker' \in {m, marker}
  BY WriteTypes DEF BudgetInv
<1> QED
  BY <1>1 DEF CursorInv, SurveyIsAhead, ReadIsPassed, PassReadsFirst, IsPassed

LEMMA CursorStep == BudgetInv /\ CursorInv /\ [Next]_vars => CursorInv'
<1> SUFFICES ASSUME BudgetInv, CursorInv, [Next]_vars PROVE CursorInv'
  OBVIOUS
<1>0. TypeOK /\ TypeOK'
  BY BudgetStep DEF BudgetInv
<1> USE DEF Surveying
<1>1. ASSUME NEW c \in Comments, Comment(c) PROVE CursorInv'
  <2>1. /\ UNCHANGED <<marker, readBy, pc, snap>>
        /\ at[c] = 0 /\ \A d \in Comments : d # c => at'[d] = at[d]
    BY <1>0, <1>1 DEF Comment, cursor, ghosts, tick, TypeOK
  <2>2. \A d \in Comments : at[d] > 0 => d # c
    BY <2>1
  <2>3. snap.comments \subseteq Comments /\ marker.lastRead \in Nat /\ at \in [Comments -> Nat]
    BY <1>0 DEF TypeOK, Snap, Marker
  <2>4. \A d \in snap.comments : pc \in Surveying \cup {"pass"} => at[d] > 0
    BY <2>3 DEF CursorInv, SurveyIsAhead, PassReadsFirst, IsPassed
  <2> QED
    BY <2>1, <2>2, <2>3, <2>4 DEF CursorInv, SurveyIsAhead, ReadIsPassed, PassReadsFirst, IsPassed
<1>2. CASE UNCHANGED <<at, marker, readBy, pc, snap>>
  BY <1>2, CursorQuiet
<1>3. ASSUME NEW t \in Threads, Remark(t) \/ CloseThread(t) \/ ReplyThread(t) PROVE CursorInv'
  BY <1>2, <1>3 DEF Remark, CloseThread, ReplyThread, cursor, ghosts, tick
<1>4. CASE Approve \/ MarkReady \/ Mangle \/ UNCHANGED vars
  BY <1>2, <1>4 DEF Approve, MarkReady, Mangle, vars, people, cursor, ghosts, tick
<1>5. CASE Look
  <2>1. /\ UNCHANGED <<at, marker, readBy>> /\ pc' = "threads"
        /\ \A c \in snap'.comments : at[c] > marker.lastRead
    BY <1>5 DEF Look, New, people, cursor, ghosts
  <2> QED
    BY <2>1 DEF CursorInv, SurveyIsAhead, ReadIsPassed, PassReadsFirst, IsPassed
<1>6. CASE ReadThreads
  <2>1. /\ UNCHANGED <<at, marker, readBy>> /\ pc = "threads"
        /\ pc' \in {"attach", "undraft", "idle"}
        /\ pc' = "attach" => snap'.comments = snap.comments
    BY <1>0, <1>6 DEF ReadThreads, Rest, TypeOK, Snap, people, cursor
  <2> QED
    BY <2>1, CursorQuiet
<1>7. CASE Attach
  <2>1. /\ UNCHANGED <<at, marker, readBy>> /\ pc = "attach"
        /\ pc' \in {"reserve", "mergeReserve", "start", "idle"}
        /\ pc' # "idle" => snap' = snap
    BY <1>7 DEF Attach, Goto, Rest, people, cursor, ghosts
  <2> QED
    BY <2>1, CursorQuiet
<1>8. CASE Undraft \/ MergeRound \/ CommitAll \/ Push \/ TellWhoAsked \/ AnswerDone \/ Say \/ Crash
  <2>1. UNCHANGED <<at, marker, readBy>> /\ pc' \in {"idle", "land", "push", "answer", "say"}
    BY <1>8 DEF Undraft, MergeRound, CommitAll, Push, TellWhoAsked, AnswerDone, Say, Crash,
                Goto, Rest, people, cursor, ghosts
  <2> QED
    BY <2>1, CursorQuiet
<1>9. CASE FailedStart
  <2> DEFINE m == [snap.marker EXCEPT !.failedStarts = @ + 1]
  <2>1. /\ snap.marker = marker /\ m \in Marker /\ m.lastRead = snap.marker.lastRead
        /\ pc' = "idle" /\ UNCHANGED <<at, readBy>>
        /\ Written(m) \/ WriteFails(m)
    BY <1>9, BudgetAssumption
       DEF FailedStart, Rest, BudgetInv, Current, MayBegin, TypeOK, Snap, Marker, people, ghosts
  <2> HIDE DEF m
  <2> QED
    BY <2>1, CursorWritten
<1>10. CASE Land
  <2> DEFINE m == [snap.marker EXCEPT !.landed = snap.marker.count]
  <2>1. /\ snap.marker = marker /\ m \in Marker /\ m.lastRead = snap.marker.lastRead
        /\ pc' \in {"idle", "undraft"} /\ UNCHANGED <<at, readBy>>
        /\ Written(m) \/ WriteFails(m)
    BY <1>10 DEF Land, Goto, Rest, BudgetInv, Current, TypeOK, Snap, Marker, people, ghosts
  <2> HIDE DEF m
  <2> QED
    BY <2>1, CursorWritten
<1>11. CASE ReserveMerge
  <2> DEFINE m == [snap.marker EXCEPT !.count = @ + 1, !.failedStarts = 0]
  <2>1. /\ snap.marker = marker /\ m \in Marker /\ m.lastRead = snap.marker.lastRead
    <3>1. /\ snap.marker = marker /\ marker \in Marker
          /\ marker.count < MaxTotalRounds
      BY <1>11 DEF ReserveMerge, Reserve, BudgetInv, Current, MayBegin, TypeOK
    <3>2. m = Reserved(marker, marker.reviewerCount, marker.lastRead)
      BY <3>1 DEF Marker, Reserved
    <3>3. marker.reviewerCount \in 0..MaxRounds /\ marker.lastRead \in Nat
      BY <3>1 DEF Marker
    <3>4. m.lastRead = snap.marker.lastRead
      BY <3>1 DEF Marker
    <3> HIDE DEF m
    <3> QED
      BY <3>1, <3>2, <3>3, <3>4, ReserveTypes
  <2>2. /\ pc' \in {"idle", "merge"} /\ UNCHANGED <<at, readBy>>
        /\ Written(m) \/ WriteFails(m)
    BY <1>11 DEF ReserveMerge, Reserve, Begin, Rest, people, ghosts
  <2> HIDE DEF m
  <2> QED
    BY <2>1, <2>2, CursorWritten
<1>12. CASE ReserveReview
  <2>0. PICK newest \in Dates(snap) :
          /\ NewestOf(snap, newest)
          /\ Reserve("reserve", "pass",
                  [snap.marker EXCEPT !.count = @ + 1, !.failedStarts = 0,
                      !.reviewerCount = IF HumanRound(snap) THEN @ ELSE @ + 1,
                      !.lastRead = newest])
    BY <1>12 DEF ReserveReview
  <2> DEFINE m == [snap.marker EXCEPT !.count = @ + 1, !.failedStarts = 0,
                      !.reviewerCount = IF HumanRound(snap) THEN @ ELSE @ + 1,
                      !.lastRead = newest]
  <2>1. /\ snap.marker = marker /\ marker \in Marker /\ marker.lastRead \in Nat
        /\ snap.comments \subseteq Comments /\ newest \in Nat /\ pc = "reserve"
    BY <2>0 DEF Reserve, BudgetInv, Current, TypeOK, Snap, Marker, Dates
  <2>2. m.lastRead = newest
    BY <2>1 DEF Marker
  <2>3. marker.lastRead <= newest /\ \A c \in snap.comments : at[c] <= newest
    BY <2>0, <2>1 DEF NewestOf, Dates
  <2>4. \/ marker' \in {m, marker} /\ pc' = "idle"
        \/ marker' = m /\ pc' = "pass" /\ snap'.comments = snap.comments
    BY <1>0, <2>0 DEF Reserve, Written, WriteFails, Write, Begin, Rest, cursor, TypeOK, Snap
  <2>5. UNCHANGED <<at, readBy>>
    BY <2>0 DEF Reserve, people, ghosts
  <2> HIDE DEF m
  <2>6. marker.lastRead <= marker'.lastRead /\ marker'.lastRead <= newest
    BY <2>1, <2>2, <2>3, <2>4
  <2>7. ReadIsPassed'
    BY <1>0, <2>1, <2>5, <2>6 DEF CursorInv, ReadIsPassed, IsPassed, TypeOK, Marker
  <2>8. PassReadsFirst'
    <3> SUFFICES ASSUME pc' = "pass", NEW c \in snap'.comments
                 PROVE  readBy'[c] = 0 /\ IsPassed(c)'
      BY DEF PassReadsFirst
    <3>1. c \in snap.comments /\ c \in Comments /\ marker'.lastRead = newest
      BY <2>1, <2>2, <2>4
    <3>2. at[c] \in Nat /\ readBy[c] \in Nat
      BY <1>0, <3>1 DEF TypeOK
    <3>3. at[c] > marker.lastRead /\ at[c] <= newest
      BY <2>1, <2>3, <3>1 DEF CursorInv, SurveyIsAhead
    <3>4. readBy[c] = 0
      BY <2>1, <3>1, <3>2, <3>3 DEF CursorInv, ReadIsPassed, IsPassed
    <3> QED
      BY <2>1, <2>5, <3>1, <3>2, <3>3, <3>4 DEF IsPassed
  <2> QED
    BY <2>4, <2>7, <2>8 DEF CursorInv, SurveyIsAhead
<1>13. CASE Pass
  <2>1. /\ UNCHANGED <<at, marker>> /\ pc = "pass" /\ pc' \in {"tell", "answer", "commit"}
        /\ \A c \in Comments : readBy'[c] = IF c \in snap.comments THEN readBy[c] + 1 ELSE readBy[c]
    BY <1>13 DEF Pass, Outcome, people, cursor
  <2>2. ReadIsPassed'
    BY <2>1 DEF CursorInv, ReadIsPassed, PassReadsFirst, IsPassed
  <2> QED
    BY <2>1, <2>2 DEF CursorInv, SurveyIsAhead, PassReadsFirst
<1> QED
  BY <1>1, <1>3, <1>4, <1>5, <1>6, <1>7, <1>8, <1>9, <1>10, <1>11, <1>12, <1>13 DEF Next, People, Step

(* No comment is given to two rounds, though the cursor that passed it is  *)
(* one write of the tick and the pass that reads it a later call.          *)
THEOREM CommentsReadOnce == Spec => []ReadOnce
<1>1. Init => CursorInv
  BY DEF Init, CursorInv, SurveyIsAhead, ReadIsPassed, PassReadsFirst, Surveying
<1>2. ASSUME BudgetInv, CursorInv PROVE ReadOnce
  <2> SUFFICES ASSUME NEW c \in Comments PROVE readBy[c] <= 1
    BY DEF ReadOnce
  <2>1. readBy[c] \in Nat
    BY <1>2 DEF BudgetInv, TypeOK
  <2>2. readBy[c] > 0 => readBy[c] = 1
    BY <1>2 DEF CursorInv, ReadIsPassed
  <2> QED
    BY <2>1, <2>2
<1> QED
  BY <1>1, <1>2, InitBudget, BudgetStep, CursorStep, PTL DEF Spec
---------------------------------------------------------------------------
(* The marker comment.  The survey's word that there is one stays true for *)
(* the whole tick, so the write after it edits and does not post again.    *)
Knows == pc \notin {"idle", "undraft"} => (snap.found <=> posted = 1)
HoldsMarker == pc \notin Surveying \cup {"idle", "undraft"} => snap.found
MarkerInv == OneMarker /\ Knows /\ HoldsMarker

(* A tick that writes nothing leaves the marker comment as it is known.    *)
LEMMA MarkerQuiet ==
    ASSUME MarkerInv, posted' = posted, pc' \notin {"idle", "undraft"} => snap'.found = snap.found,
           pc \in Surveying \cup {"idle", "undraft"} => pc' \in Surveying \cup {"idle", "undraft"},
           pc' \notin {"idle", "undraft"} => pc \notin {"idle", "undraft"}
    PROVE  MarkerInv'
BY DEF MarkerInv, OneMarker, Knows, HoldsMarker

(* A write answered for, or not, leaves one marker comment or what was     *)
(* there; answered for, it leaves one.                                     *)
LEMMA MarkerWritten ==
    ASSUME TypeOK, MarkerInv, pc \notin {"idle", "undraft"},
           NEW m, Written(m) \/ WriteFails(m)
    PROVE  posted' <= 1 /\ (Written(m) => posted' = 1) /\ (snap.found => posted' = 1)
<1>1. posted \in Nat /\ (snap.found <=> posted = 1) /\ posted <= 1
  BY DEF TypeOK, MarkerInv, OneMarker, Knows
<1>2. Write(m) => posted' = 1
  BY <1>1 DEF Write
<1>3. Write(m) \/ posted' = posted
  BY DEF Written, WriteFails, cursor
<1> QED
  BY <1>1, <1>2, <1>3 DEF Written

LEMMA MarkerReserved ==
    ASSUME TypeOK, MarkerInv, NEW p \in Surveying, NEW q \in Pc, NEW m, Reserve(p, q, m)
    PROVE  MarkerInv'
<1>1. pc \notin {"idle", "undraft"} /\ (Written(m) \/ WriteFails(m))
  BY DEF Reserve, Surveying
<1>2. \/ Written(m) /\ Begin(q, m)
      \/ pc' = "idle"
  BY DEF Reserve, Rest
<1>3. Begin(q, m) => snap'.found
  BY DEF Begin, TypeOK, Snap
<1>4. posted' <= 1 /\ (Written(m) => posted' = 1)
  BY <1>1, MarkerWritten
<1> QED
  BY <1>2, <1>3, <1>4, <1>3, MarkerWritten DEF MarkerInv, OneMarker, Knows, HoldsMarker

LEMMA MarkerStep == BudgetInv /\ MarkerInv /\ [Next]_vars => MarkerInv'
<1> SUFFICES ASSUME BudgetInv, MarkerInv, [Next]_vars PROVE MarkerInv'
  OBVIOUS
<1>0. TypeOK
  BY DEF BudgetInv
<1>1. CASE UNCHANGED <<posted, pc, snap>>
  BY <1>1, MarkerQuiet
<1>2. CASE People \/ UNCHANGED vars
  BY <1>1, <1>2
     DEF People, Comment, Remark, CloseThread, Approve, MarkReady, Mangle, vars, cursor, tick
<1>3. CASE Look
  <2>1. posted' = posted /\ posted <= 1 /\ pc' = "threads" /\ (snap'.found <=> posted = 1)
    BY <1>3 DEF Look, cursor, MarkerInv, OneMarker
  <2> QED
    BY <2>1 DEF MarkerInv, OneMarker, Knows, HoldsMarker, Surveying
<1>4. CASE ReadThreads
  <2>1. /\ posted' = posted /\ pc = "threads" /\ pc' \in {"attach", "undraft", "idle"}
        /\ pc' = "attach" => snap'.found = snap.found
    BY <1>0, <1>4 DEF ReadThreads, Rest, TypeOK, Snap, cursor
  <2> QED
    BY <2>1, MarkerQuiet DEF Surveying
<1>5. CASE Attach
  <2>1. /\ posted' = posted /\ pc = "attach" /\ pc' \in {"reserve", "mergeReserve", "start", "idle"}
        /\ pc' # "idle" => snap' = snap
    BY <1>5 DEF Attach, Goto, Rest, cursor
  <2> QED
    BY <2>1, MarkerQuiet DEF Surveying
<1>6. CASE FailedStart
  <2> DEFINE m == [snap.marker EXCEPT !.failedStarts = @ + 1]
  <2>1. pc = "start" /\ pc' = "idle" /\ (Written(m) \/ WriteFails(m))
    BY <1>6 DEF FailedStart, Rest
  <2> HIDE DEF m
  <2> QED
    BY <1>0, <2>1, MarkerWritten DEF MarkerInv, OneMarker, Knows, HoldsMarker
<1>7. CASE ReserveMerge
  BY <1>0, <1>7, MarkerReserved DEF ReserveMerge, Surveying, Pc
<1>8. CASE ReserveReview
  BY <1>0, <1>8, MarkerReserved DEF ReserveReview, Surveying, Pc
<1>9. CASE Undraft \/ Crash \/ TellWhoAsked
  <2>1. posted' = posted /\ pc' = "idle"
    BY <1>9 DEF Undraft, Crash, TellWhoAsked, Rest, cursor
  <2> QED
    BY <2>1, MarkerQuiet
<1>10. CASE MergeRound \/ Pass \/ CommitAll \/ Push \/ AnswerDone \/ Say
  <2>1. /\ posted' = posted /\ pc \in {"merge", "pass", "commit", "push", "answer", "say"}
        /\ pc' \in Pc \ Surveying /\ pc' # "undraft" /\ (pc' # "idle" => snap' = snap)
    BY <1>10 DEF MergeRound, Pass, Outcome, CommitAll, Push, AnswerDone, Say, Goto, Rest,
                 cursor, Pc, Surveying
  <2> QED
    BY <2>1, MarkerQuiet DEF Surveying
<1>11. ASSUME NEW t \in Threads, ReplyThread(t) PROVE MarkerInv'
  BY <1>1, <1>11 DEF ReplyThread, cursor
<1>12. CASE Land
  <2> DEFINE m == [snap.marker EXCEPT !.landed = snap.marker.count]
  <2>1. pc = "land" /\ pc' \in {"idle", "undraft"} /\ (Written(m) \/ WriteFails(m))
    BY <1>12 DEF Land, Goto, Rest
  <2> HIDE DEF m
  <2> QED
    BY <1>0, <2>1, MarkerWritten DEF MarkerInv, OneMarker, Knows, HoldsMarker
<1> QED
  BY <1>2, <1>3, <1>4, <1>5, <1>6, <1>7, <1>8, <1>9, <1>10, <1>11, <1>12 DEF Next, Step

(* A pull request never gets a second marker comment, which would stop its *)
(* rounds for good: not after a write whose answer was lost, not from the  *)
(* landing, not after a crash between the survey and the write.            *)
THEOREM NoSecondMarker == Spec => []OneMarker
<1>1. Init => MarkerInv
  BY DEF Init, MarkerInv, OneMarker, Knows, HoldsMarker
<1>2. MarkerInv => OneMarker
  BY DEF MarkerInv
<1> QED
  BY <1>1, <1>2, InitBudget, BudgetStep, MarkerStep, PTL DEF Spec
---------------------------------------------------------------------------
(* The landing.  A round that did not reach the pull request leaves the    *)
(* marker owing it, and so does one that is being run.                     *)
Owing == unfinished \/ pc \in {"pass", "merge"} => marker.landed < marker.count
LandInv ==
    /\ marker.landed <= marker.count /\ Owing
    /\ pc = "land" => ~unfinished
    /\ pc \in Surveying \cup {"idle"} => work = "none"
    /\ ReadyMeansLanded

(* A tick's step that is not the handover, and that leaves the marker and  *)
(* the rounds as they were.                                                *)
LEMMA LandQuiet ==
    ASSUME LandInv, UNCHANGED <<marker, unfinished>>, pc' \notin {"land", "undraft"},
           pc' \in {"pass", "merge"} => pc \in {"pass", "merge"},
           pc' \in Surveying \cup {"idle"} => work' = "none"
    PROVE  LandInv'
BY DEF LandInv, Owing, ReadyMeansLanded

LEMMA LandReserved ==
    ASSUME BudgetInv, LandInv, NEW p \in Surveying, NEW q \in {"pass", "merge"}, NEW m,
           m.landed = marker.landed, m.count = marker.count + 1, Reserve(p, q, m)
    PROVE  LandInv'
<1>1. marker.landed \in Nat /\ marker.count \in Nat /\ marker.landed <= marker.count
  BY BudgetAssumption DEF BudgetInv, TypeOK, Marker, LandInv
<1>2. /\ UNCHANGED unfinished
      /\ \/ marker' \in {m, marker} /\ pc' = "idle" /\ work' = "none"
         \/ marker' = m /\ pc' = q
  BY DEF Reserve, Written, WriteFails, Write, Begin, Rest, cursor, ghosts
<1> QED
  BY <1>1, <1>2 DEF LandInv, Owing, ReadyMeansLanded, Surveying

LEMMA LandStep == BudgetInv /\ LandInv /\ [Next]_vars => LandInv'
<1> SUFFICES ASSUME BudgetInv, LandInv, [Next]_vars PROVE LandInv'
  OBVIOUS
<1>0. TypeOK
  BY DEF BudgetInv
<1>1. CASE UNCHANGED <<marker, pc, snap, work, unfinished>>
  BY <1>1 DEF LandInv, Owing, ReadyMeansLanded, Nothing
<1>2. CASE People \/ UNCHANGED vars
  BY <1>1, <1>2
     DEF People, Comment, Remark, CloseThread, Approve, MarkReady, Mangle, vars, cursor, tick, ghosts
<1>3. CASE Look
  <2>1. UNCHANGED <<marker, unfinished, work>> /\ pc = "idle" /\ pc' = "threads"
    BY <1>3 DEF Look, cursor, ghosts
  <2> QED
    BY <2>1, LandQuiet DEF LandInv, Surveying
<1>4. CASE ReadThreads
  <2> DEFINE s == [snap EXCEPT !.threads = unanswered]
  <2>1. /\ UNCHANGED <<marker, unfinished>> /\ pc = "threads" /\ work = "none"
        /\ s.marker = marker
    BY <1>0, <1>4 DEF ReadThreads, cursor, LandInv, Surveying, BudgetInv, Current, TypeOK, Snap
  <2>2. \/ pc' = "attach" /\ work' = "none"
        \/ pc' = "idle" /\ work' = "none"
        \/ pc' = "undraft" /\ work' = "none" /\ snap' = s /\ (Ready(s) \/ GivenUp(s))
    BY <1>4, <2>1 DEF ReadThreads, Rest
  <2>3. CASE pc' = "undraft"
    <3>1. Ready(s) => ~unfinished
      BY <2>1 DEF Ready, Unlanded, LandInv, Owing
    <3>2. GivenUp(s) => ~Nothing(snap')
      BY <2>2, <2>3 DEF GivenUp
    <3> HIDE DEF s
    <3> QED
      BY <2>1, <2>2, <2>3, <3>1, <3>2 DEF LandInv, Owing, ReadyMeansLanded, Surveying
  <2>4. CASE pc' # "undraft"
    <3> HIDE DEF s
    <3> QED
      BY <2>1, <2>2, <2>4, LandQuiet
  <2> QED
    BY <2>3, <2>4
<1>5. CASE Undraft \/ Crash \/ TellWhoAsked
  <2>1. UNCHANGED <<marker, unfinished>> /\ pc' = "idle" /\ work' = "none"
    BY <1>5 DEF Undraft, Crash, TellWhoAsked, Rest, cursor, ghosts
  <2> QED
    BY <2>1, LandQuiet
<1>6. CASE Attach
  <2>1. /\ UNCHANGED <<marker, unfinished>> /\ work' = "none"
        /\ pc' \in {"reserve", "mergeReserve", "start", "idle"}
    BY <1>6 DEF Attach, Goto, Rest, cursor, ghosts, LandInv, Surveying
  <2> QED
    BY <2>1, LandQuiet
<1>7. CASE FailedStart
  <2> DEFINE m == [snap.marker EXCEPT !.failedStarts = @ + 1]
  <2>1. /\ m.landed = marker.landed /\ m.count = marker.count /\ m \in Marker
        /\ pc' = "idle" /\ work' = "none" /\ UNCHANGED unfinished
        /\ Written(m) \/ WriteFails(m)
    BY <1>0, <1>7, BudgetAssumption
       DEF FailedStart, Rest, BudgetInv, Current, MayBegin, TypeOK, Snap, Marker, ghosts
  <2> HIDE DEF m
  <2>2. marker' \in {m, marker}
    BY <1>0, <2>1, WriteTypes
  <2> QED
    BY <2>1, <2>2 DEF LandInv, Owing, ReadyMeansLanded
<1>8. CASE ReserveMerge
  <2> DEFINE m == [snap.marker EXCEPT !.count = @ + 1, !.failedStarts = 0]
  <2>1. m.landed = marker.landed /\ m.count = marker.count + 1 /\ Reserve("mergeReserve", "merge", m)
    BY <1>0, <1>8 DEF ReserveMerge, Reserve, BudgetInv, Current, TypeOK, Marker
  <2> HIDE DEF m
  <2> QED
    BY <2>1, LandReserved DEF Surveying
<1>9. CASE ReserveReview
  <2>0. PICK newest \in Dates(snap) :
          Reserve("reserve", "pass",
                  [snap.marker EXCEPT !.count = @ + 1, !.failedStarts = 0,
                      !.reviewerCount = IF HumanRound(snap) THEN @ ELSE @ + 1,
                      !.lastRead = newest])
    BY <1>9 DEF ReserveReview
  <2> DEFINE m == [snap.marker EXCEPT !.count = @ + 1, !.failedStarts = 0,
                      !.reviewerCount = IF HumanRound(snap) THEN @ ELSE @ + 1,
                      !.lastRead = newest]
  <2>1. m.landed = marker.landed /\ m.count = marker.count + 1
    BY <1>0, <2>0 DEF Reserve, BudgetInv, Current, TypeOK, Marker
  <2>2. Reserve("reserve", "pass", m)
    BY <2>0
  <2> HIDE DEF m
  <2> QED
    BY <2>1, <2>2, LandReserved DEF Surveying
<1>10. CASE MergeRound
  <2>1. /\ UNCHANGED marker /\ marker.landed < marker.count
        /\ \/ pc' = "land" /\ unfinished' = FALSE
           \/ pc' = "idle" /\ work' = "none"
    BY <1>10 DEF MergeRound, Rest, cursor, LandInv, Owing
  <2> QED
    BY <2>1 DEF LandInv, Owing, ReadyMeansLanded, Surveying
<1>11. CASE Pass
  <2>1. UNCHANGED marker /\ marker.landed < marker.count /\ pc' \in {"tell", "answer", "commit"}
    BY <1>11 DEF Pass, Outcome, cursor, LandInv, Owing
  <2> QED
    BY <2>1 DEF LandInv, Owing, ReadyMeansLanded, Surveying
<1>12. CASE CommitAll \/ Push \/ AnswerDone
  <2>1. /\ UNCHANGED <<marker, unfinished>> /\ pc' \in {"push", "answer", "say", "idle"}
        /\ pc' = "idle" => work' = "none"
    BY <1>12 DEF CommitAll, Push, AnswerDone, Goto, Rest, cursor, ghosts
  <2> QED
    BY <2>1, LandQuiet DEF Surveying
<1>13. ASSUME NEW t \in Threads, ReplyThread(t) PROVE LandInv'
  BY <1>1, <1>13 DEF ReplyThread, cursor, ghosts
<1>14. CASE Say
  <2>1. UNCHANGED marker /\ unfinished' = FALSE /\ pc' = "land"
    BY <1>14 DEF Say, cursor
  <2> QED
    BY <2>1 DEF LandInv, Owing, ReadyMeansLanded, Surveying
<1>15. CASE Land
  <2> DEFINE m == [snap.marker EXCEPT !.landed = snap.marker.count]
  <2>1. /\ m.landed = marker.count /\ m.count = marker.count /\ m \in Marker
        /\ pc = "land" /\ UNCHANGED unfinished
        /\ pc' = "undraft" \/ (pc' = "idle" /\ work' = "none")
        /\ Written(m) \/ WriteFails(m)
    BY <1>0, <1>15 DEF Land, Goto, Rest, BudgetInv, Current, TypeOK, Snap, Marker, ghosts
  <2> HIDE DEF m
  <2>2. marker' \in {m, marker} /\ marker.count \in Nat
    BY <1>0, <2>1, WriteTypes, BudgetAssumption DEF TypeOK, Marker
  <2> QED
    BY <2>1, <2>2 DEF LandInv, Owing, ReadyMeansLanded, Surveying
<1> QED
  BY <1>2, <1>3, <1>4, <1>5, <1>6, <1>7, <1>8, <1>9, <1>10, <1>11, <1>12, <1>13, <1>14, <1>15
     DEF Next, Step

(* The draft is handed over with nothing left to answer only when the      *)
(* newest round reached the pull request: what a crash, a failed push or   *)
(* a refused merge cost is owed in the marker, which outlives the process. *)
THEOREM HandoverIsFinished == Spec => []ReadyMeansLanded
<1>1. Init => LandInv
  BY DEF Init, LandInv, Owing, ReadyMeansLanded, NoMarker
<1>2. LandInv => ReadyMeansLanded
  BY DEF LandInv
<1> QED
  BY <1>1, <1>2, InitBudget, BudgetStep, LandStep, PTL DEF Spec
=============================================================================
