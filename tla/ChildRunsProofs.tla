-------------------------- MODULE ChildRunsProofs --------------------------
(***************************************************************************)
(* Theorems about ChildRuns for every budget, every watchdog interval and  *)
(* every number and length of sleeps.  The watchdog cannot see a sleep; it *)
(* sees a late tick.  That what it then credits is fair to the child       *)
(* (CreditInv) and still cuts it off (CutInv) are two bounds on the same   *)
(* sums, one from each side, each with a form for the time between a sleep *)
(* and the tick that notices it.                                           *)
(***************************************************************************)
EXTENDS ChildRuns, TLAPS

LEMMA TickIsNat == Tick \in Nat /\ Tick > 0
<1>. DEFINE smaller == IF IdleMs <= MaxRunMs THEN IdleMs ELSE MaxRunMs
            half == smaller \div 2
<1>1. smaller \in Nat
  BY BudgetAssumption
<1>2. half \in Nat
  <2>. HIDE DEF smaller
  <2>. QED BY <1>1
<1>. DEFINE wanted == IF half <= Interval THEN half ELSE Interval
<1>3. Tick = IF wanted >= MinInterval THEN wanted ELSE MinInterval
  BY DEF Tick
<1>4. wanted \in Nat
  <2>. HIDE DEF half
  <2>. QED BY <1>2, BudgetAssumption
<1>. HIDE DEF wanted
<1>. QED BY <1>3, <1>4, BudgetAssumption

LEMMA SlackBounds ==
    /\ Slack \in Nat /\ Tick <= Slack /\ SleepDrift <= Slack
    /\ \A n \in Nat : n * Slack \in Nat /\ (n + 1) * Slack = n * Slack + Slack
<1>1. Slack \in Nat /\ Tick <= Slack /\ SleepDrift <= Slack
  BY TickIsNat, BudgetAssumption DEF Slack
<1>. QED BY <1>1

---------------------------------------------------------------------------
(* Types.                                                                  *)
LEMMA TypeFields ==
    ASSUME TypeOK
    PROVE  /\ now \in Nat /\ watch.tick \in Nat /\ watch.activity \in Nat /\ watch.slept \in Nat
           /\ awake.total \in Nat /\ awake.silent \in Nat
           /\ awake.since = None \/ awake.since \in Nat
           /\ naps.count \in Nat /\ naps.count <= MaxNaps /\ naps.lost \in Nat /\ naps.early \in BOOLEAN
           /\ Drift \in Int /\ DriftDue \in BOOLEAN
BY TickIsNat, BudgetAssumption DEF TypeOK, None, Drift, DriftDue

LEMMA FinishTypes ==
    ASSUME TypeOK, NEW o \in Outcomes, Finish(o)
    PROVE  outcome' \in Outcomes
BY DEF TypeOK, Finish

LEMMA HeardTypes ==
    ASSUME TypeOK, Heard
    PROVE  /\ watch' \in [tick : Nat, activity : Nat, slept : Nat]
           /\ awake' \in [total : Nat, silent : Nat, since : Nat \cup {None}]
           /\ naps' \in [count : 0..MaxNaps, lost : Nat, early : BOOLEAN]
BY DEF TypeOK, Heard, DriftDue

LEMMA LaterTypes ==
    ASSUME TypeOK, NEW n \in Nat
    PROVE  Later(n) \in Nat \cup {None}
BY TypeFields, TickIsNat DEF Later

LEMMA TypeInit == Init => TypeOK
<1>. SUFFICES ASSUME Init PROVE TypeOK
  OBVIOUS
<1>1. child \in [alive : BOOLEAN, heirs : BOOLEAN, deaf : BOOLEAN]
  BY DEF Init
<1>2. awake \in [total : Nat, silent : Nat, since : Nat \cup {None}] /\ killAt \in Nat \cup {None}
  BY DEF Init
<1>3. naps \in [count : 0..MaxNaps, lost : Nat, early : BOOLEAN]
  <2>1. 0 \in 0..MaxNaps
    BY BudgetAssumption
  <2>. QED BY <2>1 DEF Init
<1>4. watch \in [tick : Nat, activity : Nat, slept : Nat]
  BY DEF Init
<1>. QED BY <1>1, <1>2, <1>3, <1>4 DEF Init, TypeOK, Outcomes

LEMMA TypeStep == TypeOK /\ [Next]_vars => TypeOK'
<1>. SUFFICES ASSUME TypeOK, [Next]_vars PROVE TypeOK'
  OBVIOUS
<1>1. CASE NeverStarts \/ Abort
  <2>1. outcome' \in Outcomes
    BY <1>1, FinishTypes DEF NeverStarts, Abort, Outcomes
  <2>. QED BY <1>1, <2>1 DEF NeverStarts, Abort, Kill, TypeOK
<1>2. CASE Chatter
  BY <1>2, HeardTypes DEF Chatter, TypeOK
<1>3. CASE InitEvent
  <2>1. /\ stream' \in [servers : {"unseen", "connected", "missing"}, failure : BOOLEAN, parsed : BOOLEAN]
        /\ asked' \in BOOLEAN /\ said' \in [missing : BOOLEAN, refused : BOOLEAN]
    BY <1>3 DEF InitEvent, TypeOK
  <2>. QED BY <1>3, <2>1, HeardTypes DEF InitEvent, TypeOK
<1>4. CASE ResultEvent
  <2>1. /\ stream' \in [servers : {"unseen", "connected", "missing"}, failure : BOOLEAN, parsed : BOOLEAN]
        /\ said' \in [missing : BOOLEAN, refused : BOOLEAN]
    BY <1>4 DEF ResultEvent, TypeOK
  <2>. QED BY <1>4, <2>1, HeardTypes DEF ResultEvent, TypeOK
<1>5. CASE Forks \/ Exits \/ HeirExits
  BY <1>5 DEF Forks, Exits, HeirExits, TypeOK
<1>6. CASE Close
  <2>1. outcome' \in Outcomes
    BY <1>6, FinishTypes DEF Close, Verdict, Outcomes
  <2>. QED BY <1>6, <2>1 DEF Close, TypeOK
<1>7. CASE WakeTick
  <2>1. Drift \in Nat
    BY <1>7, TypeFields, BudgetAssumption DEF WakeTick, DriftDue, Drift
  <2>2. watch' \in [tick : Nat, activity : Nat, slept : Nat]
    <3>1. watch' = [tick |-> now, activity |-> watch.activity + Drift, slept |-> watch.slept + Drift]
      BY <1>7 DEF WakeTick, Credit, TypeOK
    <3>. QED BY <2>1, <3>1, TypeFields
  <2>. QED BY <1>7, <2>2 DEF WakeTick, TypeOK
<1>8. CASE WatchTick
  <2>1. outcome' \in Outcomes /\ child' \in [alive : BOOLEAN, heirs : BOOLEAN, deaf : BOOLEAN]
    BY <1>8, FinishTypes DEF WatchTick, Kill, Outcomes, TypeOK
  <2>. QED BY <1>8, <2>1 DEF WatchTick, TypeOK
<1>9. CASE TermTimer
  BY <1>9, BudgetAssumption DEF TermTimer, TypeOK
<1>10. CASE KillTimer
  BY <1>10 DEF KillTimer, Kill, TypeOK
<1>11. CASE Clock
  <2>1. awake' \in [total : Nat, silent : Nat, since : Nat \cup {None}]
    BY <1>11, LaterTypes, TypeFields DEF Clock
  <2>. QED BY <1>11, <2>1 DEF Clock, TypeOK
<1>12. CASE Nap
  <2>1. PICK n \in NapLengths :
           /\ now' = now + n
           /\ awake' = [awake EXCEPT !.since = IF LongNap(n) THEN 0 ELSE Later(n)]
           /\ naps' = [naps EXCEPT !.count = @ + 1, !.lost = @ + IF LongNap(n) THEN Tick ELSE n]
    BY <1>12 DEF Nap
  <2>2. n \in Nat /\ Later(n) \in Nat \cup {None}
    BY BudgetAssumption, LaterTypes
  <2>3. now' \in Nat /\ awake' \in [total : Nat, silent : Nat, since : Nat \cup {None}]
    BY <2>1, <2>2 DEF TypeOK
  <2>4. naps' \in [count : 0..MaxNaps, lost : Nat, early : BOOLEAN]
    <3>. DEFINE more == IF LongNap(n) THEN Tick ELSE n
    <3>1. naps.count + 1 \in 0..MaxNaps /\ naps.lost + more \in Nat
      BY <1>12, <2>2, TypeFields, TickIsNat, BudgetAssumption DEF Nap
    <3>2. naps' = [naps EXCEPT !.count = @ + 1, !.lost = @ + more]
      BY <2>1
    <3>. HIDE DEF more
    <3>. QED BY <3>1, <3>2 DEF TypeOK
  <2>. QED BY <1>12, <2>3, <2>4 DEF Nap, TypeOK
<1>13. CASE UNCHANGED vars
  BY <1>13 DEF vars, TypeOK
<1>. QED BY <1>1, <1>2, <1>3, <1>4, <1>5, <1>6, <1>7, <1>8, <1>9, <1>10, <1>11, <1>12, <1>13 DEF Next, Timers

(* Every state has its types, at every budget (session.ts, exec.ts).       *)
THEOREM ChildTypeCorrect == Spec => []TypeOK
BY TypeInit, TypeStep, PTL DEF Spec

---------------------------------------------------------------------------
(* The answer.  A caller is told something only when the child is gone, so *)
(* nothing is said after it; and whatever spoils an answer is kept.        *)
EndInv ==
    /\ Settled => ~child.alive
    /\ outcome \in {"value", "failed", "exited", "timedOut"} => Closed
    /\ said.missing \/ said.refused => stream.failure
    /\ ReportIsTrue

LEMMA EndStep == TypeOK /\ EndInv /\ [Next]_vars => EndInv'
<1>. SUFFICES ASSUME TypeOK, EndInv, [Next]_vars PROVE EndInv'
  OBVIOUS
<1>. USE DEF EndInv, ReportIsTrue, Settled, Closed
<1>1. CASE NeverStarts \/ Abort
  <2>1. outcome' \in {"aborted", "error"} /\ ~child'.alive /\ UNCHANGED <<said, stream>>
    BY <1>1 DEF NeverStarts, Abort, Finish, Kill, TypeOK
  <2>. QED BY <2>1
<1>2. CASE Chatter
  BY <1>2 DEF Chatter
<1>3. CASE InitEvent
  <2>1. child.alive /\ UNCHANGED <<child, outcome>>
    BY <1>3 DEF InitEvent, Speaks
  <2>2. said'.missing \/ said'.refused => stream'.failure
    BY <1>3 DEF InitEvent, TypeOK
  <2>. QED BY <2>1, <2>2 DEF TypeOK
<1>4. CASE ResultEvent
  <2>1. child.alive /\ UNCHANGED <<child, outcome>>
    BY <1>4 DEF ResultEvent, Speaks
  <2>2. said'.missing \/ said'.refused => stream'.failure
    BY <1>4 DEF ResultEvent, TypeOK
  <2>. QED BY <2>1, <2>2 DEF TypeOK
<1>5. CASE Forks \/ Exits \/ HeirExits
  BY <1>5 DEF Forks, Exits, HeirExits, TypeOK
<1>6. CASE Close
  <2>1. Closed /\ UNCHANGED <<child, said, stream>>
    BY <1>6 DEF Close
  <2>2. outcome' = outcome \/ outcome' \in {"exited", "timedOut", "failed"}
        \/ (outcome' = "value" /\ ~stream.failure)
    BY <1>6 DEF Close, Finish, Verdict
  <2>. QED BY <2>1, <2>2
<1>7. CASE WatchTick
  <2>1. UNCHANGED <<child, outcome>> \/ (outcome' \in {"idle", "total"} /\ ~child'.alive)
    BY <1>7 DEF WatchTick, TickDue, Finish, Kill, TypeOK
  <2>2. UNCHANGED <<said, stream>>
    BY <1>7 DEF WatchTick
  <2>. QED BY <2>1, <2>2
<1>8. CASE WakeTick \/ TermTimer \/ Clock \/ Nap
  BY <1>8 DEF WakeTick, TermTimer, Clock, Nap
<1>9. CASE KillTimer
  <2>1. UNCHANGED <<outcome, said, stream>> /\ outcome = "none" /\ ~child'.alive
    BY <1>9 DEF KillTimer, KillDue, Kill, TypeOK
  <2>. QED BY <2>1
<1>10. CASE UNCHANGED vars
  BY <1>10 DEF vars
<1>. QED BY <1>1, <1>2, <1>3, <1>4, <1>5, <1>6, <1>7, <1>8, <1>9, <1>10 DEF Next, Timers

LEMMA EndInvariant == Spec => [](TypeOK /\ EndInv)
<1>1. Init => TypeOK /\ EndInv
  <2>1. Init => EndInv
    BY DEF Init, EndInv, ReportIsTrue, Settled, Closed
  <2>. QED BY <2>1, TypeInit
<1>2. TypeOK /\ EndInv /\ [Next]_vars => TypeOK' /\ EndInv'
  BY TypeStep, EndStep
<1>. QED BY <1>1, <1>2, PTL DEF Spec

(* What the caller is told is so, whatever the child does and in whatever  *)
(* order its events, its end and the timers come (session.ts, exec.ts).    *)
THEOREM ReportsTrue == Spec => []ReportIsTrue
<1>1. EndInv => ReportIsTrue
  BY DEF EndInv
<1>. QED BY <1>1, EndInvariant, PTL

---------------------------------------------------------------------------
(* The watchdog's sums.  A session that runs is between two ticks: its     *)
(* ledger is looked at as of the last one, and the tick's own length, at   *)
(* most, has passed awake since.                                           *)
Running == kind = "session" /\ ~Settled
Sums == <<now, watch, awake, naps>>

(* What a step of a running session does to its sums.                      *)
HeardNow ==
    /\ now' = now /\ watch'.tick = watch.tick /\ watch'.slept = watch.slept /\ watch'.activity = now
    /\ awake'.total = awake.total /\ awake'.since = awake.since /\ awake'.silent = 0
    /\ naps'.count = naps.count /\ naps'.lost = naps.lost
    /\ naps'.early = (naps.early \/ DriftDue)
Credited ==
    /\ DriftDue /\ now' = now /\ UNCHANGED <<awake, naps>>
    /\ watch'.tick = now
    /\ watch'.slept = watch.slept + Drift /\ watch'.activity = watch.activity + Drift
Judged ==
    /\ ~DriftDue /\ ~IsIdle /\ ~IsLong /\ now' = now /\ UNCHANGED <<awake, naps>>
    /\ watch'.tick = now /\ watch'.slept = watch.slept /\ watch'.activity = watch.activity
ClockMoved ==
    /\ now < watch.tick + Tick /\ now' = now + 1 /\ UNCHANGED <<watch, naps>>
    /\ awake'.total = awake.total + 1 /\ awake'.silent = awake.silent + 1 /\ awake'.since = Later(1)
Slept(n) ==
    /\ now' = now + n /\ UNCHANGED watch
    /\ awake'.total = awake.total /\ awake'.silent = awake.silent
    /\ awake'.since = IF LongNap(n) THEN 0 ELSE Later(n)
    /\ naps'.count = naps.count + 1 /\ naps'.early = naps.early
    /\ naps'.lost = naps.lost + IF LongNap(n) THEN Tick ELSE n

LEMMA RunningSteps ==
    ASSUME TypeOK, EndInv, [Next]_vars, Running'
    PROVE  /\ Running
           /\ UNCHANGED Sums \/ HeardNow \/ Credited \/ Judged \/ ClockMoved \/ \E n \in NapLengths : Slept(n)
<1>. USE DEF Running, Sums, Settled
<1>1. CASE NeverStarts \/ Close \/ Abort
  BY <1>1 DEF NeverStarts, Close, Abort, Finish, Verdict, Settled, Outcomes
<1>2. CASE Chatter \/ InitEvent \/ ResultEvent
  <2>1. Heard /\ UNCHANGED <<kind, now, outcome>>
    BY <1>2 DEF Chatter, InitEvent, ResultEvent
  <2>. QED BY <2>1 DEF Heard, HeardNow, TypeOK
<1>3. CASE Forks \/ Exits \/ HeirExits \/ TermTimer \/ KillTimer
  BY <1>3 DEF Forks, Exits, HeirExits, TermTimer, KillTimer
<1>4. CASE WakeTick
  BY <1>4 DEF WakeTick, Credit, Credited, TypeOK
<1>5. CASE WatchTick
  <2>1. ~IsIdle /\ ~IsLong /\ UNCHANGED <<kind, outcome>>
    BY <1>5 DEF WatchTick, Finish
  <2>. QED BY <1>5, <2>1 DEF WatchTick, Judged, TypeOK
<1>6. CASE Clock
  <2>1. kind = "session" /\ outcome = "none" /\ ~TickDue
    BY <1>6 DEF Clock
  <2>2. now < watch.tick + Tick
    BY <2>1, TypeFields, TickIsNat DEF TickDue
  <2>. QED BY <1>6, <2>2 DEF Clock, ClockMoved
<1>7. CASE Nap
  <2>1. PICK n \in NapLengths :
           /\ now' = now + n
           /\ awake' = [awake EXCEPT !.since = IF LongNap(n) THEN 0 ELSE Later(n)]
           /\ naps' = [naps EXCEPT !.count = @ + 1, !.lost = @ + IF LongNap(n) THEN Tick ELSE n]
    BY <1>7 DEF Nap
  <2>2. Slept(n)
    BY <1>7, <2>1 DEF Nap, Slept, TypeOK
  <2>. QED BY <1>7, <2>2 DEF Nap
<1>8. CASE UNCHANGED vars
  BY <1>8 DEF vars
<1>. QED BY <1>1, <1>2, <1>3, <1>4, <1>5, <1>6, <1>7, <1>8 DEF Next, Timers

(* Fair: what the ledger counts as the child's was spent awake, but for    *)
(* what short sleeps lost, and a tick for each long one.  Once a sleep     *)
(* shows, what the coming credit will leave is no more.                    *)
CreditInv ==
    Running =>
        /\ watch.tick <= now
        /\ ~DriftDue => /\ now - watch.activity <= awake.silent + naps.lost
                        /\ now - watch.slept <= awake.total + naps.lost
        /\ DriftDue => /\ watch.tick - watch.activity + Tick <= awake.silent + naps.lost
                       /\ watch.tick - watch.slept + Tick <= awake.total + naps.lost
        /\ awake.since # None => DriftDue \/ awake.since >= now - watch.tick

LEMMA CreditRuns ==
    ASSUME TypeOK, TypeOK', CreditInv, Running, Running',
           UNCHANGED Sums \/ HeardNow \/ Credited \/ Judged \/ ClockMoved \/ \E n \in NapLengths : Slept(n)
    PROVE  CreditInv'
<1>0. Tick \in Nat /\ Tick > 0 /\ SleepDrift \in Nat /\ SleepDrift > 0
  BY TickIsNat, BudgetAssumption
<1>1. CASE UNCHANGED Sums
  BY <1>1 DEF Sums, CreditInv, DriftDue, Running
<1>2. CASE HeardNow
  BY <1>0, <1>2, TypeFields DEF HeardNow, CreditInv, DriftDue
<1>3. CASE Credited
  BY <1>0, <1>3, TypeFields DEF Credited, CreditInv, DriftDue, Drift, None
<1>4. CASE Judged
  BY <1>0, <1>4, TypeFields DEF Judged, CreditInv, DriftDue, None
<1>5. CASE ClockMoved
  BY <1>0, <1>5, TypeFields DEF ClockMoved, CreditInv, DriftDue, Later, None
<1>6. ASSUME NEW n \in NapLengths, Slept(n)
      PROVE  CreditInv'
  <2>1. n \in Nat /\ n > 0
    BY BudgetAssumption
  <2>2. CASE LongNap(n)
    BY <1>0, <1>6, <2>1, <2>2, TypeFields DEF Slept, LongNap, CreditInv, DriftDue
  <2>3. CASE ~LongNap(n)
    BY <1>0, <1>6, <2>1, <2>3, TypeFields DEF Slept, LongNap, CreditInv, DriftDue, Later, None
  <2>. QED BY <2>2, <2>3
<1>. QED BY <1>1, <1>2, <1>3, <1>4, <1>5, <1>6

LEMMA CreditStep == TypeOK /\ EndInv /\ CreditInv /\ [Next]_vars => CreditInv'
<1>. SUFFICES ASSUME TypeOK, EndInv, CreditInv, [Next]_vars, Running' PROVE CreditInv'
  BY DEF CreditInv
<1>. QED BY TypeStep, RunningSteps, CreditRuns

(* A verdict is passed in a tick alone, and then the sums stand.           *)
LEMMA CutByTick ==
    ASSUME TypeOK, EndInv, [Next]_vars, outcome' \in {"idle", "total"}
    PROVE  \/ outcome' = outcome /\ UNCHANGED <<awake, naps>>
           \/ /\ Running /\ TickDue /\ ~DriftDue /\ UNCHANGED <<awake, naps>>
              /\ outcome' = "idle" => IsIdle
              /\ outcome' = "total" => IsLong
<1>1. CASE NeverStarts \/ Close \/ Abort
  BY <1>1 DEF NeverStarts, Close, Abort, Finish, Verdict
<1>2. CASE Chatter \/ InitEvent \/ ResultEvent
  <2>1. child.alive /\ UNCHANGED outcome
    BY <1>2 DEF Chatter, InitEvent, ResultEvent, Speaks
  <2>. QED BY <2>1 DEF EndInv, Settled
<1>3. CASE Forks \/ Exits \/ HeirExits \/ TermTimer \/ KillTimer \/ WakeTick
  BY <1>3 DEF Forks, Exits, HeirExits, TermTimer, KillTimer, WakeTick
<1>4. CASE WatchTick
  BY <1>4 DEF WatchTick, TickDue, Running, Finish
<1>5. CASE Clock \/ Nap
  <2>1. outcome = "none" /\ UNCHANGED outcome
    BY <1>5 DEF Clock, Nap, Pending, Settled
  <2>. QED BY <2>1
<1>6. CASE UNCHANGED vars
  BY <1>6 DEF vars
<1>. QED BY <1>1, <1>2, <1>3, <1>4, <1>5, <1>6 DEF Next, Timers

LEMMA SleepStep ==
    TypeOK /\ EndInv /\ CreditInv /\ SleepIsNotSilence /\ [Next]_vars => SleepIsNotSilence'
<1>. SUFFICES ASSUME TypeOK, EndInv, CreditInv, SleepIsNotSilence, [Next]_vars, outcome' \in {"idle", "total"}
              PROVE  SleepIsNotSilence'
  BY DEF SleepIsNotSilence
<1>1. CASE outcome' = outcome /\ UNCHANGED <<awake, naps>>
  BY <1>1 DEF SleepIsNotSilence
<1>2. CASE /\ Running /\ TickDue /\ ~DriftDue /\ UNCHANGED <<awake, naps>>
           /\ outcome' = "idle" => IsIdle
           /\ outcome' = "total" => IsLong
  <2>1. /\ now - watch.activity <= awake.silent + naps.lost
        /\ now - watch.slept <= awake.total + naps.lost
        /\ awake.since # None => awake.since >= now - watch.tick
    BY <1>2 DEF CreditInv
  <2>2. now - watch.tick >= Tick
    BY <1>2, TypeFields, TickIsNat DEF TickDue
  <2>3. awake.since = None \/ awake.since >= Tick
    BY <2>1, <2>2, TypeFields, TickIsNat
  <2>4. /\ outcome' = "idle" => awake.silent + naps.lost >= IdleMs
        /\ outcome' = "total" => awake.total + naps.lost >= MaxRunMs
    BY <1>2, <2>1, TypeFields, BudgetAssumption DEF IsIdle, IsLong
  <2>. QED BY <1>2, <2>3, <2>4 DEF SleepIsNotSilence
<1>. QED BY <1>1, <1>2, CutByTick

LEMMA SumsInit ==
    ASSUME Init
    PROVE  /\ now = 0 /\ watch.tick = 0 /\ watch.activity = 0 /\ watch.slept = 0
           /\ awake.total = 0 /\ awake.silent = 0 /\ awake.since = None
           /\ naps.count = 0 /\ naps.lost = 0 /\ ~DriftDue /\ outcome = "none"
<1>1. /\ now = 0 /\ watch.tick = 0 /\ watch.activity = 0 /\ watch.slept = 0
      /\ awake.total = 0 /\ awake.silent = 0 /\ awake.since = None
      /\ naps.count = 0 /\ naps.lost = 0 /\ outcome = "none"
  BY DEF Init
<1>. QED BY <1>1, TickIsNat, BudgetAssumption DEF DriftDue

LEMMA CreditInvariant == Spec => [](TypeOK /\ EndInv /\ CreditInv /\ SleepIsNotSilence)
<1>. DEFINE Inv == TypeOK /\ EndInv /\ CreditInv /\ SleepIsNotSilence
<1>1. Init => CreditInv /\ SleepIsNotSilence
  BY SumsInit DEF CreditInv, SleepIsNotSilence, None
<1>2. CreditInv /\ SleepIsNotSilence /\ TypeOK /\ EndInv /\ [Next]_vars => CreditInv' /\ SleepIsNotSilence'
  BY CreditStep, SleepStep
<1>. QED BY <1>1, <1>2, EndInvariant, PTL DEF Spec

(* No child is judged on the machine's sleep, nor in the tick that follows *)
(* one long enough to notice, however the sleeps and its words fall        *)
(* between the ticks (session.ts, the watchdog).                           *)
THEOREM SleepIsNeverSilence == Spec => []SleepIsNotSilence
BY CreditInvariant, PTL

---------------------------------------------------------------------------
(* Firm: at the last tick the ledger was within its budget, but for a      *)
(* tick's length each time a sleep kept it from judging.  A sleep that     *)
(* shows has one to come, which is held back for it.  The silence may run  *)
(* ahead of the ledger by a drift too small to notice, of a word that came *)
(* after a short sleep and before the tick; that sleep had none to come.   *)
Spare == naps.count * Slack
Due == IF DriftDue THEN Slack ELSE 0
Waited == IF now - watch.tick <= Tick THEN now - watch.tick ELSE Tick
Worked == watch.tick - watch.slept
Quieted == watch.tick - watch.activity
CutInv ==
    Running =>
        /\ watch.tick <= now
        /\ now - watch.tick > Tick => naps.count > 0
        /\ awake.total <= Worked + Waited
        /\ Worked + Due <= MaxRunMs + Spare
        /\ ~naps.early =>
             /\ Quieted + Due <= IdleMs + Spare
             /\ \/ awake.silent <= Quieted + Waited
                \/ /\ awake.silent <= Quieted + Waited + SleepDrift
                   /\ Quieted + Due + Slack <= IdleMs + Spare
                   /\ naps.count > 0

LEMMA SpareGrows ==
    ASSUME TypeOK
    PROVE  /\ Spare \in Nat /\ (naps.count > 0 => Spare >= Slack)
           /\ naps'.count = naps.count => Spare' = Spare
           /\ naps'.count = naps.count + 1 => Spare' = Spare + Slack
<1>1. naps.count \in Nat /\ Slack \in Nat
  BY TypeFields, SlackBounds
<1>2. naps.count > 0 => naps.count * Slack >= Slack
  <2>1. ASSUME naps.count > 0 PROVE naps.count * Slack = (naps.count - 1) * Slack + Slack /\ (naps.count - 1) * Slack \in Nat
    <3>1. naps.count - 1 \in Nat /\ (naps.count - 1) + 1 = naps.count
      BY <1>1, <2>1
    <3>. QED BY <3>1, SlackBounds
  <2>. QED BY <1>1, <2>1
<1>3. Slack' = Slack
  BY DEF Slack, Tick
<1>4. ASSUME naps'.count = naps.count + 1 PROVE Spare' = Spare + Slack
  <2>1. Spare' = (naps.count + 1) * Slack
    BY <1>3, <1>4 DEF Spare
  <2>. QED BY <1>1, <2>1, SlackBounds DEF Spare
<1>. QED BY <1>1, <1>2, <1>3, <1>4, SlackBounds DEF Spare

LEMMA CutRuns ==
    ASSUME TypeOK, TypeOK', CutInv, Running, Running',
           UNCHANGED Sums \/ HeardNow \/ Credited \/ Judged \/ ClockMoved \/ \E n \in NapLengths : Slept(n)
    PROVE  CutInv'
<1>0. /\ Tick \in Nat /\ Tick > 0 /\ SleepDrift \in Nat /\ SleepDrift > 0
      /\ Slack \in Nat /\ Tick <= Slack /\ SleepDrift <= Slack
      /\ IdleMs \in Nat /\ MaxRunMs \in Nat /\ IdleMs > 0 /\ MaxRunMs > 0
  BY TickIsNat, SlackBounds, BudgetAssumption
<1>00. /\ Spare \in Nat /\ (naps.count > 0 => Spare >= Slack)
       /\ naps'.count = naps.count => Spare' = Spare
       /\ naps'.count = naps.count + 1 => Spare' = Spare + Slack
       /\ Slack' = Slack
  BY SpareGrows DEF Slack, Tick
<1>. USE DEF Worked, Quieted, Waited, Due
<1>1. CASE UNCHANGED Sums
  <2>1. naps'.count = naps.count
    BY <1>1 DEF Sums
  <2>. QED BY <1>00, <1>1, <2>1 DEF Sums, CutInv, DriftDue
<1>2. CASE HeardNow
  <2>1. /\ DriftDue' <=> DriftDue
        /\ now' = now /\ watch'.tick = watch.tick /\ awake'.total = awake.total /\ watch'.slept = watch.slept
        /\ naps'.count = naps.count
        /\ awake'.silent = 0 /\ watch'.activity = now
    BY <1>2 DEF HeardNow, DriftDue
  <2>2. ~naps'.early => ~naps.early /\ ~DriftDue
    BY <1>2 DEF HeardNow
  <2>. DEFINE First ==
           /\ watch.tick <= now
           /\ now - watch.tick > Tick => naps.count > 0
           /\ awake.total <= Worked + Waited
           /\ Worked + Due <= MaxRunMs + Spare
  <2>3. First'
    BY <1>0, <1>00, <2>1 DEF CutInv
  <2>4. ASSUME ~DriftDue
        PROVE  /\ (Quieted + Due <= IdleMs + Spare)'
               /\ \/ (awake.silent <= Quieted + Waited)'
                  \/ /\ (awake.silent <= Quieted + Waited + SleepDrift)'
                     /\ (Quieted + Due + Slack <= IdleMs + Spare)'
                     /\ (naps.count > 0)'
    BY <1>0, <1>00, <2>1, <2>4, TypeFields DEF CutInv, DriftDue
  <2>. QED BY <2>2, <2>3, <2>4 DEF CutInv
<1>3. CASE Credited
  BY <1>0, <1>00, <1>3, TypeFields DEF Credited, CutInv, DriftDue, Drift
<1>4. CASE Judged
  BY <1>0, <1>00, <1>4, TypeFields DEF Judged, CutInv, DriftDue, IsIdle, IsLong
<1>5. CASE ClockMoved
  BY <1>0, <1>00, <1>5, TypeFields DEF ClockMoved, CutInv, DriftDue
<1>6. ASSUME NEW n \in NapLengths, Slept(n)
      PROVE  CutInv'
  <2>1. n \in Nat /\ n > 0
    BY BudgetAssumption
  <2>. QED BY <1>0, <1>00, <1>6, <2>1, TypeFields DEF Slept, CutInv, DriftDue
<1>. QED BY <1>1, <1>2, <1>3, <1>4, <1>5, <1>6

LEMMA CutStep == TypeOK /\ EndInv /\ CutInv /\ [Next]_vars => CutInv'
<1>. SUFFICES ASSUME TypeOK, EndInv, CutInv, [Next]_vars, Running' PROVE CutInv'
  BY DEF CutInv
<1>. QED BY TypeStep, RunningSteps, CutRuns

(* No child outlives its ceiling, or its silence limit, by more than a     *)
(* tick and what each sleep allows, whatever it says or leaves unsaid      *)
(* (session.ts, the watchdog).                                             *)
THEOREM EveryRunIsCut == Spec => []RunIsCut
<1>1. Init => CutInv
  <2>. SUFFICES ASSUME Init PROVE CutInv
    OBVIOUS
  <2>1. TypeOK /\ Spare \in Nat /\ Tick \in Nat
    BY TypeInit, SpareGrows, TickIsNat
  <2>. QED BY <2>1, SumsInit, BudgetAssumption DEF CutInv, Due, Waited, Worked, Quieted
<1>2. TypeOK /\ EndInv /\ CutInv => RunIsCut
  <2>. SUFFICES ASSUME TypeOK, CutInv, Running
                PROVE  /\ awake.total <= MaxRunMs + Late
                       /\ ~naps.early => awake.silent <= IdleMs + Late
    BY DEF RunIsCut, Running
  <2>1. Late = Spare + Slack /\ Spare \in Nat
    BY TypeFields, SlackBounds, SpareGrows DEF Late, Spare
  <2>2. Waited \in Nat /\ Waited <= Tick /\ Due >= 0 /\ Tick <= Slack /\ SleepDrift <= Slack
    BY TypeFields, TickIsNat, SlackBounds DEF Waited, Due, CutInv
  <2>3. Worked \in Int /\ Quieted \in Int /\ Due \in Int
    BY TypeFields, SlackBounds DEF Worked, Quieted, Due
  <2>. QED BY <2>1, <2>2, <2>3, TypeFields, TickIsNat, SlackBounds, BudgetAssumption DEF CutInv
<1>3. CutInv /\ TypeOK /\ EndInv /\ [Next]_vars => CutInv'
  BY CutStep
<1>. QED BY <1>1, <1>2, <1>3, EndInvariant, PTL DEF Spec
=============================================================================
