-------------------------- MODULE SolveQueueProofs --------------------------
(***************************************************************************)
(* Theorems about SolveQueue for every set of tickets and runners, every   *)
(* limit and every choice of faults: its types; the safety that holds for  *)
(* any number of runners racing over the same tickets; and the safety that *)
(* needs one runner.                                                       *)
(***************************************************************************)
EXTENDS SolveQueue, FiniteSetTheorems, WellFoundedInduction, TLAPS

(* The label edits are edits, and applying one leaves a label set.         *)
LEMMA EditTypes ==
    /\ NoEdit \in LabelEdit
    /\ \A ls \in SUBSET Label : ClaimEdit(ls) \in LabelEdit
    /\ \A b, a \in SUBSET Label : ReleaseEdit(b, a) \in LabelEdit
    /\ \A g \in Goal, ls \in SUBSET Label : MoveEdit(g, ls) \in LabelEdit
    /\ \A ls \in SUBSET Label, e \in LabelEdit : ApplyEdit(ls, e) \in SUBSET Label
<1>1. NoEdit \in LabelEdit
  BY DEF NoEdit, Edit, LabelEdit
<1>2. \A ls \in SUBSET Label : ClaimEdit(ls) \in LabelEdit
  BY DEF ClaimEdit, Edit, LabelEdit, Label, AgentLabel
<1>3. \A b, a \in SUBSET Label : ReleaseEdit(b, a) \in LabelEdit
  BY DEF ReleaseEdit, Edit, LabelEdit
<1>4. \A g \in Goal, ls \in SUBSET Label : MoveEdit(g, ls) \in LabelEdit
  BY DEF MoveEdit, Edit, LabelEdit, Label, AgentLabel, Goal, UnderReview
<1>5. \A ls \in SUBSET Label, e \in LabelEdit : ApplyEdit(ls, e) \in SUBSET Label
  BY DEF ApplyEdit, LabelEdit
<1> QED
  BY <1>1, <1>2, <1>3, <1>4, <1>5

(* A write keeps the board well typed.                                     *)
LEMMA WriteTypes ==
    ASSUME TypeOK, NEW t \in Tickets, NEW e \in LabelEdit, Write(t, e)
    PROVE  /\ labels' \in [Tickets -> SUBSET Label]
           /\ older' \in [Tickets -> SUBSET Tickets]
<1>1. ApplyEdit(labels[t], e) \in SUBSET Label
  BY EditTypes DEF TypeOK, RunnersTyped
<1>2. labels' \in [Tickets -> SUBSET Label]
  BY <1>1 DEF TypeOK, RunnersTyped, Write
<1>3. older' \in [Tickets -> SUBSET Tickets]
  BY DEF TypeOK, RunnersTyped, Write
<1> QED
  BY <1>2, <1>3

LEMMA AnsweredTypes ==
    ASSUME TypeOK, NEW t \in Tickets, NEW e \in LabelEdit,
           WriteAnswered(t, e) \/ WriteErred(t, e)
    PROVE  /\ labels' \in [Tickets -> SUBSET Label]
           /\ older' \in [Tickets -> SUBSET Tickets]
           /\ faults' \in Nat
<1>1. CASE Write(t, e)
  BY <1>1, WriteTypes DEF TypeOK, RunnersTyped, WriteAnswered, WriteErred, Fail
<1>2. CASE UNCHANGED <<labels, older>>
  BY <1>2 DEF TypeOK, RunnersTyped, WriteAnswered, WriteErred, Fail
<1> QED
  BY <1>1, <1>2 DEF WriteAnswered, WriteErred

(* The number of tickets being solved is a number.                         *)
LEMMA SolvingCount == Cardinality(Solving) \in Nat
  BY TicketsAssumption, FS_Subset, FS_CardinalityType DEF Solving

LEMMA NoRungType == NoRung \in Rung
  BY EditTypes DEF NoRung, Rung

LEMMA InitTypes == Init => TypeOK
<1> SUFFICES ASSUME Init PROVE TypeOK
  OBVIOUS
<1>0. {{"solvable"}, {"solvable", "start"}} \subseteq SUBSET Label
  BY DEF Label, AgentLabel
<1>1. labels \in [Tickets -> SUBSET Label]
  BY <1>0 DEF Init
<1>2. rung \in [Runners -> Rung]
  BY NoRungType DEF Init
<1>3. \A r \in Runners : pc[r] = "idle"
  BY DEF Init
<1>4. pc \in [Runners -> Pc]
  BY DEF Init, Pc
<1>5. grants \in [Tickets -> Nat]
  BY <1>1 DEF Init
<1>6. attempts \in [Runners -> [Tickets -> Nat]]
  BY DEF Init
<1>7. status \in [Tickets -> Stages] /\ pr \in [Tickets -> PrState]
  BY DEF Init, Stages, PrState
<1> QED
  BY <1>1, <1>2, <1>3, <1>4, <1>5, <1>6, <1>7 DEF Init, TypeOK, RunnersTyped, OnTicket, Moving

(***************************************************************************)
(* Type correctness, one action at a time.                                 *)
(***************************************************************************)
LEMMA EndRungsTypes ==
    ASSUME TypeOK, NEW r \in Runners, EndRungs(r)
    PROVE  /\ pc' \in [Runners -> Pc] /\ rung' \in [Runners -> Rung]
           /\ pc'[r] \in {"pick", "idle"}
           /\ \A q \in Runners \ {r} : pc'[q] = pc[q] /\ rung'[q] = rung[q]
<1>1. AfterRungs(r) \in {"pick", "idle"}
  BY DEF AfterRungs
<1> QED
  BY <1>1, NoRungType DEF TypeOK, RunnersTyped, EndRungs, Goto, Pc, OnTicket, Moving

LEMMA SweepTypes ==
    ASSUME TypeOK, NEW r \in Runners,
           \/ SweepFetch(r) \/ LooksDone(r) \/ SettleDone(r)
           \/ \E t \in Tickets : Look(r, t)
    PROVE  TypeOK'
<1>1. CASE SweepFetch(r)
  <2>1. watched' \in [Runners -> SUBSET Tickets]
    <3>1. CASE watched' = watched
      BY <3>1 DEF TypeOK, RunnersTyped
    <3>2. CASE watched' = [watched EXCEPT ![r] = {t \in Tickets : labels[t] \cap UnderReview # {}}]
      BY <3>2 DEF TypeOK, RunnersTyped
    <3> QED
      BY <1>1, <3>1, <3>2 DEF SweepFetch
  <2>4. faults' \in Nat
    BY <1>1 DEF SweepFetch, TypeOK, RunnersTyped, Fail
  <2>2. pc' \in [Runners -> Pc] /\ pc'[r] \in {pc[r], "look"}
    BY <1>1 DEF SweepFetch, TypeOK, RunnersTyped, Goto, Pc, OnTicket, Moving
  <2>3. \A q \in Runners \ {r} : pc'[q] = pc[q]
    BY <1>1 DEF SweepFetch, TypeOK, RunnersTyped, Goto
  <2> QED
    BY <1>1, <2>1, <2>2, <2>3, <2>4 DEF SweepFetch, TypeOK, RunnersTyped, OnTicket, Moving, board, claims, people, history
<1>2. CASE LooksDone(r)
  BY <1>2 DEF LooksDone, TypeOK, RunnersTyped, Goto, Pc, OnTicket, Moving, board, sweep, claims, people, history
<1>3. CASE SettleDone(r)
  BY <1>3 DEF SettleDone, TypeOK, RunnersTyped, Goto, Pc, OnTicket, Moving, board, sweep, claims, people, history
<1>4. ASSUME NEW t \in Tickets, Look(r, t) PROVE TypeOK'
  <2>1. LookGoals(t) \subseteq Goal
    BY DEF LookGoals, UnderReview, Goal
  <2>2. watched' \in [Runners -> SUBSET Tickets]
    BY <1>4 DEF Look, TypeOK, RunnersTyped
  <2>3. settle' \in [Runners -> SUBSET (Tickets \X Goal)]
    BY <1>4, <2>1 DEF Look, TypeOK, RunnersTyped
  <2>4. faults' \in Nat
    BY <1>4 DEF Look, TypeOK, RunnersTyped, Fail
  <2> QED
    BY <1>4, <2>2, <2>3, <2>4 DEF Look, TypeOK, RunnersTyped, board, claims, people, history
<1> QED
  BY <1>1, <1>2, <1>3, <1>4

LEMMA SettleNextTypes ==
    ASSUME TypeOK, NEW r \in Runners, SettleNext(r)
    PROVE  TypeOK'
<1> PICK s \in settle[r] :
      /\ settle' = [settle EXCEPT ![r] = @ \ {s}]
      /\ rung' = [rung EXCEPT ![r] = [NoRung EXCEPT !.at = s[1], !.goal = s[2]]]
      /\ Goto(r, "moveRead")
  BY DEF SettleNext
<1>1. s[1] \in Tickets /\ s[2] \in Goal
  BY DEF TypeOK, RunnersTyped
<1>2. [NoRung EXCEPT !.at = s[1], !.goal = s[2]] \in Rung
  BY <1>1, EditTypes DEF NoRung, Rung
<1>3. rung' \in [Runners -> Rung] /\ rung'[r].at \in Tickets
  BY <1>1, <1>2 DEF TypeOK, RunnersTyped, NoRung
<1>4. settle' \in [Runners -> SUBSET (Tickets \X Goal)]
  BY DEF TypeOK, RunnersTyped
<1>5. pc' \in [Runners -> Pc]
  BY DEF TypeOK, RunnersTyped, Goto, Pc, OnTicket, Moving
<1> QED
  BY <1>3, <1>4, <1>5 DEF SettleNext, TypeOK, RunnersTyped, Goto, board, claims, people, history

LEMMA ClaimHalfTypes ==
    ASSUME TypeOK, NEW r \in Runners,
           \/ Count(r) \/ Fetch(r) \/ PickDone(r)
           \/ \E t \in Tickets : Pick(r, t) \/ Named(r, t)
    PROVE  TypeOK'
<1>1. CASE Count(r)
  <2> DEFINE room == IF Cardinality(Solving) >= MaxConcurrent THEN 0
                     ELSE MaxConcurrent - Cardinality(Solving)
  <2>1. room \in Nat
    BY SolvingCount, LimitsAssumption
  <2>2. slots' = [slots EXCEPT ![r] = room] \/ slots' = slots
    BY <1>1 DEF Count
  <2>3. slots' \in [Runners -> Nat]
    <3> HIDE DEF room
    <3> QED BY <2>1, <2>2 DEF TypeOK, RunnersTyped
  <2>4. faults' \in Nat
    BY <1>1 DEF Count, TypeOK, RunnersTyped, Fail
  <2>5. \E p \in {"fetch", "idle"} : pc' = [pc EXCEPT ![r] = p]
    BY <1>1 DEF Count, Goto
  <2> QED
    BY <1>1, <2>3, <2>4, <2>5 DEF Count, TypeOK, RunnersTyped, Pc, OnTicket, Moving, board, sweep, people, history
<1>2. CASE Fetch(r)
  <2>1. Offered \subseteq Tickets
    BY TicketsAssumption DEF Offered
  <2> DEFINE taken == IF r \in stopping THEN {}
                      ELSE {t \in Offered : Cardinality(older[t] \cap Offered) < slots[r]}
  <2>2. taken \in SUBSET Tickets
    BY <2>1
  <2>3. plan' = [plan EXCEPT ![r] = taken] \/ plan' = plan
    BY <1>2 DEF Fetch
  <2>4. plan' \in [Runners -> SUBSET Tickets]
    <3> HIDE DEF taken
    <3> QED BY <2>2, <2>3 DEF TypeOK, RunnersTyped
  <2>5. faults' \in Nat
    BY <1>2 DEF Fetch, TypeOK, RunnersTyped, Fail
  <2>6. \E p \in {"pick", "idle"} : pc' = [pc EXCEPT ![r] = p]
    BY <1>2 DEF Fetch, Goto
  <2>7. slots' \in [Runners -> Nat]
    BY <1>2 DEF Fetch, TypeOK, RunnersTyped
  <2> QED
    BY <1>2, <2>4, <2>5, <2>6, <2>7 DEF Fetch, TypeOK, RunnersTyped, Pc, OnTicket, Moving, board, sweep, people, history
<1>3. CASE PickDone(r)
  BY <1>3 DEF PickDone, TypeOK, RunnersTyped, Goto, Pc, OnTicket, Moving, board, sweep, people, history
<1>4. ASSUME NEW t \in Tickets, [NoRung EXCEPT !.at = t] \in Rung,
             rung' = [rung EXCEPT ![r] = [NoRung EXCEPT !.at = t]]
      PROVE  rung' \in [Runners -> Rung] /\ rung'[r].at \in Tickets
  BY <1>4 DEF TypeOK, RunnersTyped, NoRung
<1>5. ASSUME NEW t \in Tickets PROVE [NoRung EXCEPT !.at = t] \in Rung
  BY EditTypes DEF NoRung, Rung
<1>6. ASSUME NEW t \in Tickets, Pick(r, t) PROVE TypeOK'
  <2>1. plan' \in [Runners -> SUBSET Tickets]
    BY <1>6 DEF Pick, TypeOK, RunnersTyped
  <2>2. CASE Held(r, t)
    BY <1>6, <2>1, <2>2 DEF Pick, TypeOK, RunnersTyped, board, sweep, people, history
  <2>3. CASE ~Held(r, t)
    <3>1. rung' \in [Runners -> Rung] /\ rung'[r].at \in Tickets
      BY <1>4, <1>5, <1>6, <2>3 DEF Pick
    <3>2. attempts' = [attempts EXCEPT ![r][t] = @ + 1]
      BY <1>6, <2>3 DEF Pick
    <3>3. attempts' \in [Runners -> [Tickets -> Nat]]
      BY <3>2 DEF TypeOK, RunnersTyped
    <3>4. pc' = [pc EXCEPT ![r] = "claimRead"]
      BY <1>6, <2>3 DEF Pick, Goto
    <3>5. pc' \in [Runners -> Pc]
      BY <3>4 DEF TypeOK, RunnersTyped, Pc
    <3>6. \A q \in Runners \ {r} : pc'[q] = pc[q] /\ rung'[q] = rung[q]
      BY <1>6, <2>3 DEF Pick, TypeOK, RunnersTyped, Goto
    <3> QED
      <4>1. RunnersTyped'
        BY <3>1, <3>4, <3>5, <3>6 DEF TypeOK, RunnersTyped, Moving
      <4> QED
        BY <1>6, <2>1, <3>3, <4>1 DEF Pick, TypeOK, board, sweep, people, history
  <2> QED
    BY <2>2, <2>3
<1>7. ASSUME NEW t \in Tickets, Named(r, t) PROVE TypeOK'
  <2>1. rung' \in [Runners -> Rung] /\ rung'[r].at \in Tickets
    BY <1>4, <1>5, <1>7 DEF Named
  <2> QED
    BY <1>7, <2>1 DEF Named, TypeOK, RunnersTyped, Goto, Pc, OnTicket, Moving, board, sweep, claims, people, history
<1> QED
  BY <1>1, <1>2, <1>3, <1>6, <1>7

(* A step of a runner on its ticket: what it leaves of its locals.         *)
LEMMA OnTicketTypes ==
    ASSUME TypeOK, NEW r \in Runners, NEW p \in Pc,
           Goto(r, p),
           \/ /\ rung' = rung
              /\ rung[r].at \in Tickets /\ (p \in Moving => rung[r].goal \in Goal)
           \/ \E s \in Rung : /\ rung' = [rung EXCEPT ![r] = s]
                             /\ s.at \in Tickets /\ (p \in Moving => s.goal \in Goal)
    PROVE  RunnersTyped'
<1>1. pc' = [pc EXCEPT ![r] = p]
  BY DEF Goto
<1>2. CASE rung' = rung /\ rung[r].at \in Tickets /\ (p \in Moving => rung[r].goal \in Goal)
  BY <1>1, <1>2 DEF TypeOK, RunnersTyped
<1>3. ASSUME NEW s \in Rung, s.at \in Tickets, p \in Moving => s.goal \in Goal,
             rung' = [rung EXCEPT ![r] = s]
      PROVE  RunnersTyped'
  BY <1>1, <1>3 DEF TypeOK, RunnersTyped
<1> QED
  BY <1>2, <1>3

LEMMA OffTicketTypes ==
    ASSUME TypeOK, NEW r \in Runners, EndRungs(r)
    PROVE  RunnersTyped'
  BY EndRungsTypes DEF TypeOK, RunnersTyped, OnTicket, Moving

(* Writing one field of a runner's locals.                                 *)
LEMMA RungFields ==
    ASSUME NEW s \in Rung
    PROVE  /\ \A ls \in SUBSET Label :
                 /\ [s EXCEPT !.before = ls] \in Rung /\ [s EXCEPT !.before = ls].at = s.at
                 /\ [s EXCEPT !.after = ls] \in Rung /\ [s EXCEPT !.after = ls].at = s.at
           /\ \A e \in LabelEdit :
                 /\ [s EXCEPT !.edit = e] \in Rung /\ [s EXCEPT !.edit = e].at = s.at
                 /\ [s EXCEPT !.edit = e].goal = s.goal
           /\ \A g \in Goal :
                 /\ [s EXCEPT !.goal = g] \in Rung /\ [s EXCEPT !.goal = g].at = s.at
                 /\ [s EXCEPT !.goal = g].goal = g
                 /\ [s EXCEPT !.keep = TRUE, !.goal = g] \in Rung
                 /\ [s EXCEPT !.keep = TRUE, !.goal = g].at = s.at
                 /\ [s EXCEPT !.keep = TRUE, !.goal = g].goal = g
           /\ [s EXCEPT !.moved = TRUE] \in Rung /\ [s EXCEPT !.moved = TRUE].at = s.at
  BY DEF Rung

LEMMA ClaimTypes ==
    ASSUME TypeOK, NEW r \in Runners, ClaimRead(r) \/ ClaimWrite(r) \/ ClaimVerify(r)
    PROVE  TypeOK'
<1> DEFINE t == rung[r].at
<1>1. t \in Tickets /\ rung[r] \in Rung
  BY DEF TypeOK, RunnersTyped, ClaimRead, ClaimWrite, ClaimVerify, OnTicket, Moving, Pc
<1>2. labels[t] \in SUBSET Label
  BY <1>1 DEF TypeOK, RunnersTyped
<1>3. CASE ClaimRead(r)
  <2>1. RunnersTyped'
    <3>1. CASE EndRungs(r)
      BY <3>1, OffTicketTypes
    <3>2. CASE Goto(r, "claimWrite") /\ rung' = [rung EXCEPT ![r].before = labels[t]]
      <4> DEFINE s == [rung[r] EXCEPT !.before = labels[t]]
      <4>1. rung' = [rung EXCEPT ![r] = s]
        BY <3>2 DEF TypeOK, RunnersTyped
      <4>2. s \in Rung /\ s.at \in Tickets
        BY <1>1, <1>2, RungFields
      <4> HIDE DEF s
      <4> QED
        BY <3>2, <4>1, <4>2, OnTicketTypes DEF Pc, Moving
    <3> QED
      BY <1>3, <3>1, <3>2 DEF ClaimRead
  <2>2. faults' \in Nat
    BY <1>3 DEF ClaimRead, TypeOK, RunnersTyped, Fail
  <2> QED
    BY <1>3, <2>1, <2>2 DEF ClaimRead, TypeOK, RunnersTyped, board, sweep, claims, people, history
<1>4. CASE ClaimWrite(r)
  <2>1. ClaimEdit(rung[r].before) \in LabelEdit
    BY <1>1, EditTypes DEF Rung
  <2>2. /\ labels' \in [Tickets -> SUBSET Label]
        /\ older' \in [Tickets -> SUBSET Tickets]
        /\ faults' \in Nat
    BY <1>1, <1>4, <2>1, AnsweredTypes DEF ClaimWrite
  <2>3. RunnersTyped'
    <3>1. CASE EndRungs(r)
      BY <3>1, OffTicketTypes
    <3>2. CASE Goto(r, "claimVerify") /\ UNCHANGED rung
      BY <3>2, <1>1, OnTicketTypes DEF Pc, Moving
    <3> QED
      BY <1>4, <3>1, <3>2 DEF ClaimWrite
  <2> QED
    BY <1>4, <2>2, <2>3 DEF ClaimWrite, TypeOK, RunnersTyped, sweep, claims, people, history
<1>5. CASE ClaimVerify(r)
  <2>1. RunnersTyped'
    <3>1. CASE EndRungs(r)
      BY <3>1, OffTicketTypes
    <3>2. CASE Goto(r, "enter") /\ rung' = [rung EXCEPT ![r].after = labels[t]]
      <4> DEFINE s == [rung[r] EXCEPT !.after = labels[t]]
      <4>1. rung' = [rung EXCEPT ![r] = s]
        BY <3>2 DEF TypeOK, RunnersTyped
      <4>2. s \in Rung /\ s.at \in Tickets
        BY <1>1, <1>2, RungFields
      <4> HIDE DEF s
      <4> QED
        BY <3>2, <4>1, <4>2, OnTicketTypes DEF Pc, Moving
    <3> QED
      BY <1>5, <3>1, <3>2 DEF ClaimVerify
  <2>2. faults' \in Nat
    BY <1>5 DEF ClaimVerify, TypeOK, RunnersTyped, Fail
  <2> QED
    BY <1>5, <2>1, <2>2 DEF ClaimVerify, TypeOK, RunnersTyped, board, sweep, claims, people, history
<1> QED
  BY <1>3, <1>4, <1>5

LEMMA SolverTypes ==
    ASSUME TypeOK, NEW r \in Runners, Enter(r) \/ Solve(r) \/ Publish(r)
    PROVE  TypeOK'
<1> DEFINE t == rung[r].at
<1>1. t \in Tickets /\ rung[r] \in Rung
  BY DEF TypeOK, RunnersTyped, Enter, Solve, Publish, OnTicket, Moving, Pc
<1>2. CASE Enter(r)
  <2>1. RunnersTyped'
    <3>1. CASE rung' = [rung EXCEPT ![r].moved = TRUE]
      BY <1>1, <1>2, <3>1, OnTicketTypes, RungFields DEF Enter, Pc, Moving
    <3>2. CASE UNCHANGED rung
      BY <1>1, <1>2, <3>2, OnTicketTypes DEF Enter, Pc, Moving
    <3> QED
      BY <1>2, <3>1, <3>2 DEF Enter
  <2>2. status' \in [Tickets -> Stages]
    BY <1>1, <1>2 DEF Enter, TypeOK, RunnersTyped, Stages
  <2>3. faults' \in Nat
    BY <1>2 DEF Enter, TypeOK, RunnersTyped, Fail
  <2> QED
    BY <1>2, <2>1, <2>2, <2>3 DEF Enter, TypeOK, RunnersTyped, sweep, claims, people, history
<1>3. CASE Solve(r)
  <2>1. RunnersTyped'
    <3>1. CASE Goto(r, "publish") /\ UNCHANGED rung
      BY <1>1, <3>1, OnTicketTypes DEF Pc, Moving
    <3>2. CASE Goto(r, "moveRead") /\ rung' = [rung EXCEPT ![r].goal = "failed"]
      <4> DEFINE s == [rung[r] EXCEPT !.goal = "failed"]
      <4>1. rung' = [rung EXCEPT ![r] = s]
        BY <3>2 DEF TypeOK, RunnersTyped
      <4>2. s \in Rung /\ s.at \in Tickets /\ s.goal \in Goal
        BY <1>1, RungFields DEF Goal
      <4> HIDE DEF s
      <4> QED
        BY <3>2, <4>1, <4>2, OnTicketTypes DEF Pc, Moving
    <3>3. CASE Goto(r, "relRead") /\ UNCHANGED rung
      BY <1>1, <3>3, OnTicketTypes DEF Pc, Moving
    <3> QED
      BY <1>3, <3>1, <3>2, <3>3 DEF Solve
  <2> QED
    BY <1>3, <2>1 DEF Solve, TypeOK, RunnersTyped, board, sweep, claims, people, history
<1>4. CASE Publish(r)
  <2>1. RunnersTyped'
    <3>1. CASE Goto(r, "moveRead") /\ rung' = [rung EXCEPT ![r].keep = TRUE, ![r].goal = "review"]
      <4> DEFINE s == [rung[r] EXCEPT !.keep = TRUE, !.goal = "review"]
      <4>1. rung' = [rung EXCEPT ![r] = s]
        BY <3>1 DEF TypeOK, RunnersTyped
      <4>2. s \in Rung /\ s.at \in Tickets /\ s.goal \in Goal
        BY <1>1, RungFields DEF Goal
      <4> HIDE DEF s
      <4> QED
        BY <3>1, <4>1, <4>2, OnTicketTypes DEF Pc, Moving
    <3>2. CASE Goto(r, "relRead") /\ UNCHANGED rung
      BY <1>1, <3>2, OnTicketTypes DEF Pc, Moving
    <3> QED
      BY <1>4, <3>1, <3>2 DEF Publish
  <2>2. pr' \in [Tickets -> PrState] /\ opened' \in [Tickets -> Nat]
    <3>1. CASE Opens(t)
      BY <1>1, <3>1 DEF Opens, TypeOK, RunnersTyped, PrState
    <3>2. CASE UNCHANGED <<pr, opened>>
      BY <3>2 DEF TypeOK, RunnersTyped
    <3> QED
      BY <1>4, <3>1, <3>2 DEF Publish
  <2>3. faults' \in Nat
    BY <1>4 DEF Publish, TypeOK, RunnersTyped, Fail
  <2> QED
    BY <1>4, <2>1, <2>2, <2>3 DEF Publish, TypeOK, RunnersTyped, sweep, claims, people
<1> QED
  BY <1>2, <1>3, <1>4

LEMMA AfterMoveTypes ==
    ASSUME TypeOK, NEW r \in Runners, AfterMove(r) \/ MoveThrows(r), rung[r].at \in Tickets
    PROVE  RunnersTyped'
<1>1. CASE EndRungs(r)
  BY <1>1, OffTicketTypes
<1>2. CASE Goto(r, "back") /\ UNCHANGED rung
  BY <1>2, OnTicketTypes DEF Pc, Moving
<1>3. ASSUME NEW p \in {"settle", "idle"},
             Goto(r, p), rung' = [rung EXCEPT ![r] = NoRung]
      PROVE  RunnersTyped'
  BY <1>3, NoRungType DEF TypeOK, RunnersTyped, Goto, Pc, OnTicket, Moving
<1> QED
  BY <1>1, <1>2, <1>3 DEF AfterMove, MoveThrows

LEMMA MoveTypes ==
    ASSUME TypeOK, NEW r \in Runners, MoveRead(r) \/ MoveWrite(r) \/ MoveVerify(r)
    PROVE  TypeOK'
<1> DEFINE t == rung[r].at
<1>1. t \in Tickets /\ rung[r] \in Rung
  BY DEF TypeOK, RunnersTyped, MoveRead, MoveWrite, MoveVerify, OnTicket, Moving, Pc
<1>2. ASSUME MoveThrows(r) \/ UNCHANGED settle
      PROVE  settle' \in [Runners -> SUBSET (Tickets \X Goal)]
  BY <1>2 DEF TypeOK, RunnersTyped, MoveThrows
<1>3. CASE MoveRead(r)
  <2> DEFINE e == MoveEdit(rung[r].goal, labels[t])
  <2>1. e \in LabelEdit
    BY <1>1, <1>3, EditTypes DEF TypeOK, RunnersTyped, MoveRead, Moving
  <2>2. RunnersTyped'
    <3>1. CASE AfterMove(r) \/ MoveThrows(r)
      BY <1>1, <3>1, AfterMoveTypes
    <3>2. CASE Goto(r, "moveWrite") /\ rung' = [rung EXCEPT ![r].edit = e]
      <4>1. rung[r].goal \in Goal
        BY <1>3 DEF TypeOK, RunnersTyped, MoveRead, Moving
      <4> HIDE DEF e
      <4> DEFINE s == [rung[r] EXCEPT !.edit = e]
      <4>2. rung' = [rung EXCEPT ![r] = s]
        BY <3>2 DEF TypeOK, RunnersTyped
      <4>3. s \in Rung /\ s.at \in Tickets /\ s.goal \in Goal
        BY <1>1, <2>1, <4>1, RungFields
      <4> HIDE DEF s
      <4> QED
        BY <3>2, <4>2, <4>3, OnTicketTypes DEF Pc, Moving
    <3> QED
      BY <1>3, <3>1, <3>2 DEF MoveRead
  <2>3. settle' \in [Runners -> SUBSET (Tickets \X Goal)]
    BY <1>2, <1>3 DEF MoveRead
  <2>4. faults' \in Nat
    BY <1>3 DEF MoveRead, TypeOK, Fail
  <2> QED
    BY <1>3, <2>2, <2>3, <2>4 DEF MoveRead, TypeOK, board, claims, people, history
<1>4. CASE MoveWrite(r)
  <2>1. /\ labels' \in [Tickets -> SUBSET Label]
        /\ older' \in [Tickets -> SUBSET Tickets]
        /\ faults' \in Nat
    BY <1>1, <1>4, AnsweredTypes DEF MoveWrite, Rung
  <2>2. RunnersTyped'
    <3>1. CASE AfterMove(r)
      BY <1>1, <3>1, AfterMoveTypes
    <3>2. CASE Goto(r, "moveVerify") /\ UNCHANGED rung
      BY <1>1, <1>4, <3>2, OnTicketTypes DEF MoveWrite, TypeOK, RunnersTyped, Pc, Moving
    <3> QED
      BY <1>4, <3>1, <3>2 DEF MoveWrite
  <2> QED
    BY <1>4, <2>1, <2>2 DEF MoveWrite, TypeOK, sweep, claims, people, history
<1>5. CASE MoveVerify(r)
  <2>1. RunnersTyped'
    BY <1>1, <1>5, AfterMoveTypes DEF MoveVerify
  <2>2. status' \in [Tickets -> Stages]
    BY <1>1, <1>5 DEF MoveVerify, TypeOK, Stages
  <2>3. settle' \in [Runners -> SUBSET (Tickets \X Goal)]
    BY <1>2, <1>5 DEF MoveVerify
  <2>4. faults' \in Nat
    BY <1>5 DEF MoveVerify, TypeOK, Fail
  <2> QED
    BY <1>5, <2>1, <2>2, <2>3, <2>4 DEF MoveVerify, TypeOK, claims, people, history
<1> QED
  BY <1>3, <1>4, <1>5

LEMMA ReleaseTypes ==
    ASSUME TypeOK, NEW r \in Runners, RelRead(r) \/ RelWrite(r) \/ StatusBack(r)
    PROVE  TypeOK'
<1> DEFINE t == rung[r].at
<1>1. t \in Tickets /\ rung[r] \in Rung
  BY DEF TypeOK, RunnersTyped, RelRead, RelWrite, StatusBack, OnTicket, Pc
<1>2. CASE RelRead(r)
  <2>1. RunnersTyped'
    BY <1>1, <1>2, OnTicketTypes DEF RelRead, Pc, Moving
  <2>2. faults' \in Nat
    BY <1>2 DEF RelRead, TypeOK, Fail
  <2> QED
    BY <1>2, <2>1, <2>2 DEF RelRead, TypeOK, board, sweep, claims, people, history
<1>3. CASE RelWrite(r)
  <2>1. ReleaseEdit(rung[r].before, rung[r].after) \in LabelEdit
    BY <1>1, EditTypes DEF Rung
  <2>2. /\ labels' \in [Tickets -> SUBSET Label]
        /\ older' \in [Tickets -> SUBSET Tickets]
        /\ faults' \in Nat
    BY <1>1, <1>3, <2>1, AnsweredTypes DEF RelWrite
  <2>3. RunnersTyped'
    BY <1>1, <1>3, OnTicketTypes DEF RelWrite, Pc, Moving
  <2> QED
    BY <1>3, <2>2, <2>3 DEF RelWrite, TypeOK, sweep, claims, people, history
<1>4. CASE StatusBack(r)
  <2>1. RunnersTyped'
    BY <1>4, OffTicketTypes DEF StatusBack
  <2>2. status' \in [Tickets -> Stages]
    BY <1>1, <1>4 DEF StatusBack, TypeOK, Stages
  <2>3. faults' \in Nat
    BY <1>4 DEF StatusBack, TypeOK, Fail
  <2> QED
    BY <1>4, <2>1, <2>2, <2>3 DEF StatusBack, TypeOK, sweep, claims, people, history
<1> QED
  BY <1>2, <1>3, <1>4

LEMMA CrashTypes ==
    ASSUME TypeOK, NEW r \in Runners, Crash(r)
    PROVE  TypeOK'
<1>1. RunnersTyped'
  BY NoRungType DEF Crash, TypeOK, RunnersTyped, Goto, Pc, OnTicket, Moving
<1>2. watched' \in [Runners -> SUBSET Tickets] /\ plan' \in [Runners -> SUBSET Tickets]
  BY DEF Crash, TypeOK
<1>3. settle' \in [Runners -> SUBSET (Tickets \X Goal)]
  BY DEF Crash, TypeOK
<1>4. slots' \in [Runners -> Nat] /\ faults' \in Nat
  BY DEF Crash, TypeOK, Fail
<1>5. attempts' \in [Runners -> [Tickets -> Nat]]
  BY DEF Crash, TypeOK
<1> QED
  BY <1>1, <1>2, <1>3, <1>4, <1>5 DEF Crash, TypeOK, board, people, history

LEMMA PeopleTypes ==
    ASSUME TypeOK, People \/ \E t \in Tickets : MentionWrite(t)
    PROVE  TypeOK'
<1>1. \A a, b \in SUBSET Label : Edit(a, b) \in LabelEdit
  BY DEF Edit, LabelEdit
<1>2. {"start"} \in SUBSET Label /\ {"failed"} \in SUBSET Label /\ {} \in SUBSET Label
  BY DEF Label, AgentLabel
<1>3. ASSUME UNCHANGED <<pc, rung>> PROVE RunnersTyped'
  BY <1>3 DEF TypeOK, RunnersTyped
<1>4. ASSUME NEW t \in Tickets, Grant(t) PROVE grants' \in [Tickets -> Nat]
  BY <1>4 DEF Grant, TypeOK
<1>5. ASSUME NEW t \in Tickets, MentionWrite(t) PROVE TypeOK'
  <2>1. /\ labels' \in [Tickets -> SUBSET Label]
        /\ older' \in [Tickets -> SUBSET Tickets]
    <3>1. CASE Write(t, Edit({"start"}, {})) \/ Write(t, Edit({}, {"failed"}))
      BY <1>1, <1>2, <3>1, WriteTypes
    <3>2. CASE UNCHANGED <<labels, older>>
      BY <3>2 DEF TypeOK
    <3> QED
      BY <1>5, <3>1, <3>2 DEF MentionWrite
  <2>2. grants' \in [Tickets -> Nat]
    BY <1>4, <1>5 DEF MentionWrite, TypeOK
  <2>3. faults' \in Nat /\ mention' \in [Tickets -> {"none", "start", "clear"}]
    BY <1>5 DEF MentionWrite, TypeOK, Fail
  <2> QED
    BY <1>3, <1>5, <2>1, <2>2, <2>3 DEF MentionWrite, TypeOK, sweep, claims
<1>6. ASSUME NEW t \in Tickets, NEW verb \in {"start", "clear"}, MentionRead(t, verb) PROVE TypeOK'
  BY <1>3, <1>6 DEF MentionRead, Edits, TypeOK, board, sweep, claims, history
<1>7. ASSUME NEW t \in Tickets, PersonStarts(t) PROVE TypeOK'
  <2>1. labels' \in [Tickets -> SUBSET Label] /\ older' \in [Tickets -> SUBSET Tickets]
    BY <1>1, <1>2, <1>7, WriteTypes DEF PersonStarts
  <2> QED
    BY <1>3, <1>4, <1>7, <2>1 DEF PersonStarts, Edits, TypeOK, sweep, claims
<1>8. ASSUME NEW t \in Tickets, PersonClears(t) PROVE TypeOK'
  <2>1. labels' \in [Tickets -> SUBSET Label] /\ older' \in [Tickets -> SUBSET Tickets]
    <3>1. PICK l \in labels[t] : Write(t, Edit({}, {l}))
      BY <1>8 DEF PersonClears
    <3>2. {l} \in SUBSET Label
      BY DEF TypeOK
    <3> QED
      BY <1>1, <1>2, <3>1, <3>2, WriteTypes
  <2> QED
    BY <1>3, <1>8, <2>1 DEF PersonClears, Edits, TypeOK, sweep, claims, history
<1>9. ASSUME NEW t \in Tickets, NEW l \in Bystander, PersonToggles(t, l) PROVE TypeOK'
  <2>1. labels' \in [Tickets -> SUBSET Label] /\ older' \in [Tickets -> SUBSET Tickets]
    <3>1. {l} \in SUBSET Label
      BY DEF Bystander, Label, AgentLabel
    <3> QED
      BY <1>1, <1>2, <1>9, <3>1, WriteTypes DEF PersonToggles
  <2> QED
    BY <1>3, <1>9, <2>1 DEF PersonToggles, Edits, TypeOK, sweep, claims, history
<1>10. ASSUME NEW t \in Tickets, NEW s \in {"merged", "closed"}, PersonEndsPr(t, s) PROVE TypeOK'
  BY <1>3, <1>10 DEF PersonEndsPr, Edits, TypeOK, PrState, sweep, claims, history
<1>11. ASSUME NEW r \in Daemons, PersonStops(r) PROVE TypeOK'
  BY <1>3, <1>11, RunnersAssumption DEF PersonStops, Edits, TypeOK, board, sweep, claims, history
<1> QED
  BY <1>5, <1>6, <1>7, <1>8, <1>9, <1>10, <1>11 DEF People

LEMMA StepTypes == TypeOK /\ [Next]_vars => TypeOK'
<1> SUFFICES ASSUME TypeOK, [Next]_vars PROVE TypeOK'
  OBVIOUS
<1>1. CASE UNCHANGED vars
  BY <1>1 DEF vars, board, sweep, claims, people, history, TypeOK, RunnersTyped
<1>2. ASSUME NEW r \in Runners, Tick(r) PROVE TypeOK'
  BY <1>2, SweepTypes, SettleNextTypes, ClaimHalfTypes DEF Tick
<1>3. ASSUME NEW r \in Runners, Rungs(r) PROVE TypeOK'
  BY <1>3, ClaimTypes, SolverTypes, MoveTypes, ReleaseTypes DEF Rungs
<1>4. ASSUME NEW r \in Runners, Crash(r) \/ \E t \in Tickets : Named(r, t) PROVE TypeOK'
  BY <1>4, CrashTypes, ClaimHalfTypes
<1>5. CASE People \/ \E t \in Tickets : MentionWrite(t)
  BY <1>5, PeopleTypes
<1> QED
  BY <1>1, <1>2, <1>3, <1>4, <1>5 DEF Next

(* Type correctness: in particular a runner between a claim and the end of *)
(* its rungs is on a ticket, and a label move under way has a goal.        *)
THEOREM TypeCorrect == Spec => []TypeOK
<1>1. Init => TypeOK
  BY InitTypes
<1>2. TypeOK /\ [Next]_vars => TypeOK'
  BY StepTypes
<1> QED
  BY <1>1, <1>2, PTL DEF Spec

---------------------------------------------------------------------------
(* What a release needs of the run it ends: the start that the claim       *)
(* consumed is in the set read before it and not in the one read after.    *)
ReceiptKept ==
    \A r \in Runners :
        /\ pc[r] \in {"claimWrite", "claimVerify"} => "start" \in rung[r].before
        /\ pc[r] \in {"enter", "solve", "publish", "relRead", "relWrite"} =>
             "start" \in rung[r].before \ rung[r].after
        /\ pc[r] = "moveWrite" /\ "solving" \in rung[r].edit.remove =>
             rung[r].edit.add \cap QueueExcluded # {}

GoAheadInv == TypeOK /\ (Authority = "manual" => ReceiptKept)

(* A move that takes the claim off puts a stage or a verdict on.           *)
LEMMA MoveReplacesClaim ==
    \A g \in Goal, ls \in SUBSET Label :
        "solving" \in MoveEdit(g, ls).remove => MoveEdit(g, ls).add \cap QueueExcluded # {}
<1> SUFFICES ASSUME NEW g \in Goal, NEW ls \in SUBSET Label,
                    "solving" \in MoveEdit(g, ls).remove
             PROVE  MoveEdit(g, ls).add \cap QueueExcluded # {}
  OBVIOUS
<1>1. CASE g = "review"
  <2>1. MoveEdit(g, ls).add = {"reviewing"}
    BY <1>1 DEF MoveEdit, Edit, UnderReview
  <2> QED
    BY <2>1 DEF QueueExcluded
<1>2. CASE g \in UnderReview
  <2>1. g # "review"
    BY <1>2 DEF UnderReview
  <2>2. MoveEdit(g, ls) = [add |-> {g} \ ls, remove |-> ls \cap (UnderReview \ {g})]
    BY <1>2, <2>1 DEF MoveEdit, Edit
  <2> QED
    BY <2>2 DEF UnderReview
<1>3. CASE g \in {"done", "closed", "failed"}
  <2>1. g # "review" /\ g \notin UnderReview
    BY <1>3 DEF UnderReview
  <2>2. MoveEdit(g, ls).add = {g}
    BY <2>1 DEF MoveEdit, Edit
  <2> QED
    BY <1>3, <2>2 DEF QueueExcluded
<1> QED
  BY <1>1, <1>2, <1>3 DEF Goal, UnderReview

(* Another runner's locals and place are its own.                          *)
LEMMA OthersKept ==
    ASSUME TypeOK, NEW r \in Runners,
           Tick(r) \/ Rungs(r) \/ Crash(r) \/ \E t \in Tickets : Named(r, t)
    PROVE  \A q \in Runners \ {r} : pc'[q] = pc[q] /\ rung'[q] = rung[q]
<1>1. CASE Tick(r)
  BY <1>1 DEF Tick, SweepFetch, Look, LooksDone, SettleNext, SettleDone, Count, Fetch, Pick,
              PickDone, Goto, TypeOK, RunnersTyped
<1>2. CASE ClaimRead(r) \/ ClaimWrite(r) \/ ClaimVerify(r) \/ Enter(r) \/ Solve(r) \/ Publish(r)
  BY <1>2 DEF ClaimRead, ClaimWrite, ClaimVerify, Enter, Solve, Publish, EndRungs, Goto, TypeOK, RunnersTyped
<1>3. CASE MoveRead(r) \/ MoveWrite(r) \/ MoveVerify(r)
  BY <1>3 DEF MoveRead, MoveWrite, MoveVerify, MoveThrows, AfterMove, EndRungs, Goto, TypeOK, RunnersTyped
<1>4. CASE RelRead(r) \/ RelWrite(r) \/ StatusBack(r)
  BY <1>4 DEF RelRead, RelWrite, StatusBack, EndRungs, Goto, TypeOK, RunnersTyped
<1>5. CASE Crash(r) \/ \E t \in Tickets : Named(r, t)
  BY <1>5 DEF Crash, Named, Goto, TypeOK, RunnersTyped
<1> QED
  BY <1>1, <1>2, <1>3, <1>4, <1>5 DEF Rungs

LEMMA AfterMoveGoes ==
    ASSUME TypeOK, NEW r \in Runners, AfterMove(r) \/ MoveThrows(r)
    PROVE  pc'[r] \in {"idle", "pick", "settle", "back"}
<1>1. CASE EndRungs(r)
  BY <1>1, EndRungsTypes
<1>2. ASSUME NEW p \in {"idle", "settle", "back"}, Goto(r, p)
      PROVE  pc'[r] = p
  BY <1>2 DEF Goto, TypeOK, RunnersTyped
<1> QED
  BY <1>1, <1>2 DEF AfterMove, MoveThrows

LEMMA GoAheadStep ==
    ASSUME TypeOK, ReceiptKept, Authority = "manual", [Next]_vars
    PROVE  ReceiptKept'
<1> DEFINE P(r) ==
      /\ pc[r] \in {"claimWrite", "claimVerify"} => "start" \in rung[r].before
      /\ pc[r] \in {"enter", "solve", "publish", "relRead", "relWrite"} =>
           "start" \in rung[r].before \ rung[r].after
      /\ pc[r] = "moveWrite" /\ "solving" \in rung[r].edit.remove =>
           rung[r].edit.add \cap QueueExcluded # {}
<1>1. CASE UNCHANGED <<pc, rung>>
  BY <1>1 DEF ReceiptKept
<1>2. ASSUME NEW r \in Runners, Tick(r) \/ Rungs(r) \/ Crash(r) \/ \E t \in Tickets : Named(r, t)
      PROVE  ReceiptKept'
  <2>1. \A q \in Runners \ {r} : P(q)'
    BY <1>2, OthersKept DEF ReceiptKept
  <2>2. ASSUME pc'[r] \in {"idle", "look", "settle", "count", "fetch", "pick", "claimRead",
                           "moveRead", "moveVerify", "back"}
        PROVE  P(r)'
    BY <2>2
  <2>3. ASSUME Tick(r) \/ Crash(r) \/ \E t \in Tickets : Named(r, t) PROVE P(r)'
    BY <2>3, <2>2 DEF Tick, SweepFetch, Look, LooksDone, SettleNext, SettleDone, Count, Fetch,
                  Pick, PickDone, Crash, Named, Goto, TypeOK, RunnersTyped
  <2>4. ASSUME ClaimRead(r) PROVE P(r)'
    <3>2. CASE EndRungs(r)
      BY <2>2, <3>2, EndRungsTypes
    <3>3. CASE /\ Eligible(labels[rung[r].at], Authority)
               /\ rung' = [rung EXCEPT ![r].before = labels[rung[r].at]]
               /\ Goto(r, "claimWrite")
      <4>1. "start" \in labels[rung[r].at]
        BY <3>3 DEF Eligible, SelfAuthorising
      <4>2. rung'[r].before = labels[rung[r].at] /\ pc'[r] = "claimWrite"
        BY <3>3 DEF TypeOK, RunnersTyped, Goto, Rung
      <4> QED
        BY <4>1, <4>2
    <3> QED
      BY <2>4, <3>2, <3>3 DEF ClaimRead
  <2>5. ASSUME ClaimWrite(r) PROVE P(r)'
    BY <2>5 DEF ClaimWrite, EndRungs, AfterRungs, Goto, TypeOK, RunnersTyped, ReceiptKept
  <2>6. ASSUME ClaimVerify(r) PROVE P(r)'
    <3>2. CASE EndRungs(r)
      BY <2>2, <3>2, EndRungsTypes
    <3>3. CASE /\ Took(ClaimEdit(rung[r].before), labels[rung[r].at])
               /\ rung' = [rung EXCEPT ![r].after = labels[rung[r].at]]
               /\ Goto(r, "enter")
      <4>1. "start" \in rung[r].before
        BY <2>6 DEF ClaimVerify, ReceiptKept
      <4>2. "start" \notin labels[rung[r].at]
        BY <3>3, <4>1 DEF Took, ClaimEdit, Edit
      <4>3. /\ rung'[r].after = labels[rung[r].at] /\ rung'[r].before = rung[r].before
            /\ pc'[r] = "enter"
        BY <3>3 DEF TypeOK, RunnersTyped, Goto, Rung
      <4> QED
        BY <4>1, <4>2, <4>3
    <3> QED
      BY <2>6, <3>2, <3>3 DEF ClaimVerify
  <2>7. ASSUME Enter(r) \/ Solve(r) \/ Publish(r) PROVE P(r)'
    <3>1. "start" \in rung[r].before \ rung[r].after
      BY <2>7 DEF Enter, Solve, Publish, ReceiptKept
    <3>2. rung'[r].before = rung[r].before /\ rung'[r].after = rung[r].after
      <4>1. rung[r] \in Rung
        BY DEF TypeOK, RunnersTyped
      <4>2. CASE Enter(r)
        BY <4>1, <4>2 DEF Enter, TypeOK, RunnersTyped, Rung
      <4>3. CASE Solve(r)
        BY <4>1, <4>3 DEF Solve, TypeOK, RunnersTyped, Rung
      <4>4. CASE Publish(r)
        BY <4>1, <4>4 DEF Publish, TypeOK, RunnersTyped, Rung
      <4> QED
        BY <2>7, <4>2, <4>3, <4>4
    <3>3. pc'[r] # "moveWrite"
      BY <2>7 DEF Enter, Solve, Publish, Goto, TypeOK, RunnersTyped
    <3>4. pc'[r] \notin {"claimWrite", "claimVerify"}
      BY <2>7 DEF Enter, Solve, Publish, Goto, TypeOK, RunnersTyped
    <3> QED
      BY <3>1, <3>2, <3>3, <3>4
  <2>8. ASSUME MoveRead(r) PROVE P(r)'
    <3> DEFINE e == MoveEdit(rung[r].goal, labels[rung[r].at])
    <3>2. CASE AfterMove(r) \/ MoveThrows(r)
      BY <2>2, <3>2, AfterMoveGoes
    <3>3. CASE rung' = [rung EXCEPT ![r].edit = e] /\ Goto(r, "moveWrite")
      <4>1. "solving" \in e.remove => e.add \cap QueueExcluded # {}
        BY <2>8, MoveReplacesClaim DEF MoveRead, TypeOK, RunnersTyped, OnTicket, Moving, Pc
      <4> HIDE DEF e
      <4>2. rung'[r].edit = e /\ pc'[r] = "moveWrite"
        BY <3>3 DEF TypeOK, RunnersTyped, Goto, Rung
      <4> QED
        BY <4>1, <4>2
    <3> QED
      BY <2>8, <3>2, <3>3 DEF MoveRead
  <2>9. ASSUME MoveWrite(r) \/ MoveVerify(r) PROVE P(r)'
    <3>2. CASE AfterMove(r) \/ MoveThrows(r)
      BY <2>2, <3>2, AfterMoveGoes
    <3>3. CASE Goto(r, "moveVerify")
      BY <2>2, <3>3 DEF Goto, TypeOK, RunnersTyped
    <3> QED
      BY <2>9, <3>2, <3>3 DEF MoveWrite, MoveVerify
  <2>10. ASSUME RelRead(r) \/ RelWrite(r) \/ StatusBack(r) PROVE P(r)'
    BY <2>10 DEF RelRead, RelWrite, StatusBack, EndRungs, AfterRungs, Goto, TypeOK, RunnersTyped, ReceiptKept
  <2> QED
    BY <1>2, <2>1, <2>3, <2>4, <2>5, <2>6, <2>7, <2>8, <2>9, <2>10 DEF Rungs, ReceiptKept
<1>3. CASE People \/ \E t \in Tickets : MentionWrite(t)
  BY <1>1, <1>3 DEF People, MentionRead, MentionWrite, PersonStarts, PersonClears, PersonToggles,
                    PersonEndsPr, PersonStops
<1> QED
  BY <1>1, <1>2, <1>3 DEF Next, vars

(* What a label write under way does to the claim of its ticket.           *)
LEMMA GoAheadWrites ==
    ASSUME TypeOK, Authority = "manual" => ReceiptKept, Next, Authority = "manual",
           NEW t \in Tickets, "solving" \in labels[t], "solving" \notin labels'[t]
    PROVE  labels'[t] \cap (QueueExcluded \cup {"start"}) # {}
<1>1. ASSUME NEW u \in Tickets, NEW e \in LabelEdit, Write(u, e)
      PROVE  u = t /\ "solving" \in e.remove /\ e.add \subseteq labels'[t]
  BY <1>1 DEF Write, ApplyEdit, TypeOK, LabelEdit
<1>2. labels' # labels
  OBVIOUS
<1>3. ASSUME NEW r \in Runners, ClaimWrite(r) PROVE FALSE
  <2> DEFINE e == ClaimEdit(rung[r].before)
  <2>1. rung[r].at \in Tickets /\ e \in LabelEdit
    BY <1>3, EditTypes DEF ClaimWrite, TypeOK, RunnersTyped, OnTicket, Pc, Rung
  <2>2. Write(rung[r].at, e)
    BY <1>2, <1>3 DEF ClaimWrite, WriteAnswered, WriteErred
  <2>3. "solving" \notin e.remove
    BY DEF ClaimEdit, Edit
  <2> QED
    BY <1>1, <2>1, <2>2, <2>3
<1>4. ASSUME NEW r \in Runners, MoveWrite(r)
      PROVE  labels'[t] \cap (QueueExcluded \cup {"start"}) # {}
  <2> DEFINE e == rung[r].edit
  <2>1. rung[r].at \in Tickets /\ e \in LabelEdit
    BY <1>4 DEF MoveWrite, TypeOK, RunnersTyped, OnTicket, Pc, Rung
  <2>2. Write(rung[r].at, e)
    BY <1>2, <1>4 DEF MoveWrite, WriteAnswered, WriteErred
  <2>3. "solving" \in e.remove => e.add \cap QueueExcluded # {}
    BY <1>4 DEF MoveWrite, ReceiptKept
  <2> QED
    BY <1>1, <2>1, <2>2, <2>3
<1>5. ASSUME NEW r \in Runners, RelWrite(r)
      PROVE  labels'[t] \cap (QueueExcluded \cup {"start"}) # {}
  <2> DEFINE e == ReleaseEdit(rung[r].before, rung[r].after)
  <2>1. rung[r].at \in Tickets /\ e \in LabelEdit
    BY <1>5, EditTypes DEF RelWrite, TypeOK, RunnersTyped, OnTicket, Pc, Rung
  <2>2. Write(rung[r].at, e)
    BY <1>2, <1>5 DEF RelWrite, WriteAnswered, WriteErred
  <2>3. "start" \in e.add
    BY <1>5 DEF RelWrite, ReceiptKept, ReleaseEdit, Edit
  <2> QED
    BY <1>1, <2>1, <2>2, <2>3
<1>6. ASSUME NEW u \in Tickets, NEW add \in SUBSET Label, NEW remove \in SUBSET Label,
             Write(u, Edit(add, remove)), "solving" \notin remove
      PROVE  FALSE
  BY <1>1, <1>6 DEF Edit, LabelEdit
<1>7. ASSUME People \/ \E u \in Tickets : MentionWrite(u) PROVE FALSE
  <2>1. {"start"} \in SUBSET Label /\ {"failed"} \in SUBSET Label /\ {} \in SUBSET Label
    BY DEF Label, AgentLabel
  <2>2. \A l \in Terminal \cup Bystander : {l} \in SUBSET Label /\ "solving" \notin {l}
    BY DEF Label, AgentLabel, Terminal, Bystander
  <2>3. ASSUME NEW u \in Tickets, MentionWrite(u) PROVE FALSE
    BY <1>2, <1>6, <2>1, <2>3 DEF MentionWrite
  <2>4. ASSUME NEW u \in Tickets, PersonStarts(u) PROVE FALSE
    BY <1>6, <2>1, <2>4 DEF PersonStarts
  <2>5. ASSUME NEW u \in Tickets, PersonClears(u) PROVE FALSE
    <3>1. PICK l \in Terminal : Write(u, Edit({}, {l}))
      BY <2>5 DEF PersonClears
    <3> QED
      BY <1>6, <2>1, <2>2, <3>1
  <2>6. ASSUME NEW u \in Tickets, NEW l \in Bystander, PersonToggles(u, l) PROVE FALSE
    BY <1>6, <2>1, <2>2, <2>6 DEF PersonToggles
  <2>7. ASSUME UNCHANGED labels PROVE FALSE
    BY <1>2, <2>7
  <2> QED
    BY <1>7, <2>3, <2>4, <2>5, <2>6, <2>7
       DEF People, MentionRead, PersonEndsPr, PersonStops, board
<1>8. ASSUME UNCHANGED labels PROVE FALSE
  BY <1>2, <1>8
<1>9. ASSUME NEW r \in Runners, Tick(r) \/ Crash(r) \/ \E u \in Tickets : Named(r, u)
      PROVE  UNCHANGED labels
  BY <1>9 DEF Tick, SweepFetch, Look, LooksDone, SettleNext, SettleDone, Count, Fetch, Pick,
              PickDone, Crash, Named, board
<1>10. ASSUME NEW r \in Runners, Rungs(r), ~ClaimWrite(r), ~MoveWrite(r), ~RelWrite(r)
      PROVE  UNCHANGED labels
  BY <1>10 DEF Rungs, ClaimRead, ClaimVerify, Enter, Solve, Publish, MoveRead, MoveVerify,
               RelRead, StatusBack, board
<1> QED
  BY <1>3, <1>4, <1>5, <1>7, <1>8, <1>9, <1>10 DEF Next

(* A claim never comes off leaving the ticket neither approved nor         *)
(* decided: whichever runner releases or moves it, whatever was lost or    *)
(* half done, its start is put back or a stage or verdict replaces it.     *)
THEOREM GoAheadIsKept == Spec => GoAheadKept
<1> DEFINE Kept == Authority = "manual" => \A t \in Tickets :
                     "solving" \in labels[t] /\ "solving" \notin labels'[t] =>
                         labels'[t] \cap (QueueExcluded \cup {"start"}) # {}
<1>1. Init => GoAheadInv
  BY InitTypes DEF Init, GoAheadInv, ReceiptKept
<1>2. GoAheadInv /\ [Next]_vars => GoAheadInv'
  BY StepTypes, GoAheadStep DEF GoAheadInv
<1>3. GoAheadInv /\ [Next]_vars => [Kept]_vars
  BY GoAheadWrites DEF GoAheadInv
<1> QED
  BY <1>1, <1>2, <1>3, PTL DEF Spec, GoAheadKept

---------------------------------------------------------------------------
(* An open pull request is held out of the queue by more than the labels a *)
(* person may clear.                                                       *)
Holding == {"solving"} \cup UnderReview

OneRunner == \A r, q \in Runners : r = q

OpenHeld == \A t \in Tickets : pr[t] = "open" => labels[t] \cap Holding # {}

(* Until it publishes, a run is on a ticket without an open pull request;  *)
(* a move to a terminal label is on one too, and a move to a stage leaves  *)
(* a stage.                                                                *)
RunHolds(r) == LET t == rung[r].at IN
    /\ pc[r] \in {"enter", "solve", "publish"} => "solving" \in labels[t]
    /\ pc[r] \in {"claimWrite", "claimVerify", "enter", "solve", "publish", "relRead", "relWrite"} =>
         pr[t] # "open"
    /\ pc[r] \in Moving /\ rung[r].goal \in Terminal => pr[t] # "open"
    /\ pc[r] = "moveWrite" /\ rung[r].goal \notin Terminal =>
         ApplyEdit(labels[t], rung[r].edit) \cap UnderReview # {}

SettleEnded ==
    \A r \in Runners : \A s \in settle[r] : s[2] \in Terminal => pr[s[1]] # "open"

(* The moves a sweep asks for are done or dropped before anything is       *)
(* claimed.                                                                *)
Drained(r) ==
    /\ \A s \in settle[r] : s[2] \notin {"review", "failed"}
    /\ \/ settle[r] = {}
       \/ pc[r] \in {"look", "settle"}
       \/ pc[r] \in Moving /\ ~InRungs(r)

DrainedInv == TypeOK /\ \A r \in Runners : Drained(r)

OpenPrInv == DrainedInv /\ OpenHeld /\ (\A r \in Runners : RunHolds(r)) /\ SettleEnded

LEMMA DrainedStep == DrainedInv /\ [Next]_vars => DrainedInv'
<1> SUFFICES ASSUME DrainedInv, [Next]_vars PROVE \A r \in Runners : Drained(r)'
  BY StepTypes DEF DrainedInv
<1>0. TypeOK
  BY DEF DrainedInv
<1>1. CASE UNCHANGED <<pc, rung, settle>>
  BY <1>1 DEF DrainedInv, Drained, InRungs
<1>2. ASSUME NEW r \in Runners, Tick(r) \/ Rungs(r) \/ Crash(r) \/ \E t \in Tickets : Named(r, t)
      PROVE  \A q \in Runners : Drained(q)'
  <2>1. ASSUME NEW q \in Runners \ {r} PROVE Drained(q)'
    <3>1. settle'[q] = settle[q]
      BY <1>0, <1>2 DEF Tick, SweepFetch, Look, LooksDone, SettleNext, SettleDone, Count, Fetch,
            Pick, PickDone, Rungs, ClaimRead, ClaimWrite, ClaimVerify, Enter, Solve, Publish,
            MoveRead, MoveWrite, MoveVerify, MoveThrows, RelRead, RelWrite, StatusBack, Crash,
            Named, sweep, TypeOK
    <3>2. pc'[q] = pc[q] /\ rung'[q] = rung[q]
      BY <1>0, <1>2, OthersKept
    <3> QED
      BY <3>1, <3>2 DEF DrainedInv, Drained, InRungs
  <2>2. Drained(r)
    BY DEF DrainedInv
  <2>3. CASE \/ SweepFetch(r) \/ LooksDone(r) \/ SettleDone(r) \/ Count(r) \/ Fetch(r)
             \/ PickDone(r) \/ Crash(r) \/ \E t \in Tickets : Pick(r, t) \/ Named(r, t)
    <3>1. settle'[r] = settle[r] \/ settle'[r] = {}
      BY <1>0, <2>3 DEF SweepFetch, LooksDone, SettleDone, Count, Fetch, PickDone, Crash, Pick,
                        Named, sweep, TypeOK
    <3>2. settle'[r] = {} \/ pc'[r] \in {"look", "settle"}
      BY <1>0, <2>2, <2>3 DEF SweepFetch, LooksDone, SettleDone, Count, Fetch, PickDone, Crash,
            Pick, Named, sweep, Goto, TypeOK, RunnersTyped, Drained, Moving
    <3>3. Drained(r)'
      BY <2>2, <3>1, <3>2 DEF Drained
    <3> QED
      BY <2>1, <3>3
  <2>4. CASE \E t \in Tickets : Look(r, t)
    <3>1. PICK t \in Tickets : Look(r, t)
      BY <2>4
    <3>2. pc'[r] = "look"
      BY <3>1 DEF Look
    <3>3. \A g \in LookGoals(t) : g \notin {"review", "failed"}
      BY DEF LookGoals, UnderReview
    <3>4. \A s \in settle'[r] : s \in settle[r] \/ \E g \in LookGoals(t) : s = <<t, g>>
      BY <1>0, <3>1 DEF Look, TypeOK
    <3>5. Drained(r)'
      BY <2>2, <3>2, <3>3, <3>4 DEF Drained
    <3> QED
      BY <2>1, <3>5
  <2>5. CASE SettleNext(r)
    <3>1. PICK s \in settle[r] :
            /\ settle' = [settle EXCEPT ![r] = @ \ {s}]
            /\ rung' = [rung EXCEPT ![r] = [NoRung EXCEPT !.at = s[1], !.goal = s[2]]]
            /\ Goto(r, "moveRead")
      BY <2>5 DEF SettleNext
    <3>2. rung'[r].goal = s[2] /\ pc'[r] = "moveRead" /\ settle'[r] \subseteq settle[r]
      BY <1>0, <3>1 DEF TypeOK, RunnersTyped, Goto, NoRung
    <3>3. Drained(r)'
      BY <2>2, <3>2 DEF Drained, InRungs, Moving
    <3> QED
      BY <2>1, <3>3
  <2>6. CASE \/ ClaimRead(r) \/ ClaimWrite(r) \/ ClaimVerify(r) \/ Enter(r) \/ Solve(r)
             \/ Publish(r) \/ RelRead(r) \/ RelWrite(r) \/ StatusBack(r)
    <3>1. settle[r] = {}
      BY <2>2, <2>6 DEF Drained, ClaimRead, ClaimWrite, ClaimVerify, Enter, Solve, Publish, RelRead,
                        RelWrite, StatusBack, Moving
    <3>2. settle' = settle
      BY <2>6 DEF ClaimRead, ClaimWrite, ClaimVerify, Enter, Solve, Publish, RelRead, RelWrite,
                  StatusBack, sweep
    <3>3. Drained(r)'
      BY <3>1, <3>2 DEF Drained
    <3> QED
      BY <2>1, <3>3
  <2>7. CASE MoveRead(r) \/ MoveWrite(r) \/ MoveVerify(r)
    <3>1. pc[r] \in Moving
      BY <2>7 DEF MoveRead, MoveWrite, MoveVerify, Moving
    <3>2. ASSUME AfterMove(r), settle'[r] = settle[r]
          PROVE  Drained(r)'
      <4>1. CASE InRungs(r)
        BY <2>2, <3>1, <3>2, <4>1 DEF Drained, Moving
      <4>2. CASE ~InRungs(r)
        <5>1. pc'[r] = "settle"
          BY <1>0, <3>2, <4>2 DEF AfterMove, InRungs, Goto, TypeOK, RunnersTyped
        <5> QED
          BY <2>2, <3>2, <5>1 DEF Drained
      <4> QED
        BY <4>1, <4>2
    <3>3. ASSUME MoveThrows(r) PROVE Drained(r)'
      <4>1. CASE InRungs(r)
        BY <3>2, <3>3, <4>1 DEF MoveThrows
      <4>2. CASE ~InRungs(r)
        <5>1. settle'[r] = {}
          BY <1>0, <3>3, <4>2 DEF MoveThrows, TypeOK
        <5> QED
          BY <5>1 DEF Drained
      <4> QED
        BY <4>1, <4>2
    <3>4. ASSUME settle'[r] = settle[r], pc'[r] \in Moving, rung'[r].goal = rung[r].goal
          PROVE  Drained(r)'
      BY <2>2, <3>1, <3>4 DEF Drained, InRungs, Moving
    <3>5. ASSUME MoveRead(r), ~AfterMove(r), ~MoveThrows(r)
          PROVE  settle'[r] = settle[r] /\ pc'[r] \in Moving /\ rung'[r].goal = rung[r].goal
      BY <1>0, <3>5 DEF MoveRead, Goto, Moving, TypeOK, RunnersTyped, Rung
    <3>6. ASSUME MoveWrite(r), ~AfterMove(r)
          PROVE  settle'[r] = settle[r] /\ pc'[r] \in Moving /\ rung'[r].goal = rung[r].goal
      BY <1>0, <3>6 DEF MoveWrite, Goto, Moving, TypeOK, RunnersTyped, sweep
    <3>7. ASSUME AfterMove(r), MoveRead(r) \/ MoveWrite(r) \/ MoveVerify(r), ~MoveThrows(r)
          PROVE  settle'[r] = settle[r]
      BY <3>7 DEF MoveRead, MoveWrite, MoveVerify, sweep
    <3>8. Drained(r)'
      BY <2>7, <3>2, <3>3, <3>4, <3>5, <3>6, <3>7 DEF MoveVerify
    <3> QED
      BY <2>1, <3>8
  <2> QED
    BY <1>2, <2>3, <2>4, <2>5, <2>6, <2>7 DEF Tick, Rungs
<1>3. CASE People \/ \E t \in Tickets : MentionWrite(t)
  BY <1>1, <1>3 DEF People, MentionRead, MentionWrite, PersonStarts, PersonClears, PersonToggles,
         PersonEndsPr, PersonStops, board, sweep
<1> QED
  BY <1>1, <1>2, <1>3 DEF Next, vars, sweep

LEMMA PeopleFrame ==
    ASSUME TypeOK, People \/ \E t \in Tickets : MentionWrite(t)
    PROVE  /\ UNCHANGED <<pc, rung, settle>>
           /\ \A t \in Tickets : /\ labels'[t] \cap Holding = labels[t] \cap Holding
                                 /\ pr'[t] = "open" => pr[t] = "open"
<1>1. ASSUME NEW u \in Tickets, NEW a, NEW b, Write(u, Edit(a, b)), (a \cup b) \cap Holding = {}
      PROVE  \A t \in Tickets : labels'[t] \cap Holding = labels[t] \cap Holding
  BY <1>1 DEF Write, ApplyEdit, Edit, TypeOK
<1>2. ASSUME NEW l \in Terminal \cup Bystander \cup {"start", "failed"}
      PROVE  l \notin Holding
  BY <1>2 DEF Terminal, Bystander, Holding, UnderReview
<1>3. ASSUME NEW t \in Tickets, MentionWrite(t) \/ PersonStarts(t) \/ PersonClears(t)
                               \/ \E l \in Bystander : PersonToggles(t, l)
      PROVE  \A u \in Tickets : labels'[u] \cap Holding = labels[u] \cap Holding
  <2>1. ASSUME NEW l \in Terminal \cup Bystander \cup {"start", "failed"},
               Write(t, Edit({l}, {})) \/ Write(t, Edit({}, {l}))
        PROVE  \A u \in Tickets : labels'[u] \cap Holding = labels[u] \cap Holding
    <3>1. ({l} \cup {}) \cap Holding = {} /\ ({} \cup {l}) \cap Holding = {}
      BY <1>2
    <3> QED
      BY <1>1, <2>1, <3>1
  <2>2. CASE UNCHANGED labels
    BY <2>2
  <2>3. CASE MentionWrite(t)
    BY <2>1, <2>2, <2>3 DEF MentionWrite
  <2>4. CASE PersonStarts(t)
    BY <2>1, <2>4 DEF PersonStarts
  <2>5. CASE PersonClears(t)
    BY <2>1, <2>5 DEF PersonClears
  <2>6. CASE \E l \in Bystander : PersonToggles(t, l)
    BY <2>1, <2>6 DEF PersonToggles
  <2> QED
    BY <1>3, <2>3, <2>4, <2>5, <2>6
<1>4. UNCHANGED <<pc, rung, settle>>
  BY DEF People, MentionRead, MentionWrite, PersonStarts, PersonClears, PersonToggles,
         PersonEndsPr, PersonStops, board, sweep
<1>5. \A t \in Tickets : pr'[t] = "open" => pr[t] = "open"
  BY DEF People, MentionRead, MentionWrite, PersonStarts, PersonClears, PersonToggles,
         PersonEndsPr, PersonStops, board, TypeOK
<1>6. CASE UNCHANGED labels
  BY <1>4, <1>5, <1>6
<1> QED
  BY <1>3, <1>4, <1>5, <1>6 DEF People, MentionRead, PersonEndsPr, PersonStops, board

LEMMA OpenPrPeople ==
    ASSUME OpenPrInv, People \/ \E t \in Tickets : MentionWrite(t)
    PROVE  OpenHeld' /\ (\A r \in Runners : RunHolds(r)') /\ SettleEnded'
<1>1. TypeOK
  BY DEF OpenPrInv, DrainedInv
<1>2. /\ UNCHANGED <<pc, rung, settle>>
      /\ \A t \in Tickets : /\ labels'[t] \cap Holding = labels[t] \cap Holding
                            /\ pr'[t] = "open" => pr[t] = "open"
  BY <1>1, PeopleFrame
<1>3. OpenHeld'
  BY <1>2 DEF OpenHeld, OpenPrInv
<1>4. SettleEnded'
  BY <1>1, <1>2 DEF SettleEnded, OpenPrInv, TypeOK
<1>5. ASSUME NEW r \in Runners PROVE RunHolds(r)'
  <2>1. CASE pc[r] \notin OnTicket
    BY <1>1, <1>2, <2>1 DEF RunHolds, OnTicket, Moving, Pc
  <2>2. CASE pc[r] \in OnTicket
    <3>1. rung[r].at \in Tickets
      BY <1>1, <2>2 DEF TypeOK, RunnersTyped
    <3>2. ApplyEdit(labels'[rung[r].at], rung[r].edit) \cap UnderReview
            = ApplyEdit(labels[rung[r].at], rung[r].edit) \cap UnderReview
      BY <1>2, <3>1 DEF ApplyEdit, Holding
    <3>3. "solving" \in labels[rung[r].at] => "solving" \in labels'[rung[r].at]
      BY <1>2, <3>1 DEF Holding
    <3> QED
      BY <1>2, <3>1, <3>2, <3>3 DEF RunHolds, OpenPrInv
  <2> QED
    BY <2>1, <2>2
<1> QED
  BY <1>3, <1>4, <1>5

(* A step of the only runner that changes neither labels nor pull requests.*)
LEMMA QuietStep ==
    ASSUME OpenPrInv, OneRunner, NEW r \in Runners, UNCHANGED <<labels, pr>>,
           RunHolds(r)', settle'[r] \subseteq settle[r]
    PROVE  OpenHeld' /\ (\A q \in Runners : RunHolds(q)') /\ SettleEnded'
<1>1. OpenHeld'
  BY DEF OpenPrInv, OpenHeld
<1>2. SettleEnded'
  BY DEF OpenPrInv, SettleEnded, OneRunner
<1>3. \A q \in Runners : RunHolds(q)'
  BY DEF OneRunner
<1> QED
  BY <1>1, <1>2, <1>3

LEMMA OffTicketHolds ==
    ASSUME NEW r \in Runners,
           pc'[r] \in {"idle", "look", "settle", "count", "fetch", "pick", "claimRead", "back"}
    PROVE  RunHolds(r)'
  BY DEF RunHolds, Moving

LEMMA OpenPrTick ==
    ASSUME OpenPrInv, OneRunner, NEW r \in Runners,
           Tick(r) \/ Crash(r) \/ \E t \in Tickets : Named(r, t)
    PROVE  OpenHeld' /\ (\A q \in Runners : RunHolds(q)') /\ SettleEnded'
<1>0. TypeOK
  BY DEF OpenPrInv, DrainedInv
<1>1. ASSUME SettleNext(r)
      PROVE  OpenHeld' /\ (\A q \in Runners : RunHolds(q)') /\ SettleEnded'
  <2>1. PICK s \in settle[r] :
          /\ settle' = [settle EXCEPT ![r] = @ \ {s}]
          /\ rung' = [rung EXCEPT ![r] = [NoRung EXCEPT !.at = s[1], !.goal = s[2]]]
          /\ Goto(r, "moveRead")
    BY <1>1 DEF SettleNext
  <2>2. rung'[r].at = s[1] /\ rung'[r].goal = s[2] /\ pc'[r] = "moveRead"
    BY <1>0, <2>1 DEF TypeOK, RunnersTyped, Goto, NoRung
  <2>3. s[2] \in Terminal => pr[s[1]] # "open"
    BY DEF OpenPrInv, SettleEnded
  <2>4. UNCHANGED <<labels, pr>>
    BY <1>1 DEF SettleNext, board
  <2>5. RunHolds(r)'
    BY <2>2, <2>3, <2>4 DEF RunHolds
  <2>6. settle'[r] \subseteq settle[r]
    BY <1>0, <2>1 DEF TypeOK
  <2> QED
    BY <2>4, <2>5, <2>6, QuietStep
<1>2. ASSUME NEW t \in Tickets, Look(r, t)
      PROVE  OpenHeld' /\ (\A q \in Runners : RunHolds(q)') /\ SettleEnded'
  <2>1. UNCHANGED <<labels, pr, pc, rung>>
    BY <1>2 DEF Look, board
  <2>2. RunHolds(r)'
    BY <1>0, <1>2, <2>1, OffTicketHolds DEF Look
  <2>3. \A g \in LookGoals(t) : g \in Terminal => pr[t] # "open"
    BY DEF LookGoals, Terminal, UnderReview
  <2>4. \A s \in settle'[r] : s[2] \in Terminal => pr[s[1]] # "open"
    <3>1. CASE UNCHANGED settle
      BY <3>1 DEF OpenPrInv, SettleEnded
    <3>2. ASSUME NEW g \in LookGoals(t), settle' = [settle EXCEPT ![r] = @ \cup {<<t, g>>}]
          PROVE  \A s \in settle'[r] : s[2] \in Terminal => pr[s[1]] # "open"
      <4>1. \A s \in settle'[r] : s \in settle[r] \/ s = <<t, g>>
        BY <1>0, <3>2 DEF TypeOK
      <4>2. \A s \in settle[r] : s[2] \in Terminal => pr[s[1]] # "open"
        BY DEF OpenPrInv, SettleEnded
      <4> QED
        BY <2>3, <4>1, <4>2
    <3> QED
      BY <1>2, <3>1, <3>2 DEF Look
  <2>5. OpenHeld'
    BY <2>1 DEF OpenPrInv, OpenHeld
  <2> QED
    BY <2>1, <2>2, <2>4, <2>5 DEF OneRunner, SettleEnded
<1>3. ASSUME \/ SweepFetch(r) \/ LooksDone(r) \/ SettleDone(r) \/ Count(r) \/ Fetch(r)
             \/ PickDone(r) \/ Crash(r) \/ \E t \in Tickets : Pick(r, t) \/ Named(r, t)
      PROVE  OpenHeld' /\ (\A q \in Runners : RunHolds(q)') /\ SettleEnded'
  <2>1. UNCHANGED <<labels, pr>> /\ settle'[r] \subseteq settle[r]
    BY <1>0, <1>3 DEF SweepFetch, LooksDone, SettleDone, Count, Fetch, PickDone, Crash, Pick, Named,
                      board, sweep, TypeOK
  <2>2. pc'[r] \in {"idle", "look", "settle", "count", "fetch", "pick", "claimRead"}
    BY <1>0, <1>3 DEF SweepFetch, LooksDone, SettleDone, Count, Fetch, PickDone, Crash, Pick, Named,
                      Goto, TypeOK, RunnersTyped
  <2> QED
    BY <2>1, <2>2, OffTicketHolds, QuietStep
<1> QED
  BY <1>1, <1>2, <1>3 DEF Tick

LEMMA OpenPrClaim ==
    ASSUME OpenPrInv, OneRunner, NEW r \in Runners,
           ClaimRead(r) \/ ClaimVerify(r) \/ Enter(r) \/ Solve(r)
    PROVE  OpenHeld' /\ (\A q \in Runners : RunHolds(q)') /\ SettleEnded'
<1> DEFINE t == rung[r].at
<1>0. TypeOK /\ RunHolds(r) /\ t \in Tickets /\ rung[r] \in Rung
  BY DEF OpenPrInv, DrainedInv, TypeOK, RunnersTyped, ClaimRead, ClaimVerify, Enter, Solve, OnTicket, Pc
<1>1. UNCHANGED <<labels, pr>> /\ settle'[r] \subseteq settle[r]
  BY DEF ClaimRead, ClaimVerify, Enter, Solve, board, sweep
<1>2. CASE EndRungs(r)
  BY <1>0, <1>1, <1>2, EndRungsTypes, OffTicketHolds, QuietStep
<1>3. CASE ClaimRead(r) /\ ~EndRungs(r)
  <2>1. Eligible(labels[t], Authority) /\ Goto(r, "claimWrite")
        /\ rung' = [rung EXCEPT ![r].before = labels[t]]
    BY <1>3 DEF ClaimRead
  <2>2. pr[t] # "open"
    BY <1>0, <2>1 DEF OpenPrInv, OpenHeld, Eligible, Holding, QueueExcluded, UnderReview
  <2>3. pc'[r] = "claimWrite" /\ rung'[r].at = t
    BY <1>0, <2>1 DEF TypeOK, RunnersTyped, Goto, Rung
  <2>4. RunHolds(r)'
    BY <1>1, <2>2, <2>3 DEF RunHolds, Moving
  <2> QED
    BY <1>1, <2>4, QuietStep
<1>4. CASE ClaimVerify(r) /\ ~EndRungs(r)
  <2>1. Took(ClaimEdit(rung[r].before), labels[t]) /\ Goto(r, "enter")
        /\ rung' = [rung EXCEPT ![r].after = labels[t]]
    BY <1>4 DEF ClaimVerify
  <2>2. pr[t] # "open" /\ "solving" \in labels[t]
    BY <1>0, <1>4, <2>1 DEF RunHolds, ClaimVerify, Took, ClaimEdit, Edit
  <2>3. pc'[r] = "enter" /\ rung'[r].at = t
    BY <1>0, <2>1 DEF TypeOK, RunnersTyped, Goto, Rung
  <2>4. RunHolds(r)'
    BY <1>1, <2>2, <2>3 DEF RunHolds, Moving
  <2> QED
    BY <1>1, <2>4, QuietStep
<1>5. CASE Enter(r)
  <2>1. pc'[r] = "solve" /\ rung'[r].at = t
    BY <1>0, <1>5 DEF Enter, TypeOK, RunnersTyped, Goto, Rung
  <2>2. RunHolds(r)'
    BY <1>0, <1>1, <1>5, <2>1 DEF RunHolds, Enter, Moving
  <2> QED
    BY <1>1, <2>2, QuietStep
<1>6. CASE Solve(r)
  <2>1. pc'[r] \in {"publish", "moveRead", "relRead"} /\ rung'[r].at = t
    BY <1>0, <1>6 DEF Solve, TypeOK, RunnersTyped, Goto, Rung
  <2>2. RunHolds(r)'
    BY <1>0, <1>1, <1>6, <2>1 DEF RunHolds, Solve
  <2> QED
    BY <1>1, <2>2, QuietStep
<1> QED
  BY <1>2, <1>3, <1>4, <1>5, <1>6

LEMMA OpenPrWrite ==
    ASSUME OpenPrInv, OneRunner, NEW r \in Runners, ClaimWrite(r) \/ RelWrite(r)
    PROVE  OpenHeld' /\ (\A q \in Runners : RunHolds(q)') /\ SettleEnded'
<1> DEFINE t == rung[r].at
<1>0. TypeOK /\ RunHolds(r) /\ t \in Tickets
  BY DEF OpenPrInv, DrainedInv, TypeOK, RunnersTyped, ClaimWrite, RelWrite, OnTicket, Pc
<1>1. UNCHANGED <<pr, settle>> /\ pr[t] # "open"
  BY <1>0 DEF ClaimWrite, RelWrite, sweep, RunHolds
<1>2. \A u \in Tickets \ {t} : labels'[u] = labels[u]
  BY <1>0 DEF ClaimWrite, RelWrite, WriteAnswered, WriteErred, Write, TypeOK
<1>3. OpenHeld'
  BY <1>1, <1>2 DEF OpenHeld, OpenPrInv
<1>4. SettleEnded'
  BY <1>1 DEF SettleEnded, OpenPrInv
<1>5. RunHolds(r)'
  <2>1. CASE EndRungs(r)
    BY <1>0, <2>1, EndRungsTypes, OffTicketHolds
  <2>2. CASE Goto(r, "back")
    BY <1>0, <2>2, OffTicketHolds DEF Goto, TypeOK, RunnersTyped
  <2>3. CASE Goto(r, "claimVerify") /\ UNCHANGED rung
    BY <1>0, <1>1, <2>3 DEF Goto, TypeOK, RunnersTyped, RunHolds, Moving
  <2> QED
    BY <2>1, <2>2, <2>3 DEF ClaimWrite, RelWrite
<1> QED
  BY <1>3, <1>4, <1>5 DEF OneRunner

LEMMA OpenPrPublish ==
    ASSUME OpenPrInv, OneRunner, "create_lost" \notin Faults, NEW r \in Runners, Publish(r)
    PROVE  OpenHeld' /\ (\A q \in Runners : RunHolds(q)') /\ SettleEnded'
<1> DEFINE t == rung[r].at
<1>0. TypeOK /\ RunHolds(r) /\ t \in Tickets /\ rung[r] \in Rung
  BY DEF OpenPrInv, DrainedInv, TypeOK, RunnersTyped, Publish, OnTicket, Pc
<1>1. UNCHANGED <<labels, settle>> /\ "solving" \in labels[t] /\ pr[t] # "open"
  BY <1>0 DEF Publish, RunHolds, sweep
<1>2. OpenHeld'
  BY <1>0, <1>1 DEF OpenHeld, OpenPrInv, Publish, Opens, TypeOK, Holding
<1>3. CASE UNCHANGED <<pr, rung>> /\ Goto(r, "relRead")
  <2>1. RunHolds(r)'
    BY <1>0, <1>1, <1>3 DEF Goto, TypeOK, RunnersTyped, RunHolds, Moving
  <2> QED
    BY <1>1, <1>3, <2>1, QuietStep
<1>4. CASE /\ Opens(t) /\ Goto(r, "moveRead")
           /\ rung' = [rung EXCEPT ![r].keep = TRUE, ![r].goal = "review"]
  <2>1. pc'[r] = "moveRead" /\ rung'[r].goal = "review"
    BY <1>0, <1>4 DEF Goto, TypeOK, RunnersTyped, Rung
  <2>2. RunHolds(r)'
    BY <2>1 DEF RunHolds, Terminal
  <2>3. settle[r] = {}
    BY DEF OpenPrInv, DrainedInv, Drained, Publish, Moving
  <2> QED
    BY <1>1, <1>2, <2>2, <2>3 DEF OneRunner, SettleEnded
<1> QED
  BY <1>3, <1>4 DEF Publish, Fail, CanFail

(* A move to a stage leaves the ticket with a stage.                       *)
LEMMA StageMoveLeavesStage ==
    ASSUME NEW g \in Goal \ Terminal, NEW ls \in SUBSET Label
    PROVE  ApplyEdit(ls, MoveEdit(g, ls)) \cap UnderReview # {}
<1>1. CASE g = "review"
  <2>1. MoveEdit(g, ls) = [add |-> {"reviewing"}, remove |-> {"solving"}]
    BY <1>1 DEF MoveEdit, Edit, UnderReview
  <2> QED
    BY <2>1 DEF ApplyEdit, UnderReview
<1>2. CASE g \in UnderReview
  <2>1. MoveEdit(g, ls) = [add |-> {g} \ ls, remove |-> ls \cap (UnderReview \ {g})]
    BY <1>2 DEF MoveEdit, Edit, UnderReview
  <2>2. g \in ApplyEdit(ls, MoveEdit(g, ls))
    BY <2>1 DEF ApplyEdit
  <2> QED
    BY <1>2, <2>2
<1> QED
  BY <1>1, <1>2 DEF Goal, Terminal, UnderReview

LEMMA OpenPrMove ==
    ASSUME OpenPrInv, OneRunner, NEW r \in Runners,
           MoveRead(r) \/ MoveWrite(r) \/ MoveVerify(r) \/ RelRead(r) \/ StatusBack(r)
    PROVE  OpenHeld' /\ (\A q \in Runners : RunHolds(q)') /\ SettleEnded'
<1> DEFINE t == rung[r].at
<1>0. TypeOK /\ RunHolds(r) /\ t \in Tickets /\ rung[r] \in Rung
  BY DEF OpenPrInv, DrainedInv, TypeOK, RunnersTyped, MoveRead, MoveWrite, MoveVerify, RelRead,
         StatusBack, OnTicket, Pc
<1>1. ASSUME AfterMove(r) \/ MoveThrows(r) PROVE RunHolds(r)'
  BY <1>0, <1>1, AfterMoveGoes, OffTicketHolds
<1>2. settle'[r] \subseteq settle[r]
  BY <1>0 DEF MoveRead, MoveWrite, MoveVerify, MoveThrows, RelRead, StatusBack, sweep, TypeOK
<1>3. CASE MoveRead(r)
  <2>1. UNCHANGED <<labels, pr>>
    BY <1>3 DEF MoveRead, board
  <2> DEFINE e == MoveEdit(rung[r].goal, labels[t])
  <2>2. CASE rung' = [rung EXCEPT ![r].edit = e] /\ Goto(r, "moveWrite")
    <3>1. rung[r].goal \in Goal /\ labels[t] \in SUBSET Label
      BY <1>0, <1>3 DEF TypeOK, RunnersTyped, MoveRead, Moving
    <3>2. rung[r].goal \notin Terminal => ApplyEdit(labels[t], e) \cap UnderReview # {}
      BY <3>1, StageMoveLeavesStage
    <3>3. rung[r].goal \in Terminal => pr[t] # "open"
      BY <1>0, <1>3 DEF RunHolds, MoveRead, Moving
    <3> HIDE DEF e
    <3>4. /\ rung'[r].at = t /\ rung'[r].edit = e /\ rung'[r].goal = rung[r].goal
          /\ pc'[r] = "moveWrite"
      BY <1>0, <2>2 DEF TypeOK, RunnersTyped, Goto, Rung
    <3>5. RunHolds(r)'
      BY <2>1, <3>2, <3>3, <3>4 DEF RunHolds, Moving
    <3> QED
      BY <1>2, <2>1, <3>5, QuietStep
  <2>3. CASE AfterMove(r) \/ MoveThrows(r)
    BY <1>1, <1>2, <2>1, <2>3, QuietStep
  <2> QED
    BY <1>3, <2>2, <2>3 DEF MoveRead
<1>4. CASE MoveWrite(r)
  <2>1. UNCHANGED pr
    BY <1>4 DEF MoveWrite
  <2>2. /\ \A u \in Tickets \ {t} : labels'[u] = labels[u]
        /\ labels'[t] \in {labels[t], ApplyEdit(labels[t], rung[r].edit)}
    BY <1>0, <1>4 DEF MoveWrite, WriteAnswered, WriteErred, Write, TypeOK
  <2>3. pr[t] = "open" => labels'[t] \cap Holding # {}
    <3>1. pr[t] = "open" => ApplyEdit(labels[t], rung[r].edit) \cap UnderReview # {}
      BY <1>0, <1>4 DEF RunHolds, MoveWrite, Moving
    <3>2. pr[t] = "open" => labels[t] \cap Holding # {}
      BY <1>0 DEF OpenPrInv, OpenHeld
    <3> QED
      BY <2>2, <3>1, <3>2 DEF Holding
  <2>4. OpenHeld'
    BY <2>1, <2>2, <2>3 DEF OpenHeld, OpenPrInv
  <2>5. RunHolds(r)'
    <3>1. CASE Goto(r, "moveVerify") /\ UNCHANGED rung
      BY <1>0, <1>4, <2>1, <3>1 DEF RunHolds, MoveWrite, Moving, Goto, TypeOK, RunnersTyped
    <3> QED
      BY <1>1, <1>4, <3>1 DEF MoveWrite
  <2> QED
    BY <1>2, <2>1, <2>4, <2>5 DEF OneRunner, SettleEnded, OpenPrInv
<1>5. CASE MoveVerify(r)
  <2>1. UNCHANGED <<labels, pr>>
    BY <1>5 DEF MoveVerify
  <2> QED
    BY <1>1, <1>2, <1>5, <2>1, QuietStep DEF MoveVerify
<1>6. CASE RelRead(r) \/ StatusBack(r)
  <2>1. UNCHANGED <<labels, pr>>
    BY <1>6 DEF RelRead, StatusBack, board
  <2>2. RunHolds(r)'
    <3>1. CASE EndRungs(r)
      BY <1>0, <3>1, EndRungsTypes, OffTicketHolds
    <3>2. CASE Goto(r, "back")
      BY <1>0, <3>2, OffTicketHolds DEF Goto, TypeOK, RunnersTyped
    <3>3. CASE RelRead(r) /\ Goto(r, "relWrite")
      BY <1>0, <2>1, <3>3 DEF RelRead, RunHolds, Moving, Goto, TypeOK, RunnersTyped
    <3> QED
      BY <1>6, <3>1, <3>2, <3>3 DEF RelRead, StatusBack
  <2> QED
    BY <1>2, <2>1, <2>2, QuietStep
<1> QED
  BY <1>3, <1>4, <1>5, <1>6

LEMMA OpenPrStep ==
    ASSUME OneRunner, "create_lost" \notin Faults, OpenPrInv, [Next]_vars
    PROVE  OpenPrInv'
<1> SUFFICES OpenHeld' /\ (\A r \in Runners : RunHolds(r)') /\ SettleEnded'
  BY DrainedStep DEF OpenPrInv
<1>1. CASE UNCHANGED vars
  BY <1>1 DEF vars, board, sweep, OpenPrInv, OpenHeld, RunHolds, SettleEnded, Moving
<1>2. ASSUME NEW r \in Runners, Rungs(r)
      PROVE  OpenHeld' /\ (\A q \in Runners : RunHolds(q)') /\ SettleEnded'
  BY <1>2, OpenPrClaim, OpenPrWrite, OpenPrPublish, OpenPrMove DEF Rungs
<1>3. ASSUME NEW r \in Runners, Tick(r) \/ Crash(r) \/ \E t \in Tickets : Named(r, t)
      PROVE  OpenHeld' /\ (\A q \in Runners : RunHolds(q)') /\ SettleEnded'
  BY <1>3, OpenPrTick
<1>4. CASE People \/ \E t \in Tickets : MentionWrite(t)
  BY <1>4, OpenPrPeople
<1> QED
  BY <1>1, <1>2, <1>3, <1>4 DEF Next

(* With one runner, and no pull request opened behind an error, a ticket   *)
(* whose pull request is open is never back in the queue: whatever reads   *)
(* and writes fail, whoever edits labels, and wherever the runner crashes. *)
THEOREM OpenPrStaysOut ==
    ASSUME OneRunner, "create_lost" \notin Faults
    PROVE  Spec => []OpenPrExcluded
<1>1. Init => OpenPrInv
  BY InitTypes DEF Init, OpenPrInv, DrainedInv, Drained, OpenHeld, RunHolds, SettleEnded, Moving
<1>2. OpenPrInv /\ [Next]_vars => OpenPrInv'
  BY OpenPrStep
<1>3. OpenPrInv => OpenPrExcluded
  BY DEF OpenPrInv, OpenHeld, OpenPrExcluded, Holding, QueueExcluded, UnderReview
<1> QED
  BY <1>1, <1>2, <1>3, PTL DEF Spec

---------------------------------------------------------------------------
(* A run that moved its ticket in progress is on its way to the inner      *)
(* finally, or to the review of a pull request it has opened.              *)
Owes(r) == rung[r].moved =>
    /\ pc[r] \in {"solve", "publish", "relRead", "relWrite", "back"} \cup Moving
    /\ pc[r] \in Moving => /\ InRungs(r)
                           /\ rung[r].goal = "review" => pr[rung[r].at] # "none"

InProgressInv == TypeOK /\ NoOrphanInProgress /\ \A r \in Runners : Owes(r)

(* What a runner's step does for the ticket it put in progress: stays its  *)
(* owner, or leaves it with a pull request or out of progress.             *)
Repays(r) == rung[r].moved =>
    \/ rung'[r].moved /\ rung'[r].at = rung[r].at
    \/ pr'[rung[r].at] # "none"
    \/ status'[rung[r].at] # "inProgress"

PrStays == \A t \in Tickets : pr[t] # "none" => pr'[t] # "none"

LEMMA OwedByOthers ==
    ASSUME InProgressInv, NEW r \in Runners,
           Tick(r) \/ Rungs(r) \/ Crash(r) \/ \E t \in Tickets : Named(r, t),
           PrStays, Owes(r)', Repays(r),
           \A t \in Tickets : status'[t] = "inProgress" =>
               status[t] = "inProgress" \/ (rung'[r].at = t /\ rung'[r].moved)
    PROVE  NoOrphanInProgress' /\ \A q \in Runners : Owes(q)'
<1>0. TypeOK
  BY DEF InProgressInv
<1>1. \A q \in Runners \ {r} : pc'[q] = pc[q] /\ rung'[q] = rung[q]
  BY <1>0, OthersKept
<1>2. ASSUME NEW q \in Runners PROVE Owes(q)'
  <2>1. CASE q = r
    BY <2>1
  <2>2. CASE q # r
    <3>1. pc[q] \in Moving => rung[q].at \in Tickets
      BY <1>0 DEF TypeOK, RunnersTyped, OnTicket, Moving, Pc
    <3> QED
      BY <1>1, <2>2, <3>1 DEF Owes, InProgressInv, PrStays, InRungs
  <2> QED
    BY <2>1, <2>2
<1>3. ASSUME NEW t \in Tickets, status'[t] = "inProgress"
      PROVE  pr'[t] # "none" \/ \E q \in Runners : rung'[q].at = t /\ rung'[q].moved
  <2>1. CASE status[t] = "inProgress"
    <3>1. pr[t] # "none" \/ \E q \in Runners : rung[q].at = t /\ rung[q].moved
      BY <2>1 DEF InProgressInv, NoOrphanInProgress
    <3>2. CASE pr[t] # "none"
      BY <3>2 DEF PrStays
    <3>3. ASSUME NEW q \in Runners, rung[q].at = t, rung[q].moved
          PROVE  pr'[t] # "none" \/ \E o \in Runners : rung'[o].at = t /\ rung'[o].moved
      <4>1. CASE q = r
        BY <1>3, <3>3, <4>1 DEF Repays
      <4>2. CASE q # r
        BY <1>1, <3>3, <4>2
      <4> QED
        BY <4>1, <4>2
    <3> QED
      BY <3>1, <3>2, <3>3
  <2>2. CASE status[t] # "inProgress"
    BY <1>3, <2>2
  <2> QED
    BY <2>1, <2>2
<1> QED
  BY <1>2, <1>3 DEF NoOrphanInProgress

(* A step that ends a run or takes up another ticket: the run had not      *)
(* moved its ticket.                                                       *)
LEMMA NothingOwed ==
    ASSUME TypeOK, NEW r \in Runners, ~rung[r].moved, ~rung'[r].moved
    PROVE  Owes(r)' /\ Repays(r)
  BY DEF Owes, Repays

LEMMA InProgressTick ==
    ASSUME InProgressInv, NEW r \in Runners, Tick(r) \/ \E t \in Tickets : Named(r, t)
    PROVE  NoOrphanInProgress' /\ \A q \in Runners : Owes(q)'
<1>0. TypeOK /\ Owes(r)
  BY DEF InProgressInv
<1>1. UNCHANGED <<status, pr>>
  BY DEF Tick, SweepFetch, Look, LooksDone, SettleNext, SettleDone, Count, Fetch, Pick, PickDone,
         Named, board
<1>2. pc[r] \in {"idle", "look", "settle", "count", "fetch", "pick"}
  BY DEF Tick, SweepFetch, Look, LooksDone, SettleNext, SettleDone, Count, Fetch, Pick, PickDone,
         Named
<1>3. ~rung[r].moved
  BY <1>0, <1>2 DEF Owes, Moving
<1>4. ~rung'[r].moved
  <2>1. CASE UNCHANGED rung
    BY <1>3, <2>1
  <2>2. CASE SettleNext(r) \/ \E t \in Tickets : Pick(r, t) \/ Named(r, t)
    <3>1. \/ UNCHANGED rung
          \/ \E s : rung' = [rung EXCEPT ![r] = [NoRung EXCEPT !.at = s]]
          \/ \E s, g : rung' = [rung EXCEPT ![r] = [NoRung EXCEPT !.at = s, !.goal = g]]
      BY <2>2 DEF SettleNext, Pick, Named
    <3> QED
      BY <1>0, <1>3, <3>1 DEF TypeOK, RunnersTyped, NoRung
  <2> QED
    BY <2>1, <2>2 DEF Tick, SweepFetch, Look, LooksDone, SettleDone, Count, Fetch, PickDone
<1> QED
  BY <1>0, <1>1, <1>3, <1>4, NothingOwed, OwedByOthers DEF PrStays

LEMMA InProgressRungs ==
    ASSUME InProgressInv, "status" \notin Faults, NEW r \in Runners, Rungs(r)
    PROVE  NoOrphanInProgress' /\ \A q \in Runners : Owes(q)'
<1> DEFINE t == rung[r].at
<1>0. TypeOK /\ Owes(r) /\ t \in Tickets /\ rung[r] \in Rung
  BY DEF InProgressInv, TypeOK, RunnersTyped, OnTicket, Pc, Rungs, ClaimRead, ClaimWrite, ClaimVerify,
         Enter, Solve, Publish, MoveRead, MoveWrite, MoveVerify, RelRead, RelWrite, StatusBack
<1>1. PrStays
  BY <1>0 DEF PrStays, Rungs, ClaimRead, ClaimWrite, ClaimVerify, Enter, Solve, Publish, Opens,
         MoveRead, MoveWrite, MoveVerify, RelRead, RelWrite, StatusBack, board, TypeOK
<1>2. ASSUME Owes(r)', Repays(r),
             \A u \in Tickets : status'[u] = "inProgress" =>
                 status[u] = "inProgress" \/ (rung'[r].at = u /\ rung'[r].moved)
      PROVE  NoOrphanInProgress' /\ \A q \in Runners : Owes(q)'
  BY <1>1, <1>2, OwedByOthers
<1>3. CASE ClaimRead(r) \/ ClaimWrite(r) \/ ClaimVerify(r)
  <2>1. ~rung[r].moved
    BY <1>0, <1>3 DEF Owes, ClaimRead, ClaimWrite, ClaimVerify, Moving
  <2>2. \/ UNCHANGED rung
        \/ rung' = [rung EXCEPT ![r] = NoRung]
        \/ \E ls : rung' = [rung EXCEPT ![r].before = ls]
        \/ \E ls : rung' = [rung EXCEPT ![r].after = ls]
    BY <1>3 DEF ClaimRead, ClaimWrite, ClaimVerify, EndRungs
  <2>3. ~rung'[r].moved
    <3>1. CASE UNCHANGED rung
      BY <2>1, <3>1
    <3>2. CASE rung' = [rung EXCEPT ![r] = NoRung]
      BY <1>0, <3>2 DEF TypeOK, RunnersTyped, NoRung
    <3>3. CASE \E ls : rung' = [rung EXCEPT ![r].before = ls]
      BY <1>0, <2>1, <3>3 DEF TypeOK, RunnersTyped, Rung
    <3>4. CASE \E ls : rung' = [rung EXCEPT ![r].after = ls]
      BY <1>0, <2>1, <3>4 DEF TypeOK, RunnersTyped, Rung
    <3> QED
      BY <2>2, <3>1, <3>2, <3>3, <3>4
  <2>4. UNCHANGED status
    BY <1>3 DEF ClaimRead, ClaimWrite, ClaimVerify, board
  <2> QED
    BY <1>0, <1>2, <2>1, <2>3, <2>4, NothingOwed
<1>4. CASE Enter(r)
  <2>1. pc'[r] = "solve" /\ ~rung[r].moved
    BY <1>0, <1>4 DEF Enter, Owes, Moving, Goto, TypeOK, RunnersTyped
  <2>2. CASE /\ status' = [status EXCEPT ![t] = "inProgress"]
             /\ rung' = [rung EXCEPT ![r].moved = TRUE]
    <3>1. rung'[r].at = t /\ rung'[r].moved
      BY <1>0, <2>2 DEF TypeOK, RunnersTyped, Rung
    <3> QED
      BY <1>0, <1>2, <2>1, <2>2, <3>1 DEF Owes, Repays, Moving, TypeOK
  <2>3. CASE UNCHANGED <<status, rung>>
    BY <1>0, <1>2, <2>1, <2>3, NothingOwed
  <2> QED
    BY <1>4, <2>2, <2>3 DEF Enter, Fail, CanFail
<1>5. CASE Solve(r) \/ RelRead(r) \/ RelWrite(r)
  <2>1. UNCHANGED status
    BY <1>5 DEF Solve, RelRead, RelWrite, board
  <2>2. /\ rung'[r].at = t /\ rung'[r].moved = rung[r].moved
        /\ pc'[r] \in {"publish", "relRead", "relWrite", "back"}
           \/ (pc'[r] = "moveRead" /\ rung'[r].goal = "failed")
    BY <1>0, <1>5 DEF Solve, RelRead, RelWrite, Goto, TypeOK, RunnersTyped, Rung
  <2> QED
    BY <1>2, <2>1, <2>2 DEF Owes, Repays, Moving, InRungs
<1>6. CASE Publish(r)
  <2>1. UNCHANGED status
    BY <1>6 DEF Publish
  <2>2. CASE Goto(r, "relRead") /\ UNCHANGED rung
    <3>1. pc'[r] = "relRead"
      BY <1>0, <2>2 DEF Goto, TypeOK, RunnersTyped
    <3> QED
      BY <1>2, <2>1, <2>2, <3>1 DEF Owes, Repays, Moving
  <2>3. CASE /\ Opens(t) /\ Goto(r, "moveRead")
             /\ rung' = [rung EXCEPT ![r].keep = TRUE, ![r].goal = "review"]
    <3>1. /\ rung'[r].at = t /\ rung'[r].moved = rung[r].moved /\ rung'[r].goal = "review"
          /\ pc'[r] = "moveRead" /\ pr'[t] # "none"
      BY <1>0, <2>3 DEF Opens, Goto, TypeOK, RunnersTyped, Rung
    <3> QED
      BY <1>2, <2>1, <3>1 DEF Owes, Repays, Moving, InRungs
  <2> QED
    BY <1>6, <2>2, <2>3 DEF Publish
<1>7. CASE MoveRead(r) \/ MoveWrite(r) \/ MoveVerify(r)
  <2>1. pc[r] \in Moving
    BY <1>7 DEF MoveRead, MoveWrite, MoveVerify, Moving
  <2>2. \A u \in Tickets : status'[u] = "inProgress" => status[u] = "inProgress"
    BY <1>0, <1>7 DEF MoveRead, MoveWrite, MoveVerify, board, TypeOK
  <2>3. ASSUME AfterMove(r) \/ MoveThrows(r) PROVE Owes(r)' /\ Repays(r)
    <3>1. CASE ~InRungs(r)
      <4>1. ~rung[r].moved
        BY <1>0, <2>1, <3>1 DEF Owes
      <4>2. rung' = [rung EXCEPT ![r] = NoRung]
        BY <2>3, <3>1 DEF AfterMove, MoveThrows, InRungs
      <4>3. ~rung'[r].moved
        BY <1>0, <4>2 DEF TypeOK, RunnersTyped, NoRung
      <4> QED
        BY <1>0, <4>1, <4>3, NothingOwed
    <3>2. CASE rung[r].goal = "review"
      <4>1. EndRungs(r)
        BY <2>3, <3>2 DEF AfterMove, MoveThrows, InRungs
      <4>2. ~rung'[r].moved
        BY <1>0, <4>1 DEF EndRungs, TypeOK, RunnersTyped, NoRung
      <4>3. rung[r].moved => pr'[t] # "none"
        BY <1>0, <1>1, <2>1, <3>2 DEF Owes, PrStays
      <4> QED
        BY <4>2, <4>3 DEF Owes, Repays
    <3>3. CASE rung[r].goal = "failed"
      <4>1. Goto(r, "back") /\ UNCHANGED rung
        BY <2>3, <3>3 DEF AfterMove, MoveThrows, InRungs
      <4>2. pc'[r] = "back"
        BY <1>0, <4>1 DEF Goto, TypeOK, RunnersTyped
      <4> QED
        BY <4>1, <4>2 DEF Owes, Repays, Moving
    <3> QED
      BY <3>1, <3>2, <3>3 DEF InRungs
  <2>4. ASSUME NEW p \in {"moveWrite", "moveVerify"}, Goto(r, p),
               \/ UNCHANGED rung
               \/ \E e : rung' = [rung EXCEPT ![r].edit = e]
        PROVE  Owes(r)' /\ Repays(r)
    <3>1. /\ rung'[r].at = t /\ rung'[r].moved = rung[r].moved /\ rung'[r].goal = rung[r].goal
          /\ pc'[r] = p
      BY <1>0, <2>4 DEF Goto, TypeOK, RunnersTyped, Rung
    <3> QED
      BY <1>0, <1>1, <2>1, <2>4, <3>1 DEF Owes, Repays, Moving, InRungs, PrStays
  <2>5. Owes(r)' /\ Repays(r)
    <3>1. CASE MoveRead(r)
      BY <2>3, <2>4, <3>1 DEF MoveRead
    <3>2. CASE MoveWrite(r)
      BY <2>3, <2>4, <3>2 DEF MoveWrite
    <3>3. CASE MoveVerify(r)
      BY <2>3, <3>3 DEF MoveVerify
    <3> QED
      BY <1>7, <3>1, <3>2, <3>3
  <2> QED
    BY <1>2, <2>2, <2>5
<1>8. CASE StatusBack(r)
  <2>1. ~rung'[r].moved
    BY <1>0, <1>8 DEF StatusBack, EndRungs, TypeOK, RunnersTyped, NoRung
  <2>2. rung[r].moved => status'[t] # "inProgress"
    BY <1>0, <1>8 DEF StatusBack, Fail, CanFail, TypeOK
  <2>3. \A u \in Tickets : status'[u] = "inProgress" => status[u] = "inProgress"
    BY <1>0, <1>8 DEF StatusBack, TypeOK
  <2> QED
    BY <1>2, <2>1, <2>2, <2>3 DEF Owes, Repays
<1> QED
  BY <1>3, <1>4, <1>5, <1>6, <1>7, <1>8 DEF Rungs

(* Whatever label reads and writes fail, and however many runners work on  *)
(* the same tickets, a ticket in progress has a pull request or the run    *)
(* that put it there, on its way to take it back: the nested finally       *)
(* blocks of runWriteRungs.  A process killed in between cannot take it    *)
(* back, nor can a status call that fails or lands unanswered.             *)
THEOREM NoneLeftInProgress ==
    ASSUME "crash" \notin Faults, "status" \notin Faults
    PROVE  Spec => []NoOrphanInProgress
<1>1. Init => InProgressInv
  <2> SUFFICES ASSUME Init PROVE InProgressInv
    OBVIOUS
  <2>1. \A t \in Tickets : status[t] # "inProgress"
    BY DEF Init
  <2>2. \A r \in Runners : ~rung[r].moved
    BY DEF Init, NoRung
  <2> QED
    BY <2>1, <2>2, InitTypes DEF InProgressInv, NoOrphanInProgress, Owes
<1>2. InProgressInv /\ [Next]_vars => InProgressInv'
  <2> SUFFICES ASSUME InProgressInv, [Next]_vars
               PROVE  NoOrphanInProgress' /\ \A r \in Runners : Owes(r)'
    BY StepTypes DEF InProgressInv
  <2>1. CASE UNCHANGED <<status, pc, rung>> /\ PrStays
    <3>1. \A r \in Runners : pc[r] \in Moving => rung[r].at \in Tickets
      BY DEF InProgressInv, TypeOK, RunnersTyped, OnTicket, Moving, Pc
    <3> QED
      BY <2>1, <3>1 DEF InProgressInv, NoOrphanInProgress, Owes, InRungs, PrStays
  <2>2. ASSUME NEW r \in Runners, Tick(r) \/ Rungs(r) \/ \E t \in Tickets : Named(r, t)
        PROVE  NoOrphanInProgress' /\ \A q \in Runners : Owes(q)'
    BY <2>2, InProgressTick, InProgressRungs
  <2>3. ASSUME NEW r \in Runners PROVE ~Crash(r)
    BY DEF Crash, Fail, CanFail
  <2>4. CASE People \/ \E t \in Tickets : MentionWrite(t)
    <3>1. UNCHANGED <<status, pc, rung>>
      BY <2>4 DEF People, MentionRead, MentionWrite, PersonStarts, PersonClears, PersonToggles,
                  PersonEndsPr, PersonStops, board
    <3>2. PrStays
      BY <2>4 DEF People, MentionRead, MentionWrite, PersonStarts, PersonClears, PersonToggles,
                  PersonEndsPr, PersonStops, board, PrStays, InProgressInv, TypeOK
    <3> QED
      BY <2>1, <3>1, <3>2
  <2>5. CASE UNCHANGED vars
    BY <2>1, <2>5 DEF vars, board, PrStays
  <2> QED
    BY <2>2, <2>3, <2>4, <2>5 DEF Next
<1>3. InProgressInv => NoOrphanInProgress
  BY DEF InProgressInv
<1> QED
  BY <1>1, <1>2, <1>3, PTL DEF Spec

---------------------------------------------------------------------------
(* A go-ahead is on the ticket as its start, or with the run that took it  *)
(* off and has neither opened a pull request nor put it back.              *)
Carrying == {"claimVerify", "enter", "solve", "publish", "relRead", "relWrite"}
Carried(t) == \E r \in Runners : rung[r].at = t /\ pc[r] \in Carrying

Spent(t) == opened[t] + (IF "start" \in labels[t] THEN 1 ELSE 0) + (IF Carried(t) THEN 1 ELSE 0)

(* Nobody but the run takes a start off: it is still there at the claim's  *)
(* write.  A label move never puts one on.                                 *)
StartHeld(r) ==
    /\ pc[r] = "claimWrite" => "start" \in labels[rung[r].at]
    /\ "start" \notin rung[r].edit.add

ApprovedInv ==
    /\ GoAheadInv
    /\ \A r \in Runners : StartHeld(r)
    /\ \A t \in Tickets : Spent(t) <= grants[t]

LEMMA MoveAddsNoStart ==
    \A g \in Goal, ls \in SUBSET Label : "start" \notin MoveEdit(g, ls).add
  BY DEF MoveEdit, Edit, Goal, UnderReview

(* A step that opens nothing, gives no go-ahead, and carries and shows no  *)
(* go-ahead that was not there.                                            *)
LEMMA SpentNoMore ==
    ASSUME TypeOK, NEW t \in Tickets, Spent(t) <= grants[t],
           opened'[t] = opened[t], grants'[t] = grants[t],
           "start" \in labels'[t] => "start" \in labels[t],
           Carried(t)' => Carried(t)
    PROVE  Spent(t)' <= grants'[t]
  BY DEF Spent, TypeOK

LEMMA OnlyCarrier ==
    ASSUME OneRunner, NEW r \in Runners
    PROVE  /\ \A t : Carried(t) <=> rung[r].at = t /\ pc[r] \in Carrying
           /\ \A t : Carried(t)' <=> rung'[r].at = t /\ pc'[r] \in Carrying
  BY DEF OneRunner, Carried

(* A step of the only runner that leaves labels and pull requests alone    *)
(* and carries nothing it did not.                                         *)
LEMMA QuietApproval ==
    ASSUME ApprovedInv, OneRunner, NEW r \in Runners,
           UNCHANGED <<labels, opened, grants>>, StartHeld(r)',
           pc'[r] \in Carrying => pc[r] \in Carrying /\ rung'[r].at = rung[r].at
    PROVE  (\A q \in Runners : StartHeld(q)') /\ \A t \in Tickets : Spent(t)' <= grants'[t]
<1>1. \A q \in Runners : StartHeld(q)'
  BY DEF OneRunner
<1>2. ASSUME NEW t \in Tickets PROVE Spent(t)' <= grants'[t]
  <2>1. Carried(t)' => Carried(t)
    BY OnlyCarrier
  <2> QED
    BY <2>1, SpentNoMore DEF ApprovedInv, GoAheadInv
<1> QED
  BY <1>1, <1>2

LEMMA ApprovedTick ==
    ASSUME ApprovedInv, OneRunner, NEW r \in Runners,
           Tick(r) \/ Crash(r) \/ \E t \in Tickets : Named(r, t)
    PROVE  (\A q \in Runners : StartHeld(q)') /\ \A t \in Tickets : Spent(t)' <= grants'[t]
<1>0. TypeOK /\ StartHeld(r)
  BY DEF ApprovedInv, GoAheadInv
<1>1. UNCHANGED <<labels, opened, grants>>
  BY DEF Tick, SweepFetch, Look, LooksDone, SettleNext, SettleDone, Count, Fetch, Pick, PickDone,
         Crash, Named, board, history
<1>2. pc'[r] \in {"idle", "look", "settle", "count", "fetch", "pick", "claimRead", "moveRead"}
  BY <1>0 DEF Tick, SweepFetch, Look, LooksDone, SettleNext, SettleDone, Count, Fetch, Pick, PickDone,
         Crash, Named, Goto, TypeOK, RunnersTyped
<1>3. \/ UNCHANGED rung
      \/ rung' = [rung EXCEPT ![r] = NoRung]
      \/ \E s : rung' = [rung EXCEPT ![r] = [NoRung EXCEPT !.at = s]]
      \/ \E s, g : rung' = [rung EXCEPT ![r] = [NoRung EXCEPT !.at = s, !.goal = g]]
  BY DEF Tick, SweepFetch, Look, LooksDone, SettleNext, SettleDone, Count, Fetch, Pick, PickDone,
         Crash, Named
<1>4. "start" \notin rung'[r].edit.add
  <2>1. "start" \notin NoRung.edit.add
    BY DEF NoRung, NoEdit, Edit
  <2>2. CASE UNCHANGED rung
    BY <1>0, <2>2 DEF StartHeld
  <2>3. CASE \E s \in {NoRung} : rung' = [rung EXCEPT ![r] = s]
    BY <1>0, <2>1, <2>3 DEF TypeOK, RunnersTyped
  <2>4. ASSUME NEW s, rung' = [rung EXCEPT ![r] = [NoRung EXCEPT !.at = s]]
        PROVE  "start" \notin rung'[r].edit.add
    BY <1>0, <2>1, <2>4 DEF TypeOK, RunnersTyped, NoRung
  <2>5. ASSUME NEW s, NEW g, rung' = [rung EXCEPT ![r] = [NoRung EXCEPT !.at = s, !.goal = g]]
        PROVE  "start" \notin rung'[r].edit.add
    BY <1>0, <2>1, <2>5 DEF TypeOK, RunnersTyped, NoRung
  <2> QED
    BY <1>3, <2>2, <2>3, <2>4, <2>5
<1>5. StartHeld(r)'
  BY <1>2, <1>4 DEF StartHeld
<1> QED
  BY <1>1, <1>2, <1>5, QuietApproval DEF Carrying

LEMMA ApprovedRun ==
    ASSUME ApprovedInv, OneRunner, Authority = "manual", "create_lost" \notin Faults,
           NEW r \in Runners,
           ClaimRead(r) \/ ClaimVerify(r) \/ Enter(r) \/ Solve(r) \/ Publish(r) \/ RelRead(r)
             \/ StatusBack(r)
    PROVE  (\A q \in Runners : StartHeld(q)') /\ \A t \in Tickets : Spent(t)' <= grants'[t]
<1> DEFINE t == rung[r].at
<1>0. TypeOK /\ StartHeld(r) /\ t \in Tickets /\ rung[r] \in Rung
  BY DEF ApprovedInv, GoAheadInv, TypeOK, RunnersTyped, OnTicket, Pc, ClaimRead, ClaimVerify, Enter,
         Solve, Publish, RelRead, StatusBack
<1>1. UNCHANGED <<labels, grants>>
  BY DEF ClaimRead, ClaimVerify, Enter, Solve, Publish, RelRead, StatusBack, board, history
<1>2. ASSUME EndRungs(r)
      PROVE  pc'[r] \in {"pick", "idle"} /\ "start" \notin rung'[r].edit.add
  <2>1. rung'[r] = NoRung
    BY <1>0, <1>2 DEF EndRungs, TypeOK, RunnersTyped
  <2> QED
    BY <1>0, <1>2, <2>1, EndRungsTypes DEF NoRung, NoEdit, Edit
<1>3. CASE ClaimRead(r)
  <2>1. UNCHANGED opened
    BY <1>3 DEF ClaimRead, history
  <2>2. CASE EndRungs(r)
    BY <1>1, <1>2, <2>1, <2>2, QuietApproval DEF StartHeld, Carrying
  <2>3. CASE /\ Eligible(labels[t], Authority) /\ Goto(r, "claimWrite")
             /\ rung' = [rung EXCEPT ![r].before = labels[t]]
    <3>1. pc'[r] = "claimWrite" /\ rung'[r].at = t /\ rung'[r].edit = rung[r].edit
      BY <1>0, <2>3 DEF Goto, TypeOK, RunnersTyped, Rung
    <3>2. "start" \in labels[t]
      BY <2>3 DEF Eligible, SelfAuthorising
    <3>3. StartHeld(r)'
      BY <1>0, <1>1, <3>1, <3>2 DEF StartHeld
    <3> QED
      BY <1>1, <2>1, <3>1, <3>3, QuietApproval DEF Carrying
  <2> QED
    BY <1>3, <2>2, <2>3 DEF ClaimRead
<1>4. CASE ClaimVerify(r) \/ Enter(r) \/ Solve(r) \/ RelRead(r) \/ StatusBack(r)
  <2>1. UNCHANGED opened
    BY <1>4 DEF ClaimVerify, Enter, Solve, RelRead, StatusBack, history
  <2>2. CASE EndRungs(r)
    BY <1>1, <1>2, <2>1, <2>2, QuietApproval DEF StartHeld, Carrying
  <2>3. CASE ~EndRungs(r)
    <3>1. /\ rung'[r].at = t /\ rung'[r].edit = rung[r].edit
          /\ pc'[r] \in {"enter", "solve", "publish", "moveRead", "relRead", "relWrite", "back"}
          /\ pc[r] \in Carrying
      BY <1>0, <1>4, <2>3 DEF ClaimVerify, Enter, Solve, RelRead, StatusBack, Goto, TypeOK,
            RunnersTyped, Rung, Carrying
    <3>2. StartHeld(r)'
      BY <1>0, <3>1 DEF StartHeld
    <3> QED
      BY <1>1, <2>1, <3>1, <3>2, QuietApproval
  <2> QED
    BY <2>2, <2>3
<1>5. CASE Publish(r)
  <2>1. pc[r] = "publish"
    BY <1>5 DEF Publish
  <2>2. CASE UNCHANGED <<opened, rung>> /\ Goto(r, "relRead")
    <3>1. pc'[r] = "relRead"
      BY <1>0, <2>2 DEF Goto, TypeOK, RunnersTyped
    <3>2. StartHeld(r)'
      BY <1>0, <2>2, <3>1 DEF StartHeld
    <3> QED
      BY <1>1, <2>1, <2>2, <3>1, <3>2, QuietApproval DEF Carrying
  <2>3. CASE /\ Opens(t) /\ Goto(r, "moveRead")
             /\ rung' = [rung EXCEPT ![r].keep = TRUE, ![r].goal = "review"]
    <3>1. pc'[r] = "moveRead" /\ rung'[r].at = t /\ rung'[r].edit = rung[r].edit
      BY <1>0, <2>3 DEF Goto, TypeOK, RunnersTyped, Rung
    <3>2. \A q \in Runners : StartHeld(q)'
      BY <1>0, <3>1 DEF StartHeld, OneRunner
    <3>3. \A u \in Tickets : (Carried(u) <=> u = t) /\ ~Carried(u)'
      BY <2>1, <3>1, OnlyCarrier DEF Carrying
    <3>4. ASSUME NEW u \in Tickets PROVE Spent(u)' <= grants'[u]
      <4>1. opened'[u] = IF u = t THEN opened[u] + 1 ELSE opened[u]
        BY <1>0, <2>3 DEF Opens, TypeOK
      <4>2. opened[u] \in Nat /\ grants[u] \in Nat /\ Spent(u) <= grants[u]
        BY <1>0 DEF TypeOK, ApprovedInv
      <4> QED
        BY <1>1, <3>3, <4>1, <4>2 DEF Spent
    <3> QED
      BY <3>2, <3>4
  <2> QED
    BY <1>5, <2>2, <2>3 DEF Publish, Fail, CanFail
<1> QED
  BY <1>3, <1>4, <1>5

LEMMA ApprovedWrite ==
    ASSUME ApprovedInv, OneRunner, Authority = "manual", NEW r \in Runners,
           ClaimWrite(r) \/ RelWrite(r) \/ MoveRead(r) \/ MoveWrite(r) \/ MoveVerify(r)
    PROVE  (\A q \in Runners : StartHeld(q)') /\ \A t \in Tickets : Spent(t)' <= grants'[t]
<1> DEFINE t == rung[r].at
<1>0. TypeOK /\ StartHeld(r) /\ t \in Tickets /\ rung[r] \in Rung
  BY DEF ApprovedInv, GoAheadInv, TypeOK, RunnersTyped, OnTicket, Pc, ClaimWrite, RelWrite, MoveRead,
         MoveWrite, MoveVerify
<1>1. UNCHANGED <<opened, grants>>
  BY DEF ClaimWrite, RelWrite, MoveRead, MoveWrite, MoveVerify, history
<1>2. \A u \in Tickets \ {t} : labels'[u] = labels[u]
  BY <1>0 DEF ClaimWrite, RelWrite, MoveRead, MoveWrite, MoveVerify, WriteAnswered, WriteErred, Write,
              TypeOK, board
<1>3. ASSUME EndRungs(r)
      PROVE  pc'[r] \in {"pick", "idle"} /\ "start" \notin rung'[r].edit.add
  <2>1. rung'[r] = NoRung
    BY <1>0, <1>3 DEF EndRungs, TypeOK, RunnersTyped
  <2> QED
    BY <1>0, <1>3, <2>1, EndRungsTypes DEF NoRung, NoEdit, Edit
<1>4. ASSUME NEW u \in Tickets
      PROVE  /\ opened[u] \in Nat /\ opened'[u] = opened[u]
             /\ grants[u] \in Nat /\ grants'[u] = grants[u] /\ Spent(u) <= grants[u]
  BY <1>0, <1>1 DEF TypeOK, ApprovedInv
<1>5. CASE ClaimWrite(r)
  <2>1. pc[r] = "claimWrite" /\ "start" \in labels[t] /\ "start" \in rung[r].before
    BY <1>0, <1>5 DEF ClaimWrite, StartHeld, ApprovedInv, GoAheadInv, ReceiptKept
  <2>2. \/ EndRungs(r)
        \/ /\ Goto(r, "claimVerify") /\ UNCHANGED rung
           /\ Write(t, ClaimEdit(rung[r].before))
    BY <1>5 DEF ClaimWrite, WriteAnswered
  <2>3. StartHeld(r)'
    BY <1>0, <1>3, <2>2 DEF StartHeld, Goto, TypeOK, RunnersTyped
  <2>4. \A u \in Tickets : ~Carried(u)
    BY <2>1, OnlyCarrier DEF Carrying
  <2>5. ASSUME NEW u \in Tickets \ {t} PROVE Spent(u)' <= grants'[u]
    <3>1. ~Carried(u)'
      BY <1>0, <1>3, <2>2, <2>5, OnlyCarrier DEF Carrying
    <3> QED
      BY <1>2, <1>4, <2>4, <3>1 DEF Spent
  <2>6. ASSUME NEW u \in Tickets, u = t PROVE Spent(u)' <= grants'[u]
    <3>1. CASE Goto(r, "claimVerify") /\ Write(t, ClaimEdit(rung[r].before))
      <4>1. "start" \notin labels'[u]
        BY <1>0, <2>1, <2>6, <3>1 DEF Write, ApplyEdit, ClaimEdit, Edit, TypeOK
      <4> QED
        BY <1>4, <2>1, <2>4, <2>6, <4>1 DEF Spent
    <3>2. CASE EndRungs(r)
      <4>1. ~Carried(u)'
        BY <1>3, <3>2, OnlyCarrier DEF Carrying
      <4> QED
        BY <1>4, <2>1, <2>4, <2>6, <4>1 DEF Spent
    <3> QED
      BY <2>2, <3>1, <3>2
  <2> QED
    BY <2>3, <2>5, <2>6 DEF OneRunner
<1>6. CASE RelWrite(r)
  <2>1. pc[r] = "relWrite" /\ pc'[r] = "back" /\ UNCHANGED rung
    BY <1>0, <1>6 DEF RelWrite, Goto, TypeOK, RunnersTyped
  <2>2. StartHeld(r)'
    BY <1>0, <2>1 DEF StartHeld
  <2>3. \A u \in Tickets : (Carried(u) <=> u = t) /\ ~Carried(u)'
    BY <2>1, OnlyCarrier DEF Carrying
  <2>4. ASSUME NEW u \in Tickets PROVE Spent(u)' <= grants'[u]
    BY <1>2, <1>4, <2>3 DEF Spent
  <2> QED
    BY <2>2, <2>4 DEF OneRunner
<1>7. CASE MoveRead(r) \/ MoveWrite(r) \/ MoveVerify(r)
  <2>1. "start" \in labels'[t] => "start" \in labels[t]
    <3>1. labels'[t] \in {labels[t], ApplyEdit(labels[t], rung[r].edit)}
      BY <1>0, <1>7 DEF MoveRead, MoveWrite, MoveVerify, WriteAnswered, WriteErred, Write, TypeOK, board
    <3> QED
      BY <1>0, <3>1 DEF StartHeld, ApplyEdit
  <2>2. pc'[r] \notin Carrying \cup {"claimWrite"}
    <3>1. CASE AfterMove(r) \/ MoveThrows(r)
      BY <1>0, <3>1, AfterMoveGoes DEF Carrying
    <3>2. CASE Goto(r, "moveWrite") \/ Goto(r, "moveVerify")
      BY <1>0, <3>2 DEF Goto, TypeOK, RunnersTyped, Carrying
    <3> QED
      BY <1>7, <3>1, <3>2 DEF MoveRead, MoveWrite, MoveVerify
  <2>3. "start" \notin rung'[r].edit.add
    <3>1. CASE UNCHANGED rung
      BY <1>0, <3>1 DEF StartHeld
    <3>2. CASE rung' = [rung EXCEPT ![r] = NoRung]
      BY <1>0, <3>2 DEF TypeOK, RunnersTyped, NoRung, NoEdit, Edit
    <3>3. CASE MoveRead(r) /\ rung' = [rung EXCEPT ![r].edit = MoveEdit(rung[r].goal, labels[t])]
      <4> DEFINE e == MoveEdit(rung[r].goal, labels[t])
      <4>1. "start" \notin e.add
        BY <1>0, <3>3, MoveAddsNoStart DEF MoveRead, TypeOK, RunnersTyped, Moving
      <4> HIDE DEF e
      <4>2. rung'[r].edit = e
        BY <1>0, <3>3 DEF TypeOK, RunnersTyped, Rung, e
      <4> QED
        BY <4>1, <4>2
    <3> QED
      BY <1>7, <3>1, <3>2, <3>3 DEF MoveRead, MoveWrite, MoveVerify, AfterMove, MoveThrows, EndRungs
  <2>4. StartHeld(r)'
    BY <2>2, <2>3 DEF StartHeld
  <2>5. ASSUME NEW u \in Tickets PROVE Spent(u)' <= grants'[u]
    <3>1. Carried(u)' => Carried(u)
      BY <2>2, OnlyCarrier
    <3>2. "start" \in labels'[u] => "start" \in labels[u]
      BY <1>2, <2>1
    <3> QED
      BY <1>0, <1>4, <3>1, <3>2, SpentNoMore
  <2> QED
    BY <2>4, <2>5 DEF OneRunner
<1> QED
  BY <1>5, <1>6, <1>7

LEMMA ApprovedPeople ==
    ASSUME ApprovedInv, People \/ \E t \in Tickets : MentionWrite(t)
    PROVE  (\A q \in Runners : StartHeld(q)') /\ \A t \in Tickets : Spent(t)' <= grants'[t]
<1>0. TypeOK
  BY DEF ApprovedInv, GoAheadInv
<1>1. UNCHANGED <<pc, rung, opened>>
  BY DEF People, MentionRead, MentionWrite, PersonStarts, PersonClears, PersonToggles,
         PersonEndsPr, PersonStops, history
<1>2. \A t : Carried(t)' <=> Carried(t)
  BY <1>1 DEF Carried
<1>3. ASSUME NEW t \in Tickets, "start" \in labels[t] PROVE "start" \in labels'[t]
  <2>1. ASSUME NEW u \in Tickets, NEW a, NEW b, Write(u, Edit(a, b)), "start" \notin b
        PROVE  "start" \in labels'[t]
    BY <1>0, <1>3, <2>1 DEF Write, ApplyEdit, Edit, TypeOK
  <2>2. \A l \in Terminal \cup Bystander \cup {"failed"} : "start" \notin {l}
    BY DEF Terminal, Bystander
  <2> QED
    BY <1>3, <2>1, <2>2 DEF People, MentionRead, MentionWrite, PersonStarts, PersonClears, PersonToggles,
         PersonEndsPr, PersonStops, board
<1>4. ASSUME NEW t \in Tickets PROVE Spent(t)' <= grants'[t]
  <2>0. opened[t] \in Nat /\ grants[t] \in Nat /\ Spent(t) <= grants[t]
    BY <1>0 DEF TypeOK, ApprovedInv
  <2>1. CASE \E u \in Tickets : Grant(u) /\ Write(u, Edit({"start"}, {}))
    <3>1. PICK u \in Tickets : Grant(u) /\ Write(u, Edit({"start"}, {}))
      BY <2>1
    <3>2. CASE u = t
      <4>1. grants'[t] = IF "start" \in labels[t] THEN grants[t] ELSE grants[t] + 1
        BY <1>0, <3>1, <3>2 DEF Grant, TypeOK
      <4> QED
        BY <1>1, <1>2, <2>0, <4>1 DEF Spent
    <3>3. CASE u # t
      <4>1. grants'[t] = grants[t] /\ labels'[t] = labels[t]
        BY <1>0, <3>1, <3>3 DEF Grant, Write, TypeOK
      <4> QED
        BY <1>1, <1>2, <2>0, <4>1 DEF Spent
    <3> QED
      BY <3>2, <3>3
  <2>2. ASSUME UNCHANGED grants, "start" \in labels'[t] => "start" \in labels[t]
        PROVE  Spent(t)' <= grants'[t]
    BY <1>0, <1>1, <1>2, <2>0, <2>2, SpentNoMore
  <2>3. ASSUME NEW u \in Tickets, NEW a, NEW b, Write(u, Edit(a, b)), "start" \notin a
        PROVE  "start" \in labels'[t] => "start" \in labels[t]
    BY <1>0, <2>3 DEF Write, ApplyEdit, Edit, TypeOK
  <2>4. \A l \in Bystander : "start" \notin {l}
    BY DEF Bystander
  <2>5. CASE \E u \in Tickets : MentionWrite(u)
    BY <2>1, <2>2, <2>3, <2>5 DEF MentionWrite
  <2>6. CASE \E u \in Tickets : PersonStarts(u)
    BY <2>1, <2>6 DEF PersonStarts
  <2>7. CASE \E u \in Tickets : PersonClears(u) \/ \E l \in Bystander : PersonToggles(u, l)
    BY <2>2, <2>3, <2>4, <2>7 DEF PersonClears, PersonToggles, history
  <2>8. CASE UNCHANGED <<labels, grants>>
    BY <2>2, <2>8
  <2> QED
    BY <2>5, <2>6, <2>7, <2>8 DEF People, MentionRead, PersonEndsPr, PersonStops, board, history
<1>5. ASSUME NEW r \in Runners PROVE StartHeld(r)'
  <2>1. pc[r] = "claimWrite" => rung[r].at \in Tickets
    BY <1>0 DEF TypeOK, RunnersTyped, OnTicket, Pc
  <2> QED
    BY <1>1, <1>3, <2>1 DEF StartHeld, ApprovedInv
<1> QED
  BY <1>4, <1>5

(* In manual mode a person's start buys one pull request at most: with one *)
(* runner, and no pull request opened behind an error, whatever reads and  *)
(* writes fail and wherever the runner crashes, a run carries the start it *)
(* took off and spends it on a pull request or puts it back, never both.   *)
THEOREM GoAheadBuysOne ==
    ASSUME OneRunner, "create_lost" \notin Faults
    PROVE  Spec => []OneGoAheadOnePr
<1>1. CASE Authority = "manual"
  <2>1. Init => ApprovedInv
    <3> SUFFICES ASSUME Init PROVE ApprovedInv
      OBVIOUS
    <3>1. GoAheadInv
      BY InitTypes DEF Init, GoAheadInv, ReceiptKept
    <3>2. \A r \in Runners : StartHeld(r)
      BY DEF Init, StartHeld, NoRung, NoEdit, Edit
    <3>3. \A t \in Tickets : ~Carried(t)
      BY DEF Init, Carried, Carrying
    <3>4. \A t \in Tickets : Spent(t) <= grants[t]
      BY <3>3 DEF Init, Spent
    <3> QED
      BY <3>1, <3>2, <3>4 DEF ApprovedInv
  <2>2. ApprovedInv /\ [Next]_vars => ApprovedInv'
    <3> SUFFICES ASSUME ApprovedInv, [Next]_vars
                 PROVE  (\A r \in Runners : StartHeld(r)') /\ \A t \in Tickets : Spent(t)' <= grants'[t]
      BY <1>1, StepTypes, GoAheadStep DEF ApprovedInv, GoAheadInv
    <3>1. CASE UNCHANGED vars
      BY <3>1 DEF vars, board, history, ApprovedInv, StartHeld, Spent, Carried
    <3>2. ASSUME NEW r \in Runners, Rungs(r)
          PROVE  (\A q \in Runners : StartHeld(q)') /\ \A t \in Tickets : Spent(t)' <= grants'[t]
      BY <1>1, <3>2, ApprovedRun, ApprovedWrite DEF Rungs
    <3>3. ASSUME NEW r \in Runners, Tick(r) \/ Crash(r) \/ \E t \in Tickets : Named(r, t)
          PROVE  (\A q \in Runners : StartHeld(q)') /\ \A t \in Tickets : Spent(t)' <= grants'[t]
      BY <3>3, ApprovedTick
    <3>4. CASE People \/ \E t \in Tickets : MentionWrite(t)
      BY <3>4, ApprovedPeople
    <3> QED
      BY <3>1, <3>2, <3>3, <3>4 DEF Next
  <2>3. ApprovedInv => OneGoAheadOnePr
    <3> SUFFICES ASSUME ApprovedInv, NEW t \in Tickets PROVE opened[t] <= grants[t]
      BY DEF OneGoAheadOnePr
    <3>1. opened[t] \in Nat /\ grants[t] \in Nat /\ Spent(t) <= grants[t]
      BY DEF ApprovedInv, GoAheadInv, TypeOK
    <3> QED
      BY <3>1 DEF Spent
  <2> QED
    BY <2>1, <2>2, <2>3, PTL DEF Spec
<1>2. CASE Authority # "manual"
  <2>1. OneGoAheadOnePr
    BY <1>2 DEF OneGoAheadOnePr
  <2> QED
    BY <2>1, PTL
<1> QED
  BY <1>1, <1>2

---------------------------------------------------------------------------
(* A label that says how far a ticket is.  One at most is ever on a ticket.*)
Marks(t) == labels[t] \cap QueueExcluded
OneMark == \A t \in Tickets : \A a, b \in Marks(t) : a = b

Target(g) == IF g = "review" THEN "reviewing" ELSE g

(* What a move says of the pull request is so.                             *)
PrFits(t, g) ==
    /\ g = "review" => pr[t] # "none"
    /\ g = "done"   => pr[t] = "merged"
    /\ g = "closed" => pr[t] = "closed"

(* A run's ticket has its claim and no other mark; a move under way writes *)
(* its target over the one mark there is.                                  *)
Stands(r) == LET t == rung[r].at IN
    /\ pc[r] \in {"claimWrite"} \cup Carrying => rung[r].before \cap QueueExcluded = {}
    /\ pc[r] = "claimWrite" => Marks(t) = {}
    /\ pc[r] \in Carrying => Marks(t) = {"solving"}
    /\ pc[r] \in Carrying \ {"claimVerify"} => "solving" \in rung[r].after
    /\ pc[r] \in {"moveRead", "moveWrite"} =>
         /\ IF InRungs(r) THEN Marks(t) = {"solving"} ELSE Marks(t) \cap UnderReview # {}
         /\ PrFits(t, rung[r].goal)
    /\ pc[r] = "moveWrite" => rung[r].edit = Edit({Target(rung[r].goal)}, Marks(t))

(* A sweep has one look, and asks for one move at most, per ticket; all    *)
(* are still under review.                                                 *)
Swept(r) ==
    /\ watched[r] # {} => pc[r] = "look"
    /\ \A t \in watched[r] : Marks(t) \cap UnderReview # {}
    /\ \A s \in settle[r] :
         /\ s[1] \notin watched[r]
         /\ Marks(s[1]) \cap UnderReview # {}
         /\ PrFits(s[1], s[2])
         /\ \A o \in settle[r] : o[1] = s[1] => o = s
         /\ pc[r] \in Moving => s[1] # rung[r].at

(* What a tick counted as room is still room when it claims.               *)
Room(r) ==
    /\ pc[r] = "fetch" => slots[r] = 0 \/ Cardinality(Solving) + slots[r] <= MaxConcurrent
    /\ plan[r] # {} => Cardinality(Solving) + Cardinality(plan[r]) <= MaxConcurrent
    /\ pc[r] \in {"claimRead", "claimWrite"} =>
         Cardinality(Solving) + Cardinality(plan[r]) < MaxConcurrent

LifeInv ==
    /\ OpenPrInv
    /\ OneMark
    /\ TotalOrder(older)
    /\ \A r \in Runners : Stands(r) /\ Swept(r) /\ Room(r)

(* A write makes its ticket the newest and leaves the rest in order.       *)
LEMMA OrderStays == TypeOK /\ TotalOrder(older) /\ [Next]_vars => TotalOrder(older)'
<1> SUFFICES ASSUME TypeOK, TotalOrder(older), [Next]_vars PROVE TotalOrder(older')
  BY DEF TotalOrder
<1>1. CASE UNCHANGED older
  BY <1>1
<1>2. ASSUME NEW w \in Tickets, NEW e, Write(w, e) PROVE TotalOrder(older')
  <2> SUFFICES ASSUME NEW t \in Tickets, NEW u \in Tickets
               PROVE  /\ t \notin older'[t]
                      /\ t # u => (t \in older'[u] <=> u \notin older'[t])
                      /\ t \in older'[u] => older'[t] \subseteq older'[u]
    BY DEF TotalOrder
  <2>1. /\ t \notin older[t]
        /\ t # u => (t \in older[u] <=> u \notin older[t])
        /\ t \in older[u] => older[t] \subseteq older[u]
    BY DEF TotalOrder
  <2>2. \A v \in Tickets : older'[v] = IF v = w THEN Tickets \ {w} ELSE older[v] \ {w}
    BY <1>2 DEF Write
  <2>3. \A v \in Tickets : older[v] \subseteq Tickets
    BY DEF TypeOK
  <2> QED
    BY <2>1, <2>2, <2>3
<1>3. CASE \E t \in Tickets : \E e : Write(t, e)
  BY <1>2, <1>3
<1>4. ASSUME NEW r \in Runners, Tick(r) \/ Crash(r) \/ \E t \in Tickets : Named(r, t)
      PROVE  UNCHANGED older
  BY <1>4 DEF Tick, SweepFetch, Look, LooksDone, SettleNext, SettleDone, Count, Fetch, Pick, PickDone,
              Crash, Named, board
<1>5. ASSUME NEW r \in Runners, Rungs(r)
      PROVE  UNCHANGED older \/ \E t \in Tickets : \E e : Write(t, e)
  <2>1. rung[r].at \in Tickets
    BY <1>5 DEF TypeOK, RunnersTyped, OnTicket, Pc, Rungs, ClaimRead, ClaimWrite, ClaimVerify,
         Enter, Solve, Publish, MoveRead, MoveWrite, MoveVerify, RelRead, RelWrite, StatusBack
  <2> QED
    BY <1>5, <2>1 DEF Rungs, ClaimRead, ClaimWrite, ClaimVerify, Enter, Solve, Publish, MoveRead,
         MoveWrite, MoveVerify, RelRead, RelWrite, StatusBack, WriteAnswered, WriteErred, board
<1>6. ASSUME People \/ \E t \in Tickets : MentionWrite(t)
      PROVE  UNCHANGED older \/ \E t \in Tickets : \E e : Write(t, e)
  BY <1>6 DEF People, MentionRead, MentionWrite, PersonStarts, PersonClears, PersonToggles,
         PersonEndsPr, PersonStops, board
<1> QED
  BY <1>1, <1>3, <1>4, <1>5, <1>6 DEF Next, vars, board

(* The queue's page has no more tickets than there is room for: of the     *)
(* tickets with fewer than k offered ones before them there are k at most. *)
LEMMA PlanFits ==
    ASSUME TypeOK, TotalOrder(older), NEW k \in Nat, NEW Q \in SUBSET Tickets,
           NEW P \in SUBSET Q, \A t \in P : Cardinality(older[t] \cap Q) < k
    PROVE  IsFiniteSet(P) /\ Cardinality(P) <= k
<1> DEFINE before(t) == Cardinality(older[t] \cap Q)
<1>1. IsFiniteSet(Q) /\ IsFiniteSet(P)
  BY TicketsAssumption, FS_Subset
<1>2. ASSUME NEW t \in Tickets
      PROVE  IsFiniteSet(older[t] \cap Q) /\ before(t) \in Nat
  BY <1>1, FS_Subset, FS_CardinalityType
<1>3. CASE P = {}
  <2>1. Cardinality(P) = 0
    BY <1>3, FS_EmptySet
  <2> QED
    BY <1>1, <2>1
<1>4. CASE P # {}
  <2> DEFINE left == {k - before(t) : t \in P}
             smaller == OpToRel(<, Nat)
  <2>1. left \subseteq Nat /\ left # {}
    <3>1. \A t \in P : before(t) \in Nat /\ before(t) < k
      BY <1>2
    <3> HIDE DEF before
    <3> QED
      BY <1>4, <3>1
  <2>2. PICK x \in left : \A y \in left : ~(<<y, x>> \in smaller)
    <3> HIDE DEF left, smaller
    <3>1. IsWellFoundedOn(smaller, Nat)
      BY NatLessThanWellFounded DEF smaller
    <3> QED
      BY <2>1, <3>1, WFMin
  <2>3. \A y \in left : ~(y < x)
    BY <2>1, <2>2 DEF OpToRel
  <2>4. PICK m \in P : x = k - before(m)
    OBVIOUS
  <2>5. \A t \in P : before(t) <= before(m)
    <3>1. ASSUME NEW t \in P PROVE ~(k - before(t) < k - before(m))
      BY <2>3, <2>4
    <3>2. \A t \in P : before(t) \in Nat
      BY <1>2
    <3> HIDE DEF before
    <3> QED
      BY <3>1, <3>2
  <2>6. P \ {m} \subseteq older[m] \cap Q
    <3> SUFFICES ASSUME NEW t \in P, t # m, t \notin older[m] PROVE FALSE
      OBVIOUS
    <3>1. m \in older[t] /\ older[m] \subseteq older[t] /\ m \notin older[m]
      BY DEF TotalOrder
    <3>2. (older[m] \cap Q) \subseteq (older[t] \cap Q) /\ (older[m] \cap Q) # (older[t] \cap Q)
      BY <3>1
    <3>3. before(m) <= before(t) /\ before(m) # before(t)
      BY <1>2, <3>2, FS_Subset
    <3>4. before(t) \in Nat /\ before(m) \in Nat /\ before(t) <= before(m)
      BY <1>2, <2>5
    <3> HIDE DEF before
    <3> QED
      BY <3>3, <3>4
  <2>7. Cardinality(P \ {m}) <= before(m)
    BY <1>2, <2>6, FS_Subset
  <2>8. Cardinality(P \ {m}) = Cardinality(P) - 1 /\ Cardinality(P) \in Nat
    BY <1>1, FS_RemoveElement, FS_CardinalityType
  <2>9. before(m) < k /\ before(m) \in Nat
    BY <1>2
  <2> QED
    BY <1>1, <2>7, <2>8, <2>9
<1> QED
  BY <1>3, <1>4

LEMMA PlanCount ==
    ASSUME TypeOK, NEW r \in Runners
    PROVE  IsFiniteSet(plan[r]) /\ Cardinality(plan[r]) \in Nat
  BY TicketsAssumption, FS_Subset, FS_CardinalityType DEF TypeOK

(* No step but a claim's write puts a claim on.                            *)
LEMMA SolvingShrinks ==
    ASSUME \A t \in Tickets : "solving" \in labels'[t] => "solving" \in labels[t]
    PROVE  /\ Cardinality(Solving) \in Nat /\ Cardinality(Solving)' \in Nat
           /\ Cardinality(Solving)' <= Cardinality(Solving)
<1>1. IsFiniteSet(Solving) /\ Solving' \subseteq Solving
  BY TicketsAssumption, FS_Subset DEF Solving
<1>2. IsFiniteSet(Solving') /\ Cardinality(Solving') <= Cardinality(Solving)
  BY <1>1, FS_Subset
<1> QED
  BY <1>1, <1>2, FS_CardinalityType

LEMMA RoomKept ==
    ASSUME TypeOK, NEW r \in Runners, Room(r),
           \A t \in Tickets : "solving" \in labels'[t] => "solving" \in labels[t],
           plan'[r] \in {plan[r], {}},
           pc'[r] \notin {"fetch", "claimRead", "claimWrite"}
    PROVE  Room(r)'
<1>1. /\ Cardinality(Solving) \in Nat /\ Cardinality(Solving)' \in Nat
      /\ Cardinality(Solving)' <= Cardinality(Solving) /\ Cardinality(plan[r]) \in Nat
  BY SolvingShrinks, PlanCount
<1> QED
  BY <1>1, LimitsAssumption DEF Room

LEMMA SweptEmpty ==
    ASSUME NEW r \in Runners, watched'[r] = {}, settle'[r] = {}
    PROVE  Swept(r)'
  BY DEF Swept

LEMMA OffTicketStands ==
    ASSUME NEW r \in Runners,
           pc'[r] \in {"idle", "look", "settle", "count", "fetch", "pick", "claimRead", "moveVerify", "back"}
    PROVE  Stands(r)'
  BY DEF Stands, Carrying

(* Outside a sweep nothing is left of it.                                  *)
LEMMA SweepIsOver ==
    ASSUME LifeInv, NEW r \in Runners
    PROVE  /\ TypeOK /\ OneMark /\ Stands(r) /\ Swept(r) /\ Room(r) /\ RunHolds(r) /\ Drained(r)
           /\ pc[r] # "look" => watched[r] = {}
           /\ pc[r] \notin {"look", "settle"} \cup Moving => settle[r] = {}
           /\ InRungs(r) /\ pc[r] \in Moving => settle[r] = {}
<1>1. TypeOK /\ OneMark /\ Stands(r) /\ Swept(r) /\ Room(r) /\ RunHolds(r) /\ Drained(r)
  BY DEF LifeInv, OpenPrInv, DrainedInv
<1>2. pc[r] \in Moving => pc[r] \notin {"look", "settle"}
  BY DEF Moving
<1> QED
  BY <1>1, <1>2 DEF Drained, Swept

LEMMA LifeSweep ==
    ASSUME LifeInv, OneRunner, NEW r \in Runners,
           \/ SweepFetch(r) \/ LooksDone(r) \/ SettleNext(r) \/ SettleDone(r)
           \/ \E t \in Tickets : Look(r, t)
    PROVE  OneMark' /\ Stands(r)' /\ Swept(r)' /\ Room(r)'
<1>0. TypeOK /\ OneMark /\ Stands(r) /\ Swept(r) /\ Room(r) /\ Drained(r)
  BY SweepIsOver
<1>1. UNCHANGED <<labels, pr, plan>>
  BY DEF SweepFetch, LooksDone, SettleNext, SettleDone, Look, board, claims
<1>2. OneMark'
  BY <1>0, <1>1 DEF OneMark, Marks
<1>3. pc'[r] \in {"idle", "look", "settle", "count", "moveRead"}
  BY <1>0 DEF SweepFetch, LooksDone, SettleNext, SettleDone, Look, Goto, TypeOK, RunnersTyped
<1>4. Room(r)'
  BY <1>0, <1>1, <1>3, RoomKept
<1>5. CASE SweepFetch(r)
  <2>1. settle'[r] = {}
    BY <1>5, SweepIsOver DEF SweepFetch, Moving
  <2>2. CASE watched'[r] = {t \in Tickets : labels[t] \cap UnderReview # {}} /\ pc'[r] = "look"
    <3>1. Swept(r)'
      BY <1>1, <2>1, <2>2 DEF Swept, Marks, UnderReview, QueueExcluded
    <3> QED
      BY <1>2, <1>4, <2>2, <3>1, OffTicketStands
  <2>3. CASE UNCHANGED <<watched, pc>>
    <3>1. watched'[r] = {} /\ pc'[r] = "idle"
      BY <1>5, <2>3, SweepIsOver DEF SweepFetch
    <3> QED
      BY <1>2, <1>4, <2>1, <3>1, SweptEmpty, OffTicketStands
  <2> QED
    BY <1>0, <1>5, <2>2, <2>3 DEF SweepFetch, Goto, TypeOK, RunnersTyped
<1>6. ASSUME NEW t \in Tickets, Look(r, t) PROVE Stands(r)' /\ Swept(r)'
  <2>1. pc[r] = "look" /\ pc'[r] = "look" /\ t \in watched[r] /\ watched'[r] = watched[r] \ {t}
    BY <1>0, <1>6 DEF Look, TypeOK
  <2>2. CASE UNCHANGED settle
    <3>1. Swept(r)'
      BY <1>0, <1>1, <2>1, <2>2 DEF Swept, Marks, PrFits, Moving
    <3> QED
      BY <2>1, <3>1, OffTicketStands
  <2>3. ASSUME NEW g \in LookGoals(t), settle' = [settle EXCEPT ![r] = @ \cup {<<t, g>>}]
        PROVE  Swept(r)'
    <3>1. settle'[r] = settle[r] \cup {<<t, g>>}
      BY <1>0, <2>3 DEF TypeOK
    <3>2. PrFits(t, g)
      BY <2>3 DEF LookGoals, PrFits, UnderReview
    <3>3. Marks(t) \cap UnderReview # {} /\ \A s \in settle[r] : s[1] # t
      BY <1>0, <2>1 DEF Swept
    <3>4. /\ \A u : Marks(u)' = Marks(u)
          /\ \A u, h : PrFits(u, h)' <=> PrFits(u, h)
      BY <1>1 DEF Marks, PrFits
    <3>5. \A u \in watched'[r] : Marks(u)' \cap UnderReview # {}
      BY <1>0, <2>1, <3>4 DEF Swept
    <3>6. ASSUME NEW s \in settle'[r]
          PROVE  /\ s[1] \notin watched'[r]
                 /\ Marks(s[1])' \cap UnderReview # {}
                 /\ PrFits(s[1], s[2])'
                 /\ \A o \in settle'[r] : o[1] = s[1] => o = s
      <4>1. CASE s = <<t, g>>
        BY <2>1, <3>1, <3>2, <3>3, <3>4, <4>1
      <4>2. CASE s \in settle[r]
        <5>1. /\ s[1] \notin watched[r] /\ Marks(s[1]) \cap UnderReview # {}
              /\ PrFits(s[1], s[2]) /\ \A o \in settle[r] : o[1] = s[1] => o = s
          BY <1>0, <4>2 DEF Swept
        <5> QED
          BY <2>1, <3>1, <3>3, <3>4, <4>2, <5>1
      <4> QED
        BY <3>1, <4>1, <4>2
    <3> QED
      BY <2>1, <3>5, <3>6 DEF Swept, Moving
  <2> QED
    BY <1>6, <2>1, <2>2, <2>3, OffTicketStands DEF Look
<1>7. CASE LooksDone(r)
  <2>1. /\ pc[r] = "look" /\ pc'[r] = "settle" /\ watched[r] = {} /\ UNCHANGED <<watched, settle>>
    BY <1>0, <1>7 DEF LooksDone, Goto, TypeOK, RunnersTyped, sweep
  <2>2. Swept(r)'
    BY <1>0, <1>1, <2>1 DEF Swept, Marks, PrFits, Moving
  <2> QED
    BY <1>2, <1>4, <2>1, <2>2, OffTicketStands
<1>8. CASE SettleNext(r)
  <2>1. PICK s \in settle[r] :
          /\ settle' = [settle EXCEPT ![r] = @ \ {s}]
          /\ rung' = [rung EXCEPT ![r] = [NoRung EXCEPT !.at = s[1], !.goal = s[2]]]
          /\ Goto(r, "moveRead")
    BY <1>8 DEF SettleNext
  <2>2. rung'[r].at = s[1] /\ rung'[r].goal = s[2] /\ pc'[r] = "moveRead"
    BY <1>0, <2>1 DEF TypeOK, RunnersTyped, Goto, NoRung
  <2>3. s[2] \notin {"review", "failed"} /\ Marks(s[1]) \cap UnderReview # {} /\ PrFits(s[1], s[2])
    BY <1>0 DEF Drained, Swept
  <2>4. /\ \A u : Marks(u)' = Marks(u)
        /\ \A u, h : PrFits(u, h)' <=> PrFits(u, h)
    BY <1>1 DEF Marks, PrFits
  <2>5. Stands(r)'
    BY <2>2, <2>3, <2>4 DEF Stands, Carrying, InRungs
  <2>6. settle'[r] = settle[r] \ {s} /\ watched'[r] = {}
    BY <1>0, <1>8, <2>1, SweepIsOver DEF SettleNext, TypeOK
  <2>7. Swept(r)'
    BY <1>0, <2>2, <2>4, <2>6 DEF Swept
  <2> QED
    BY <1>2, <1>4, <2>5, <2>7
<1>9. CASE SettleDone(r)
  <2>1. pc'[r] = "count" /\ settle'[r] = {} /\ watched'[r] = {}
    BY <1>0, <1>9, SweepIsOver DEF SettleDone, Goto, TypeOK, RunnersTyped, sweep
  <2> QED
    BY <1>2, <1>4, <2>1, OffTicketStands, SweptEmpty
<1> QED
  BY <1>2, <1>4, <1>5, <1>6, <1>7, <1>8, <1>9

LEMMA LifeClaimHalf ==
    ASSUME LifeInv, OneRunner, NEW r \in Runners,
           Count(r) \/ Fetch(r) \/ PickDone(r) \/ Crash(r) \/ \E t \in Tickets : Pick(r, t)
    PROVE  OneMark' /\ Stands(r)' /\ Swept(r)' /\ Room(r)'
<1>0. TypeOK /\ OneMark /\ Stands(r) /\ Swept(r) /\ Room(r) /\ TotalOrder(older)
  BY SweepIsOver DEF LifeInv
<1>1. UNCHANGED <<labels, pr>>
  BY DEF Count, Fetch, PickDone, Crash, Pick, board
<1>2. OneMark'
  BY <1>0, <1>1 DEF OneMark, Marks
<1>3. pc'[r] \in {"idle", "fetch", "pick", "claimRead"}
  BY <1>0 DEF Count, Fetch, PickDone, Crash, Pick, Goto, TypeOK, RunnersTyped
<1>4. Stands(r)'
  BY <1>3, OffTicketStands
<1>5. Swept(r)'
  <2>1. CASE Crash(r)
    BY <1>0, <2>1, SweptEmpty DEF Crash, TypeOK
  <2>2. CASE Count(r) \/ Fetch(r) \/ PickDone(r) \/ \E t \in Tickets : Pick(r, t)
    <3>1. pc[r] \in {"count", "fetch", "pick"} /\ UNCHANGED <<watched, settle>>
      BY <2>2 DEF Count, Fetch, PickDone, Pick, sweep
    <3> QED
      BY <3>1, SweepIsOver, SweptEmpty DEF Moving
  <2> QED
    BY <2>1, <2>2
<1>6. Cardinality(Solving) \in Nat /\ Cardinality(plan[r]) \in Nat /\ Solving' = Solving
  BY <1>0, <1>1, SolvingCount, PlanCount DEF Solving
<1>7. CASE Count(r)
  <2>1. UNCHANGED plan
    BY <1>7 DEF Count
  <2>2. CASE Goto(r, "idle")
    <3>1. pc'[r] = "idle"
      BY <1>0, <2>2 DEF Goto, TypeOK, RunnersTyped
    <3> QED
      BY <1>0, <1>1, <1>2, <1>4, <1>5, <2>1, <3>1, RoomKept
  <2>3. CASE /\ slots' = [slots EXCEPT ![r] = IF Cardinality(Solving) >= MaxConcurrent THEN 0
                                              ELSE MaxConcurrent - Cardinality(Solving)]
             /\ Goto(r, "fetch")
    <3>1. /\ slots'[r] = 0 \/ Cardinality(Solving) + slots'[r] = MaxConcurrent
          /\ pc'[r] = "fetch"
      BY <1>0, <1>6, <2>3, LimitsAssumption DEF Goto, TypeOK, RunnersTyped
    <3>2. Room(r)'
      BY <1>0, <1>6, <2>1, <3>1, LimitsAssumption DEF Room
    <3> QED
      BY <1>2, <1>4, <1>5, <3>2
  <2> QED
    BY <1>7, <2>2, <2>3 DEF Count
<1>8. CASE Fetch(r)
  <2>1. pc[r] = "fetch" /\ pc'[r] \in {"pick", "idle"}
    BY <1>0, <1>8 DEF Fetch, Goto, TypeOK, RunnersTyped
  <2>2. CASE plan'[r] \in {plan[r], {}}
    BY <1>0, <1>1, <1>2, <1>4, <1>5, <2>1, <2>2, RoomKept
  <2>3. CASE plan'[r] = {t \in Offered : Cardinality(older[t] \cap Offered) < slots[r]}
    <3>1. Offered \subseteq Tickets /\ slots[r] \in Nat
      BY <1>0, TicketsAssumption DEF Offered, TypeOK
    <3>2. IsFiniteSet(plan'[r]) /\ Cardinality(plan'[r]) <= slots[r]
      <4> DEFINE P == plan'[r]
      <4>1. P \in SUBSET Offered /\ \A t \in P : Cardinality(older[t] \cap Offered) < slots[r]
        BY <2>3
      <4> HIDE DEF P
      <4>2. IsFiniteSet(P) /\ Cardinality(P) <= slots[r]
        BY <1>0, <3>1, <4>1, PlanFits
      <4> QED
        BY <4>2 DEF P
    <3>3. Cardinality(plan'[r]) \in Nat /\ (Cardinality(plan'[r]) = 0 => plan'[r] = {})
      BY <3>2, FS_CardinalityType, FS_EmptySet
    <3>4. slots[r] = 0 \/ Cardinality(Solving) + slots[r] <= MaxConcurrent
      BY <1>0, <2>1 DEF Room
    <3>5. Room(r)'
      BY <1>6, <2>1, <3>1, <3>2, <3>3, <3>4, LimitsAssumption DEF Room
    <3> QED
      BY <1>2, <1>4, <1>5, <3>5
  <2> QED
    BY <1>0, <1>8, <2>2, <2>3 DEF Fetch, TypeOK
<1>9. CASE PickDone(r) \/ Crash(r)
  <2>1. pc'[r] = "idle" /\ plan'[r] = {}
    BY <1>0, <1>9 DEF PickDone, Crash, Goto, TypeOK, RunnersTyped
  <2> QED
    BY <1>0, <1>1, <1>2, <1>4, <1>5, <2>1, RoomKept
<1>10. ASSUME NEW t \in Tickets, Pick(r, t) PROVE Room(r)'
  <2>1. plan'[r] = plan[r] \ {t} /\ t \in plan[r] /\ pc[r] = "pick" /\ pc'[r] \in {"pick", "claimRead"}
    BY <1>0, <1>10 DEF Pick, Goto, TypeOK, RunnersTyped
  <2>2. Cardinality(plan'[r]) = Cardinality(plan[r]) - 1
    <3>1. IsFiniteSet(plan[r])
      BY <1>0, PlanCount
    <3>2. Cardinality(plan[r] \ {t}) = Cardinality(plan[r]) - 1
      BY <2>1, <3>1, FS_RemoveElement
    <3> QED
      BY <2>1, <3>2
  <2>3. Cardinality(Solving) + Cardinality(plan[r]) <= MaxConcurrent
    BY <1>0, <2>1 DEF Room
  <2> QED
    BY <1>6, <2>1, <2>2, <2>3, LimitsAssumption DEF Room
<1> QED
  BY <1>2, <1>4, <1>5, <1>7, <1>8, <1>9, <1>10

(* The steps of a run that write no label.                                 *)
LEMMA LifeRun ==
    ASSUME LifeInv, OneRunner, NEW r \in Runners,
           \/ ClaimRead(r) \/ ClaimVerify(r) \/ Enter(r) \/ Solve(r) \/ Publish(r)
           \/ RelRead(r) \/ StatusBack(r)
    PROVE  OneMark' /\ Stands(r)' /\ Swept(r)' /\ Room(r)'
<1>0. TypeOK /\ OneMark /\ Stands(r) /\ Swept(r) /\ Room(r)
  BY SweepIsOver
<1>1. PICK t \in Tickets : t = rung[r].at
  BY <1>0 DEF TypeOK, RunnersTyped, OnTicket, Pc, ClaimRead, ClaimVerify, Enter, Solve, Publish,
              RelRead, StatusBack
<1>2. UNCHANGED <<labels, plan>> /\ rung[r] \in Rung
  BY <1>0 DEF ClaimRead, ClaimVerify, Enter, Solve, Publish, RelRead, StatusBack, board, claims,
              TypeOK, RunnersTyped
<1>3. OneMark' /\ Marks(t)' = Marks(t)
  BY <1>0, <1>2 DEF OneMark, Marks
<1>4. Swept(r)'
  <2>1. UNCHANGED <<watched, settle>>
    BY DEF ClaimRead, ClaimVerify, Enter, Solve, Publish, RelRead, StatusBack, sweep
  <2>2. pc[r] \notin {"look", "settle"} \cup Moving
    BY DEF ClaimRead, ClaimVerify, Enter, Solve, Publish, RelRead, StatusBack, Moving
  <2> QED
    BY <2>1, <2>2, SweepIsOver, SweptEmpty
<1>5. ASSUME pc'[r] # "claimWrite" PROVE Room(r)'
  <2>1. pc'[r] \notin {"fetch", "claimRead"}
    <3>1. CASE EndRungs(r)
      BY <1>0, <3>1, EndRungsTypes
    <3>2. CASE ~EndRungs(r)
      BY <1>0, <3>2 DEF ClaimRead, ClaimVerify, Enter, Solve, Publish, RelRead, StatusBack, Goto,
            TypeOK, RunnersTyped
    <3> QED
      BY <3>1, <3>2
  <2> QED
    BY <1>0, <1>2, <1>5, <2>1, RoomKept
<1>6. CASE EndRungs(r)
  <2>1. pc'[r] \in {"pick", "idle"}
    BY <1>0, <1>6, EndRungsTypes
  <2> QED
    BY <1>3, <1>4, <1>5, <2>1, OffTicketStands
<1>7. CASE ClaimRead(r) /\ ~EndRungs(r)
  <2>1. /\ Eligible(labels[t], Authority) /\ pc[r] = "claimRead"
        /\ rung' = [rung EXCEPT ![r].before = labels[t]] /\ Goto(r, "claimWrite")
    BY <1>1, <1>7 DEF ClaimRead
  <2>2. rung'[r].at = t /\ rung'[r].before = labels[t] /\ pc'[r] = "claimWrite"
    BY <1>0, <1>1, <1>2, <2>1 DEF TypeOK, RunnersTyped, Goto, Rung
  <2>3. Marks(t) = {} /\ labels[t] \cap QueueExcluded = {}
    BY <2>1 DEF Marks, Eligible
  <2>4. Stands(r)'
    BY <1>3, <2>2, <2>3 DEF Stands, Carrying
  <2>5. Solving' = Solving
    BY <1>2 DEF Solving
  <2>6. Room(r)'
    BY <1>0, <1>2, <2>1, <2>2, <2>5 DEF Room
  <2> QED
    BY <1>3, <1>4, <2>4, <2>6
<1>8. CASE ClaimVerify(r) /\ ~EndRungs(r)
  <2>1. /\ pc[r] = "claimVerify"
        /\ rung' = [rung EXCEPT ![r].after = labels[t]] /\ Goto(r, "enter")
    BY <1>1, <1>8 DEF ClaimVerify
  <2>2. /\ rung'[r].at = t /\ rung'[r].before = rung[r].before /\ rung'[r].after = labels[t]
        /\ pc'[r] = "enter"
    BY <1>0, <1>1, <1>2, <2>1 DEF TypeOK, RunnersTyped, Goto, Rung
  <2>3. Marks(t) = {"solving"} /\ rung[r].before \cap QueueExcluded = {}
    BY <1>0, <1>1, <2>1 DEF Stands, Carrying
  <2>4. Stands(r)'
    BY <1>3, <2>2, <2>3 DEF Stands, Carrying, Marks
  <2> QED
    BY <1>3, <1>4, <1>5, <2>2, <2>4
<1>9. CASE Enter(r) \/ Solve(r) \/ Publish(r) \/ RelRead(r)
  <2>1. /\ Marks(t) = {"solving"} /\ rung[r].before \cap QueueExcluded = {}
        /\ "solving" \in rung[r].after
    BY <1>0, <1>1, <1>9 DEF Stands, Carrying, Enter, Solve, Publish, RelRead
  <2>2. rung'[r].at = t /\ rung'[r].before = rung[r].before /\ rung'[r].after = rung[r].after
    BY <1>0, <1>1, <1>2, <1>9 DEF Enter, Solve, Publish, RelRead, TypeOK, RunnersTyped, Rung
  <2>3. \/ pc'[r] \in {"solve", "publish", "relRead", "relWrite", "back"}
        \/ pc'[r] = "moveRead" /\ rung'[r].goal = "failed"
        \/ pc'[r] = "moveRead" /\ rung'[r].goal = "review" /\ pr'[t] # "none"
    BY <1>0, <1>1, <1>2, <1>9 DEF Enter, Solve, Publish, Opens, RelRead, Goto, TypeOK, RunnersTyped, Rung
  <2>4. Stands(r)'
    BY <1>3, <2>1, <2>2, <2>3 DEF Stands, Carrying, InRungs, PrFits
  <2>5. pc'[r] # "claimWrite"
    BY <2>3
  <2> QED
    BY <1>3, <1>4, <1>5, <2>4, <2>5
<1> QED
  BY <1>6, <1>7, <1>8, <1>9 DEF StatusBack

(* A write touches the marks of its ticket only.                           *)
LEMMA MarksWritten ==
    ASSUME TypeOK, NEW t \in Tickets, NEW e, Write(t, e)
    PROVE  /\ Marks(t)' = (Marks(t) \ e.remove) \cup (e.add \cap QueueExcluded)
           /\ \A u \in Tickets \ {t} : Marks(u)' = Marks(u)
  BY DEF Write, ApplyEdit, Marks, TypeOK

LEMMA OneMarkKept ==
    ASSUME OneMark, NEW t \in Tickets, \A u \in Tickets \ {t} : Marks(u)' = Marks(u),
           Marks(t)' \subseteq Marks(t) \/ \E m : Marks(t)' = {m}
    PROVE  OneMark'
  BY DEF OneMark

LEMMA LifeClaimWrite ==
    ASSUME LifeInv, OneRunner, NEW r \in Runners, ClaimWrite(r)
    PROVE  OneMark' /\ Stands(r)' /\ Swept(r)' /\ Room(r)'
<1>0. TypeOK /\ OneMark /\ Stands(r) /\ Swept(r) /\ Room(r)
  BY SweepIsOver
<1>1. PICK t \in Tickets : t = rung[r].at
  BY <1>0 DEF TypeOK, RunnersTyped, OnTicket, Pc, ClaimWrite
<1> DEFINE e == ClaimEdit(rung[r].before)
<1>2. pc[r] = "claimWrite" /\ Marks(t) = {} /\ rung[r].before \cap QueueExcluded = {}
  BY <1>0, <1>1 DEF ClaimWrite, Stands
<1>3. /\ UNCHANGED <<plan, watched, settle>>
      /\ \/ Write(t, e) /\ Goto(r, "claimVerify") /\ UNCHANGED rung
         \/ (Write(t, e) \/ UNCHANGED labels) /\ EndRungs(r)
  BY <1>1 DEF ClaimWrite, WriteAnswered, WriteErred, sweep, claims
<1>4. Swept(r)'
  BY <1>2, <1>3, SweepIsOver, SweptEmpty DEF Moving
<1>5. e.add = {"solving"} /\ e.remove \subseteq {"start"}
  BY DEF ClaimEdit, Edit
<1> HIDE DEF e
<1>6. (\A u \in Tickets \ {t} : labels'[u] = labels[u] /\ Marks(u)' = Marks(u))
      /\ Marks(t)' \in {{}, {"solving"}} /\ (Write(t, e) => Marks(t)' = {"solving"})
  <2>1. CASE Write(t, e)
    <3>1. Marks(t)' = {"solving"}
      BY <1>0, <1>2, <1>5, <2>1, MarksWritten DEF QueueExcluded
    <3> QED
      BY <1>0, <2>1, <3>1, MarksWritten DEF Write, TypeOK
  <2>2. CASE UNCHANGED labels /\ ~Write(t, e)
    BY <1>2, <2>2 DEF Marks
  <2> QED
    BY <1>3, <2>1, <2>2
<1>7. OneMark'
  BY <1>0, <1>2, <1>6, OneMarkKept
<1>8. pc'[r] \in {"claimVerify", "pick", "idle"}
  BY <1>0, <1>3, EndRungsTypes DEF Goto, TypeOK, RunnersTyped
<1>9. Room(r)'
  <2>1. IsFiniteSet(Solving) /\ Cardinality(Solving) \in Nat
    BY TicketsAssumption, FS_Subset, SolvingCount DEF Solving
  <2>2. Solving' \subseteq Solving \cup {t}
    BY <1>6 DEF Solving
  <2>3. IsFiniteSet(Solving \cup {t}) /\ Cardinality(Solving \cup {t}) <= Cardinality(Solving) + 1
    <3>1. /\ IsFiniteSet(Solving \cup {t})
          /\ Cardinality(Solving \cup {t}) =
               IF t \in Solving THEN Cardinality(Solving) ELSE Cardinality(Solving) + 1
      BY <2>1, FS_AddElement
    <3> QED
      BY <2>1, <3>1
  <2>4. IsFiniteSet(Solving') /\ Cardinality(Solving') <= Cardinality(Solving \cup {t})
    BY <2>2, <2>3, FS_Subset
  <2>5. Cardinality(Solving') \in Nat /\ Cardinality(Solving \cup {t}) \in Nat
    BY <2>3, <2>4, FS_CardinalityType
  <2>6. Cardinality(plan[r]) \in Nat
    BY <1>0, PlanCount
  <2>7. Cardinality(Solving) + Cardinality(plan[r]) < MaxConcurrent
    BY <1>0, <1>2 DEF Room
  <2> QED
    BY <1>3, <1>8, <2>1, <2>3, <2>4, <2>5, <2>6, <2>7, LimitsAssumption DEF Room
<1>10. Stands(r)'
  <2>1. CASE pc'[r] = "claimVerify"
    <3>1. Write(t, e) /\ UNCHANGED rung
      BY <1>0, <1>3, <2>1, EndRungsTypes
    <3> QED
      BY <1>1, <1>2, <1>6, <2>1, <3>1 DEF Stands, Carrying
  <2> QED
    BY <1>8, <2>1, OffTicketStands
<1> QED
  BY <1>4, <1>7, <1>9, <1>10

LEMMA LifeRelWrite ==
    ASSUME LifeInv, OneRunner, NEW r \in Runners, RelWrite(r)
    PROVE  OneMark' /\ Stands(r)' /\ Swept(r)' /\ Room(r)'
<1>0. TypeOK /\ OneMark /\ Stands(r) /\ Swept(r) /\ Room(r)
  BY SweepIsOver
<1>1. PICK t \in Tickets : t = rung[r].at
  BY <1>0 DEF TypeOK, RunnersTyped, OnTicket, Pc, RelWrite
<1> DEFINE e == ReleaseEdit(rung[r].before, rung[r].after)
<1>2. /\ pc[r] = "relWrite" /\ Marks(t) = {"solving"} /\ rung[r].before \cap QueueExcluded = {}
      /\ "solving" \in rung[r].after
  BY <1>0, <1>1 DEF RelWrite, Stands, Carrying
<1>3. /\ UNCHANGED <<plan, watched, settle>> /\ pc'[r] = "back"
      /\ Write(t, e) \/ UNCHANGED labels
  BY <1>0, <1>1 DEF RelWrite, WriteAnswered, WriteErred, sweep, claims, Goto, TypeOK, RunnersTyped
<1>4. Swept(r)'
  BY <1>2, <1>3, SweepIsOver, SweptEmpty DEF Moving
<1>5. e.add \cap QueueExcluded = {} /\ "solving" \in e.remove
  BY <1>2 DEF ReleaseEdit, Edit, QueueExcluded
<1> HIDE DEF e
<1>6. /\ \A u \in Tickets \ {t} : Marks(u)' = Marks(u)
      /\ Marks(t)' \subseteq Marks(t)
  BY <1>0, <1>3, <1>5, MarksWritten DEF Marks
<1>7. OneMark'
  BY <1>0, <1>6, OneMarkKept
<1>8. \A u \in Tickets : "solving" \in labels'[u] => "solving" \in labels[u]
  BY <1>6 DEF Marks, QueueExcluded
<1> QED
  BY <1>0, <1>3, <1>4, <1>7, <1>8, RoomKept, OffTicketStands

(* A move that is not refused writes its target over the ticket's mark.    *)
LEMMA MoveIsSwap ==
    ASSUME NEW g \in Goal, NEW ls \in SUBSET Label,
           \A a, b \in ls \cap QueueExcluded : a = b,
           IF g \in {"review", "failed"} THEN ls \cap QueueExcluded = {"solving"}
           ELSE ls \cap QueueExcluded \cap UnderReview # {},
           MoveEdit(g, ls) # NoEdit
    PROVE  MoveEdit(g, ls) = Edit({Target(g)}, ls \cap QueueExcluded)
<1>1. CASE g = "review"
  <2>1. MoveEdit(g, ls) = Edit({"reviewing"}, {"solving"})
    BY <1>1 DEF MoveEdit, UnderReview
  <2> QED
    BY <1>1, <2>1 DEF Target
<1>2. CASE g = "failed"
  <2>1. ls \cap ({"solving"} \cup UnderReview) = {"solving"}
    BY <1>2 DEF UnderReview, QueueExcluded
  <2>2. MoveEdit(g, ls) = Edit({g}, ls \cap ({"solving"} \cup UnderReview))
    BY <1>2 DEF MoveEdit, UnderReview
  <2> QED
    BY <1>2, <2>1, <2>2 DEF Target
<1>3. CASE g \notin {"review", "failed"}
  <2>1. PICK x \in UnderReview : ls \cap QueueExcluded = {x}
    BY <1>3
  <2>2. CASE g \in UnderReview
    <3>1. MoveEdit(g, ls) = Edit({g} \ ls, ls \cap (UnderReview \ {g}))
      BY <2>2, <1>3 DEF MoveEdit
    <3>2. CASE g = x
      <4>1. g \in ls /\ ls \cap (UnderReview \ {g}) = {}
        BY <2>1, <3>2 DEF UnderReview, QueueExcluded
      <4> QED
        BY <3>1, <4>1 DEF NoEdit
    <3>3. CASE g # x
      <4>1. g \notin ls /\ ls \cap (UnderReview \ {g}) = {x}
        BY <2>1, <2>2, <3>3 DEF UnderReview, QueueExcluded
      <4>2. {g} \ ls = {g}
        BY <4>1
      <4> QED
        BY <1>3, <2>1, <3>1, <4>1, <4>2 DEF Target
    <3> QED
      BY <3>2, <3>3
  <2>3. CASE g \notin UnderReview
    <3>1. MoveEdit(g, ls) = Edit({g}, ls \cap ({"solving"} \cup UnderReview))
      BY <1>3, <2>3 DEF MoveEdit
    <3>2. ls \cap ({"solving"} \cup UnderReview) = {x}
      BY <2>1 DEF UnderReview, QueueExcluded
    <3> QED
      BY <1>3, <2>1, <3>1, <3>2 DEF Target
  <2> QED
    BY <2>2, <2>3
<1> QED
  BY <1>1, <1>2, <1>3

(* After a move the sweep's other tickets are as they were.                *)
LEMMA LifeMove ==
    ASSUME LifeInv, OneRunner, NEW r \in Runners, MoveRead(r) \/ MoveWrite(r) \/ MoveVerify(r)
    PROVE  OneMark' /\ Stands(r)' /\ Swept(r)' /\ Room(r)'
<1>0. TypeOK /\ OneMark /\ Stands(r) /\ Swept(r) /\ Room(r) /\ Drained(r)
  BY SweepIsOver
<1>1. PICK t \in Tickets : t = rung[r].at
  BY <1>0 DEF TypeOK, RunnersTyped, OnTicket, Pc, MoveRead, MoveWrite, MoveVerify
<1>2. /\ UNCHANGED <<pr, plan, watched>> /\ pc[r] \in Moving /\ rung[r] \in Rung
      /\ rung[r].goal \in Goal /\ watched[r] = {}
  BY <1>0, SweepIsOver DEF MoveRead, MoveWrite, MoveVerify, board, claims, sweep, TypeOK, RunnersTyped,
                           Moving
<1>3. /\ \A u \in Tickets \ {t} : Marks(u)' = Marks(u)
      /\ Marks(t)' = Marks(t) \/ Marks(t)' = {Target(rung[r].goal)}
  <2>1. CASE UNCHANGED labels
    BY <2>1 DEF Marks
  <2>2. CASE MoveWrite(r) /\ Write(t, rung[r].edit)
    <3>1. rung[r].edit = Edit({Target(rung[r].goal)}, Marks(t))
      BY <1>0, <1>1, <2>2 DEF Stands, MoveWrite
    <3>2. Target(rung[r].goal) \in QueueExcluded
      BY <1>2 DEF Target, Goal, QueueExcluded
    <3>3. rung[r].edit.add = {Target(rung[r].goal)} /\ rung[r].edit.remove = Marks(t)
      BY <3>1 DEF Edit
    <3> QED
      BY <1>0, <2>2, <3>2, <3>3, MarksWritten
  <2> QED
    BY <1>1, <2>1, <2>2 DEF MoveRead, MoveWrite, MoveVerify, WriteAnswered, WriteErred, board
<1>4. OneMark'
  BY <1>0, <1>3, OneMarkKept
<1>5. \A u \in Tickets : "solving" \in labels'[u] => "solving" \in labels[u]
  <2>1. Target(rung[r].goal) # "solving"
    BY <1>2 DEF Target, Goal
  <2> QED
    BY <1>3, <2>1 DEF Marks, QueueExcluded
<1>6. pc'[r] \in {"idle", "pick", "settle", "back", "moveVerify"} \/ (MoveRead(r) /\ pc'[r] = "moveWrite")
  BY <1>0, AfterMoveGoes DEF MoveRead, MoveWrite, MoveVerify, Goto, TypeOK, RunnersTyped
<1>7. Room(r)'
  BY <1>0, <1>2, <1>5, <1>6, RoomKept
<1>8. Stands(r)'
  <2>1. CASE MoveRead(r) /\ pc'[r] = "moveWrite"
    <3> DEFINE e == MoveEdit(rung[r].goal, labels[t])
    <3>1. /\ rung' = [rung EXCEPT ![r].edit = e] /\ e # NoEdit /\ pc[r] = "moveRead" /\ UNCHANGED labels
      BY <1>0, <1>1, <2>1, AfterMoveGoes DEF MoveRead, board
    <3>2. /\ IF InRungs(r) THEN Marks(t) = {"solving"} ELSE Marks(t) \cap UnderReview # {}
          /\ PrFits(t, rung[r].goal)
      BY <1>0, <1>1, <3>1 DEF Stands
    <3>3. e = Edit({Target(rung[r].goal)}, Marks(t))
      <4>1. labels[t] \in SUBSET Label
        BY <1>0 DEF TypeOK
      <4> QED
        BY <1>0, <1>2, <3>1, <3>2, <4>1, MoveIsSwap DEF OneMark, Marks, InRungs
    <3> HIDE DEF e
    <3>4. rung'[r].at = t /\ rung'[r].goal = rung[r].goal /\ rung'[r].edit = e
      BY <1>0, <1>1, <1>2, <3>1 DEF TypeOK, RunnersTyped, Rung
    <3>5. Marks(t)' = Marks(t) /\ \A h : PrFits(t, h)' <=> PrFits(t, h)
      BY <1>2, <3>1 DEF Marks, PrFits
    <3>6. InRungs(r)' <=> InRungs(r)
      BY <3>4 DEF InRungs
    <3> QED
      BY <2>1, <3>2, <3>3, <3>4, <3>5, <3>6 DEF Stands, Carrying
  <2> QED
    BY <1>6, <2>1, OffTicketStands
<1>9. Swept(r)'
  <2>1. settle'[r] \subseteq settle[r]
    BY <1>0 DEF MoveRead, MoveWrite, MoveVerify, MoveThrows, sweep, TypeOK
  <2>2. \A s \in settle[r] : s[1] \in Tickets \ {t}
    BY <1>0, <1>1, <1>2 DEF Swept, TypeOK
  <2>3. pc'[r] \in Moving => rung'[r].at = t
    <3>1. CASE UNCHANGED rung
      BY <1>1, <3>1
    <3>2. CASE MoveRead(r) /\ rung' = [rung EXCEPT ![r].edit = MoveEdit(rung[r].goal, labels[rung[r].at])]
      <4> DEFINE e == MoveEdit(rung[r].goal, labels[rung[r].at])
      <4> HIDE DEF e
      <4>1. rung' = [rung EXCEPT ![r].edit = e]
        BY <3>2 DEF e
      <4> QED
        BY <1>0, <1>1, <1>2, <4>1 DEF TypeOK, RunnersTyped, Rung
    <3>3. CASE AfterMove(r) \/ MoveThrows(r)
      BY <1>0, <3>3, AfterMoveGoes DEF Moving
    <3> QED
      BY <3>1, <3>2, <3>3 DEF MoveRead, MoveWrite, MoveVerify
  <2>4. \A s \in settle[r] : /\ Marks(s[1]) \cap UnderReview # {} /\ PrFits(s[1], s[2])
                             /\ \A o \in settle[r] : o[1] = s[1] => o = s
    BY <1>0 DEF Swept
  <2>5. \A s \in settle'[r] : Marks(s[1])' = Marks(s[1]) /\ (PrFits(s[1], s[2])' <=> PrFits(s[1], s[2]))
    BY <1>2, <1>3, <2>1, <2>2 DEF PrFits
  <2> QED
    BY <1>2, <2>1, <2>2, <2>3, <2>4, <2>5 DEF Swept
<1> QED
  BY <1>4, <1>7, <1>8, <1>9

(* People take terminal labels off, and end an open pull request.          *)
LEMMA PeopleMark ==
    ASSUME TypeOK, OneMark, People \/ \E t \in Tickets : MentionWrite(t)
    PROVE  /\ UNCHANGED <<pc, rung, settle, watched, slots, plan>>
           /\ \A t \in Tickets :
                /\ Marks(t)' \subseteq Marks(t)
                /\ Marks(t) \cap Holding # {} => Marks(t)' = Marks(t)
                /\ pr'[t] = pr[t] \/ (pr[t] = "open" /\ pr'[t] \in {"merged", "closed"})
<1>1. UNCHANGED <<pc, rung, settle, watched, slots, plan>>
  BY DEF People, MentionRead, MentionWrite, PersonStarts, PersonClears, PersonToggles,
         PersonEndsPr, PersonStops, sweep, claims
<1>2. \A t \in Tickets : labels'[t] \cap Holding = labels[t] \cap Holding
  BY PeopleFrame
<1>3. \A t \in Tickets : pr'[t] = pr[t] \/ (pr[t] = "open" /\ pr'[t] \in {"merged", "closed"})
  BY DEF People, MentionRead, MentionWrite, PersonStarts, PersonClears, PersonToggles,
         PersonEndsPr, PersonStops, board, TypeOK
<1>4. ASSUME NEW t \in Tickets PROVE Marks(t)' \subseteq Marks(t)
  <2>1. ASSUME NEW u \in Tickets, NEW a, NEW b, Write(u, Edit(a, b)), a \cap QueueExcluded = {}
        PROVE  Marks(t)' \subseteq Marks(t)
    <3>1. Marks(u)' \subseteq Marks(u)
      BY <2>1, MarksWritten DEF Edit
    <3> QED
      BY <2>1, <3>1, MarksWritten
  <2>2. CASE UNCHANGED labels
    BY <2>2 DEF Marks
  <2>3. ASSUME NEW l \in Bystander \cup {"start"} PROVE {l} \cap QueueExcluded = {}
    BY <2>3 DEF Bystander, QueueExcluded
  <2>4. {} \cap QueueExcluded = {}
    OBVIOUS
  <2>5. CASE \E u \in Tickets : MentionWrite(u)
    BY <2>1, <2>2, <2>3, <2>4, <2>5 DEF MentionWrite
  <2>6. CASE \E u \in Tickets : PersonStarts(u)
    BY <2>1, <2>3, <2>6 DEF PersonStarts
  <2>7. CASE \E u \in Tickets : PersonClears(u)
    BY <2>1, <2>4, <2>7 DEF PersonClears
  <2>8. CASE \E u \in Tickets : \E l \in Bystander : PersonToggles(u, l)
    BY <2>1, <2>3, <2>4, <2>8 DEF PersonToggles
  <2> QED
    BY <2>2, <2>5, <2>6, <2>7, <2>8 DEF People, MentionRead, PersonEndsPr, PersonStops, board
<1>5. ASSUME NEW t \in Tickets, Marks(t) \cap Holding # {} PROVE Marks(t)' = Marks(t)
  <2>1. PICK m \in Holding : m \in Marks(t)
    BY <1>5
  <2>2. m \in Marks(t)'
    BY <1>2, <2>1 DEF Marks
  <2>3. Marks(t) = {m}
    BY <2>1 DEF OneMark
  <2> QED
    BY <1>4, <2>2, <2>3
<1> QED
  BY <1>1, <1>3, <1>4, <1>5

LEMMA LifePeople ==
    ASSUME LifeInv, People \/ \E t \in Tickets : MentionWrite(t)
    PROVE  OneMark' /\ \A r \in Runners : Stands(r)' /\ Swept(r)' /\ Room(r)'
<1>0. TypeOK /\ OneMark /\ \A r \in Runners : Stands(r) /\ Swept(r) /\ Room(r)
  BY DEF LifeInv, OpenPrInv, DrainedInv
<1>1. /\ UNCHANGED <<pc, rung, settle, watched, slots, plan>>
      /\ \A t \in Tickets :
           /\ Marks(t)' \subseteq Marks(t)
           /\ Marks(t) \cap Holding # {} => Marks(t)' = Marks(t)
           /\ pr'[t] = pr[t] \/ (pr[t] = "open" /\ pr'[t] \in {"merged", "closed"})
  BY <1>0, PeopleMark
<1>2. OneMark'
  BY <1>0, <1>1 DEF OneMark
<1>3. \A t \in Tickets, g \in Goal : PrFits(t, g) => PrFits(t, g)'
  BY <1>1 DEF PrFits
<1>4. ASSUME NEW r \in Runners PROVE Stands(r)'
  <2>1. CASE pc[r] \notin OnTicket
    BY <1>1, <2>1 DEF Stands, Carrying, OnTicket, Pc
  <2>2. CASE pc[r] \in OnTicket
    <3>1. PICK t \in Tickets : t = rung[r].at
      BY <1>0, <2>2 DEF TypeOK, RunnersTyped
    <3>2. pc[r] \in {"moveRead", "moveWrite"} => rung[r].goal \in Goal
      BY <1>0 DEF TypeOK, RunnersTyped, Moving
    <3>3. Marks(t) = {} => Marks(t)' = {}
      BY <1>1
    <3>4. Marks(t) = {"solving"} \/ Marks(t) \cap UnderReview # {} => Marks(t)' = Marks(t)
      BY <1>1 DEF Holding
    <3>5. rung'[r].at = t /\ rung'[r] = rung[r] /\ pc'[r] = pc[r] /\ (InRungs(r)' <=> InRungs(r))
      BY <1>1, <3>1 DEF InRungs
    <3>6. pc[r] \in {"moveRead", "moveWrite"} =>
            (IF InRungs(r) THEN Marks(t) = {"solving"} ELSE Marks(t) \cap UnderReview # {})
      BY <1>0, <3>1 DEF Stands
    <3> QED
      BY <1>0, <1>3, <3>1, <3>2, <3>3, <3>4, <3>5, <3>6 DEF Stands, Carrying
  <2> QED
    BY <2>1, <2>2
<1>5. ASSUME NEW r \in Runners PROVE Swept(r)'
  <2>1. watched[r] \subseteq Tickets /\ \A s \in settle[r] : s[1] \in Tickets /\ s[2] \in Goal
    BY <1>0 DEF TypeOK
  <2>2. \A t \in Tickets : Marks(t) \cap UnderReview # {} => Marks(t)' = Marks(t)
    BY <1>1 DEF Holding
  <2> QED
    BY <1>0, <1>1, <1>3, <2>1, <2>2 DEF Swept
<1>6. ASSUME NEW r \in Runners PROVE Room(r)'
  <2>1. Solving' = Solving
    <3>1. \A t \in Tickets : labels'[t] \cap Holding = labels[t] \cap Holding
      BY <1>0, PeopleFrame
    <3> QED
      BY <3>1 DEF Solving, Holding
  <2> QED
    BY <1>0, <1>1, <2>1 DEF Room
<1> QED
  BY <1>2, <1>4, <1>5, <1>6

LEMMA LifeStep ==
    ASSUME OneRunner, Runners \subseteq Daemons, "create_lost" \notin Faults, LifeInv, [Next]_vars
    PROVE  LifeInv'
<1>0. OpenPrInv' /\ TotalOrder(older)'
  BY OpenPrStep, OrderStays DEF LifeInv, OpenPrInv, DrainedInv
<1>1. CASE UNCHANGED vars
  <2>1. UNCHANGED <<labels, pr, pc, rung, watched, settle, slots, plan>>
    BY <1>1 DEF vars, board, sweep, claims
  <2>2. /\ OneMark /\ \A r \in Runners : Stands(r) /\ Swept(r) /\ Room(r)
    BY DEF LifeInv
  <2>3. /\ \A u : Marks(u)' = Marks(u)
        /\ \A u, h : PrFits(u, h)' <=> PrFits(u, h)
        /\ Solving' = Solving
    BY <2>1 DEF Marks, PrFits, Solving
  <2>4. OneMark'
    BY <2>2, <2>3 DEF OneMark
  <2>5. ASSUME NEW r \in Runners PROVE Stands(r)'
    BY <2>1, <2>2, <2>3 DEF Stands, InRungs
  <2>6. ASSUME NEW r \in Runners PROVE Swept(r)'
    BY <2>1, <2>2, <2>3 DEF Swept
  <2>7. ASSUME NEW r \in Runners PROVE Room(r)'
    BY <2>1, <2>2, <2>3 DEF Room
  <2> QED
    BY <1>0, <2>4, <2>5, <2>6, <2>7 DEF LifeInv
<1>2. ASSUME NEW r \in Runners, Tick(r) \/ Rungs(r) \/ Crash(r)
      PROVE  LifeInv'
  <2>1. OneMark' /\ Stands(r)' /\ Swept(r)' /\ Room(r)'
    BY <1>2, LifeSweep, LifeClaimHalf, LifeRun, LifeClaimWrite, LifeRelWrite, LifeMove DEF Tick, Rungs
  <2>2. \A q \in Runners : Stands(q)' /\ Swept(q)' /\ Room(q)'
    BY <2>1 DEF OneRunner
  <2> QED
    BY <1>0, <2>1, <2>2 DEF LifeInv
<1>3. CASE People \/ \E t \in Tickets : MentionWrite(t)
  BY <1>0, <1>3, LifePeople DEF LifeInv
<1>4. \A r \in Runners, t \in Tickets : ~Named(r, t)
  BY DEF Named
<1> QED
  BY <1>1, <1>2, <1>3, <1>4 DEF Next

---------------------------------------------------------------------------
(* What a step shows of the lifecycle: one of its steps, or nothing.       *)
Shown == [Lifecycle!LifecycleNext]_(Lifecycle!lifecycle)

(* The one mark is the stage.                                              *)
LEMMA StageByMark ==
    ASSUME NEW ls, \A a, b \in ls \cap QueueExcluded : a = b
    PROVE  /\ ls \cap QueueExcluded = {} => StageOf(ls) = "open"
           /\ "solving" \in ls => StageOf(ls) = "claimed"
           /\ ls \cap UnderReview # {} => StageOf(ls) = "review"
           /\ "failed" \in ls => StageOf(ls) = "failed"
           /\ "done" \in ls => StageOf(ls) = "merged"
           /\ "closed" \in ls => StageOf(ls) = "closed"
           /\ StageOf(ls) = "claimed" => "solving" \in ls
  BY DEF StageOf, QueueExcluded, UnderReview

LEMMA StageOfMarks ==
    ASSUME NEW ks, NEW ls, ks \cap QueueExcluded = ls \cap QueueExcluded
    PROVE  StageOf(ks) = StageOf(ls)
<1>1. \A l \in QueueExcluded : l \in ks <=> l \in ls
  OBVIOUS
<1>2. ks \cap UnderReview = ls \cap UnderReview
  BY <1>1 DEF QueueExcluded, UnderReview
<1> QED
  BY <1>1, <1>2 DEF StageOf, QueueExcluded

LEMMA ShowsMove ==
    ASSUME NEW t \in Tickets, \A u \in Tickets \ {t} : Marks(u)' = Marks(u)
    PROVE  Lifecycle!Move(t, StageOf(labels[t]), StageOf(labels'[t]))
<1>1. \A u \in Tickets \ {t} : StageOf(labels'[u]) = StageOf(labels[u])
  BY StageOfMarks DEF Marks
<1> QED
  BY <1>1 DEF Lifecycle!Move

LEMMA ShowsNothing ==
    ASSUME \A u \in Tickets : StageOf(labels'[u]) = StageOf(labels[u]), UNCHANGED pr
    PROVE  Shown
  BY DEF Shown, Lifecycle!lifecycle

LEMMA SameLabels ==
    ASSUME UNCHANGED <<labels, pr>>
    PROVE  Shown
  BY ShowsNothing

LEMMA ShowClaim ==
    ASSUME LifeInv, OneRunner, NEW r \in Runners, ClaimWrite(r)
    PROVE  Shown
<1>0. TypeOK /\ OneMark /\ Stands(r) /\ Room(r) /\ RunHolds(r)
  BY SweepIsOver
<1>1. PICK t \in Tickets : t = rung[r].at
  BY <1>0 DEF TypeOK, RunnersTyped, OnTicket, Pc, ClaimWrite
<1> DEFINE e == ClaimEdit(rung[r].before)
<1>2. /\ Marks(t) = {} /\ pr[t] # "open" /\ UNCHANGED pr
      /\ Cardinality(Solving) + Cardinality(plan[r]) < MaxConcurrent
  BY <1>0, <1>1 DEF ClaimWrite, Stands, RunHolds, Room
<1>3. e.add = {"solving"} /\ e.remove \subseteq {"start"}
  BY DEF ClaimEdit, Edit
<1> HIDE DEF e
<1>4. CASE Write(t, e)
  <2>1. Marks(t)' = {"solving"} /\ \A u \in Tickets \ {t} : Marks(u)' = Marks(u)
    BY <1>0, <1>2, <1>3, <1>4, MarksWritten DEF QueueExcluded
  <2>2. StageOf(labels[t]) = "open" /\ StageOf(labels'[t]) = "claimed"
    BY <1>2, <2>1, StageByMark DEF Marks
  <2>3. Lifecycle!Move(t, "open", "claimed")
    BY <2>1, <2>2, ShowsMove
  <2> DEFINE claimed == {u \in Tickets : StageOf(labels[u]) = "claimed"}
  <2>4. Cardinality(claimed) < MaxConcurrent
    <3>1. IsFiniteSet(Solving) /\ claimed \subseteq Solving
      BY <1>0, TicketsAssumption, FS_Subset, StageByMark DEF Solving, OneMark, Marks
    <3>2. IsFiniteSet(claimed) /\ Cardinality(claimed) <= Cardinality(Solving)
      BY <3>1, FS_Subset
    <3>3. Cardinality(claimed) \in Nat /\ Cardinality(Solving) \in Nat /\ Cardinality(plan[r]) \in Nat
      BY <1>0, <3>1, <3>2, FS_CardinalityType, PlanCount
    <3> HIDE DEF claimed
    <3> QED
      BY <1>2, <3>2, <3>3, LimitsAssumption
  <2>5. {u \in Tickets : [v \in Tickets |-> StageOf(labels[v])][u] = "claimed"} = claimed
    OBVIOUS
  <2>6. Lifecycle!Cardinality(claimed) = Cardinality(claimed)
    BY DEF Lifecycle!Cardinality, Cardinality
  <2>7. Lifecycle!Claim(t)
    <3> HIDE DEF claimed
    <3> QED
      BY <1>2, <2>3, <2>4, <2>5, <2>6 DEF Lifecycle!Claim
  <2> QED
    BY <2>7 DEF Shown, Lifecycle!LifecycleNext
<1>5. CASE UNCHANGED labels
  BY <1>2, <1>5, SameLabels
<1> QED
  BY <1>1, <1>4, <1>5 DEF ClaimWrite, WriteAnswered, WriteErred, e

LEMMA ShowPublish ==
    ASSUME LifeInv, OneRunner, NEW r \in Runners, Publish(r)
    PROVE  Shown
<1>0. TypeOK /\ OneMark /\ Stands(r)
  BY SweepIsOver
<1>1. PICK t \in Tickets : t = rung[r].at
  BY <1>0 DEF TypeOK, RunnersTyped, OnTicket, Pc, Publish
<1>2. Marks(t) = {"solving"} /\ UNCHANGED labels /\ (Opens(t) \/ UNCHANGED pr)
  BY <1>0, <1>1 DEF Publish, Stands, Carrying
<1>3. CASE Opens(t)
  <2>1. StageOf(labels[t]) = "claimed"
    BY <1>2, StageByMark DEF Marks
  <2>2. Lifecycle!OpenPr(t)
    BY <1>2, <1>3, <2>1 DEF Lifecycle!OpenPr, Opens
  <2> QED
    BY <2>2 DEF Shown, Lifecycle!LifecycleNext
<1> QED
  BY <1>2, <1>3, SameLabels

LEMMA ShowMove ==
    ASSUME LifeInv, OneRunner, NEW r \in Runners, MoveWrite(r)
    PROVE  Shown
<1>0. TypeOK /\ OneMark /\ Stands(r) /\ RunHolds(r)
  BY SweepIsOver
<1>1. PICK t \in Tickets : t = rung[r].at
  BY <1>0 DEF TypeOK, RunnersTyped, OnTicket, Pc, MoveWrite
<1>2. PICK g \in Goal : g = rung[r].goal
  BY <1>0 DEF TypeOK, RunnersTyped, Moving, MoveWrite
<1>3. /\ IF g \in {"review", "failed"} THEN Marks(t) = {"solving"} ELSE Marks(t) \cap UnderReview # {}
      /\ PrFits(t, g) /\ rung[r].edit = Edit({Target(g)}, Marks(t))
      /\ g \in Terminal => pr[t] # "open"
      /\ UNCHANGED pr
  BY <1>0, <1>1, <1>2 DEF MoveWrite, Stands, InRungs, RunHolds, Moving
<1>4. CASE Write(t, rung[r].edit)
  <2>1. Marks(t)' = {Target(g)} /\ \A u \in Tickets \ {t} : Marks(u)' = Marks(u)
    <3>1. Target(g) \in QueueExcluded
      BY DEF Target, Goal, QueueExcluded
    <3>2. rung[r].edit.add = {Target(g)} /\ rung[r].edit.remove = Marks(t)
      BY <1>3 DEF Edit
    <3> QED
      BY <1>0, <1>4, <3>1, <3>2, MarksWritten
  <2>2. /\ \A a, b \in labels[t] \cap QueueExcluded : a = b
        /\ \A a, b \in labels'[t] \cap QueueExcluded : a = b
        /\ Target(g) \in labels'[t]
    BY <1>0, <2>1 DEF OneMark, Marks
  <2>3. Lifecycle!Move(t, StageOf(labels[t]), StageOf(labels'[t]))
    BY <2>1, ShowsMove
  <2>4. /\ Marks(t) = {"solving"} => StageOf(labels[t]) = "claimed"
        /\ Marks(t) \cap UnderReview # {} => StageOf(labels[t]) = "review"
    BY <2>2, StageByMark DEF Marks
  <2>5. CASE g = "review"
    <3>1. StageOf(labels'[t]) = "review"
      BY <2>2, <2>5, StageByMark DEF Target, UnderReview
    <3>2. Lifecycle!HandOn(t)
      BY <1>3, <2>3, <2>4, <2>5, <3>1 DEF Lifecycle!HandOn, PrFits
    <3> QED
      BY <3>2 DEF Shown, Lifecycle!LifecycleNext
  <2>6. CASE g = "failed"
    <3>1. StageOf(labels'[t]) = "failed"
      BY <2>2, <2>6, StageByMark DEF Target
    <3>2. Lifecycle!Decide(t)
      BY <1>3, <2>3, <2>4, <2>6, <3>1 DEF Lifecycle!Decide, Terminal
    <3> QED
      BY <3>2 DEF Shown, Lifecycle!LifecycleNext
  <2>7. CASE g \in {"done", "closed"}
    <3>1. StageOf(labels'[t]) = pr[t] /\ pr[t] \in {"merged", "closed"}
      BY <1>3, <2>2, <2>7, StageByMark DEF Target, PrFits
    <3>2. Lifecycle!Record(t)
      BY <1>3, <2>3, <2>4, <2>7, <3>1 DEF Lifecycle!Record
    <3> QED
      BY <3>2 DEF Shown, Lifecycle!LifecycleNext
  <2>8. CASE g \in UnderReview
    <3>1. StageOf(labels'[t]) = "review" /\ StageOf(labels[t]) = "review"
      BY <1>3, <2>2, <2>4, <2>8, StageByMark DEF Target, UnderReview
    <3>2. \A u \in Tickets : StageOf(labels'[u]) = StageOf(labels[u])
      BY <2>1, <3>1, StageOfMarks DEF Marks
    <3> QED
      BY <1>3, <3>2, ShowsNothing
  <2> QED
    BY <2>5, <2>6, <2>7, <2>8 DEF Goal, UnderReview
<1>5. CASE UNCHANGED labels
  BY <1>3, <1>5, SameLabels
<1> QED
  BY <1>1, <1>4, <1>5 DEF MoveWrite, WriteAnswered, WriteErred

LEMMA ShowRelease ==
    ASSUME LifeInv, OneRunner, NEW r \in Runners, RelWrite(r)
    PROVE  Shown
<1>0. TypeOK /\ OneMark /\ Stands(r) /\ RunHolds(r)
  BY SweepIsOver
<1>1. PICK t \in Tickets : t = rung[r].at
  BY <1>0 DEF TypeOK, RunnersTyped, OnTicket, Pc, RelWrite
<1> DEFINE e == ReleaseEdit(rung[r].before, rung[r].after)
<1>2. /\ Marks(t) = {"solving"} /\ rung[r].before \cap QueueExcluded = {}
      /\ "solving" \in rung[r].after /\ pr[t] # "open" /\ UNCHANGED pr
  BY <1>0, <1>1 DEF RelWrite, Stands, Carrying, RunHolds
<1>3. e.add \cap QueueExcluded = {} /\ "solving" \in e.remove
  BY <1>2 DEF ReleaseEdit, Edit, QueueExcluded
<1> HIDE DEF e
<1>4. CASE Write(t, e)
  <2>1. Marks(t)' = {} /\ \A u \in Tickets \ {t} : Marks(u)' = Marks(u)
    BY <1>0, <1>2, <1>3, <1>4, MarksWritten
  <2>2. StageOf(labels[t]) = "claimed" /\ StageOf(labels'[t]) = "open"
    BY <1>2, <2>1, StageByMark DEF Marks
  <2>3. Lifecycle!Move(t, "claimed", "open")
    BY <2>1, <2>2, ShowsMove
  <2>4. Lifecycle!GiveBack(t)
    BY <1>2, <2>3 DEF Lifecycle!GiveBack
  <2> QED
    BY <2>4 DEF Shown, Lifecycle!LifecycleNext
<1>5. CASE UNCHANGED labels
  BY <1>2, <1>5, SameLabels
<1> QED
  BY <1>1, <1>4, <1>5 DEF RelWrite, WriteAnswered, WriteErred, e

(* A person's write clears a terminal label or touches no mark.            *)
LEMMA ShowPeople ==
    ASSUME LifeInv, People \/ \E t \in Tickets : MentionWrite(t)
    PROVE  Shown
<1>0. TypeOK /\ OneMark
  BY DEF LifeInv, OpenPrInv, DrainedInv
<1>1. ASSUME NEW t \in Tickets, NEW a, NEW b, Write(t, Edit(a, b)), a \cap QueueExcluded = {},
             b \cap Holding = {}, UNCHANGED pr
      PROVE  Shown
  <2>1. /\ Marks(t)' = Marks(t) \ b
        /\ \A u \in Tickets \ {t} : Marks(u)' = Marks(u)
    BY <1>0, <1>1, MarksWritten DEF Edit
  <2>2. CASE Marks(t)' = Marks(t)
    <3>1. \A u \in Tickets : StageOf(labels'[u]) = StageOf(labels[u])
      BY <2>1, <2>2, StageOfMarks DEF Marks
    <3> QED
      BY <1>1, <3>1, ShowsNothing
  <2>3. CASE Marks(t)' # Marks(t)
    <3>1. PICK m \in Marks(t) : m \in b
      BY <2>1, <2>3
    <3>2. Marks(t)' = {} /\ m \in Terminal
      BY <1>0, <1>1, <2>1, <3>1 DEF OneMark, Marks, QueueExcluded, Terminal, Holding, UnderReview
    <3>3. StageOf(labels'[t]) = "open"
      BY <3>2, StageByMark DEF Marks
    <3>4. StageOf(labels[t]) \in {"failed", "merged", "closed"}
      BY <1>0, <3>1, <3>2, StageByMark DEF Marks, OneMark, Terminal
    <3>5. Lifecycle!Move(t, StageOf(labels[t]), "open")
      BY <2>1, <3>3, ShowsMove
    <3>6. Lifecycle!Clear(t)
      BY <1>1, <3>4, <3>5 DEF Lifecycle!Clear
    <3> QED
      BY <3>6 DEF Shown, Lifecycle!LifecycleNext
  <2> QED
    BY <2>2, <2>3
<1>2. /\ \A l \in Bystander \cup {"start"} : {l} \cap QueueExcluded = {} /\ {l} \cap Holding = {}
      /\ \A l \in Terminal : {l} \cap Holding = {}
      /\ {} \cap QueueExcluded = {} /\ {} \cap Holding = {}
  BY DEF Bystander, QueueExcluded, Holding, Terminal, UnderReview
<1>3. CASE \E t \in Tickets : MentionWrite(t)
  <2>1. PICK t \in Tickets : MentionWrite(t)
    BY <1>3
  <2>2. /\ UNCHANGED pr
        /\ \/ Write(t, Edit({"start"}, {})) \/ Write(t, Edit({}, {"failed"}))
           \/ UNCHANGED labels
    BY <2>1 DEF MentionWrite
  <2> QED
    BY <1>1, <1>2, <2>2, SameLabels DEF Terminal
<1>4. CASE \E t \in Tickets : PersonStarts(t)
  BY <1>1, <1>2, <1>4 DEF PersonStarts
<1>5. CASE \E t \in Tickets : PersonClears(t)
  BY <1>1, <1>2, <1>5 DEF PersonClears
<1>6. CASE \E t \in Tickets : \E l \in Bystander : PersonToggles(t, l)
  BY <1>1, <1>2, <1>6 DEF PersonToggles
<1>7. CASE \E t \in Tickets : \E s \in {"merged", "closed"} : PersonEndsPr(t, s)
  <2>1. PICK t \in Tickets, s \in {"merged", "closed"} : PersonEndsPr(t, s)
    BY <1>7
  <2>2. Lifecycle!EndPr(t, s)
    BY <2>1 DEF PersonEndsPr, Lifecycle!EndPr
  <2> QED
    BY <2>1, <2>2 DEF Shown, Lifecycle!LifecycleNext
<1>8. CASE UNCHANGED <<labels, pr>>
  BY <1>8, SameLabels
<1> QED
  BY <1>3, <1>4, <1>5, <1>6, <1>7, <1>8 DEF People, MentionRead, PersonStops, board

LEMMA LifeInit == Init => LifeInv /\ Lifecycle!LifecycleInit
<1> SUFFICES ASSUME Init PROVE LifeInv /\ Lifecycle!LifecycleInit
  OBVIOUS
<1>1. OpenPrInv
  BY InitTypes DEF Init, OpenPrInv, DrainedInv, Drained, OpenHeld, RunHolds, SettleEnded, Moving
<1>2. \A t \in Tickets : Marks(t) = {}
  BY DEF Init, Marks, QueueExcluded
<1>3. \A r \in Runners : pc[r] = "idle" /\ watched[r] = {} /\ settle[r] = {} /\ plan[r] = {}
  BY DEF Init
<1>4. \A r \in Runners : Stands(r) /\ Swept(r) /\ Room(r)
  BY <1>3 DEF Stands, Swept, Room, Carrying
<1>5. LifeInv
  BY <1>1, <1>2, <1>4 DEF LifeInv, OneMark, Init
<1>6. \A t \in Tickets : StageOf(labels[t]) = "open"
  BY <1>2, StageByMark DEF Marks
<1>7. Lifecycle!LifecycleInit
  BY <1>6 DEF Lifecycle!LifecycleInit, Init
<1> QED
  BY <1>5, <1>7

(* One daemon implements the lifecycle, for any number of tickets and any  *)
(* limit, whoever edits labels, whatever reads fail, whatever writes are   *)
(* lost or land behind an error, and wherever it crashes: it claims within *)
(* MAX_CONCURRENT_SOLVES though it counts long before it claims, and moves *)
(* a label only as the pull request it read of, a sweep earlier, allows.   *)
THEOREM ImplementsLifecycle ==
    ASSUME OneRunner, Runners \subseteq Daemons, "create_lost" \notin Faults
    PROVE  Spec => LifecycleImplemented
<1>1. LifeInv /\ [Next]_vars => LifeInv'
  BY LifeStep
<1>2. LifeInv /\ [Next]_vars => Shown
  <2> SUFFICES ASSUME LifeInv, [Next]_vars PROVE Shown
    OBVIOUS
  <2>1. CASE UNCHANGED vars
    BY <2>1, SameLabels DEF vars, board
  <2>2. ASSUME NEW r \in Runners, Tick(r) \/ Crash(r) PROVE Shown
    <3>1. UNCHANGED <<labels, pr>>
      BY <2>2 DEF Tick, SweepFetch, Look, LooksDone, SettleNext, SettleDone, Count, Fetch, Pick,
                  PickDone, Crash, board
    <3> QED
      BY <3>1, SameLabels
  <2>3. ASSUME NEW r \in Runners, Rungs(r) PROVE Shown
    <3>1. CASE \/ ClaimRead(r) \/ ClaimVerify(r) \/ Enter(r) \/ Solve(r) \/ MoveRead(r)
               \/ MoveVerify(r) \/ RelRead(r) \/ StatusBack(r)
      <4>1. UNCHANGED <<labels, pr>>
        BY <3>1 DEF ClaimRead, ClaimVerify, Enter, Solve, MoveRead, MoveVerify, RelRead, StatusBack,
                    board
      <4> QED
        BY <4>1, SameLabels
    <3> QED
      BY <2>3, <3>1, ShowClaim, ShowPublish, ShowMove, ShowRelease DEF Rungs
  <2>4. CASE People \/ \E t \in Tickets : MentionWrite(t)
    BY <2>4, ShowPeople
  <2>5. \A r \in Runners, t \in Tickets : ~Named(r, t)
    BY DEF Named
  <2> QED
    BY <2>1, <2>2, <2>3, <2>4, <2>5 DEF Next
<1> QED
  BY <1>1, <1>2, LifeInit, PTL DEF Spec, Shown, LifecycleImplemented, Lifecycle!LifecycleSpec
=============================================================================
