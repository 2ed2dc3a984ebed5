----------------------------- MODULE SolveQueue -----------------------------
(***************************************************************************)
(* The solve side of the daemon over the Jira board: each tick sweeps the  *)
(* pull requests under review, then claims tickets from the queue and      *)
(* climbs the write rungs of each claim (src/src/review-loop.ts,           *)
(* src/src/cli/solve-run.ts, src/src/solve/claim.ts).  Jira is the only    *)
(* shared state: a label read and the write that follows it are two calls, *)
(* so people, the Slack listener and a second runner act in between.       *)
(*                                                                         *)
(* A runner is a process that climbs rungs: a daemon, which ticks, or an   *)
(* operator's `solve:once`, which claims one ticket by name.               *)
(***************************************************************************)
EXTENDS AgentLabels, Naturals, FiniteSets

CONSTANTS
    Tickets,        \* issue keys
    Allowed,        \* tickets whose svc: label is on SOLVE_REPOS
    Runners,        \* processes that climb the write rungs
    Daemons,        \* the runners that tick; the others are solve:once
    Authority,      \* SOLVE_MODE of the board's runners
    MaxConcurrent,  \* MAX_CONCURRENT_SOLVES
    MaxAttempts,    \* the attempt ledger's max
    Powers,         \* what people do in this instance
    MaxEdits,       \* bound: how many times they do it
    Faults,         \* what may go wrong in this instance
    MaxFaults       \* bound: how many times it does

Power == {"mention", "hand", "watching", "next", "pr", "stop"}
Fault == {"read", "write_lost", "write_landed", "status", "create_lost", "crash"}

ASSUME TicketsAssumption == IsFiniteSet(Tickets) /\ Allowed \subseteq Tickets
ASSUME RunnersAssumption == Daemons \subseteq Runners
ASSUME ModeAssumption    == Authority \in {"manual", "auto"}
ASSUME LimitsAssumption  == MaxConcurrent \in Nat /\ MaxAttempts \in Nat
ASSUME BoundsAssumption  == MaxEdits \in Nat /\ MaxFaults \in Nat
ASSUME EnvAssumption     == Powers \subseteq Power /\ Faults \subseteq Fault

NoTicket == "no ticket"
ASSUME NoTicketAssumption == NoTicket \notin Tickets

VARIABLES
    labels,    \* the board: each ticket's labels
    status,    \* its Jira status
    pr,        \* the pull request on its branch
    older,     \* tickets whose `updated` is before this one's
    pc,        \* where each runner is
    rung,      \* its locals: the ticket at hand and what was read of it
    watched,   \* sweep: tickets fetched and not looked at yet
    settle,    \* sweep: label moves the looks and rounds called for
    slots,     \* claims: what MAX_CONCURRENT_SOLVES left room for
    plan,      \* claims: tickets planned and not tried yet
    attempts,  \* the in-memory attempt ledger
    stopping,  \* runners whose AbortSignal fired
    mention,   \* Slack commands decided and not written yet
    edits, faults,    \* how much of the two bounds is used
    grants, opened    \* history: go-aheads given, pull requests opened

board    == <<labels, status, pr, older>>
sweep    == <<watched, settle>>
claims   == <<slots, plan, attempts>>
people   == <<stopping, mention, edits>>
history  == <<grants, opened>>
vars     == <<board, pc, rung, sweep, claims, people, faults, history>>

Stages == {"todo", "inProgress", "codeReview"}
PrState == {"none", "open", "merged", "closed"}
Pc == {"idle", "look", "settle", "count", "fetch", "pick",
       "claimRead", "claimWrite", "claimVerify", "enter", "solve", "publish",
       "moveRead", "moveWrite", "moveVerify", "relRead", "relWrite", "back"}
OnTicket == Pc \ {"idle", "look", "settle", "count", "fetch", "pick"}
Moving == {"moveRead", "moveWrite", "moveVerify"}

(* keep: a pull request exists, so the claim is handed on and not released.*)
(* moved: this run put the ticket in progress.                             *)
Rung == [at : Tickets \cup {NoTicket}, before : SUBSET Label, after : SUBSET Label,
         edit : LabelEdit, goal : Goal \cup {"none"}, keep : BOOLEAN, moved : BOOLEAN]
NoRung == [at |-> NoTicket, before |-> {}, after |-> {}, edit |-> NoEdit,
           goal |-> "none", keep |-> FALSE, moved |-> FALSE]

RunnersTyped ==
    /\ pc \in [Runners -> Pc]
    /\ rung \in [Runners -> Rung]
    /\ \A r \in Runners :
         /\ pc[r] \in OnTicket => rung[r].at \in Tickets
         /\ pc[r] \in Moving => rung[r].goal \in Goal

TypeOK ==
    /\ labels \in [Tickets -> SUBSET Label]
    /\ status \in [Tickets -> Stages]
    /\ pr \in [Tickets -> PrState]
    /\ older \in [Tickets -> SUBSET Tickets]
    /\ RunnersTyped
    /\ watched \in [Runners -> SUBSET Tickets]
    /\ settle \in [Runners -> SUBSET (Tickets \X Goal)]
    /\ slots \in [Runners -> Nat]
    /\ plan \in [Runners -> SUBSET Tickets]
    /\ attempts \in [Runners -> [Tickets -> Nat]]
    /\ stopping \subseteq Runners
    /\ mention \in [Tickets -> {"none", "start", "clear"}]
    /\ edits \in Nat /\ faults \in Nat
    /\ grants \in [Tickets -> Nat]
    /\ opened \in [Tickets -> Nat]

---------------------------------------------------------------------------
(* Triage has left every ticket solvable; some already have their start.   *)
TotalOrder(o) ==
    \A t, u \in Tickets :
        /\ t \notin o[t]
        /\ t # u => (t \in o[u] <=> u \notin o[t])
        /\ t \in o[u] => o[t] \subseteq o[u]

Init ==
    /\ labels \in [Tickets -> {{"solvable"}, {"solvable", "start"}}]
    /\ status = [t \in Tickets |-> "todo"]
    /\ pr = [t \in Tickets |-> "none"]
    /\ older \in {o \in [Tickets -> SUBSET Tickets] : TotalOrder(o)}
    /\ pc = [r \in Runners |-> "idle"]
    /\ rung = [r \in Runners |-> NoRung]
    /\ watched = [r \in Runners |-> {}]
    /\ settle = [r \in Runners |-> {}]
    /\ slots = [r \in Runners |-> 0]
    /\ plan = [r \in Runners |-> {}]
    /\ attempts = [r \in Runners |-> [t \in Tickets |-> 0]]
    /\ stopping = {}
    /\ mention = [t \in Tickets |-> "none"]
    /\ edits = 0 /\ faults = 0
    /\ grants = [t \in Tickets |-> IF "start" \in labels[t] THEN 1 ELSE 0]
    /\ opened = [t \in Tickets |-> 0]

---------------------------------------------------------------------------
(* Jira's side of updateLabels: one delta, applied to the labels there now,*)
(* and `updated` bumped.                                                   *)
Write(t, e) ==
    /\ labels' = [labels EXCEPT ![t] = ApplyEdit(@, e)]
    /\ older' = [u \in Tickets |-> IF u = t THEN Tickets \ {t} ELSE older[u] \ {t}]

Goto(r, p) == pc' = [pc EXCEPT ![r] = p]

CanFail(f) == f \in Faults /\ faults < MaxFaults
Fail(f) == CanFail(f) /\ faults' = faults + 1

(* The end of runWriteRungs: a daemon goes on to the next planned ticket,  *)
(* a solve:once exits.                                                     *)
AfterRungs(r) == IF r \in Daemons THEN "pick" ELSE "idle"
EndRungs(r) == Goto(r, AfterRungs(r)) /\ rung' = [rung EXCEPT ![r] = NoRung]

(* A label write as its caller sees it: answered; an error after Jira had  *)
(* applied it; or an error and nothing applied, which is also what         *)
(* updateLabels does with a label outside agent:, sending nothing.         *)
WriteAnswered(t, e) == Writable(e) /\ Write(t, e) /\ UNCHANGED faults
WriteErred(t, e) ==
    \/ Writable(e) /\ Write(t, e) /\ Fail("write_landed")
    \/ Writable(e) /\ UNCHANGED <<labels, older>> /\ Fail("write_lost")
    \/ ~Writable(e) /\ UNCHANGED <<labels, older, faults>>

---------------------------------------------------------------------------
(* The review half of a tick: fetch what is under review, look at each,    *)
(* then move the labels each look or round called for.                     *)
SweepFetch(r) ==
    /\ pc[r] = "idle" /\ r \in Daemons \ stopping
    /\ \/ /\ watched' = [watched EXCEPT ![r] = {t \in Tickets : labels[t] \cap UnderReview # {}}]
          /\ Goto(r, "look")
          /\ UNCHANGED faults
       \/ Fail("read") /\ UNCHANGED <<watched, pc>>
    /\ UNCHANGED <<board, rung, settle, claims, people, history>>

(* A look that throws, finds no pull request, is deferred (over the round  *)
(* limit, or stopping), or ends in an outcome reviewStageAfter maps to null*)
(* moves nothing.                                                          *)
LookGoalsSwapped(t) ==
    CASE pr[t] = "merged" -> {"closed"}
      [] pr[t] = "closed" -> {"done"}
      [] pr[t] = "open"   -> UnderReview
      [] OTHER            -> {}
LookGoals(t) ==
    CASE pr[t] = "merged" -> {"done"}
      [] pr[t] = "closed" -> {"closed"}
      [] pr[t] = "open"   -> UnderReview
      [] OTHER            -> {}

Look(r, t) ==
    /\ pc[r] = "look" /\ t \in watched[r]
    /\ watched' = [watched EXCEPT ![r] = @ \ {t}]
    /\ \/ /\ \E g \in LookGoals(t) : settle' = [settle EXCEPT ![r] = @ \cup {<<t, g>>}]
          /\ UNCHANGED faults
       \/ pr[t] \in {"none", "open"} /\ UNCHANGED <<settle, faults>>
       \/ Fail("read") /\ UNCHANGED settle
    /\ UNCHANGED <<board, pc, rung, claims, people, history>>

LooksDone(r) ==
    /\ pc[r] = "look" /\ watched[r] = {}
    /\ Goto(r, "settle")
    /\ UNCHANGED <<board, rung, sweep, claims, people, faults, history>>

(* The ended pull requests first, then the stages.                         *)
SettleNext(r) ==
    /\ pc[r] = "settle"
    /\ \E s \in settle[r] :
         /\ s[2] \in UnderReview => \A o \in settle[r] : o[2] \in UnderReview
         /\ settle' = [settle EXCEPT ![r] = @ \ {s}]
         /\ rung' = [rung EXCEPT ![r] = [NoRung EXCEPT !.at = s[1], !.goal = s[2]]]
         /\ Goto(r, "moveRead")
    /\ UNCHANGED <<board, watched, claims, people, faults, history>>

SettleDone(r) ==
    /\ pc[r] = "settle" /\ settle[r] = {}
    /\ Goto(r, "count")
    /\ UNCHANGED <<board, rung, sweep, claims, people, faults, history>>

---------------------------------------------------------------------------
(* The claim half: runSolveCycle counts, then reads the queue, and plans   *)
(* the oldest-updated tickets it has room for.  A stop plans nothing.      *)
Solving == {t \in Tickets : "solving" \in labels[t]}

CountOneLess(r) ==
    /\ pc[r] = "count"
    /\ slots' = [slots EXCEPT ![r] =
                   IF Cardinality(Solving) + 1 >= MaxConcurrent THEN 0
                   ELSE MaxConcurrent - Cardinality(Solving) - 1]
    /\ Goto(r, "fetch")
    /\ UNCHANGED <<board, rung, sweep, plan, attempts, people, faults, history>>
Count(r) ==
    /\ pc[r] = "count"
    /\ \/ /\ slots' = [slots EXCEPT ![r] =
                         IF Cardinality(Solving) >= MaxConcurrent THEN 0
                         ELSE MaxConcurrent - Cardinality(Solving)]
          /\ Goto(r, "fetch")
          /\ UNCHANGED faults
       \/ Fail("read") /\ Goto(r, "idle") /\ UNCHANGED slots
    /\ UNCHANGED <<board, rung, sweep, plan, attempts, people, history>>

Offered == {t \in Allowed : Eligible(labels[t], Authority)}

Fetch(r) ==
    /\ pc[r] = "fetch"
    /\ \/ /\ plan' = [plan EXCEPT ![r] =
                        IF r \in stopping THEN {}
                        ELSE {t \in Offered : Cardinality(older[t] \cap Offered) < slots[r]}]
          /\ Goto(r, "pick")
          /\ UNCHANGED faults
       \/ Fail("read") /\ Goto(r, "idle") /\ UNCHANGED plan
    /\ slots' = [slots EXCEPT ![r] = 0]
    /\ UNCHANGED <<board, rung, sweep, attempts, people, history>>

Held(r, t) == attempts[r][t] >= MaxAttempts

(* Planned tickets are taken in the order they were read, which is left    *)
(* open here.  The attempt is counted before the claim.                    *)
Pick(r, t) ==
    /\ pc[r] = "pick" /\ t \in plan[r] /\ r \notin stopping
    /\ plan' = [plan EXCEPT ![r] = @ \ {t}]
    /\ IF Held(r, t)
       THEN UNCHANGED <<attempts, rung, pc>>
       ELSE /\ attempts' = [attempts EXCEPT ![r][t] = @ + 1]
            /\ rung' = [rung EXCEPT ![r] = [NoRung EXCEPT !.at = t]]
            /\ Goto(r, "claimRead")
    /\ UNCHANGED <<board, sweep, slots, people, faults, history>>

PickDone(r) ==
    /\ pc[r] = "pick" /\ (plan[r] = {} \/ r \in stopping)
    /\ plan' = [plan EXCEPT ![r] = {}]
    /\ Goto(r, "idle")
    /\ UNCHANGED <<board, rung, sweep, slots, attempts, people, faults, history>>

(* solve:once KEY: no capacity, no ledger.                                 *)
Named(r, t) ==
    /\ pc[r] = "idle" /\ r \in Runners \ Daemons
    /\ rung' = [rung EXCEPT ![r] = [NoRung EXCEPT !.at = t]]
    /\ Goto(r, "claimRead")
    /\ UNCHANGED <<board, sweep, claims, people, faults, history>>
---------------------------------------------------------------------------
(* claimTicket: read, write, read.  Any rejection leaves the claim to      *)
(* whoever reads the log: the next ticket is tried.                        *)
ClaimRead(r) == LET t == rung[r].at IN
    /\ pc[r] = "claimRead"
    /\ \/ /\ Eligible(labels[t], Authority)
          /\ rung' = [rung EXCEPT ![r].before = labels[t]]
          /\ Goto(r, "claimWrite")
          /\ UNCHANGED faults
       \/ ~Eligible(labels[t], Authority) /\ EndRungs(r) /\ UNCHANGED faults
       \/ Fail("read") /\ EndRungs(r)
    /\ UNCHANGED <<board, sweep, claims, people, history>>

ClaimWrite(r) == LET t == rung[r].at
                     e == ClaimEdit(rung[r].before) IN
    /\ pc[r] = "claimWrite"
    /\ \/ WriteAnswered(t, e) /\ Goto(r, "claimVerify") /\ UNCHANGED rung
       \/ WriteErred(t, e) /\ EndRungs(r)
    /\ UNCHANGED <<status, pr, sweep, claims, people, history>>

ClaimVerify(r) == LET t == rung[r].at IN
    /\ pc[r] = "claimVerify"
    /\ \/ /\ Took(ClaimEdit(rung[r].before), labels[t])
          /\ rung' = [rung EXCEPT ![r].after = labels[t]]
          /\ Goto(r, "enter")
          /\ UNCHANGED faults
       \/ ~Took(ClaimEdit(rung[r].before), labels[t]) /\ EndRungs(r) /\ UNCHANGED faults
       \/ Fail("read") /\ EndRungs(r)
    /\ UNCHANGED <<board, sweep, claims, people, history>>

(* enterInProgress: remembers a move only if this call made it.            *)
Enter(r) == LET t == rung[r].at IN
    /\ pc[r] = "enter"
    /\ \/ /\ status[t] # "inProgress"
          /\ status' = [status EXCEPT ![t] = "inProgress"]
          /\ rung' = [rung EXCEPT ![r].moved = TRUE]
          /\ UNCHANGED faults
       \/ status[t] = "inProgress" /\ UNCHANGED <<status, rung, faults>>
       \/ Fail("status") /\ UNCHANGED rung
          /\ status' \in {status, [status EXCEPT ![t] = "inProgress"]}
    /\ Goto(r, "solve")
    /\ UNCHANGED <<labels, pr, older, sweep, claims, people, history>>

(* runSolver: a verified change goes on to publish, a verdict is labelled  *)
(* failed (terminalLabelAfter), and an escape, a request that could not be *)
(* built, a throw or a phase short of --pr releases the claim.             *)
SolveForgetsRelease(r) ==
    /\ pc[r] = "solve"
    /\ \/ Goto(r, "publish") /\ UNCHANGED rung
       \/ Goto(r, "moveRead") /\ rung' = [rung EXCEPT ![r].goal = "failed"]
       \/ EndRungs(r)
    /\ UNCHANGED <<board, sweep, claims, people, faults, history>>
Solve(r) ==
    /\ pc[r] = "solve"
    /\ \/ Goto(r, "publish") /\ UNCHANGED rung
       \/ Goto(r, "moveRead") /\ rung' = [rung EXCEPT ![r].goal = "failed"]
       \/ Goto(r, "relRead") /\ UNCHANGED rung
    /\ UNCHANGED <<board, sweep, claims, people, faults, history>>

Opens(t) ==
    /\ pr[t] # "open"
    /\ pr' = [pr EXCEPT ![t] = "open"]
    /\ opened' = [opened EXCEPT ![t] = @ + 1]

(* A pull request that is known to exist keeps the claim.  createDraftPr   *)
(* can also open one and report a failure: gh timed out, or printed a URL  *)
(* it could not read.                                                      *)
PublishReleases(r) == LET t == rung[r].at IN
    /\ pc[r] = "publish"
    /\ Opens(t) \/ UNCHANGED <<pr, opened>>
    /\ Goto(r, "relRead")
    /\ UNCHANGED <<labels, status, older, rung, sweep, claims, people, faults, grants>>
Publish(r) == LET t == rung[r].at IN
    /\ pc[r] = "publish"
    /\ \/ /\ Opens(t)
          /\ rung' = [rung EXCEPT ![r].keep = TRUE, ![r].goal = "review"]
          /\ Goto(r, "moveRead")
          /\ UNCHANGED faults
       \/ UNCHANGED <<pr, opened, rung, faults>> /\ Goto(r, "relRead")
       \/ Opens(t) /\ Fail("create_lost") /\ UNCHANGED rung /\ Goto(r, "relRead")
    /\ UNCHANGED <<labels, status, older, sweep, claims, people, grants>>

---------------------------------------------------------------------------
(* moveLabels, for every goal.  Only the read and the read-back may throw; *)
(* on the way to "review" or "failed" what follows is the same either way, *)
(* and a sweep is cut short, its tick's claims with it.                    *)
InRungs(r) == rung[r].goal \in {"review", "failed"}

AfterMove(r) ==
    CASE rung[r].goal = "review" -> EndRungs(r)
      [] rung[r].goal = "failed" -> Goto(r, "back") /\ UNCHANGED rung
      [] OTHER -> Goto(r, "settle") /\ rung' = [rung EXCEPT ![r] = NoRung]

MoveThrowsPastFinally(r) ==
    /\ EndRungs(r)
    /\ settle' = [settle EXCEPT ![r] = {}]
MoveThrows(r) ==
    IF InRungs(r) THEN AfterMove(r) /\ UNCHANGED settle
    ELSE /\ Goto(r, "idle")
         /\ rung' = [rung EXCEPT ![r] = NoRung]
         /\ settle' = [settle EXCEPT ![r] = {}]

MoveRead(r) ==
    LET ls == labels[rung[r].at]
        g  == rung[r].goal
        e  == MoveEdit(g, ls)
        moves == ~MoveRefused(g, ls) /\ e # NoEdit IN
    /\ pc[r] = "moveRead"
    /\ \/ moves /\ rung' = [rung EXCEPT ![r].edit = e] /\ Goto(r, "moveWrite")
          /\ UNCHANGED <<settle, faults>>
       \/ ~moves /\ AfterMove(r) /\ UNCHANGED <<settle, faults>>
       \/ Fail("read") /\ MoveThrows(r)
    /\ UNCHANGED <<board, watched, claims, people, history>>

MoveWrite(r) == LET t == rung[r].at IN
    /\ pc[r] = "moveWrite"
    /\ \/ WriteAnswered(t, rung[r].edit) /\ Goto(r, "moveVerify") /\ UNCHANGED rung
       \/ WriteErred(t, rung[r].edit) /\ AfterMove(r)
    /\ UNCHANGED <<status, pr, sweep, claims, people, history>>

(* Only a confirmed move into review-done asks for the code-review status. *)
MoveVerify(r) == LET t == rung[r].at IN
    /\ pc[r] = "moveVerify"
    /\ \/ /\ IF rung[r].goal = "review-done" /\ Took(rung[r].edit, labels[t])
             THEN status' \in {status, [status EXCEPT ![t] = "codeReview"]}
             ELSE UNCHANGED status
          /\ AfterMove(r)
          /\ UNCHANGED <<settle, faults>>
       \/ Fail("read") /\ MoveThrows(r) /\ UNCHANGED status
    /\ UNCHANGED <<labels, pr, older, watched, claims, people, history>>

---------------------------------------------------------------------------
(* releaseClaim: refuses when the claim's own edit is not on the ticket any*)
(* more; its read-back is only reported.                                   *)
RelRead(r) ==
    LET ls == labels[rung[r].at]
        e  == ReleaseEdit(rung[r].before, rung[r].after)
        ours == "solving" \in ls /\ Took(Edit(e.remove, e.add), ls) IN
    /\ pc[r] = "relRead"
    /\ \/ ours /\ Goto(r, "relWrite") /\ UNCHANGED faults
       \/ ~ours /\ Goto(r, "back") /\ UNCHANGED faults
       \/ Fail("read") /\ Goto(r, "back")
    /\ UNCHANGED <<board, rung, sweep, claims, people, history>>

RelWrite(r) == LET t == rung[r].at
                   e == ReleaseEdit(rung[r].before, rung[r].after) IN
    /\ pc[r] = "relWrite"
    /\ WriteAnswered(t, e) \/ WriteErred(t, e)
    /\ Goto(r, "back")
    /\ UNCHANGED <<status, pr, rung, sweep, claims, people, history>>

(* The inner finally: the status goes back however the labels ended, when  *)
(* this run moved it in and nobody has moved it out.                       *)
StatusBack(r) == LET t == rung[r].at IN
    /\ pc[r] = "back"
    /\ \/ /\ rung[r].moved /\ status[t] = "inProgress"
          /\ status' = [status EXCEPT ![t] = "todo"]
          /\ UNCHANGED faults
       \/ ~(rung[r].moved /\ status[t] = "inProgress") /\ UNCHANGED <<status, faults>>
       \/ rung[r].moved /\ Fail("status") /\ UNCHANGED status
    /\ EndRungs(r)
    /\ UNCHANGED <<labels, pr, older, sweep, claims, people, history>>

(* kill -9, an OOM, a restart: nothing is persisted but the board.         *)
Crash(r) ==
    /\ Fail("crash")
    /\ pc[r] # "idle"
    /\ Goto(r, "idle")
    /\ rung' = [rung EXCEPT ![r] = NoRung]
    /\ watched' = [watched EXCEPT ![r] = {}]
    /\ settle' = [settle EXCEPT ![r] = {}]
    /\ slots' = [slots EXCEPT ![r] = 0]
    /\ plan' = [plan EXCEPT ![r] = {}]
    /\ attempts' = [attempts EXCEPT ![r] = [t \in Tickets |-> 0]]
    /\ UNCHANGED <<board, people, history>>

---------------------------------------------------------------------------
(* People, and the Slack listener acting for them.                         *)
Edits(p) == p \in Powers /\ edits < MaxEdits /\ edits' = edits + 1

Grant(t) == grants' = [grants EXCEPT ![t] = IF "start" \in labels[t] THEN @ ELSE @ + 1]

(* `@Bencebot start` and `@Bencebot clear`: a read and a decision, ...     *)
MentionRead(t, verb) ==
    /\ Edits("mention") /\ mention[t] = "none"
    /\ IF verb = "start"
       THEN Eligible(labels[t] \cup {"start"}, "manual") /\ "start" \notin labels[t]
       ELSE "failed" \in labels[t]
    /\ mention' = [mention EXCEPT ![t] = verb]
    /\ UNCHANGED <<board, pc, rung, sweep, claims, stopping, faults, history>>

(* ... then the write, on whatever the ticket has become.                  *)
MentionWrite(t) ==
    /\ mention[t] # "none"
    /\ \/ mention[t] = "start" /\ Write(t, Edit({"start"}, {})) /\ Grant(t) /\ UNCHANGED faults
       \/ mention[t] = "clear" /\ Write(t, Edit({}, {"failed"})) /\ UNCHANGED <<grants, faults>>
       \/ Fail("write_lost") /\ UNCHANGED <<labels, older, grants>>
    /\ mention' = [mention EXCEPT ![t] = "none"]
    /\ UNCHANGED <<status, pr, pc, rung, sweep, claims, stopping, edits, opened>>

(* The same labels set in Jira by hand, at any time.                       *)
PersonStarts(t) ==
    /\ Edits("hand") /\ "start" \notin labels[t]
    /\ Write(t, Edit({"start"}, {})) /\ Grant(t)
    /\ UNCHANGED <<status, pr, pc, rung, sweep, claims, stopping, mention, faults, opened>>

PersonClears(t) ==
    /\ Edits("hand")
    /\ \E l \in labels[t] \cap Terminal : Write(t, Edit({}, {l}))
    /\ UNCHANGED <<status, pr, pc, rung, sweep, claims, stopping, mention, faults, history>>

PersonToggles(t, l) ==
    /\ Edits(l)
    /\ Write(t, IF l \in labels[t] THEN Edit({}, {l}) ELSE Edit({l}, {}))
    /\ UNCHANGED <<status, pr, pc, rung, sweep, claims, stopping, mention, faults, history>>

PersonEndsPr(t, s) ==
    /\ Edits("pr") /\ pr[t] = "open"
    /\ pr' = [pr EXCEPT ![t] = s]
    /\ UNCHANGED <<labels, status, older, pc, rung, sweep, claims, stopping, mention, faults, history>>

(* SIGTERM: the signal is looked at between tickets, never inside one.     *)
PersonStops(r) ==
    /\ Edits("stop") /\ r \in Daemons \ stopping
    /\ stopping' = stopping \cup {r}
    /\ UNCHANGED <<board, pc, rung, sweep, claims, mention, faults, history>>

People ==
    \/ \E t \in Tickets :
         \/ \E verb \in {"start", "clear"} : MentionRead(t, verb)
         \/ PersonStarts(t)
         \/ PersonClears(t)
         \/ \E l \in Bystander : PersonToggles(t, l)
         \/ \E s \in {"merged", "closed"} : PersonEndsPr(t, s)
    \/ \E r \in Daemons : PersonStops(r)

---------------------------------------------------------------------------
Tick(r) ==
    \/ SweepFetch(r)
    \/ \E t \in Tickets : Look(r, t)
    \/ LooksDone(r) \/ SettleNext(r) \/ SettleDone(r)
    \/ Count(r) \/ Fetch(r)
    \/ \E t \in Tickets : Pick(r, t)
    \/ PickDone(r)

Rungs(r) ==
    \/ ClaimRead(r) \/ ClaimWrite(r) \/ ClaimVerify(r)
    \/ Enter(r) \/ Solve(r) \/ Publish(r)
    \/ MoveRead(r) \/ MoveWrite(r) \/ MoveVerify(r)
    \/ RelRead(r) \/ RelWrite(r) \/ StatusBack(r)

Next ==
    \/ \E r \in Runners :
         Tick(r) \/ Rungs(r) \/ Crash(r) \/ \E t \in Tickets : Named(r, t)
    \/ \E t \in Tickets : MentionWrite(t)
    \/ People

Spec == Init /\ [][Next]_vars

(* A process keeps running what it has started: runLoop schedules every    *)
(* tick, and each await settles, by a timeout if need be.  Nothing obliges *)
(* a person, a fault, or an operator's next solve:once.                    *)
Fairness ==
    /\ \A r \in Runners : WF_vars(Tick(r) \/ Rungs(r))
    /\ \A t \in Tickets : WF_vars(MentionWrite(t))

FairSpec == Spec /\ Fairness

---------------------------------------------------------------------------
(* A ticket with an open pull request is out of the queue, whatever went   *)
(* wrong with the label moves: nothing may claim it and solve it twice.    *)
OpenPrExcluded ==
    \A t \in Tickets : pr[t] = "open" => labels[t] \cap QueueExcluded # {}

(* In manual mode a person's start buys one pull request: the claim        *)
(* consumes it, and a release that puts it back is a run that opened none. *)
OneGoAheadOnePr ==
    Authority = "manual" => \A t \in Tickets : opened[t] <= grants[t]

(* In manual mode a claim comes off for a pull request's stage or a verdict*)
(* or with the start it consumed put back: never neither claimed nor       *)
(* approved, whichever runner wrote last and whatever was lost.            *)
GoAheadKept ==
    [][Authority = "manual" => \A t \in Tickets :
         "solving" \in labels[t] /\ "solving" \notin labels'[t] =>
             labels'[t] \cap (QueueExcluded \cup {"start"}) # {}]_vars

(* A ticket in progress has a pull request or a run that put it there and  *)
(* will take it back: the two nested finally blocks of runWriteRungs,      *)
(* against label calls that throw.                                         *)
NoOrphanInProgress ==
    \A t \in Tickets : status[t] = "inProgress" =>
        pr[t] # "none" \/ \E r \in Runners : rung[r].at = t /\ rung[r].moved

(* Every claim ends: handed to its pull request, released, or labelled.    *)
ClaimsEnd == \A t \in Tickets : "solving" \in labels[t] ~> "solving" \notin labels[t]

(* A ticket the queue offers is tried, unless it stops being offered or    *)
(* has used up its attempts.                                               *)
OfferedIsTried ==
    \A t \in Allowed : Eligible(labels[t], Authority) ~>
        \/ ~Eligible(labels[t], Authority)
        \/ \E r \in Runners : rung[r].at = t \/ Held(r, t)

(* The labels read as a stage of the ticket's life.                        *)
StageOf(ls) ==
    CASE "failed"  \in ls -> "failed"
      [] "done"    \in ls -> "merged"
      [] "closed"  \in ls -> "closed"
      [] ls \cap UnderReview # {} -> "review"
      [] "solving" \in ls -> "claimed"
      [] OTHER -> "open"

Lifecycle == INSTANCE TicketLifecycle
    WITH stage <- [t \in Tickets |-> StageOf(labels[t])], MaxClaimed <- MaxConcurrent

(* One daemon implements the lifecycle, whatever reads and writes fail.    *)
LifecycleImplemented == Lifecycle!LifecycleSpec

=============================================================================
