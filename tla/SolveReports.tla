---------------------------- MODULE SolveReports ----------------------------
(***************************************************************************)
(* What a solve's passes answer, and what is said of it                    *)
(* (src/src/solve/runner.ts, orchestrator.ts, feedback.ts,                 *)
(* repair-ledger.ts, widening.ts, escape.ts): a pass's answer is read, or  *)
(* refused when it contradicts itself; the run ends in one outcome; the    *)
(* outcome becomes a row of the calibration page, a row of the repair page *)
(* and a comment on the ticket.  The diff between is SolveGates'.          *)
(***************************************************************************)
EXTENDS SolveGates

VARIABLES
    stage,      \* where the run is
    attempt,    \* 2 in the retry of a solve
    outcome,    \* what the run came to
    report      \* what was written of it

reports == <<stage, attempt, outcome, report>>
all == <<vars, reports>>

(* Answers, by what their rules tell apart: which fields hold something.   *)
Cause == {"none", "judgement", "environment"}
ReconAnswer == [proceed : BOOLEAN, files : BOOLEAN, reason : BOOLEAN,
                blockers : BOOLEAN, remedy : BOOLEAN, placeholder : BOOLEAN]
FixAnswer == [changed : BOOLEAN, files : BOOLEAN, test : BOOLEAN, omitted : BOOLEAN,
              subject : {"fits", "long", "bad"}, abandoned : BOOLEAN, cause : Cause]
SimplifyAnswer == [changed : BOOLEAN, declined : BOOLEAN, files : {"none", "fix", "beyond"},
                   changes : BOOLEAN]
Basis == {"changed-code", "checked", "judgement"}
ReviewAnswer == [changed : BOOLEAN, files : BOOLEAN, responses : BOOLEAN,
                 threads : SUBSET Basis, resolved : SUBSET Basis,
                 silent : {"none", "silenceable", "owed"}, abandoned : BOOLEAN,
                 widened : {"none", "touched", "untouched"}, subject : {"fits", "long", "bad"}]

(* parseRecon.                                                             *)
ReadsRecon(a) ==
    /\ ~a.placeholder
    /\ a.reason = ~a.proceed /\ a.blockers = ~a.proceed /\ a.remedy = ~a.proceed
    /\ a.proceed => a.files

ReconRead ==
    {[proceed |-> a.proceed, detail |-> {f \in {"blockers", "remedy"} : a[f]}] : a \in {x \in ReconAnswer : ReadsRecon(x)}}

(* parseFix: a subject that is only too long is cut.                       *)
ReadsFixUncaused(a) ==
    a.abandoned \/ (a.changed /\ a.files /\ a.test = ~a.omitted /\ a.subject # "bad" /\ a.cause = "none")
ReadsFix(a) ==
    /\ a.abandoned = (a.cause # "none")
    /\ a.abandoned \/ (a.changed /\ a.files /\ a.test = ~a.omitted /\ a.subject # "bad")

FixRead ==
    {[abandoned |-> a.abandoned, cause |-> a.cause] : a \in {x \in FixAnswer : ReadsFix(x)}}

(* normaliseSimplifyReport, then parseSimplify.                            *)
Reconciled(a) ==
    LET content == a.files # "none" \/ a.changes
    IN IF a.changed # a.declined THEN a ELSE [a EXCEPT !.changed = content, !.declined = ~content]
ReadsSimplify(a) == Reconciled(a).changed => a.files = "fix" /\ a.changes

SimplifyRead == \E a \in SimplifyAnswer : ReadsSimplify(a)

(* parseReview: no thread is resolved on judgement alone, and no comment   *)
(* that is owed an answer is left without one.                             *)
threadAnswers(a) == a.resolved \subseteq a.threads \ {"judgement"}
silentComments(a) == a.silent # "owed"
ReadsReview(a) ==
    /\ threadAnswers(a) /\ silentComments(a)
    /\ a.responses \/ a.threads # {} \/ a.silent = "silenceable"
    /\ IF a.changed THEN a.files /\ a.widened # "untouched" /\ a.subject # "bad"
       ELSE a.widened = "none"

ReviewRead ==
    {IF a.abandoned \/ ~a.changed THEN "nothing" ELSE IF a.widened = "touched" THEN "widened" ELSE "change" :
        a \in {x \in ReviewAnswer : ReadsReview(x)}}

(* checkWidening: a member asked, and the pull request already changed it. *)
Granted(path, byMember) == byMember /\ path \in ChangedPaths(base.tree, head)

---------------------------------------------------------------------------
Kind == {"none", "no-worktree", "unusable-base", "crashed", "bailed", "abandoned", "refused",
         "failed", "verified", "escaped"}
Mend == {"none", "crashed", "abandoned", "refused", "failed", "verified"}
Open == [kind |-> "none", read |-> FALSE, cause |-> "none", mend |-> "none", detail |-> {}, left |-> FALSE]
Unsaid == [scored |-> FALSE, repair |-> "none", said |-> "none", detail |-> {}]

Stages == {"start", "recon", "fix", "simplify", "judge", "repair", "review", "over", "told"}
ReportsOK ==
    /\ stage \in Stages /\ attempt \in {1, 2}
    /\ outcome \in [kind : Kind, read : BOOLEAN, cause : Cause, mend : Mend,
                    detail : SUBSET {"plan", "blockers", "remedy"}, left : BOOLEAN]
    /\ report \in [scored : BOOLEAN, repair : {"none", "unread", "dash"},
                   said : Kind \cup {"judgement", "environment"},
                   detail : SUBSET {"plan", "blockers", "remedy"}]

RunInit ==
    /\ Init /\ stage = "start" /\ attempt = 1 /\ outcome = Open /\ report = Unsaid

Came(kind) == stage' = "over" /\ outcome' = [outcome EXCEPT !.kind = kind]
Solving == count.rounds = 0
Gone(k) == Came(k) /\ GiveUp /\ UNCHANGED <<attempt, report>>

(* No checkout, or one that does not build before anything is changed.     *)
Begin ==
    /\ stage = "start"
    /\ \/ stage' = "recon" /\ UNCHANGED <<vars, attempt, outcome, report>>
       \/ Gone("no-worktree") \/ Gone("unusable-base")

Recon ==
    /\ stage = "recon" /\ UNCHANGED <<attempt, report>>
    /\ \/ Came("crashed") /\ GiveUp
       \/ \E a \in ReconRead :
            \/ /\ a.proceed /\ stage' = "fix" /\ outcome' = [outcome EXCEPT !.read = TRUE]
               /\ UNCHANGED vars
            \/ /\ a.proceed /\ RefusePlan /\ stage' = "over"
               /\ outcome' = [outcome EXCEPT !.kind = "bailed", !.read = TRUE, !.detail = {"plan"}]
            \/ /\ ~a.proceed /\ GiveUp /\ stage' = "over"
               /\ outcome' = [outcome EXCEPT !.kind = "bailed", !.read = TRUE, !.detail = a.detail]

Write == stage \in {"fix", "simplify", "repair", "review"} /\ Edit /\ UNCHANGED reports

Fix ==
    /\ stage = "fix" /\ UNCHANGED <<attempt, report>>
    /\ \/ Came("crashed") /\ GiveUp
       \/ \E a \in FixRead :
            \/ /\ a.abandoned /\ GiveUp /\ stage' = "over"
               /\ outcome' = [outcome EXCEPT !.kind = "abandoned", !.cause = a.cause, !.left = tree # head]
            \/ ~a.abandoned /\ stage' = "simplify" /\ UNCHANGED <<vars, outcome>>

Simplify ==
    /\ stage = "simplify" /\ UNCHANGED <<attempt, report>>
    /\ \/ Came("crashed") /\ GiveUp
       \/ SimplifyRead /\ stage' = "judge" /\ UNCHANGED <<vars, outcome>>

(* A round with nothing to commit ends, as does one that widened what no   *)
(* member asked for or the pull request had not changed.                   *)
Review ==
    /\ stage = "review" /\ UNCHANGED <<attempt, report>>
    /\ \/ Came("abandoned") /\ GiveUp
       \/ \E a \in ReviewRead :
            \/ a = "nothing" /\ Came("abandoned") /\ GiveUp
            \/ /\ a = "widened"
               /\ \E path \in Paths \cup {"pom"}, byMember \in BOOLEAN :
                    ~Granted(path, byMember) /\ Came("refused") /\ GiveUp
            \/ /\ a = "change" \/ \E path \in Paths \cup {"pom"} : Granted(path, TRUE)
               /\ a # "nothing" /\ stage' = "judge" /\ UNCHANGED <<vars, outcome>>

Judging == stage = "judge" /\ (Gate \/ Drop \/ Verify \/ Probe) /\ UNCHANGED reports

(* attemptRepair.                                                          *)
Mended == stage = "judge" /\ Repair /\ stage' = "repair" /\ UNCHANGED <<attempt, outcome, report>>
RepairPass ==
    /\ stage = "repair" /\ UNCHANGED <<attempt, report>>
    /\ \/ /\ GiveUp /\ stage' = "over"
          /\ \E m \in {"crashed", "abandoned"} :
               outcome' = [outcome EXCEPT !.kind = "failed", !.mend = m]
       \/ (\E a \in FixRead : ~a.abandoned) /\ stage' = "judge" /\ UNCHANGED <<vars, outcome>>

(* The outcome: a green repair is one of its own only if it was armed.     *)
Left == tree' = head /\ dropped' = [paths |-> {}, before |-> head]
        /\ UNCHANGED <<base, head, pc, verdict, count>>
Conclude ==
    /\ stage = "judge" /\ pc = "done" /\ stage' = "over"
    /\ \/ /\ count.repairs = 0 /\ Passed /\ UNCHANGED vars
          /\ outcome' = [outcome EXCEPT !.kind = "verified"]
       \/ /\ count.repairs = 0 /\ ~Passed /\ Left
          /\ outcome' = [outcome EXCEPT !.kind = verdict]
       \/ /\ count.repairs = 1 /\ Passed /\ UNCHANGED vars
          /\ outcome' = [outcome EXCEPT !.kind = "verified", !.mend = "verified"]
       \/ /\ count.repairs = 1 /\ Passed /\ Withhold
          /\ outcome' = [outcome EXCEPT !.kind = "failed", !.mend = "verified"]
       \/ /\ count.repairs = 1 /\ ~Passed /\ Left
          /\ outcome' = [outcome EXCEPT !.kind = "failed", !.mend = verdict]
    /\ UNCHANGED <<attempt, report>>

(* escapedRepos: another checkout changed while the run was in flight.     *)
Escape ==
    /\ stage = "over" /\ outcome.kind \notin {"no-worktree", "escaped"} /\ Came("escaped")
    /\ IF Passed THEN Withhold ELSE UNCHANGED vars
    /\ UNCHANGED <<attempt, report>>

(* solveWithRetry, when the first attempt left nothing behind.             *)
SolveAgain ==
    /\ stage = "over" /\ Solving /\ attempt = 1
    /\ outcome.kind = "abandoned" /\ outcome.cause = "environment" /\ ~outcome.left
    /\ Retry /\ stage' = "start" /\ attempt' = 2 /\ outcome' = Open /\ UNCHANGED report

---------------------------------------------------------------------------
(* feedback.ts: the row of the calibration page scores triage's call,      *)
ScoredWhenRead(o) == o.read
Scored(o) == o.read /\ o.kind \notin {"no-worktree", "crashed", "unusable-base", "escaped"}

(* and a row of the repair page says whether a reading is still owed.      *)
RepairRow(o) ==
    IF o.kind \notin {"failed", "verified"} \/ o.mend = "none" THEN "none"
    ELSE IF o.mend = "verified" THEN "unread" ELSE "dash"

(* The comment's first line, and its sections.                             *)
Headline(o) ==
    CASE o.kind = "verified" -> "none"
      [] o.kind = "abandoned" -> IF o.cause = "environment" THEN "environment" ELSE "judgement"
      [] OTHER -> o.kind
BailDetail(o) == IF o.kind = "bailed" THEN o.detail ELSE {}

(* reportOutcome; a comment that does not post fails nothing.  A round's   *)
(* repair has its row, unless it cannot be written.                        *)
Tell ==
    /\ stage = "over" /\ stage' = "told"
    /\ \/ /\ Solving
          /\ \E said \in {Headline(outcome), "none"} :
               report' = [scored |-> Scored(outcome), repair |-> RepairRow(outcome), said |-> said,
                          detail |-> IF said = "none" THEN {} ELSE BailDetail(outcome)]
       \/ ~Solving /\ \E row \in {RepairRow(outcome), "none"} : report' = [Unsaid EXCEPT !.repair = row]
    /\ UNCHANGED <<vars, attempt, outcome>>

NextRound ==
    /\ stage = "told" /\ Settle
    /\ stage' = "review" /\ attempt' = 1 /\ outcome' = Open /\ report' = Unsaid

RunNext ==
    \/ Begin \/ Recon \/ Write \/ Fix \/ Simplify \/ Review \/ Judging \/ Mended \/ RepairPass
    \/ Conclude \/ Escape \/ SolveAgain \/ Tell \/ NextRound

RunSpec == RunInit /\ [][RunNext]_all
---------------------------------------------------------------------------
(* A comment on the ticket says what happened: none speaks of a run whose  *)
(* change is used, only a change that was judged is called rejected, a     *)
(* pass that gave up is quoted with the cause it gave, and a ticket that   *)
(* was sent back says what is in the way and what would help.              *)
CommentIsTrue ==
    stage = "told" /\ report.said # "none" =>
        /\ ~Passed
        /\ report.said = "refused" => verdict = "refused" /\ count.repairs = 0
        /\ report.said = "failed" => verdict = "failed" \/ count.repairs = 1
        /\ report.said \in {"judgement", "environment"} => report.said = outcome.cause
        /\ report.said = "bailed" => report.detail = {"plan"} \/ report.detail = {"blockers", "remedy"}

(* The two pages score what happened: triage's call only by a recon that   *)
(* was read, of a run that ended in its own checkout; and every repair of  *)
(* such a solve has its row, where a green one is unread whether or not    *)
(* it was used.                                                            *)
PagesAreFair ==
    stage = "told" =>
        /\ report.scored => outcome.read /\ outcome.kind \notin {"crashed", "escaped"}
        /\ Solving /\ outcome.kind # "escaped" => (report.repair # "none") = (count.repairs = 1)
        /\ report.repair # "none" => (report.repair = "unread") = (outcome.mend = "verified")
        /\ count.repairs = 1 /\ Passed => outcome.mend = "verified"
=============================================================================
