# A verification project for the-jira-police

This directory models the Jira bot in `src/` in TLA+, checks the models with TLC and proves the
theorems that matter most about them with TLAPS. Paths below are relative to the repository.

## The system

One Node process (`src/index.ts`) runs three loops and a Slack listener in one `Promise.all`;
command-line entries (`src/cli/`) run single cycles of the same code against the same Jira board,
the same state files and the same GitHub repositories. Jira's labels, the pull requests and a few
files are all the state that outlives a process. There is no database, no lock and no
compare-and-swap anywhere, so what could go wrong is always of one shape: something is read, time
passes, and something is written.

| Component | State it keeps | Operations | What makes it correct |
| --- | --- | --- | --- |
| Discovery (`poller.ts`, `state/store.ts`, `triage/order.ts`, `jira/jql.ts`) | a cursor and the keys seen, one JSON file | load, search, triage, save per ticket | no ticket is skipped; none is paid for twice |
| Label state machine (`solve/labels.ts`) | a ticket's `agent:` labels | eligibility and transitions | what excludes a ticket from the queue |
| Claim (`solve/claim.ts`) | `agent:solving` on the board | claim, release | a claim ends, and takes nobody's label with it |
| Solve queue (`solve/poller.ts`, `solve/attempts.ts`) | an attempt ledger in memory | count, fetch, plan | concurrency limit; every ticket gets its turn |
| Write rungs (`cli/solve-run.ts`, `cli/solve-outcome.ts`) | none | claim, status, solve, publish, move labels, give back | nothing is left half done |
| Solve pipeline (`solve/orchestrator.ts`, `runner.ts`, `passes.ts`, worktree) | a git worktree | plan, implement, verify, repair | only verified work is published; budgets hold |
| Solve gates (`solve/diff-gate.ts`, `dependency-bump.ts`, `verify.ts`, `dropRefusedEdits` of `orchestrator.ts`) | none | judge paths and a pom.xml, put refused edits back, run the base's commands | nothing reaches a pull request that changes how it is built |
| Outcomes and pages (`solve/feedback.ts`, `ledger.ts`, `repair-ledger.ts`) | local pages, a comment on the ticket | score, list, tell | what is said of a run is what happened |
| Child processes (`triage/session.ts`, `solve/exec.ts`) | none | start, watch, cut off, read | a caller is told what the child did, and always told |
| Delivery and review rounds (`solve/delivery.ts`, `pr.ts`, `marker.ts`, `feedback.ts`, ledgers) | a marker, one comment on the pull request | publish, look, round, answer | rounds are bounded and counted once; a comment is given to one round |
| Review tick (`review-loop.ts`, `solve/review-cycle.ts`) | none | sweep, then claims | ended pull requests are recorded |
| Watch (`watch-loop.ts`, `watch/`) | labels, issue properties, a memo in memory | decide, re-triage, end | answers once per change; ends when told |
| Slack listener (`slack/socket.ts`, `slack-loop.ts`) | a promise chain | hear commands, mentions, presses | one at a time, drained at a stop |
| Start and clear (`slack/start.ts`) | none | read the labels, write a start or clear | only what the board allows |
| Draft filing (`slack/draft.ts`, `slack/post.ts`, `draft/`) | one JSON file per draft | draft, offer, press, file | an issue is made once |
| Audit and roster (`slack/audit.ts`, `store.ts`, `notifier.ts`, `roster.ts`) | Jira issue and project properties | append, announce, join, leave | one thread per ticket; no lost member |
| Triage (`triage/`) | labels, one comment | session, note, gate, post | only an answer that agrees with itself reaches the ticket |

How they interact: discovery's triage puts `agent:solvable` on a ticket; a person, by hand or
through Slack, adds `agent:start`; the review tick claims it (`solving`), solves it, opens a pull
request (`reviewing`, `review-done`) and, after a person merges or closes it, records `done` or
`closed`. The drafting side is separate: a Slack thread becomes a draft, a record, a button and at
last a Jira issue, which discovery then finds like any other.

What is hard here: label reads and writes separated by other actors' writes; writes whose answer is
lost; two processes on one board or one file; a crash between two writes; ordering by two different
keys at once (triage order against the cursor); slots held by tickets that cannot use them; and
messages redelivered, or accepted with the answer lost. `PROJECT.json` lists each at its line.

## Modules

- `AgentLabels`: the label state machine as operators over a set of labels. A label is the part
  after `agent:`; `"next"` stands for any label outside that namespace.
- `SolveQueue`: the board and everyone who writes to it: daemons (which tick), `solve:once` (which
  claims by name), people, and the Slack listener's start and clear. One action per await: `ClaimRead`,
  `ClaimWrite` and `ClaimVerify` are three calls of `claimTicket`, and anyone may act between them.
  `rung[r]` holds a runner's locals. A write can be answered, lost, or applied with its answer lost.
  `Solve` is the whole pipeline as one step with its outcomes; a review round is one step too.
- `TicketLifecycle`: what the solve side promises a reader of the board, ticket by ticket, without
  runners or calls. `SolveQueue` implements it under the mapping `StageOf`.
- `SolveQueueProofs`: theorems about `SolveQueue`, and that it implements `TicketLifecycle`.
- `GroomPoll`: the discovery cycle over the state file, with Jira's index lag and the clock. A time
  is a number of minutes; a ticket is its issue number. `mem[p]` is a poller's copy of the file, which
  it saves whole; `kept` is a history: the tickets whose key has been in the file. Its names carry
  `Poll` where a proof module takes it beside another module, as `AuditThread`'s carry `Audit`.
- `DraftFiling`: the Slack listener's promise chain, the draft running beside it, the record of each
  draft, the writer's session and what Jira ends up with.
- `ReviewRounds`: the review of one open pull request. Everything the loop remembers of it is in
  the marker comment (`marker`, `posted`); `snap` is the `PendingRound` the survey hands to the
  round; people and the reviewer comment, remark in threads, approve, mark ready and edit the marker
  between any two calls. A merge round and a review round share the reservation (`Reserve`). The
  pass itself (`Pass`) is one step with its outcomes. A time is the rank of a comment's second.
- `ReviewRoundsProofs`: theorems about `ReviewRounds`.
- `SolvePipeline`: the git side of one ticket, one action per git command or pass. `base` and `remote`
  are origin's branches, `seenBase` and `seen` the remote-tracking refs, `branch` the local branch,
  `tree` the checkout at the ticket's path (attached or detached, its edits, a merge in progress),
  `aside` what the checkouts moved out of the way hold. A history is the set of changes and merges it
  contains, so "is an ancestor" is inclusion. A solve cuts from the base (`createWorktree`), a round
  attaches to the pull request's branch (`attachWorktree`): it reuses a checkout that is clean and not
  ahead, and salvages any other (`Detach`, `Move`, `DropBranch`, `Add`). Then come the passes, the gate
  and verify, the repair round, and the commit and push; a round merges its base first (`Sync`), and
  runs a merge round when that conflicts. `gated` is what the diff gate last let through and `checked`
  what verify last passed of it; `works` are the changes of passes that no step has given up on
  purpose. `SolveQueue` and `ReviewRounds` take all of this as one step with its outcomes.
- `PullRequest`: what the git side promises those who read a pull request, without runs, checkouts or
  failures: how its branch may grow and when it may open. `SolvePipeline` implements it, with origin's
  two branches, `works` as what stands and `checked` as what was judged.
- `SolvePipelineProofs`: theorems about `SolvePipeline`, and that it implements `PullRequest`.
- `WatchSweep`: the sweep over watched tickets, with its memo of declined activity (which a restart
  loses) and the counter label written before the money it counts. A look is three actions, the three
  awaited reads of `fetchActivity`: the fields' text and the labels (`FetchIssue`), the comments
  (`FetchComments`), the dates of the edits (`FetchChanges`). So `look.acts`, what it has the date of, and
  `look.words`, what it has the text of, can differ. `read`, `judged` and `late` tell what a person said
  from what a session had in front of it and from what is hidden by what it says. `watch:once` is a
  sweep followed by a crash.
- `WatchSweepProofs`: theorems about `WatchSweep`.
- `ChildRuns`: one model session or one command from start to answer, against a child that may ignore
  SIGTERM, fork, talk for ever or never, on a machine that sleeps. `watch` is the watchdog's own account
  of time, `awake` the true one, kept only by the model.
- `ChildRunsProofs`: theorems about `ChildRuns`.
- `AuditThread`: one ticket's record, the messages and replies in the channel, and the notifier's queue
  that the process's loops share. `Report` is a call of the notifier; the rest is the update it queues,
  a call to Jira or Slack at a time.
- `SlackProofs`: theorems about `DraftFiling` and `AuditThread`.
- `TriageGate`: a session's answer (`Payload`), the fitness note code writes into its comment
  (`WithNote`), the gate's refusals, and the poster's calls, between which a person may move a
  label. A comment is a sequence of lines told apart as far as the code tells them apart.
- `GroomingProofs`: theorems about `GroomPoll` and `TriageGate`, the two halves of grooming a ticket.
- `SolveGates`: the checkout of one run as the gates see it: four files by the kind of their path, and
  one pom.xml that is both the text the code scans and the build Maven makes of it (`SameBuild`), so a
  property's use spelled through a comment, a character reference or CDATA is the same to Maven and not
  to the scan.
- `SolveReports` extends `SolveGates` with the passes around it: what each pass may answer, which
  answers are refused as contradicting themselves (`ReadsRecon`, `ReadsFix`, `ReadsReview`), the run's
  outcome, and what is written of it on the ticket and on the two local pages. `SolvePipeline` takes
  the gates' verdict as a choice; here the verdict is computed and git is left out.
- `SolveGatesProofs`: theorems about `SolveGates` and `SolveReports`.
- `MCSolveQueue`, `MCGroomPoll`, `MCDraftFiling`, `MCReviewRounds`, `MCSolvePipeline`, `MCWatchSweep`,
  `MCChildRuns`, `MCAuditThread`, `MCTriageGate`, `MCSolveGates`: small instances for TLC.

A name in a module is the name in the code where there is one (`Settled` is `settledCursor`,
`Record` in `GroomPoll` is `recordSeen`, `MoveRead` is the first half of `moveLabels`). Definitions whose
names extend another's (`StrayRawOnly` beside `Stray`) are variants a plausible bug would produce;
they are never used by a specification, and each shows that a property can fail.

## Runs

| Run | Shows |
| --- | --- |
| `queue_daemon` | One daemon and two tickets, concurrency 1, with one failing read or half-failed write and two acts of people: open pull requests stay out of the queue, a go-ahead opens one pull request, no ticket is left in progress with nobody on it, and the lifecycle is implemented. |
| `queue_two_runners` | A daemon and a `solve:once` on one ticket, with a crash or a half-failed write: a claim never comes off leaving the ticket neither approved nor decided. |
| `queue_liveness` | With nothing failing: each claim ends, each offered ticket is tried. |
| `groom_poll` | One daemon, three tickets created at any minute, indexed up to a minute late, one fault of any kind: none slips out of the window unhandled, none recorded is paid for again, all are triaged. |
| `draft_filing` | One listener, two drafts, three presses by two people, two faults of any kind: a draft whose button can be pressed is unfiled, issues of a draft come from one writer's session at most, and the chain drains. |
| `review_rounds` | One pull request with a person's comment, one of the reviewer's and a thread, and any two faults (of nine kinds, crashes and lost or half-applied writes among them): both brakes hold, no comment is given to two rounds, there is one marker, nothing unlanded is handed over as ready, and the inbox empties but for what a brake keeps. |
| `solve_pipeline` | One ticket through solves, a retry, repairs, review rounds and merges of its base, with four edits (by passes, by people pushing to the pull request, by the base moving) and two faults (a git command that fails or is stopped halfway, a GitHub call, the death of the process between any two commands): a pass starts from origin's branch and nothing else, nothing a pass wrote is lost, and `PullRequest` is implemented: origin's branch only grows, a pass's change is on it only by a push of what the gate let through and verify passed, and the pull request opens on that. |
| `watch_sweep` | One watched ticket, three acts of people over three instants, two faults of any of nine kinds: the counter bounds what is paid, a paid no is not bought again by the same process, what is said is read or the watch ends (but for what an answer already hides), a closed ticket comes off the watch. |
| `child_runs` | One session or command, two sleeps of the machine, long or too short to notice: what the caller is told is true of the child, sleep is charged to no budget, every child is cut off in time, every caller gets an answer. |
| `audit_thread` | Two loops, four events about one ticket, one failing or unanswered call and one message deleted by a person: no entry told as recorded is lost uncounted, the channel shows what the record says, one thread and one broadcast per ticket. That every report is answered is the absence of deadlock. |
| `triage_gate` | Two triages of one ticket over several hundred answers, coherent or not, one label moved by a person and one failing call: the comment's note is the one the fitness calls for, `agent:solvable` is earned, what people and the solver put on the ticket stays, a first triage's call reaches the board. |
| `solve_gates` | Solves and a review round after them, pass by pass, from seven bases with any three edits, a repair, a retry and a fault: what is committed Maven reads as the base with other released dependency versions, putting refused edits back is exact, the ticket's comment and the two pages say what happened. |

### Bounds

Two tickets are enough for the queue's order, for a slot taken by the other ticket, and for the
sweep to have more than one move to make; the code never relates three tickets. A second runner is
needed for races over one ticket, where one ticket suffices. `MaxEdits` lets people act twice, so
that an edit and its reversal both fit in one claim. Three tickets in `groom_poll` are what an
unbroken run, a gap in it and a success past the gap need; four minutes are the overlap, the lag
and one cycle beyond. Two faults in `draft_filing` allow a lost send and then a failed write.
`MaxPresses` counts redeliveries. Symmetry is not used: the runs with several interchangeable values
check liveness or an order on the tickets. `CHECK_DEADLOCK FALSE` stands in the solve queue's runs because that
system may stop: people's acts are bounded and a stopped daemon does nothing more.

`review_rounds` allows two rounds, one of them the reviewer's: the two brakes then differ, and each is
reached. Two faults fit a lost reservation and a crash after the next one. Two comments and a
thread make a mixed batch, a batch of each party and one with nothing but threads.
`CHECK_DEADLOCK FALSE` is there because a capped review with nobody left to speak does nothing more.

`solve_pipeline` has four edits: enough for a solve's edit, a person's push, the base moving and a
round's edit on top of them. Two faults fit a command that leaves something
behind and a failure while it is being cleared away. Twelve names are never exhausted within these
bounds. `REPAIR_ROUND` and `promoteRepair` are open choices. The process has one run at a time: the
review tick runs a ticket's solve and its rounds in one loop, and a second process started by hand on the
same ticket is not modelled.

`watch_sweep` has three instants: one before our comment's new date, that date and one after. Three acts
and two re-triages are an answer, another that a session misses or a look tears, and the one that meets
the limit. The acts stay below `MAX_CONTEXT_COMMENTS` (10), the comments a fetch holds, so none falls out
of what a look reads. The counter's labels go one past the limit. One ticket is enough except for the
sweep's order, which nothing but a divergence below depends on; `SpendIsBounded` is proved for any number.

`child_runs` uses a silence limit of 7 and a ceiling of 8 with a tick of 2: no budget is a multiple of
the tick, and a sleep of 12 is longer than both. A sleep of 1 is below `SLEEP_DRIFT_MS` and is lost, which the
properties allow for (`naps.lost`).

`audit_thread` keeps one major and one minor entry, so the limits are reached by the second event. Its
kinds are one of each path through `apply`; four events over two callers overlap in every order.

`triage_gate` enumerates two families of answers, since all combinations are too many: every body of two
lines under a banner with each fitness call, its footer on a line of its own or after other text, and one
body with every delta of two added labels and one removed, which may be one of the two. Two rounds are a
triage and its correction or its successor. `solve_gates` has one dependency, one plugin setting and one
property, which each base uses in its own spelling; three edits are a change, its companion and one more in
the repair or the review round. One fault is a command of the rollback, a verification or an experiment that fails or times out. `CHECK_DEADLOCK FALSE` in these three and in `watch_sweep` is there because rounds, acts
and time are bounded, and a child that answered does nothing more.

In `groom_poll` the list of seen keys and a search's pages hold every ticket. Below that only the
theorems speak: they assume what the code's numbers say, that a search answers no more than the list
holds (ten pages of fifty against a thousand keys), and neither is assumed to hold the board.

### Fairness

`SolveQueue` grants each runner weak fairness on its own steps: `runLoop` schedules every tick and
each awaited call settles, by a timeout if not otherwise. People, faults and `solve:once` are owed
nothing. `GroomPoll` grants the daemon's cycle weak fairness, and Jira's index, since it does show
every issue in the end; not `poll:once`, nor the clock. `DraftFiling` grants the chain and the draft
run weak fairness each, since the HTTP calls have a 15-second timeout and a session has a watchdog.
`ReviewRounds` grants the tick weak fairness, the loop's schedule again, and people nothing: an
empty inbox is owed even when nobody closes a thread or mends a marker. Liveness is checked with
nothing failing in the solve queue and with faults bounded elsewhere. `WatchSweep` grants the
sweep weak fairness, by the same loop; people and the clock owe nothing. `ChildRuns` grants the clock,
the timers, the delivery of a close, a child that heeds its signal and, for a command, the end of a
descendant; a child owes nothing, and a session does not wait for descendants at all. `AuditThread`,
`TriageGate`, `SolvePipeline` and `SolveGates` state no fairness: they have no liveness
property.

## Proofs

All are for every value of the constants that the named assumptions allow: any number of tickets,
runners, pollers, comments, edits, faults and rounds. Each safety theorem has an inductive invariant,
which the paragraph names, and a lemma for each action or group of actions that keeps it.

Hypotheses stand in the statement of a theorem, and each is there because the claim is false without
it: `OneRunner` (and for drafts `OneListener`, for the poll state `OnePoller`), since two processes
on one board or one file each act on what they read before the other wrote; `"create_lost" \notin
Faults`, since a pull request opened behind an error is reported as a failed solve, and the ticket
gets its start back with a pull request open; and, for a ticket left in progress, no crash and no
failing status call, since nobody else takes a status back. What the code does in those cases is
listed below or in `PROJECT.json`.

The solve queue (`SolveQueueProofs`):

- `TypeCorrect`: two parts of `TypeOK` are real invariants, that a runner past `pick` has a ticket and
  one moving labels a goal; the other theorems stand on it.
- `GoAheadIsKept`: `Spec => GoAheadKept`, any number of runners, any faults. The invariant is
  `ReceiptKept`: a runner that holds a receipt of its claim read the start before the claim, and the
  receipt's difference puts it back. It is needed because the release is computed from two sets read
  earlier, not from the labels it writes to.
- `OpenPrStaysOut`: `[]OpenPrExcluded`, crashes and lost label writes included. The invariant adds that
  a run between opening a pull request and ending keeps a label that holds the ticket (`RunHolds`), that
  the sweep settles only pull requests that ended (`SettleEnded`), and what a runner carries where it
  carries nothing (`Drained`).
- `NoneLeftInProgress`: `[]NoOrphanInProgress`, any number of runners. `Owes` says a run that moved the
  status is on the way through the nested finally blocks, at a step that takes it back.
- `GoAheadBuysOne`: `[]OneGoAheadOnePr`. `ApprovedInv` keeps an account of each ticket: pull requests
  opened, a start on the board and a start carried by a run add up to no more than the starts given
  (`Spent`). It needs `GoAheadKept`'s receipts, and that a claim is written on labels that still hold
  the start it read (`StartHeld`).
- `ImplementsLifecycle`: one daemon implements `TicketLifecycle` under the mapping `StageOf`,
  initial states to initial states and every step to a step or a stutter. `LifeInv` carries what a
  runner may rely on across its awaits: one mark on a ticket at most (`OneMark`), that the labels a
  run read are still its own to replace (`Stands`), that a sweep has one look and one move at most
  for each ticket, all still under review, and what a move says of the pull request is so (`Swept`),
  and that the room counted at the start of a tick is room when the claim is written (`Room`), for
  which the plan must fit its slots (`PlanFits`).

Review, watch and pipeline:

- `ReviewTypeCorrect`, `RoundsStayBounded` (`ReviewRoundsProofs`), from positive budgets alone.
  `BudgetInv` says that what the tick holds of the marker is the marker (`Current`), that a round is
  begun only within the brakes the survey read (`MayBegin`), and that the marker counts at least the
  rounds run, and one more while a reserved round has not begun (`Counted`). The types are part of the
  same induction: a count stays within its budget only because a round begins below it.
- `CommentsReadOnce`: `CursorInv` says that a comment some round read is behind the marker's cursor, and
  that what a survey hands to a round is ahead of it until the reservation, behind it and unread after.
- `NoSecondMarker`: what the tick found of the marker is what there is (`Knows`), and a tick past the
  reservation holds the one that was posted (`HoldsMarker`).
- `HandoverIsFinished`: `LandInv` says that a round unfinished, or under way, has not landed, so the
  marker's `landed` is behind its `count`.
- `TypeCorrect`, `SpendIsBounded`, `NeverAsksAgain` (`WatchSweepProofs`). `SpendInv`: what has been paid
  for a ticket is on it as a counter label, one more while a session is being paid for, and what a look
  read of the counter is still there. `MemoInv`: what was declined is in the memo, and a session is
  asked only about something newer.
- `PipelineTypeCorrect`, `NothingIsLost`, `PassesStartFromOrigin`, `OnlyVerifiedIsPublished`,
  `RemoteGrows` (`SolvePipelineProofs`), assuming only that names of changes are numbers. The types need
  to know which steps stand in a checkout (`Placed`) and that what a branch is cut from or undone to has
  been written (`Written`). `SafeInv` then says: nothing a pass wrote is in the base or in what a merge
  brings in (`Apart`), so a push of a merge publishes none of it; the remote-tracking branch is behind
  origin (`Tracked`), so a branch git lets go of is on origin; each step up to the pass keeps what was
  fetched (`Starts`); each step from the gate to the push keeps what was judged (`Judged`); and the
  branch is dropped only once the checkout that holds it is aside (`Held`).
- `ImplementsPullRequest`: `SolvePipeline` implements `PullRequest`, initial states to initial states and
  every step to a step or a stutter, for any changes, faults and edits. `OnlyVerifiedIsPublished` and
  `RemoteGrows` say that a push publishes nothing unjudged and drops nothing; what they leave open is
  where the rest of a push comes from, and what a pull request opens on. `Built` says it: from the pass
  to the push the branch is made of what was fetched and of changes of passes that still stand, an edit
  in the checkout is not in the branch yet, so a commit is never empty of work; a merge brings in the
  base and one commit; and a solve at its last step, whose ticket has no pull request, has on origin
  what was judged.

Gates and reports (`SolveGatesProofs`):

- `OnlySafeIsPublished`: whatever elements a pom.xml has and however their uses are nested, what the
  gate lets through Maven reads as the base with other released dependency versions. `GateInv` says the
  head is clean and so is a tree past the gate. The work is in the lemmas: the gate reads text once,
  Maven follows uses to any depth, and `JudgedIsSameBuild` says that a pom the gate passes is the same
  build, by descent on how far a use leads.
- `DropsExactly`: putting refused edits back leaves every other edit and nothing refused (`DropInv`).
- `RunTypesCorrect`, `CommentTellsTruth`, `PagesScoreFairly`: `ReportInv` ties the stage of a run to the
  step of the round it came from, and what the run came to, and what was written of it, to the verdict.

Child processes (`ChildRunsProofs`): `ChildTypeCorrect`; `ReportsTrue` (`EndInv`: a caller is told
something only when the child is gone, and whatever spoils an answer is kept until the close);
`SleepIsNeverSilence` (`CreditInv`: the watchdog's ledger never runs ahead of the time the child was
awake, but for what short sleeps lost and a tick for each long one); and `EveryRunIsCut` (`CutInv`:
at the last tick the ledger was within its budget, plus a tick, or the drift that passes for none,
for each sleep that kept it from judging). The last one corrected the property: it used to allow a
tick for each sleep, which holds only where `SLEEP_DRIFT_MS` is no longer than the tick; the
allowance is `Slack`, the longer of the two.

Grooming (`GroomingProofs`):

- `NoTicketIsSkipped`: any number of processes on one poll state, assuming that the state file has a
  cursor (`FirstCursor = 0`): until a first success writes one, the window is a fixed look-back that
  slides with the clock (`jql.ts`, `lookbackMinutes`), and a ticket can slide out of it. A save
  overwrites the file with a copy that may be older, so the cursor can move back and keys can
  vanish; the invariant is that this never matters: a file's cursor, minus the overlap, leaves
  behind only tickets that have been in the file (`FileInv`), and a cycle's copy only those or ones
  it has triaged itself (`Behind`). What a cycle recorded is the newest of its list, no more than a
  search's pages hold, so no save of its own cuts it (`Listed`).
- `NoTicketIsPaidTwice`: with one poller the file is its own copy between saves (`OwnFile`).
- `GrantsAreEarned`, `BoardStays`, `CallsReachBoard`: any set of answers, rounds, edits and faults.
  `GateInv` says that what stands between the gate and the board passed the gate; the lemmas are about
  deltas, what the gate's label rules leave of a label set, namespace by namespace. There is no
  hypothesis: the gate lets a delta through that adds and removes one label (see below), the poster then
  takes that label off, and `BothWays` names these labels in the two properties. TLC's instance has such
  deltas, and violates both properties without `BothWays`.
- `NotesAgree`: `[]NoteAgrees`, for any answers. The property's premise, `Footed`, leaves out a comment whose
  footer the strip swallows: the code posts it as the model wrote it (see below). TLC's instance has such
  bodies, and violates the property without the premise. It leaves out no more than that: a body that ends
  with a footer on a line of its own keeps it, whatever stands above (`OwnFooterStays`). `NoteInv` says that
  a comment on the ticket, and a payload that passed the gate, carry the note their fitness calls for if
  they keep their footer, so the claim survives a triage that takes the comment on the ticket for its own
  body. The lemmas are about lines: stripping leaves no block's first
  line (`StripKeeps`), moving a legend adds none (`LegendKeeps`), a note put before the last footer
  is the only one (`OneNoteIsCarried`), and a body the writer leaves alone has none (`PassedCarries`).
- `TriageTypeCorrect`: what the parser and the note's writer make of an answer is an answer.

Slack (`SlackProofs`):

- `DraftTypeCorrect`, `OnlyUnfiledIsPressable`, `FilesOnce`. A draft is clean when nothing has been
  made of it and no writer that outlived its session may still make it, and marked when its record
  is gone or says filing. `FilingInv` says every draft is one or the other (`UnmarkedIsClean`), and
  that a press files only a draft that is both, the mark written before the writer's session. A
  record is written only for a draft that was never pressed: `FreshInv` says so of a draft in a
  session, or waiting for one.
- `AuditTypeCorrect`, `NoEntryIsLost`, `ChannelShowsRecord`, `OneThreadPerTicket`: any callers, events
  and limits, any faults, any deletions. `ChainInv` says whoever reported is in the chain once and its
  head alone is at work, which is what makes a read, a draw and a save of a whole record safe.
  `KeepInv` says the record an update will save keeps everything told but what it counts as dropped,
  its own entry included; `ApplyFollows` is the lemma behind it, that an event of any kind adds one
  entry and cuts one at most. `DrawInv`: until it draws, an update has the ticket's message and
  broadcast in hand, and what it has drawn is what it will save. `StrayInv` counts the messages beside
  the ticket's own, which are at most the calls that failed; while an update holds a new broadcast and
  has not removed the old, two are its own.

Induction over data cannot be used, so where an argument descends, the proof takes a least
counterexample: a nonempty set of naturals has a least member (`WFMin`), and a finite set's
cardinality strictly grows. `NewestExists`, `LevelsExist`, `ReadingsAgree`, `PlanFits`,
`LatestExists`, `FoundFits`, `LastInIs`, `StripsExist`, `StripIs` and `StripKeeps` are proved that way:
`LevelsExist` and `ReadingsAgree` for the recursive function by which Maven reads a pom.xml, the last
three for the one by which a comment is stripped line by line.

Every safety property the runs check is proved. Only model-checked: the liveness properties of
`queue_liveness`, `groom_poll`, `draft_filing`, `review_rounds`, `watch_sweep` and `child_runs`, and the absence of
deadlock; both need `ENABLED`, which is out of the prover's reach. `PublishedWasVerified` and
`RemoteOnlyGrows` (nobody's commits leave the pull request) are proved and not run: `PullRequestKept`
implies both.

## Known divergences

Places where the code, as modelled, does not do what a comment beside it says. No run has one as its
subject; where a property would be violated by one, it names the case as its exception.

- With one slot, a ticket that used up its attempts is planned first on every tick and the next ticket
  is never tried (`solve-run.ts:1228` against `solve/poller.ts:74`).
- A label a person adds between the claim's write and its read-back is removed by the release
  (`claim.ts:324` against `:323`).
- A `poll:once` during the daemon's cycle has its keys overwritten (`poller.ts:119` against `index.ts:139`):
  a ticket is paid for again, and none is lost (`NoTicketIsSkipped`).
- A message Slack took without answering is treated as unsent, and taking its record back removes the
  filing mark of a press under way (`slack/draft.ts:93` against `draft/pending.ts:25`).
- A person pushes while a round works: the round's push is rejected, its checkout goes and its branch
  stays, and every later attach is refused (`worktree.ts:358` against `:300`).
- One ticket's failed read ends the watch sweep for those behind it (`watch/sweep.ts:103` against `:88`).
- A note block the model left open, closed only by a footer that does not open its line:
  stripping the old note drops that footer, and the comment goes out with the old note
  (`fitness-note.ts:149` against `:2`). `NoteAgrees` leaves such a comment out (`Footed`).
- The gate accepts a delta that adds and removes one `team:` label, and the namespace is emptied
  (`gate.ts:185` against `:187`); it accepts one that adds and removes `agent:solvable` too.
  `BoardIsKept` and `CallReachesBoard` leave these out (`BothWays`).
- A field edited between the first and the last read of `fetchActivity` is dated by the changelog, and the
  check is given the field as it was. A "no" remembers that date, so every later look skips an edit nobody
  read, and the ticket stays on the watch (`jira/client.ts:503` and `:518`, against `:501`). A comment between
  the last two reads is lost to the same "no" when an edit follows it. `AnswersAreRead` leaves them
  out (`Torn`), with what shares its instant with something else, since the memo is a date.
- An event observed on a pull request clears a crash that still stands, so the "one crash" of
  `slack/audit.ts:249` is broadcast on each tick (`solve-run.ts:973`).

## Not modelled, and the plan

`bot:once` runs the rungs with the "named" authority of `solve:once` and adds nothing to them. Not
modelled: what a verification command itself writes to the checkout, the checkout of the fail-first
probe, a recon run on its own, the merge pass's report, the copied skill; the roster of subscribers and the
Slack client; drafting sessions' prompts and output; the parsing of settings and the construction in
`wiring.ts`, but for what decides behaviour; reading the local pages back. Not modelled for good:
log viewer, document checks, rendering and prompt text, attachment copies.

Limits of a model, where the code does more:

- `SolveGates` has one pom.xml and a flag for others, no renames, and no plugin that reads a property by
  its name while a dependency also uses it. Its `head` is the pull request's last commit: the local
  commit before a repair is not told apart.
- `SolveReports` tells answers apart by which of their fields hold something. A withdrawn run leaves no
  repair row, as `repair-ledger.ts` says.
- `ChildRuns` does not check a session's servers when no init event came; neither does the code. Output
  in the tick that notices a waking is credited the sleep (`session.ts:349`), as `RunIsCut` says.
- `TriageGate`'s poster reads labels and writes a whole set (`poster.ts:113`): a label a person adds
  between the two is overwritten. The model makes that write a step of its own, and the properties speak of what was read.

Hazards no property covers, beside those `PROJECT.json` lists with a note: two runners that both write
a claim and both read it back (`claim.ts:260`); a pull request created with its answer lost
(`pr.ts:483`, excluded by a hypothesis of `OpenPrStaysOut`); a ticket paid for again once its key fell off
the newest thousand (`state/store.ts:88`; that it is not lost is `NoTicketIsSkipped`); a round limit per tick that always serves the oldest pull request first
(`review-cycle.ts:286`); a remark between the survey and the reply, hidden by it (`delivery.ts:486`); a
failed push nobody is told of (`delivery.ts:1185`); an abort that fails and leaves unmerged paths
(`base-sync.ts:96`); a push that lands without its pull request (`delivery.ts:141`); a file a verification
command writes after the gate read the diff (`pr.ts:340`); `watch:once` beside the daemon's sweep
(`watch-once.ts:56`); a command and a daemon updating one audit record (`slack/store.ts:1`).

The plan from here:

1. The roster (`slack/roster.ts`), and two processes on one audit record.
2. An abstract review that `ReviewRounds` implements, as `PullRequest` is for the git side.
