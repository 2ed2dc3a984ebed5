---------------------------- MODULE SolvePipeline ----------------------------
(***************************************************************************)
(* The git side of one ticket: its branch, its checkout and its pull       *)
(* request's branch on origin, through solve runs and review rounds        *)
(* (src/src/solve/worktree.ts, base-sync.ts, orchestrator.ts, pr.ts).      *)
(* One process runs git, one command at a time, and may die between any    *)
(* two; people push to origin whenever they like.                          *)
(* A history is the set of the changes and merges it contains.             *)
(***************************************************************************)
EXTENDS Naturals

CONSTANTS
    Changes,    \* names of changes and merge commits
    MaxEdits,   \* bound: changes that passes and people make
    Faults,     \* what may go wrong in this instance
    MaxFaults   \* bound: how many times it does

ASSUME ChangesAssumption == Changes \subseteq Nat
ASSUME BoundsAssumption == MaxEdits \in Nat /\ MaxFaults \in Nat
ASSUME FaultsAssumption == Faults \subseteq {"git", "github", "crash"}

VARIABLES
    base, remote,     \* on origin: the base branch and the ticket's, {} before it is pushed
    open,             \* the pull request exists
    seenBase, seen,   \* their remote-tracking refs
    branch,           \* the local branch, {} when there is none
    tree,             \* the checkout at the ticket's path
    orig,             \* its ORIG_HEAD
    aside,            \* what the checkouts moved aside hold
    pc,               \* the step the process is at
    run,              \* what it is running
    attempt,          \* 2 in the retry of a solve
    mend,             \* a repair round, and how the change it corrects was committed
    works,            \* changes by passes that nothing has given up
    gated, checked,   \* what the gate last let through, and what verify last passed of it
    edits, faults,    \* how much of the bounds is used
    hurt              \* a command of this run failed

origin  == <<base, remote, open>>
refs    == <<seenBase, seen, branch>>
disk    == <<tree, orig, aside>>
control == <<run, attempt, mend>>
ghosts  == <<works, gated, checked, edits>>
luck    == <<faults, hurt>>
vars    == <<origin, refs, disk, pc, control, ghosts, luck>>

Histories == SUBSET Changes
Tree == [at : {"none", "branch", "detached"}, head : Histories, dirt : Histories,
         merge : {"no", "unmerged", "resolved"}, incoming : Histories]
NoTree == [at |-> "none", head |-> {}, dirt |-> {}, merge |-> "no", incoming |-> {}]
Fresh  == [NoTree EXCEPT !.at = "branch"]

Pc == {"idle", "fetch", "cut", "detach", "move", "moveHeld", "drop", "add", "refused",
       "base", "recon", "fix", "simplify",
       "sync", "syncAbort", "syncQuit", "syncPush", "syncUndo", "unsynced", "reserve",
       "mergeReserve", "mergeBegin", "resolve", "accept", "mergeVerify", "mergeCommit", "mergePush",
       "mergeUndo", "mergeAbort",
       "review", "gate", "dropEdits", "verify", "boundary", "repair", "commit", "push",
       "open", "remove", "delete", "retryRemove", "retryDelete"}

TypeOK ==
    /\ base \in Histories /\ remote \in Histories /\ open \in BOOLEAN
    /\ seenBase \in Histories /\ seen \in Histories /\ branch \in Histories
    /\ tree \in Tree /\ orig \in Histories /\ aside \in Histories
    /\ (tree.at = "none" => tree = NoTree) /\ (tree.at = "branch" => branch # {})
    /\ pc \in Pc /\ run \in {"none", "solve", "round"} /\ attempt \in {1, 2}
    /\ mend \in {"no", "apart", "blended"}
    /\ works \in Histories /\ gated \in Histories /\ checked \in Histories
    /\ edits \in 0..MaxEdits /\ faults \in 0..MaxFaults /\ hurt \in BOOLEAN

Init ==
    /\ \E w \in Changes : base = {w} /\ (\A v \in Changes : w <= v)
    /\ remote = {} /\ open = FALSE
    /\ seenBase = base /\ seen = {} /\ branch = {}
    /\ tree = NoTree /\ orig = {} /\ aside = {}
    /\ pc = "idle" /\ run = "none" /\ attempt = 1 /\ mend = "no"
    /\ works = {} /\ gated = {} /\ checked = {}
    /\ edits = 0 /\ faults = 0 /\ hurt = FALSE

Fine    == UNCHANGED luck
Fail(f) == f \in Faults /\ faults < MaxFaults /\ faults' = faults + 1 /\ hurt' = TRUE

Goto(p) == pc' = p /\ UNCHANGED control
Rest    == pc' = "idle" /\ run' = "none" /\ attempt' = 1 /\ mend' = "no"

Used == UNION {base, remote, seenBase, seen, branch, orig, aside, works, gated, checked,
               tree.head, tree.dirt, tree.incoming}
New(w) == w \in Changes \ Used /\ \A v \in Changes \ Used : w <= v

Clean   == tree.dirt = {} /\ tree.merge = "no"
Tip     == IF tree.at = "branch" THEN branch ELSE tree.head
Content == Tip \cup tree.dirt \cup tree.incoming

---------------------------------------------------------------------------
(* People push to the pull request, bring it up to date with its base, and *)
(* merge other work.                                                       *)
PersonPushes ==
    /\ open /\ edits < MaxEdits /\ edits' = edits + 1
    /\ \E w \in Changes :
         /\ New(w)
         /\ remote' = remote \cup {w} \/ remote' = remote \cup base \cup {w}
    /\ UNCHANGED <<base, open, refs, disk, pc, control, works, gated, checked, luck>>

BaseMoves ==
    /\ edits < MaxEdits /\ edits' = edits + 1
    /\ \E w \in Changes : New(w) /\ base' = base \cup {w}
    /\ UNCHANGED <<remote, open, refs, disk, pc, control, works, gated, checked, luck>>

(* The daemon solves a ticket with no pull request, and looks at the       *)
(* review of one that has it.                                              *)
Start ==
    /\ pc = "idle"
    /\ pc' = "fetch" /\ run' = (IF open THEN "round" ELSE "solve")
    /\ gated' = {} /\ checked' = {} /\ hurt' = FALSE
    /\ UNCHANGED <<attempt, mend, origin, refs, disk, works, edits, faults>>

---------------------------------------------------------------------------
(* A checkout at the ticket's path: cut from the base for a solve, and     *)
(* attached to the pull request's branch for a round.                      *)
Fetch ==
    /\ pc = "fetch"
    /\ \/ seenBase' = base /\ seen' = remote /\ Goto("cut") /\ Fine
       \/ Fail("git") /\ Goto("refused") /\ UNCHANGED <<seenBase, seen>>
    /\ UNCHANGED <<origin, branch, disk, ghosts>>

ReusableUnread == tree.at = "branch" /\ branch \subseteq seen
ReusableAhead  == tree.at = "branch" /\ Clean
Reusable       == tree.at = "branch" /\ Clean /\ branch \subseteq seen

(* A checkout in the way is reused by a round, fast-forwarded, or moved.   *)
Cut ==
    /\ pc = "cut"
    /\ \/ tree.at = "none" /\ Goto("add") /\ UNCHANGED branch /\ Fine
       \/ run = "round" /\ Reusable /\ branch' = branch \cup seen /\ Goto("sync") /\ Fine
       \/ run = "round" /\ Reusable /\ branch # seen
            /\ Fail("git") /\ Goto("detach") /\ branch' \in {branch, branch \cup seen}
       \/ tree.at # "none" /\ ~(run = "round" /\ Reusable)
            /\ Goto("detach") /\ UNCHANGED branch /\ Fine
       \/ Fail("git") /\ Goto("refused") /\ UNCHANGED branch
    /\ UNCHANGED <<origin, seenBase, seen, disk, ghosts>>

(* The salvage: git will not detach over unmerged paths, and forgets a     *)
(* merge that is resolved when it does.                                    *)
Detached == [tree EXCEPT !.at = "detached", !.head = branch, !.merge = "no", !.incoming = {}]
Detach ==
    /\ pc = "detach"
    /\ \/ tree.at = "detached" /\ Goto("move") /\ UNCHANGED tree /\ Fine
       \/ tree.at = "branch" /\ tree.merge # "unmerged"
            /\ tree' = Detached /\ Goto("moveHeld") /\ Fine
       \/ tree.at = "branch" /\ tree.merge = "unmerged"
            /\ Goto("refused") /\ UNCHANGED tree /\ Fine
       \/ tree.at = "branch" /\ tree.merge # "unmerged"
            /\ Fail("git") /\ Goto("refused") /\ tree' \in {tree, Detached}
    /\ UNCHANGED <<origin, refs, orig, aside, ghosts>>

Move ==
    /\ pc \in {"move", "moveHeld"}
    /\ \/ /\ tree' = NoTree /\ orig' = {} /\ aside' = aside \cup Content
          /\ \/ Goto(IF pc = "moveHeld" THEN "drop" ELSE "add") /\ Fine
             \/ Fail("git") /\ Goto("refused")
       \/ Fail("git") /\ Goto("refused") /\ UNCHANGED disk
    /\ UNCHANGED <<origin, refs, ghosts>>

DropBranch ==
    /\ pc = "drop"
    /\ \/ branch' = {} /\ Goto("add") /\ Fine
       \/ Fail("git") /\ Goto("refused") /\ branch' \in {branch, {}}
    /\ UNCHANGED <<origin, seenBase, seen, disk, ghosts>>

(* git worktree add -b: it refuses a branch that exists, and one that is   *)
(* stopped may leave the branch without the checkout.                      *)
Source == IF run = "solve" THEN seenBase ELSE seen
Add ==
    /\ pc = "add"
    /\ \/ branch = {} /\ branch' = Source /\ tree' = Fresh
            /\ Goto(IF run = "solve" THEN "base" ELSE "sync") /\ Fine
       \/ branch # {} /\ Goto("refused") /\ UNCHANGED <<branch, tree>> /\ Fine
       \/ branch = {} /\ Fail("git") /\ Goto("refused")
            /\ branch' \in {{}, Source} /\ UNCHANGED tree
    /\ UNCHANGED <<origin, seenBase, seen, orig, aside, ghosts>>

(* Nothing ran: a solve says so, a round counts a failed start.            *)
Refused ==
    /\ pc \in {"refused", "unsynced"} /\ Rest
    /\ UNCHANGED <<origin, refs, disk, ghosts, luck>>

---------------------------------------------------------------------------
(* The passes.  A write pass edits the checkout, whatever it reports.      *)
Edits ==
    \/ UNCHANGED <<tree, works, edits>>
    \/ /\ edits < MaxEdits /\ edits' = edits + 1
       /\ \E w \in Changes :
            New(w) /\ tree' = [tree EXCEPT !.dirt = @ \cup {w}] /\ works' = works \cup {w}

VerifyBase ==
    /\ pc = "base"
    /\ Goto("recon") \/ Rest
    /\ UNCHANGED <<origin, refs, disk, ghosts, luck>>

(* A bail, or a plan the gate would refuse, removes the checkout.          *)
Recon ==
    /\ pc = "recon"
    /\ Goto("fix") \/ Goto("remove") \/ Rest
    /\ UNCHANGED <<origin, refs, disk, ghosts, luck>>

Fix ==
    /\ pc = "fix" /\ Edits
    /\ \/ Goto("simplify")
       \/ attempt = 1 /\ Goto("retryRemove")
       \/ Rest
    /\ UNCHANGED <<origin, refs, orig, aside, gated, checked, luck>>

Simplify ==
    /\ pc = "simplify" /\ Edits
    /\ Goto("gate") \/ Rest
    /\ UNCHANGED <<origin, refs, orig, aside, gated, checked, luck>>

(* A review pass that changes nothing or gives up ends its round; one that *)
(* wrote elsewhere, or widened what it may not, leaves its checkout.       *)
ReviewPass ==
    /\ pc = "review" /\ Edits
    /\ Goto("gate") \/ Goto("remove") \/ Rest
    /\ UNCHANGED <<origin, refs, orig, aside, gated, checked, luck>>

RepairPass ==
    /\ pc = "repair" /\ Edits
    /\ Goto("gate") \/ Rest
    /\ UNCHANGED <<origin, refs, orig, aside, gated, checked, luck>>

---------------------------------------------------------------------------
(* The gate and verify look at the whole checkout against the base.        *)
Gate ==
    /\ pc = "gate"
    /\ \/ gated' = Content /\ Goto("verify")
       \/ run = "round" /\ mend = "no" /\ tree.dirt # {} /\ Goto("dropEdits") /\ UNCHANGED gated
       \/ Rest /\ UNCHANGED gated
    /\ UNCHANGED <<origin, refs, disk, works, checked, edits, luck>>

(* The refused edits are rolled back, and the gate judges what is left.    *)
DropEdits ==
    /\ pc = "dropEdits"
    /\ \/ /\ tree' = [tree EXCEPT !.dirt = {}] /\ works' = works \ tree.dirt
          /\ \/ gated' = branch /\ Goto("verify")
             \/ UNCHANGED gated /\ Rest
          /\ Fine
       \/ Fail("git") /\ Rest /\ UNCHANGED <<tree, works, gated>>
    /\ UNCHANGED <<origin, refs, orig, aside, checked, edits>>

Passes(c) == IF gated = c THEN c ELSE {}

(* A failed change may get one repair round (REPAIR_ROUND).  A green       *)
(* repair counts only when armed (promoteRepair), and only as a commit of  *)
(* its own on top of the change it corrects.  Both switches stay open.     *)
Promotable == mend = "apart" /\ tree.dirt # {}
Verify ==
    /\ pc = "verify"
    /\ \/ checked' = Passes(Content) /\ Goto("commit") /\ (mend = "no" \/ Promotable) /\ Fine
       \/ checked' = Passes(Content) /\ Rest /\ mend # "no" /\ (Fine \/ Fail("git"))
       \/ UNCHANGED checked /\ Goto("boundary") /\ mend = "no" /\ Fine
       \/ UNCHANGED checked /\ Goto("remove") /\ run = "round" /\ mend = "no" /\ Fine
       \/ UNCHANGED checked /\ Rest /\ Fine
    /\ UNCHANGED <<origin, refs, disk, works, gated, edits>>

(* commitAll, with nothing to commit when the checkout is clean.           *)
Committed   == branch' = branch \cup tree.dirt /\ tree' = [tree EXCEPT !.dirt = {}]
Uncommitted == UNCHANGED <<branch, tree>>

Boundary ==
    /\ pc = "boundary" /\ pc' = "repair" /\ UNCHANGED <<run, attempt>>
    /\ \/ Committed /\ mend' = "apart" /\ Fine
       \/ (Committed \/ Uncommitted) /\ mend' = "blended" /\ Fail("git")
    /\ UNCHANGED <<origin, seenBase, seen, orig, aside, ghosts>>

(* A solve keeps its checkout however it ends; a round puts its own back.  *)
End == IF run = "solve" THEN Rest ELSE Goto("remove")

Commit ==
    /\ pc = "commit"
    /\ \/ tree.dirt # {} /\ Committed /\ Goto("push") /\ Fine
       \/ tree.dirt # {} /\ (Committed \/ Uncommitted) /\ Fail("git") /\ End
       \/ tree.dirt = {} /\ Uncommitted /\ End /\ Fine
       \/ Uncommitted /\ Rest /\ Fine
    /\ UNCHANGED <<origin, seenBase, seen, orig, aside, ghosts>>

(* origin takes a branch that contains what it has, and nothing is forced. *)
Accepted == remote \subseteq branch
Pushed   == Accepted /\ remote' = branch /\ seen' = branch
PushFails ==
    \/ ~Accepted /\ UNCHANGED <<remote, seen>> /\ Fine
    \/ Fail("git") /\ UNCHANGED <<remote, seen>>
    \/ Fail("git") /\ Accepted /\ remote' = branch /\ seen' \in {seen, branch}

Push ==
    /\ pc = "push"
    /\ \/ Pushed /\ Goto(IF run = "solve" THEN "open" ELSE "remove") /\ Fine
       \/ PushFails /\ End
    /\ UNCHANGED <<base, open, seenBase, branch, disk, ghosts>>

OpenPr ==
    /\ pc = "open" /\ Rest
    /\ \/ open' = TRUE /\ Fine
       \/ Fail("github") /\ open' \in {open, TRUE}
    /\ UNCHANGED <<base, remote, refs, disk, ghosts>>

---------------------------------------------------------------------------
(* The base is merged into the pull request before a round.                *)
Merged(w) == branch' = branch \cup seenBase \cup {w} /\ orig' = branch /\ UNCHANGED tree
Conflicts(w) ==
    /\ tree' = [tree EXCEPT !.merge = "unmerged", !.incoming = seenBase \cup {w}]
    /\ orig' = branch /\ UNCHANGED branch
NotMerged == UNCHANGED <<branch, orig, tree>>

Sync ==
    /\ pc = "sync"
    /\ \/ seenBase \subseteq branch /\ NotMerged /\ Goto("reserve") /\ Fine
       \/ /\ ~(seenBase \subseteq branch)
          /\ \E w \in Changes :
               /\ New(w)
               /\ \/ Merged(w) /\ Goto("syncPush") /\ Fine
                  \/ Conflicts(w) /\ Goto("syncAbort") /\ Fine
                  \/ (Merged(w) \/ Conflicts(w)) /\ Fail("git") /\ Goto("syncQuit")
       \/ NotMerged /\ Fail("git") /\ Goto("unsynced")
    /\ UNCHANGED <<origin, seenBase, seen, aside, ghosts>>

(* The reservation of the round, whose own story is ReviewRounds'.         *)
ReserveRound ==
    /\ pc \in {"reserve", "mergeReserve"}
    /\ \/ Goto(IF pc = "reserve" THEN "review" ELSE "mergeBegin") /\ Fine
       \/ Fail("github") /\ Goto("remove")
    /\ UNCHANGED <<origin, refs, disk, ghosts>>

(* The merge round merges again, and a pass resolves what conflicts.       *)
MergeBegin ==
    /\ pc = "mergeBegin"
    /\ \/ Clean /\ \E w \in Changes :
            /\ New(w)
            /\ (Merged(w) /\ Goto("mergePush")) \/ (Conflicts(w) /\ Goto("resolve"))
            /\ Fine
       \/ ~Clean /\ NotMerged /\ Goto("remove") /\ Fine
       \/ Fail("git") /\ NotMerged /\ Goto("remove")
    /\ UNCHANGED <<origin, seenBase, seen, aside, ghosts>>

Resolve ==
    /\ pc = "resolve" /\ Edits
    /\ Goto("accept") \/ Goto("mergeAbort")
    /\ UNCHANGED <<origin, refs, orig, aside, gated, checked, luck>>

(* acceptResolution: the paths staged, and nothing else changed.           *)
AcceptResolution ==
    /\ pc = "accept"
    /\ tree' = [tree EXCEPT !.merge = "resolved"]
    /\ \/ gated' = Content /\ Goto("mergeVerify")
       \/ UNCHANGED gated /\ Goto("mergeAbort")
    /\ UNCHANGED <<origin, refs, orig, aside, works, checked, edits, luck>>

MergeVerify ==
    /\ pc = "mergeVerify"
    /\ \/ checked' = Passes(Content) /\ Goto("mergeCommit")
       \/ UNCHANGED checked /\ Goto("mergeAbort")
    /\ UNCHANGED <<origin, refs, disk, works, gated, edits, luck>>

MergeCommit ==
    /\ pc = "mergeCommit"
    /\ \/ branch' = Content /\ tree' = Fresh /\ Goto("mergePush") /\ Fine
       \/ branch' = Content /\ tree' = Fresh /\ Goto("mergeAbort") /\ Fail("git")
       \/ Uncommitted /\ Goto("mergeAbort") /\ Fail("git")
    /\ UNCHANGED <<origin, seenBase, seen, orig, aside, ghosts>>

MergePush ==
    /\ pc \in {"syncPush", "mergePush"}
    /\ \/ Pushed /\ Goto(IF pc = "syncPush" THEN "reserve" ELSE "remove") /\ Fine
       \/ PushFails /\ Goto(IF pc = "syncPush" THEN "syncUndo" ELSE "mergeUndo")
    /\ UNCHANGED <<base, open, seenBase, branch, disk, ghosts>>

(* A merge that was not pushed is undone, resolution and all.              *)
MergeUndo ==
    /\ pc \in {"syncUndo", "mergeUndo"}
    /\ Goto(IF pc = "syncUndo" THEN "unsynced" ELSE "remove")
    /\ \/ branch' = orig /\ works' = works \ (branch \ orig) /\ (Fine \/ Fail("git"))
       \/ UNCHANGED <<branch, works>> /\ Fail("git")
    /\ UNCHANGED <<origin, seenBase, seen, disk, gated, checked, edits>>

(* abortMerge, whose failure nobody waits for: it may leave behind what    *)
(* the pass wrote outside the conflict, and there may be nothing to abort. *)
AfterAbort ==
    CASE pc = "syncAbort"  -> "mergeReserve"
      [] pc = "syncQuit"   -> "unsynced"
      [] pc = "mergeAbort" -> "remove"
Aborted(dirt) ==
    /\ tree' = [tree EXCEPT !.dirt = dirt, !.merge = "no", !.incoming = {}]
    /\ works' = works \ (tree.dirt \ dirt)
AbortMerge ==
    /\ pc \in {"syncAbort", "syncQuit", "mergeAbort"} /\ Goto(AfterAbort)
    /\ \/ tree.merge # "no" /\ \E dirt \in {{}, tree.dirt} : Aborted(dirt) /\ Fine
       \/ tree.merge = "no" /\ UNCHANGED <<tree, works>> /\ Fine
       \/ tree.merge # "no" /\ UNCHANGED <<tree, works>> /\ Fail("git")
    /\ UNCHANGED <<origin, refs, orig, aside, gated, checked, edits>>

---------------------------------------------------------------------------
(* removeWorktree: unforced, so a checkout with changes in it stays; then  *)
(* the branch, which git keeps when its upstream lacks some of it.         *)
RemovableAlways == TRUE
Removable == Clean
Remove ==
    /\ pc \in {"remove", "retryRemove"}
    /\ \/ Removable /\ tree' = NoTree /\ orig' = {}
            /\ Goto(IF pc = "remove" THEN "delete" ELSE "retryDelete") /\ Fine
       \/ ~Removable /\ UNCHANGED <<tree, orig>> /\ Rest /\ Fine
       \/ UNCHANGED <<tree, orig>> /\ Rest /\ Fail("git")
       \/ Removable /\ tree' = NoTree /\ orig' = {} /\ Rest /\ Fail("git")
    /\ UNCHANGED <<origin, refs, aside, ghosts>>

DeletableAlways == TRUE
Deletable == branch \subseteq Source
Delete ==
    /\ pc \in {"delete", "retryDelete"}
    /\ \/ /\ Deletable /\ branch' = {} /\ Fine
          /\ \/ pc = "delete" /\ Rest
             \/ pc = "retryDelete" /\ pc' = "fetch" /\ attempt' = 2 /\ UNCHANGED <<run, mend>>
       \/ ~Deletable /\ UNCHANGED branch /\ Rest /\ Fine
       \/ UNCHANGED branch /\ Rest /\ Fail("git")
       \/ Deletable /\ branch' = {} /\ Rest /\ Fail("git")
    /\ UNCHANGED <<origin, seenBase, seen, disk, ghosts>>

Crash ==
    /\ pc # "idle" /\ Fail("crash") /\ Rest
    /\ UNCHANGED <<origin, refs, disk, ghosts>>

People == PersonPushes \/ BaseMoves
Attach == Fetch \/ Cut \/ Detach \/ Move \/ DropBranch \/ Add \/ Refused
Passed == VerifyBase \/ Recon \/ Fix \/ Simplify \/ ReviewPass \/ RepairPass
Judge  == Gate \/ DropEdits \/ Verify \/ Boundary
Land   == Commit \/ Push \/ OpenPr
Merge  ==
    \/ Sync \/ ReserveRound \/ MergeBegin \/ Resolve \/ AcceptResolution \/ MergeVerify
    \/ MergeCommit \/ MergePush \/ MergeUndo \/ AbortMerge
Next == People \/ Start \/ Attach \/ Passed \/ Judge \/ Land \/ Merge \/ Remove \/ Delete \/ Crash

Spec == Init /\ [][Next]_vars
---------------------------------------------------------------------------
(* Whatever the run before left behind, a pass starts from what is on      *)
(* origin and nothing else: the base for a solve, the pull request's       *)
(* branch for a round or a resolution.                                     *)
StartsFromOrigin ==
    /\ pc = "fix" => Clean /\ branch = seenBase
    /\ pc = "review" => Clean /\ branch = seen
    /\ pc = "resolve" => tree.dirt = {} /\ branch = seen

(* A change by a pass reaches origin only in a push of exactly what the    *)
(* gate let through and verify then passed, through retries, repairs,      *)
(* reused checkouts and the pushes of merges.                              *)
PublishedWasVerified ==
    [][(remote' \ remote) \cap works # {} => remote' = checked]_vars

(* What a pass wrote and nothing gave up is still on origin, on the local  *)
(* branch, in the checkout or in one moved aside, at every step.           *)
NothingLost == works \subseteq remote \cup branch \cup Content \cup aside

(* What those who read the pull request are promised: its branch only      *)
(* grows, by what people push, the base has, and the program merged or     *)
(* had judged, and the pull request opens on what was judged.              *)
Promise == INSTANCE PullRequest
    WITH main <- base, shown <- remote, opened <- open, standing <- works, judged <- checked
PullRequestKept == Promise!PullRequestSpec

(* Nobody's commits leave the pull request.                                *)
RemoteOnlyGrows == [][remote \subseteq remote']_vars
=============================================================================
