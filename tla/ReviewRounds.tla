---------------------------- MODULE ReviewRounds ----------------------------
(***************************************************************************)
(* The review of one open pull request, by the one process that looks at   *)
(* it (src/src/solve/delivery.ts, marker.ts, review-cycle.ts, pr.ts, and   *)
(* the look and the act of src/src/cli/solve-run.ts).  All the loop        *)
(* remembers of a pull request is one comment on it, the marker; a tick    *)
(* surveys the review against it and may pay for one round.  People and    *)
(* the reviewer speak between any two calls.                               *)
(***************************************************************************)
EXTENDS Naturals

CONSTANTS
    Comments,         \* top-level comments and review bodies someone may write
    Threads,          \* inline threads someone may open
    Human,            \* the ones opened by a person; the rest are the reviewer's
    MaxRounds,        \* MAX_REVIEW_ITERATIONS
    MaxTotalRounds,   \* MAX_PR_ROUNDS_TOTAL
    MaxFailedStarts,  \* MAX_FAILED_STARTS
    Faults,           \* what may go wrong in this instance
    MaxFaults,        \* bound: how many times it does
    MaxRemarks        \* bound: remarks on the threads

Fault == {"read", "write", "post", "git", "attach", "defer", "crash", "mangle", "same_second"}

ASSUME PartiesAssumption == Human \subseteq Comments \cup Threads
ASSUME BudgetAssumption ==
    MaxRounds \in Nat /\ MaxTotalRounds \in Nat \ {0} /\ MaxFailedStarts \in Nat \ {0}
ASSUME SpanAssumption ==
    Faults \subseteq Fault /\ MaxFaults \in Nat /\ MaxRemarks \in Nat

VARIABLES
    at,         \* createdAt of each comment in seconds; 0 when it is not written
    asked,      \* threads whose last word is not ours
    resolved,   \* threads marked resolved
    approved,   \* someone responded with nothing to act on
    draft,      \* isDraft
    marker,     \* the marker's fields, all 0 when there is none
    posted,     \* how many marker comments there are
    mangled,    \* an edit by hand left it unreadable
    pc,         \* the call the tick is at
    snap,       \* what its survey saw
    work,       \* what its round has to show
    todo,       \* threads it has yet to answer
    clean,      \* every answer of the round posted
    runs,       \* rounds paid for, and the reviewer's among them
    readBy,     \* rounds each comment was given to
    unfinished, \* the newest round run did not reach the pull request
    remarks, faults  \* how much of the two bounds is used

people  == <<at, asked, resolved, approved, remarks>>
cursor  == <<marker, posted, mangled>>
tick    == <<pc, snap, work, todo, clean>>
ghosts  == <<runs, readBy, unfinished>>
vars    == <<people, draft, cursor, tick, ghosts, faults>>

Marker == [count : 0..MaxTotalRounds, reviewerCount : 0..MaxRounds,
           failedStarts : 0..MaxFailedStarts, landed : 0..MaxTotalRounds, lastRead : Nat]
NoMarker == [count |-> 0, reviewerCount |-> 0, failedStarts |-> 0, landed |-> 0, lastRead |-> 0]
Snap == [comments : SUBSET Comments, threads : SUBSET Threads, marker : Marker,
         found : BOOLEAN, isDraft : BOOLEAN]
NoSnap == [comments |-> {}, threads |-> {}, marker |-> NoMarker,
           found |-> FALSE, isDraft |-> FALSE]
Product == {"none", "merge", "answers", "edits", "commit"}
Pc == {"idle", "threads", "undraft", "attach", "start", "mergeReserve", "merge", "reserve",
       "pass", "tell", "commit", "push", "answer", "say", "land"}

TypeOK ==
    /\ at \in [Comments -> Nat]
    /\ asked \subseteq Threads /\ resolved \subseteq Threads
    /\ approved \in BOOLEAN /\ draft \in BOOLEAN /\ mangled \in BOOLEAN /\ clean \in BOOLEAN
    /\ marker \in Marker /\ posted \in Nat
    /\ pc \in Pc /\ snap \in Snap /\ work \in Product /\ todo \subseteq Threads
    /\ runs \in [all : Nat, reviewer : Nat]
    /\ readBy \in [Comments -> Nat]
    /\ unfinished \in BOOLEAN
    /\ remarks \in 0..MaxRemarks /\ faults \in 0..MaxFaults

Init ==
    /\ at = [c \in Comments |-> 0]
    /\ asked = {} /\ resolved = {} /\ approved = FALSE
    /\ draft = TRUE
    /\ marker = NoMarker /\ posted = 0 /\ mangled = FALSE
    /\ pc = "idle" /\ snap = NoSnap /\ work = "none" /\ todo = {} /\ clean = TRUE
    /\ runs = [all |-> 0, reviewer |-> 0]
    /\ readBy = [c \in Comments |-> 0]
    /\ unfinished = FALSE
    /\ remarks = 0 /\ faults = 0

Fail(f) == f \in Faults /\ faults < MaxFaults /\ faults' = faults + 1

Goto(p) == pc' = p /\ UNCHANGED <<snap, work, todo, clean>>
Rest == pc' = "idle" /\ snap' = NoSnap /\ work' = "none" /\ todo' = {} /\ clean' = TRUE

---------------------------------------------------------------------------
(* The people and the reviewer.  GitHub dates a comment to the second.     *)
Responded == approved \/ asked \cup resolved # {} \/ \E c \in Comments : at[c] > 0
Latest(i) == (\E c \in Comments : at[c] = i) /\ \A c \in Comments : at[c] <= i

Comment(c) ==
    /\ at[c] = 0
    /\ \E i \in {at[d] : d \in Comments} :
         /\ Latest(i)
         /\ \/ at' = [at EXCEPT ![c] = i + 1] /\ UNCHANGED faults
            \/ i > 0 /\ Fail("same_second") /\ at' = [at EXCEPT ![c] = i]
    /\ UNCHANGED <<asked, resolved, approved, remarks, draft, cursor, tick, ghosts>>

Remark(t) ==
    /\ remarks < MaxRemarks
    /\ remarks' = remarks + 1
    /\ asked' = asked \cup {t} /\ resolved' = resolved \ {t}
    /\ UNCHANGED <<at, approved, draft, cursor, tick, ghosts, faults>>

CloseThread(t) ==
    /\ t \in asked \ resolved
    /\ resolved' = resolved \cup {t}
    /\ UNCHANGED <<at, asked, approved, remarks, draft, cursor, tick, ghosts, faults>>

(* An approval without words matters while nobody has said anything.       *)
Approve ==
    /\ ~Responded /\ approved' = TRUE
    /\ UNCHANGED <<at, asked, resolved, remarks, draft, cursor, tick, ghosts, faults>>

MarkReady ==
    /\ draft /\ draft' = FALSE
    /\ UNCHANGED <<people, cursor, tick, ghosts, faults>>

Mangle ==
    /\ posted > 0 /\ ~mangled /\ Fail("mangle")
    /\ mangled' = TRUE
    /\ UNCHANGED <<people, draft, marker, posted, tick, ghosts>>

People ==
    \/ \E c \in Comments : Comment(c)
    \/ \E t \in Threads : Remark(t) \/ CloseThread(t)
    \/ Approve \/ MarkReady \/ Mangle

---------------------------------------------------------------------------
(* The survey: two reads, then everything that needs no checkout.          *)
New(c) == at[c] > marker.lastRead
unanswered == asked \ resolved

Look ==
    /\ pc = "idle" /\ Responded
    /\ ~mangled /\ posted <= 1
    /\ pc' = "threads"
    /\ snap' = [comments |-> {c \in Comments : at[c] > 0 /\ New(c)}, threads |-> {},
                marker |-> marker, found |-> posted = 1, isDraft |-> draft]
    /\ UNCHANGED <<work, todo, clean, people, draft, cursor, ghosts, faults>>

Nothing(s)  == s.comments = {} /\ s.threads = {}
UnlandedNever(s) == FALSE
Unlanded(s) == Nothing(s) /\ s.marker.landed < s.marker.count
HumanRoundWhenAll(s) == s.comments \cup s.threads \subseteq Human
HumanRound(s) == (s.comments \cup s.threads) \cap Human # {}
Capped(s)    == s.marker.count >= MaxTotalRounds
Exhausted(s) == ~HumanRound(s) /\ s.marker.reviewerCount >= MaxRounds
Stalled(s)   == s.marker.failedStarts >= MaxFailedStarts

Ready(s) == Nothing(s) /\ ~Unlanded(s)
GivenUp(s) == ~Nothing(s) /\ ~Capped(s) /\ Exhausted(s)
Actionable(s) == ~Nothing(s) /\ ~Capped(s) /\ ~Exhausted(s) /\ ~Stalled(s)

ReadThreads ==
    LET s == [snap EXCEPT !.threads = unanswered] IN
    /\ pc = "threads"
    /\ \/ /\ Actionable(s)
          /\ pc' = "attach" /\ snap' = s
          /\ UNCHANGED <<work, todo, clean, faults>>
       \/ /\ (Ready(s) \/ GivenUp(s)) /\ s.isDraft
          /\ pc' = "undraft" /\ snap' = s /\ UNCHANGED <<work, todo, clean, faults>>
       \/ /\ ~Actionable(s) /\ ~((Ready(s) \/ GivenUp(s)) /\ s.isDraft)
          /\ Rest /\ UNCHANGED faults
       \/ Fail("read") /\ Rest
    /\ UNCHANGED <<people, draft, cursor, runs, readBy, unfinished>>

Undraft ==
    /\ pc = "undraft"
    /\ \/ draft' = FALSE /\ UNCHANGED faults
       \/ Fail("post") /\ draft' \in {FALSE, draft}
    /\ Rest
    /\ UNCHANGED <<people, cursor, ghosts>>

---------------------------------------------------------------------------
(* Paying for a round.  A tick past its limit of rounds, or asked to stop, *)
(* defers; otherwise the checkout decides which round it is.               *)
Attach ==
    /\ pc = "attach"
    /\ \/ Goto("reserve") /\ UNCHANGED faults
       \/ Goto("mergeReserve") /\ UNCHANGED faults
       \/ Fail("attach") /\ Goto("start")
       \/ Fail("defer") /\ Rest
    /\ UNCHANGED <<people, draft, cursor, ghosts>>

Write(m) ==
    /\ marker' = m /\ mangled' = FALSE
    /\ posted' = IF snap.found THEN posted ELSE posted + 1
Written(m)    == Write(m) /\ UNCHANGED faults
WriteFails(m) == Fail("write") /\ (Write(m) \/ UNCHANGED cursor)

FailedStart ==
    LET m == [snap.marker EXCEPT !.failedStarts = @ + 1] IN
    /\ pc = "start"
    /\ Written(m) \/ WriteFails(m)
    /\ Rest
    /\ UNCHANGED <<people, draft, ghosts>>

BeginPosts(p, m) == pc' = p /\ snap' = [snap EXCEPT !.marker = m] /\ UNCHANGED <<work, todo, clean>>
Begin(p, m) ==
    pc' = p /\ snap' = [snap EXCEPT !.marker = m, !.found = TRUE] /\ UNCHANGED <<work, todo, clean>>
ReserveAnyway(p, q, m) ==
    /\ pc = p
    /\ (Written(m) \/ WriteFails(m)) /\ Begin(q, m)
    /\ UNCHANGED <<people, draft, ghosts>>
(* A reservation that was not answered for runs no round.                  *)
Reserve(p, q, m) ==
    /\ pc = p
    /\ \/ Written(m) /\ Begin(q, m)
       \/ WriteFails(m) /\ Rest
    /\ UNCHANGED <<people, draft, ghosts>>

ReserveMerge ==
    Reserve("mergeReserve", "merge",
            [snap.marker EXCEPT !.count = @ + 1, !.failedStarts = 0])

Dates(s) == {s.marker.lastRead} \cup {at[c] : c \in s.comments}
OldestOf(s, i) == i \in Dates(s) /\ \A c \in s.comments : i <= at[c]
NewestOf(s, i) == i \in Dates(s) /\ \A j \in Dates(s) : j <= i
ReserveReview ==
    \E newest \in Dates(snap) :
        /\ NewestOf(snap, newest)
        /\ Reserve("reserve", "pass",
                   [snap.marker EXCEPT !.count = @ + 1, !.failedStarts = 0,
                       !.reviewerCount = IF HumanRound(snap) THEN @ ELSE @ + 1,
                       !.lastRead = newest])

(* The merge round ends pushed, or declined or refused with nobody told.   *)
MergeRound ==
    /\ pc = "merge"
    /\ runs' = [runs EXCEPT !.all = @ + 1]
    /\ \/ /\ pc' = "land" /\ work' = "merge" /\ unfinished' = FALSE
          /\ UNCHANGED <<snap, todo, clean>>
       \/ Rest /\ unfinished' = TRUE
    /\ UNCHANGED <<people, draft, cursor, readBy, faults>>

(* resolveReview: the pass with its gates, verification and repair.  Which *)
(* threads it answers is the model's to say, and it may answer one it was  *)
(* not given, which counts against the draft.                              *)
Outcome(p, w, answers) == pc' = p /\ work' = w /\ todo' = answers /\ UNCHANGED snap

Pass ==
    /\ pc = "pass"
    /\ runs' = [all |-> runs.all + 1,
                reviewer |-> IF HumanRound(snap) THEN runs.reviewer ELSE runs.reviewer + 1]
    /\ readBy' = [c \in Comments |-> IF c \in snap.comments THEN readBy[c] + 1 ELSE readBy[c]]
    /\ unfinished' = TRUE
    /\ \/ Outcome("tell", "none", snap.threads) /\ UNCHANGED clean
       \/ \E answers \in SUBSET snap.threads :
            /\ Outcome("answer", "answers", answers) \/ Outcome("commit", "edits", answers)
            /\ clean' \in BOOLEAN
    /\ UNCHANGED <<people, draft, cursor, faults>>

CommitAll ==
    /\ pc = "commit"
    /\ \/ Goto("push") /\ UNCHANGED faults
       \/ Goto("answer") /\ UNCHANGED faults
       \/ Fail("git") /\ Rest
    /\ UNCHANGED <<people, draft, cursor, ghosts>>

(* The push may have been taken with its answer lost.                      *)
Push ==
    /\ pc = "push"
    /\ \/ pc' = "answer" /\ work' = "commit" /\ UNCHANGED <<snap, todo, clean, faults>>
       \/ Fail("git") /\ Rest
    /\ UNCHANGED <<people, draft, cursor, ghosts>>

---------------------------------------------------------------------------
(* What the round says: on each thread, then in one comment.               *)
Reply(t) ==
    /\ asked' = asked \ {t}
    /\ \/ UNCHANGED resolved
       \/ pc = "answer" /\ resolved' = resolved \cup {t}

ReplyThread(t) ==
    /\ pc \in {"tell", "answer"} /\ t \in todo
    /\ todo' = todo \ {t}
    /\ \/ Reply(t) /\ UNCHANGED <<clean, faults>>
       \/ /\ Fail("post") /\ clean' = FALSE
          /\ Reply(t) \/ UNCHANGED <<asked, resolved>>
    /\ UNCHANGED <<at, approved, remarks, draft, cursor, pc, snap, work, ghosts>>

(* The round that landed nothing ends: whoever asked has been told, and a  *)
(* marker with the reasons for its silences may have been written.         *)
TellWhoAsked ==
    /\ pc = "tell" /\ todo = {}
    /\ mangled' \in {mangled, FALSE}
    /\ Rest
    /\ UNCHANGED <<people, draft, marker, posted, ghosts, faults>>

AnswerDone ==
    /\ pc = "answer" /\ todo = {}
    /\ Goto("say")
    /\ UNCHANGED <<people, draft, cursor, ghosts, faults>>

(* The round's comment, and, after edits, a notice of the ones the gate    *)
(* dropped, on the threads that asked for them.                            *)
Say ==
    /\ pc = "say"
    /\ pc' = "land" /\ unfinished' = FALSE
    /\ \/ UNCHANGED <<clean, faults>>
       \/ snap.comments # {} /\ Fail("post") /\ clean' = FALSE
    /\ \/ UNCHANGED asked
       \/ work # "answers" /\ \E told \in SUBSET snap.threads : asked' = asked \ told
    /\ UNCHANGED <<at, resolved, approved, remarks, draft, cursor, snap, work, todo,
                   runs, readBy>>

(* recordLanded; then the reviewer is asked again if there was a commit,   *)
(* and the draft is left if there was none and every answer is visible.    *)
Land ==
    LET m == [snap.marker EXCEPT !.landed = snap.marker.count] IN
    /\ pc = "land"
    /\ Written(m) \/ WriteFails(m)
    /\ IF work \in {"answers", "edits"} /\ clean /\ snap.isDraft THEN Goto("undraft") ELSE Rest
    /\ UNCHANGED <<people, draft, ghosts>>

(* The process dies, or a call of the tick throws: the tick forgets.       *)
Crash ==
    /\ pc # "idle" /\ Fail("crash")
    /\ Rest
    /\ UNCHANGED <<people, draft, cursor, ghosts>>

Step ==
    \/ Look \/ ReadThreads \/ Undraft
    \/ Attach \/ FailedStart \/ ReserveMerge \/ ReserveReview
    \/ MergeRound \/ Pass \/ CommitAll \/ Push
    \/ (\E t \in Threads : ReplyThread(t)) \/ TellWhoAsked \/ AnswerDone \/ Say \/ Land

Next == People \/ Step \/ Crash

Spec == Init /\ [][Next]_vars

(* The loop ticks for as long as the process is there, and every call it   *)
(* awaits settles, by a timeout if not otherwise.                          *)
FairSpec == Spec /\ WF_vars(Step)
---------------------------------------------------------------------------
(* The two brakes hold whatever fails and whoever keeps talking: no more   *)
(* rounds are paid for than MAX_PR_ROUNDS_TOTAL, nor reviewer's rounds     *)
(* than MAX_REVIEW_ITERATIONS, though the counts live in a comment whose   *)
(* writes can be lost, and a mangled marker stops rounds.                  *)
RoundsBounded == runs.all <= MaxTotalRounds /\ runs.reviewer <= MaxRounds

(* No comment is given to two rounds: the cursor passes it before the pass *)
(* runs, whatever happens to the round afterwards.                         *)
ReadOnce == \A c \in Comments : readBy[c] <= 1

(* A pull request never gets a second marker, which would stop its rounds: *)
(* not after a post whose answer was lost, nor from the landing.           *)
OneMarker == posted <= 1

(* The loop hands over a pull request with nothing left to answer only     *)
(* when the newest round it ran reached the pull request.                  *)
ReadyMeansLanded == pc = "undraft" /\ (Nothing(snap) \/ work # "none") => ~unfinished

(* Time and again the inbox is empty but for what a brake keeps there, and *)
(* the reviewer's own brake never keeps a person's words.                  *)
Pending(x) == IF x \in Comments THEN at[x] > marker.lastRead ELSE x \in unanswered
Stopped(x) ==
    \/ mangled
    \/ marker.count >= MaxTotalRounds \/ marker.failedStarts >= MaxFailedStarts
    \/ x \notin Human /\ marker.reviewerCount >= MaxRounds
InboxSettles == []<>(\A x \in Comments \cup Threads : Pending(x) => Stopped(x))
=============================================================================
