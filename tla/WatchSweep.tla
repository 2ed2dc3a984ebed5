----------------------------- MODULE WatchSweep -----------------------------
(***************************************************************************)
(* The send-back watch (src/src/watch/, src/src/watch-loop.ts): tickets    *)
(* labelled agent:watching are looked at in sweeps, and one on which       *)
(* somebody else moved since the bot last spoke is triaged again, for      *)
(* money.  What bounds the spending is a counter kept as a label, written  *)
(* before the run it pays for, and a memo of declined activity in memory.  *)
(* `watch:once` is the same sweep by a process with a memo of its own: a   *)
(* process that starts, sweeps and dies.                                   *)
(***************************************************************************)
EXTENDS Integers, Sequences, FiniteSets, SequencesExt

CONSTANTS
    Tickets,      \* the tickets of the board
    MaxRetriage,  \* MAX_RETRIAGE_PER_TICKET
    MaxCount,     \* the highest number a counter label can hold (9999)
    MaxTime,      \* bound: the last instant of an instance
    MaxActs,      \* bound: acts of people
    Faults,       \* what may go wrong
    MaxFaults     \* bound: how many times

None == -1
Fault == {"search", "look", "check", "label", "lost", "note", "groom", "posted", "crash"}

ASSUME TicketsAssumption == IsFiniteSet(Tickets)
ASSUME LimitAssumption   == MaxRetriage \in Nat /\ MaxCount \in Nat \ {0}
ASSUME BoundsAssumption  == MaxTime \in Nat /\ MaxActs \in Nat /\ MaxFaults \in Nat /\ Faults \subseteq Fault

VARIABLES
    now,       \* the clock
    watched,   \* tickets labelled agent:watching
    closed,    \* tickets in the done category
    counts,    \* the numbers on a ticket's agent:retriage-N labels, 0 one that will not read
    mark,      \* when our comment was last touched, None without one
    acts,      \* what somebody else did: a comment, or an edit of a field that can clear a blocker
    pc,        \* where the sweep is
    queue,     \* the keys it has not dealt with, the first one in hand
    look,      \* the activity it fetched, filled in by one read after another
    read,      \* what the triage session read of the ticket
    memo,      \* the newest activity declined, per ticket
    paid,      \* history: re-triages paid for
    judged,    \* history: activity a relevance check or a posted triage has read
    late,      \* history: activity too late for what read the ticket, and hidden by it
    declined,  \* history: activity this process has paid to decline
    used       \* how much of MaxActs and MaxFaults is used

board   == <<watched, closed, counts, mark, acts>>
sweep   == <<pc, queue, look, read, memo>>
history == <<paid, judged, late, declined>>
vars    == <<now, board, sweep, history, used>>

Time == 0..MaxTime
Kind == {"comment", "edit"}
Activity == [at : Time, kind : Kind]
OfKind(as, k) == {a \in as : a.kind = k}

(* What a sweep knows of a ticket: acts are those it has the date of, and  *)
(* words those it has the text of, a comment's or an edited field's.       *)
Look == [watched : BOOLEAN, closed : BOOLEAN, counts : SUBSET (0..MaxCount),
         mark : Time \cup {None}, acts : SUBSET Activity, words : SUBSET Activity]
NoLook == [watched |-> FALSE, closed |-> FALSE, counts |-> {}, mark |-> None,
           acts |-> {}, words |-> {}]

TypeOK ==
    /\ now \in Time
    /\ watched \subseteq Tickets /\ closed \subseteq Tickets
    /\ counts \in [Tickets -> SUBSET (0..MaxCount)]
    /\ mark \in [Tickets -> Time \cup {None}]
    /\ acts \in [Tickets -> SUBSET Activity]
    /\ pc \in {"idle", "next", "comments", "changes", "decide", "end", "note", "ask", "reserve", "session", "post"}
    /\ queue \in Seq(Tickets)
    /\ pc \notin {"idle", "next"} => queue # <<>>
    /\ pc \in {"idle", "next"} => look = NoLook /\ read = {}
    /\ look \in Look
    /\ read \subseteq Activity
    /\ memo \in [Tickets -> Time \cup {None}]
    /\ paid \in [Tickets -> Nat]
    /\ judged \in [Tickets -> SUBSET Activity]
    /\ late \in [Tickets -> SUBSET Activity]
    /\ declined \in [Tickets -> SUBSET Activity]
    /\ used \in [acts : 0..MaxActs, faults : 0..MaxFaults]

(* Tickets that triage put on watch, and one labelled by hand with no      *)
(* comment of ours or a counter that will not read.                        *)
Init ==
    /\ now = 0
    /\ watched = Tickets /\ closed = {}
    /\ counts \in [Tickets -> {{}, {0}}]
    /\ mark \in [Tickets -> {0, None}]
    /\ acts = [t \in Tickets |-> {}]
    /\ pc = "idle" /\ queue = <<>> /\ look = NoLook /\ read = {}
    /\ memo = [t \in Tickets |-> None]
    /\ paid = [t \in Tickets |-> 0]
    /\ judged = [t \in Tickets |-> {}]
    /\ late = [t \in Tickets |-> {}]
    /\ declined = [t \in Tickets |-> {}]
    /\ used = [acts |-> 0, faults |-> 0]

Fail(f) == f \in Faults /\ used.faults < MaxFaults /\ used' = [used EXCEPT !.faults = @ + 1]
InHand == Head(queue)

---------------------------------------------------------------------------
(* decideWatch and what it rests on.                                       *)

(* retriageCount: the highest of several; one that will not read refuses.  *)
Readable(ns) == 0 \notin ns
Count(ns) == {n \in ns \cup {0} : \A m \in ns : m <= n}
Exhausted(ns) == \E n \in Count(ns) : n >= MaxRetriage

(* Everything foreign since we last spoke, a tie included, and the newest  *)
(* of it, which keys the memo.                                             *)
Foreign(l) == IF l.mark = None THEN {} ELSE {a \in l.acts : a.at >= l.mark}
Dates(as) == {a.at : a \in as}
NewestForeign(l) == {i \in Dates(Foreign(l)) : \A j \in Dates(Foreign(l)) : j <= i}

Decision(l) ==
    CASE l.closed                             -> "closed"
      [] ~l.closed /\ ~Readable(l.counts)     -> "uncountable"
      [] ~l.closed /\ Readable(l.counts) /\ Exhausted(l.counts) -> "exhausted"
      [] OTHER -> IF l.mark = None THEN "uncountable"
                  ELSE IF Foreign(l) = {} THEN "quiet" ELSE "retriage"

(* The memo: at or before the newest instant declined is activity judged.  *)
MemoSeenStrict(t, l) == memo[t] # None /\ \E at \in NewestForeign(l) : at < memo[t]
MemoSeen(t, l) == memo[t] # None /\ \E at \in NewestForeign(l) : at <= memo[t]

---------------------------------------------------------------------------
Goto(l) == pc' = l
(* On to the next key, dropping what was read for this one.                *)
Leave ==
    /\ Goto("next")
    /\ queue' = Tail(queue)
    /\ look' = NoLook
    /\ read' = {}
(* A throw out of runWatchSweep: the rest of the keys wait for a later     *)
(* cycle's search.                                                         *)
Abort == Goto("idle") /\ queue' = <<>> /\ look' = NoLook /\ read' = {}

(* The search for the watched tickets, the closed ones included: a ticket  *)
(* the query cannot see is one nothing takes off the watch.                *)
WatchingOpen == watched \ closed
Watching == watched
Search ==
    /\ pc = "idle"
    /\ \/ queue' \in SetToSeqs(Watching) /\ Goto("next") /\ UNCHANGED used
       \/ Fail("search") /\ UNCHANGED <<queue, pc>>
    /\ UNCHANGED <<now, board, look, read, memo, history>>

(* fetchActivity, outside the sweep's try: any of its reads can throw, and *)
(* ends the sweep.  The first has the status, the labels and what the      *)
(* fields now say; the second our comment and everybody else's; the third  *)
(* only when the fields were edited.                                       *)
FetchIssue ==
    /\ pc = "next" /\ queue # <<>>
    /\ \/ /\ look' = [NoLook EXCEPT !.watched = InHand \in watched, !.closed = InHand \in closed,
                      !.counts = counts[InHand], !.words = OfKind(acts[InHand], "edit")]
          /\ Goto("comments")
          /\ UNCHANGED <<queue, read, used>>
       \/ Fail("look") /\ Abort
    /\ UNCHANGED <<now, board, memo, history>>

FetchComments ==
    /\ pc = "comments"
    /\ \/ /\ look' = [look EXCEPT !.mark = mark[InHand], !.acts = OfKind(acts[InHand], "comment"),
                      !.words = @ \cup OfKind(acts[InHand], "comment")]
          /\ Goto("changes")
          /\ UNCHANGED <<queue, read, used>>
       \/ Fail("look") /\ Abort
    /\ UNCHANGED <<now, board, memo, history>>

FetchChanges ==
    /\ pc = "changes"
    /\ \/ /\ look' = [look EXCEPT !.acts = @ \cup OfKind(acts[InHand], "edit")]
          /\ Goto("decide")
          /\ UNCHANGED <<queue, read, used>>
       \/ Fail("look") /\ Abort
    /\ UNCHANGED <<now, board, memo, history>>

(* An end needs the label, and activity already declined is not asked      *)
(* about again.                                                            *)
Decide ==
    /\ pc = "decide"
    /\ LET d == Decision(look) IN
       \/ d = "quiet" /\ Leave
       \/ d = "retriage" /\ MemoSeen(InHand, look) /\ Leave
       \/ d = "retriage" /\ ~MemoSeen(InHand, look) /\ Goto("ask") /\ UNCHANGED <<queue, look, read>>
       \/ d \notin {"quiet", "retriage"} /\ ~look.watched /\ Leave
       \/ d \notin {"quiet", "retriage"} /\ look.watched /\ Goto("end") /\ UNCHANGED <<queue, look, read>>
    /\ UNCHANGED <<now, board, memo, history, used>>

(* endWatch: the label first.  Its failure ends the sweep too.             *)
EndWatch ==
    /\ pc = "end"
    /\ \/ /\ watched' = watched \ {InHand}
          /\ IF Decision(look) = "closed" THEN Leave ELSE Goto("note") /\ UNCHANGED <<queue, look, read>>
          /\ UNCHANGED used
       \/ Fail("label") /\ Abort /\ UNCHANGED watched
       \/ Fail("lost") /\ Abort /\ watched' = watched \ {InHand}
    /\ UNCHANGED <<now, closed, counts, mark, acts, memo, history>>

(* The comment owed on a ticket still open; its failure is swallowed.  It  *)
(* carries no footer, so a later look reads it as somebody else's.         *)
Note ==
    /\ pc = "note"
    /\ \/ acts' = [acts EXCEPT ![InHand] = @ \cup {[at |-> now, kind |-> "comment"]}] /\ UNCHANGED used
       \/ Fail("note") /\ UNCHANGED acts
    /\ Leave
    /\ UNCHANGED <<now, watched, closed, counts, mark, memo, history>>

---------------------------------------------------------------------------
(* runRetriage.                                                            *)

(* What came between the reads of a look, and is no newer than the newest  *)
(* it dates: a "no" to what the look has the words of hides it.            *)
Torn == {a \in acts[InHand] \ look.words : \E i \in NewestForeign(look) : a.at <= i}

(* The relevance check: paid, shown what the look has the words of, and no *)
(* is remembered by date.  A counter at its ceiling is refused first.      *)
Ask ==
    /\ pc = "ask"
    /\ \/ /\ MaxCount \notin look.counts
          /\ judged' = [judged EXCEPT ![InHand] = @ \cup (Foreign(look) \cap look.words)]
          /\ \/ Goto("reserve") /\ UNCHANGED <<queue, look, read, memo, late, declined>>
             \/ /\ \E at \in NewestForeign(look) : memo' = [memo EXCEPT ![InHand] = at]
                /\ declined' = [declined EXCEPT ![InHand] = @ \cup Foreign(look)]
                /\ late' = [late EXCEPT ![InHand] = @ \cup Torn]
                /\ Leave
          /\ UNCHANGED used
       \/ MaxCount \in look.counts /\ Leave /\ UNCHANGED <<memo, judged, late, declined, used>>
       \/ Fail("check") /\ Leave /\ UNCHANGED <<memo, judged, late, declined>>
    /\ UNCHANGED <<now, board, paid>>

(* The reservation, before the run: one more, in place of those the look   *)
(* saw.  No answer, no run.                                                *)
ReservationUnwritten(ns) == {ns}
Reservation(ns) == {(ns \ look.counts) \cup {n + 1} : n \in Count(look.counts)}
Reserve ==
    /\ pc = "reserve"
    /\ \/ \E ns \in Reservation(counts[InHand]) :
            /\ counts' = [counts EXCEPT ![InHand] = ns]
            /\ \/ Goto("session") /\ UNCHANGED <<queue, look, read, used>>
               \/ Fail("lost") /\ Leave
       \/ Fail("label") /\ Leave /\ UNCHANGED counts
    /\ UNCHANGED <<now, watched, closed, mark, acts, memo, history>>

(* groom, its first half: a session reads the ticket afresh and judges it. *)
SessionReadsLook == look.words
SessionReads == acts[InHand]
Session ==
    /\ pc = "session"
    /\ paid' = [paid EXCEPT ![InHand] = @ + 1]
    /\ \/ read' = SessionReads /\ Goto("post") /\ UNCHANGED <<queue, look, used>>
       \/ Fail("groom") /\ Leave
    /\ UNCHANGED <<now, board, memo, judged, late, declined>>

(* Its second half, once the gate agreed: the poster rewrites our comment  *)
(* in place, which moves its date, and applies the label delta.  It can    *)
(* fail having written nothing, or having written all of it.               *)
Post ==
    /\ pc = "post"
    /\ \/ /\ mark' = [mark EXCEPT ![InHand] = now]
          /\ watched' \in {watched, watched \cup {InHand}, watched \ {InHand}}
          /\ judged' = [judged EXCEPT ![InHand] = @ \cup read]
          /\ UNCHANGED used \/ Fail("posted")
       \/ Fail("groom") /\ UNCHANGED <<mark, watched, judged>>
    /\ Leave
    /\ UNCHANGED <<now, closed, counts, acts, memo, paid, late, declined>>

Finish ==
    /\ pc = "next" /\ queue = <<>>
    /\ Goto("idle")
    /\ UNCHANGED <<now, board, queue, look, read, memo, history, used>>

(* A restart forgets the memo and nothing on the board.                    *)
Crash ==
    /\ Fail("crash")
    /\ Abort
    /\ memo' = [t \in Tickets |-> None]
    /\ declined' = [t \in Tickets |-> {}]
    /\ UNCHANGED <<now, board, paid, judged, late>>

Fetch == FetchIssue \/ FetchComments \/ FetchChanges
Sweep == Search \/ Fetch \/ Decide \/ EndWatch \/ Note \/ Ask \/ Reserve \/ Session \/ Post \/ Finish

---------------------------------------------------------------------------
(* People, who are never in step with the sweep.                           *)
Act == used.acts < MaxActs /\ used' = [used EXCEPT !.acts = @ + 1]

(* A comment, or an edit of a field that can clear a blocker.  A session   *)
(* that has read the ticket and not posted misses it; and the memo takes   *)
(* what shares its instant with something else for that.                   *)
Missed(t, a) == (pc = "post" /\ InHand = t) \/ a.at \in Dates(acts[t])
Answer(t) ==
    /\ Act
    /\ \E a \in Activity :
         /\ a.at = now
         /\ acts' = [acts EXCEPT ![t] = @ \cup {a}]
         /\ late' = IF Missed(t, a) THEN [late EXCEPT ![t] = @ \cup {a}] ELSE late
    /\ UNCHANGED <<now, watched, closed, counts, mark, sweep, paid, judged, declined>>

Close(t) ==
    /\ Act
    /\ t \notin closed
    /\ closed' = closed \cup {t}
    /\ UNCHANGED <<now, watched, counts, mark, acts, sweep, history>>

(* triage:once, which is how a ticket comes back on watch.                 *)
Retriage(t) ==
    /\ Act
    /\ t \notin watched /\ t \notin closed
    /\ watched' = watched \cup {t}
    /\ mark' = [mark EXCEPT ![t] = now]
    /\ judged' = [judged EXCEPT ![t] = @ \cup acts[t]]
    /\ UNCHANGED <<now, closed, counts, acts, sweep, paid, late, declined>>

Clock ==
    /\ now < MaxTime
    /\ now' = now + 1
    /\ UNCHANGED <<board, sweep, history, used>>

Next ==
    \/ Sweep \/ Crash \/ Clock
    \/ \E t \in Tickets : Answer(t) \/ Close(t) \/ Retriage(t)

Spec == Init /\ [][Next]_vars

(* runLoop starts a cycle again whatever the last one did, and every call  *)
(* has a timeout or a watchdog.  People and the clock owe nothing.         *)
FairSpec == Spec /\ WF_vars(Sweep)

---------------------------------------------------------------------------
(* However runs fail, answers get lost and the process restarts, a ticket  *)
(* is never given more paid re-triages than the limit: what has been paid  *)
(* is on the ticket before it is paid.                                     *)
SpendBounded == \A t \in Tickets : paid[t] <= MaxRetriage

(* What a process has paid to hear "no" about, it does not pay to ask      *)
(* about again, though the ticket still looks answered on every sweep.     *)
AskedOnce == pc = "ask" => ~(Foreign(look) \subseteq declined[InHand])

(* All that people say on a watched ticket is read, by a check or by a     *)
(* triage, or the watch is taken off; all but what comes between the reads *)
(* of a look that ends in a "no", whose memo then hides it, what comes     *)
(* while a session has read the ticket and not yet posted, which its       *)
(* comment then hides, and what shares its instant with something else.    *)
Unread(t) == acts[t] \ (judged[t] \cup late[t])
AnswersAreRead ==
    \A t \in Tickets :
        (t \in watched /\ mark[t] # None /\ Unread(t) # {}) ~> (Unread(t) = {} \/ t \notin watched)

(* A closed ticket comes off the watch.                                    *)
ClosedIsLetGo == \A t \in Tickets : t \in closed /\ t \in watched ~> t \notin watched
=============================================================================
