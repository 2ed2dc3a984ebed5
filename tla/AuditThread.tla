----------------------------- MODULE AuditThread -----------------------------
(***************************************************************************)
(* One ticket's audit thread (src/src/slack/audit.ts, notifier.ts,         *)
(* store.ts): a record kept as a property of the ticket, a message drawn   *)
(* from it, and one reply broadcast to the channel.  The pipeline's loops  *)
(* report events; each is a load, an edit or a post, a broadcast and a     *)
(* save, any of which can fail, and none of which may fail the work it     *)
(* reports.  A person can delete a message at any time.                    *)
(***************************************************************************)
EXTENDS Integers, Sequences, FiniteSets

CONSTANTS
    Callers,        \* the loops and commands that report events
    Kinds,          \* the events an instance has
    MaxMajor,       \* MAX_MAJOR_ENTRIES
    MaxTimeline,    \* MAX_TIMELINE_ENTRIES
    MaxEvents,      \* bound: events reported
    MaxDeletes,     \* bound: messages deleted by a person
    AuditFaults,    \* what may go wrong
    MaxAuditFaults  \* bound: how many times

None == 0
Kind == {"minor", "major", "opened", "draft", "found", "ready", "reworking", "ended",
         "crashed", "unreachable", "redraw", "bump"}
AuditFault == {"load", "unreadable", "update", "post", "broadcast", "remove", "amend", "save", "lost"}

ASSUME AuditLimits == {MaxMajor, MaxTimeline} \subseteq Nat \ {0}
ASSUME AuditBounds ==
    /\ {MaxEvents, MaxDeletes, MaxAuditFaults} \subseteq Nat
    /\ Kinds \subseteq Kind /\ AuditFaults \subseteq AuditFault /\ IsFiniteSet(Callers)

VARIABLES
    saved,      \* the property on the ticket, NoAudit until the first save
    threads,    \* the top messages in the channel, each with what it shows
    replies,    \* the broadcast replies in the channel
    queue,      \* the process's chain of updates for the ticket
    job,        \* what each caller is at
    told,       \* history: entries whose caller was told they were recorded
    whole,      \* history: the last update left nothing undone
    count       \* messages posted, events, deletions and faults so far

auditVars == <<saved, threads, replies, queue, job, told, whole, count>>

(* AuditRecord, less what is only wording: the pull request, a crash       *)
(* standing, and the entries by number, a network failure's marked.        *)
Entry == [id : Nat, net : BOOLEAN]
NoAudit == [slack |-> None, bump |-> None, work |-> FALSE, pr |-> "none", crash |-> FALSE,
            major |-> <<>>, timeline |-> <<>>, dropped |-> 0]
AuditRecord == [slack : Nat, bump : Nat, work : BOOLEAN,
                pr : {"none", "draft", "ready", "reworking", "ended"}, crash : BOOLEAN,
                major : Seq(Entry), timeline : Seq(Entry), dropped : Nat]
Shown(r) == [r EXCEPT !.slack = None, !.bump = None]

(* What an update is at: the record it will save, and the entry it added.  *)
Job == [pc : {"idle", "wait", "update", "post", "broadcast", "remove", "amend", "save"},
        kind : Kind, id : Nat, rec : AuditRecord, adds : {"none", "minor", "major"}]
Resting == [pc |-> "idle", kind |-> "redraw", id |-> None, rec |-> NoAudit, adds |-> "none"]

AuditTypeOK ==
    /\ saved \in AuditRecord
    /\ \A th \in threads : th.ts \in 1..count.posts /\ th.shows \in AuditRecord
    /\ replies \subseteq 1..count.posts
    /\ queue \in Seq(Callers)
    /\ job \in [Callers -> Job]
    /\ told \subseteq Nat
    /\ whole \in BOOLEAN
    /\ count \in [posts : Nat, events : 0..MaxEvents, deletes : 0..MaxDeletes, faults : 0..MaxAuditFaults]

AuditInit ==
    /\ saved = NoAudit /\ threads = {} /\ replies = {}
    /\ queue = <<>> /\ job = [c \in Callers |-> Resting]
    /\ told = {} /\ whole = TRUE
    /\ count = [posts |-> 0, events |-> 0, deletes |-> 0, faults |-> 0]

---------------------------------------------------------------------------
(* applyEvent: a record after an event, whose entry, if any, is number id. *)

Line(id) == [id |-> id, net |-> FALSE]
Kept(s, limit) == IF Len(s) > limit THEN Tail(s) ELSE s
Over(s, limit) == IF Len(s) > limit THEN 1 ELSE 0
Minor(r, e) ==
    LET s == Append(r.timeline, e)
    IN [r EXCEPT !.timeline = Kept(s, MaxTimeline), !.dropped = @ + Over(s, MaxTimeline)]
Major(r, id) ==
    LET s == Append(r.major, Line(id))
    IN [r EXCEPT !.major = Kept(s, MaxMajor), !.dropped = @ + Over(s, MaxMajor)]
WithPr(r, state) == IF r.pr = "none" THEN r ELSE [r EXCEPT !.pr = state]

(* observe: fills in only what the record lacks, and moves a pull request  *)
(* it knows only back to draft.                                            *)
Observe(r, isDraft, id) ==
    LET filled == [r EXCEPT !.work = TRUE]
    IN IF r.pr = "none" THEN Minor([filled EXCEPT !.pr = IF isDraft THEN "draft" ELSE "ready"], Line(id))
       ELSE IF isDraft /\ r.pr # "draft" THEN Minor([filled EXCEPT !.pr = "draft"], Line(id))
       ELSE filled

Transition(r, kind, id, folds) ==
    CASE kind = "minor"     -> Minor([r EXCEPT !.work = TRUE], Line(id))
      [] kind = "major"     -> Major([r EXCEPT !.work = TRUE], id)
      [] kind = "opened"    -> Major([r EXCEPT !.pr = "draft"], id)
      [] kind = "draft"     -> Observe(r, TRUE, id)
      [] kind = "found"     -> Observe(r, FALSE, id)
      [] kind = "ready"     -> IF r.pr = "ready" THEN r ELSE Major(WithPr(r, "ready"), id)
      [] kind = "reworking" -> IF r.pr = "ready" THEN [r EXCEPT !.pr = "reworking"] ELSE r
      [] kind = "ended"     -> IF r.pr = "ended" THEN r ELSE Major(WithPr(r, "ended"), id)
      [] kind = "crashed"   -> IF r.crash THEN r ELSE Major([r EXCEPT !.crash = TRUE], id)
      [] kind = "unreachable" ->
           IF folds /\ r.timeline # <<>> /\ r.timeline[Len(r.timeline)].net THEN r
           ELSE Minor(r, [id |-> id, net |-> TRUE])
      [] OTHER -> r

(* A crash stands until the next event about the ticket.                   *)
Apply(r, kind, id, folds) ==
    Transition(IF kind \in {"crashed", "unreachable", "redraw", "bump"} THEN r
               ELSE [r EXCEPT !.crash = FALSE], kind, id, folds)

(* addedMajor and addedMinor: an event adds at most one entry.             *)
Last(s) == IF s = <<>> THEN None ELSE s[Len(s)].id
Added(before, after) ==
    IF Last(after.major) # Last(before.major) THEN "major"
    ELSE IF Last(after.timeline) # Last(before.timeline) THEN "minor" ELSE "none"
Ids(r) == {r.major[i].id : i \in DOMAIN r.major} \cup {r.timeline[i].id : i \in DOMAIN r.timeline}

---------------------------------------------------------------------------
AuditFail(f) == f \in AuditFaults /\ count.faults < MaxAuditFaults /\ count' = [count EXCEPT !.faults = @ + 1]
AuditGoto(c, l) == job' = [job EXCEPT ![c].pc = l]
GotoWith(c, l, r) == job' = [job EXCEPT ![c].pc = l, ![c].rec = r]

(* The chain: the next update starts when this one, its head, has an       *)
(* outcome, and a failure is an outcome.                                   *)
Done(c, ok) ==
    /\ job' = [job EXCEPT ![c] = Resting]
    /\ queue' = Tail(queue)
    /\ whole' = ok

(* record and redraw, from any loop, at any time.                          *)
Report(c) ==
    /\ job[c].pc = "idle" /\ count.events < MaxEvents
    /\ \E k \in Kinds :
         job' = [job EXCEPT ![c] = [Resting EXCEPT !.pc = "wait", !.kind = k, !.id = count.events + 1]]
    /\ queue' = Append(queue, c)
    /\ count' = [count EXCEPT !.events = @ + 1]
    /\ UNCHANGED <<saved, threads, replies, told, whole>>

MyTurnAlways(c) == TRUE
MyTurn(c) == Head(queue) = c

(* The load, and what the event makes of the record.  One that changes     *)
(* nothing is not drawn, unless there is nothing to see yet or a person    *)
(* asked.  A record not read, or not of this version, is left as found.    *)
Load(c) ==
    /\ job[c].pc = "wait" /\ MyTurn(c)
    /\ \/ \E folds \in BOOLEAN :
            LET r == Apply(saved, job[c].kind, job[c].id, folds)
                drawn == r # saved \/ job[c].kind \in {"redraw", "bump"} \/ saved.slack = None
            IN \/ /\ drawn
                  /\ job' = [job EXCEPT ![c].pc = IF saved.slack = None THEN "post" ELSE "update",
                                        ![c].rec = r, ![c].adds = Added(saved, r)]
                  /\ UNCHANGED <<queue, whole, count>>
               \/ ~drawn /\ Done(c, whole) /\ UNCHANGED count
       \/ (AuditFail("load") \/ AuditFail("unreadable")) /\ Done(c, FALSE)
    /\ UNCHANGED <<saved, threads, replies, told>>

(* publisher.update: the message is drawn whole.  A major entry, or a bump *)
(* by hand, is then broadcast; a minor one is edited into the broadcast.   *)
DrawSaved(r) == {IF th.ts = r.slack THEN [th EXCEPT !.shows = Shown(saved)] ELSE th : th \in threads}
Draw(r) == {IF th.ts = r.slack THEN [th EXCEPT !.shows = Shown(r)] ELSE th : th \in threads}
There(r) == \E th \in threads : th.ts = r.slack
Update(c) ==
    LET r == job[c].rec
        shown == r.major # <<>>
        next == IF job[c].adds = "major" \/ (job[c].kind = "bump" /\ shown) THEN "broadcast"
                ELSE IF job[c].adds = "minor" /\ r.bump # None /\ shown THEN "amend" ELSE "save"
    IN /\ job[c].pc = "update"
       /\ \/ There(r) /\ threads' = Draw(r) /\ AuditGoto(c, next) /\ UNCHANGED <<queue, whole, count>>
          \/ ~There(r) /\ AuditGoto(c, "post") /\ UNCHANGED <<threads, queue, whole, count>>
          \/ AuditFail("update") /\ Done(c, FALSE) /\ UNCHANGED threads
          \/ There(r) /\ AuditFail("lost") /\ Done(c, FALSE) /\ threads' = Draw(r)
       /\ UNCHANGED <<saved, replies, told>>

(* publisher.post: a fresh message keeps the old broadcast's name, and     *)
(* nothing is broadcast with it.                                           *)
NextTs == count.posts + 1
Post(c) ==
    LET th == [ts |-> NextTs, shows |-> Shown(job[c].rec)] IN
    /\ job[c].pc = "post"
    /\ \/ /\ threads' = threads \cup {th}
          /\ count' = [count EXCEPT !.posts = @ + 1]
          /\ GotoWith(c, "save", [job[c].rec EXCEPT !.slack = NextTs])
          /\ UNCHANGED <<queue, whole>>
       \/ AuditFail("post") /\ Done(c, FALSE) /\ UNCHANGED threads
       \/ /\ "lost" \in AuditFaults /\ count.faults < MaxAuditFaults
          /\ threads' = threads \cup {th}
          /\ count' = [count EXCEPT !.posts = @ + 1, !.faults = @ + 1]
          /\ Done(c, FALSE)
    /\ UNCHANGED <<saved, replies, told>>

(* resurface: a broadcast that fails, landed or not, costs only itself.    *)
RemoveSkipped(c) == GotoWith(c, "save", [job[c].rec EXCEPT !.bump = NextTs])
RemoveNext(c) ==
    IF job[c].rec.bump = None THEN GotoWith(c, "save", [job[c].rec EXCEPT !.bump = NextTs])
    ELSE AuditGoto(c, "remove")
Broadcast(c) ==
    /\ job[c].pc = "broadcast"
    /\ \/ /\ replies' = replies \cup {NextTs}
          /\ count' = [count EXCEPT !.posts = @ + 1]
          /\ RemoveNext(c)
       \/ AuditFail("broadcast") /\ AuditGoto(c, "save") /\ UNCHANGED replies
       \/ /\ "lost" \in AuditFaults /\ count.faults < MaxAuditFaults
          /\ replies' = replies \cup {NextTs}
          /\ count' = [count EXCEPT !.posts = @ + 1, !.faults = @ + 1]
          /\ AuditGoto(c, "save")
    /\ UNCHANGED <<saved, threads, queue, told, whole>>

(* The ticket's previous broadcast goes; one that stays is only logged.    *)
(* The update's own broadcast is the last message posted.                  *)
Remove(c) ==
    /\ job[c].pc = "remove"
    /\ \/ replies' = replies \ {job[c].rec.bump} /\ UNCHANGED count
       \/ AuditFail("remove") /\ UNCHANGED replies
    /\ GotoWith(c, "save", [job[c].rec EXCEPT !.bump = count.posts])
    /\ UNCHANGED <<saved, threads, queue, told, whole>>

(* follow: a broadcast deleted in the channel is forgotten.                *)
Amend(c) ==
    LET r == job[c].rec IN
    /\ job[c].pc = "amend"
    /\ \/ r.bump \in replies /\ AuditGoto(c, "save") /\ UNCHANGED count
       \/ r.bump \notin replies /\ GotoWith(c, "save", [r EXCEPT !.bump = None]) /\ UNCHANGED count
       \/ AuditFail("amend") /\ AuditGoto(c, "save")
    /\ UNCHANGED <<saved, threads, replies, queue, told, whole>>

(* store.save, and the caller's answer.                                    *)
Save(c) ==
    LET entry == IF job[c].adds = "none" THEN {} ELSE {job[c].id} IN
    /\ job[c].pc = "save"
    /\ \/ saved' = job[c].rec /\ Done(c, TRUE) /\ told' = told \cup entry /\ UNCHANGED count
       \/ AuditFail("save") /\ Done(c, FALSE) /\ UNCHANGED <<saved, told>>
       \/ AuditFail("lost") /\ saved' = job[c].rec /\ Done(c, FALSE) /\ UNCHANGED told
    /\ UNCHANGED <<threads, replies>>

(* A person deletes a message in the channel.                              *)
Delete ==
    /\ count.deletes < MaxDeletes
    /\ \/ \E th \in threads : threads' = threads \ {th} /\ UNCHANGED replies
       \/ \E b \in replies : replies' = replies \ {b} /\ UNCHANGED threads
    /\ count' = [count EXCEPT !.deletes = @ + 1]
    /\ UNCHANGED <<saved, queue, job, told, whole>>

Work(c) == Load(c) \/ Update(c) \/ Post(c) \/ Broadcast(c) \/ Remove(c) \/ Amend(c) \/ Save(c)
Rest == (\A c \in Callers : job[c].pc = "idle") /\ UNCHANGED auditVars

AuditNext == Delete \/ Rest \/ \E c \in Callers : Report(c) \/ Work(c)

AuditSpec == AuditInit /\ [][AuditNext]_auditVars

---------------------------------------------------------------------------
(* An entry whose caller was told it was recorded is in the record, or is  *)
(* one of those the record says it dropped: the loops' updates never write *)
(* over one another (notifier.ts, enqueue), and the limits count what they *)
(* cut (audit.ts, minor and major).                                        *)
EntriesKept == Cardinality(told \ Ids(saved)) <= saved.dropped

Quiet == \A c \in Callers : job[c].pc \in {"idle", "wait"}

(* After an update that left nothing undone, the message in the channel,   *)
(* if nobody deleted it, shows what the record says: what a person reads   *)
(* and what the next update starts from are one (notifier.ts, apply).      *)
DrawnIsSaved ==
    Quiet /\ whole => \A th \in threads : th.ts = saved.slack => th.shows = Shown(saved)

(* Between updates a ticket has one message and one broadcast in the       *)
(* channel, plus one for each call that failed: deletions by people, and   *)
(* the fresh messages that follow them, leave no second one behind         *)
(* (notifier.ts, resurface and apply).                                     *)
OnePerTicket ==
    Quiet => /\ Cardinality(threads) <= 1 + count.faults
             /\ Cardinality(replies) <= 1 + count.faults
=============================================================================
