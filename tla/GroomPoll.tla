----------------------------- MODULE GroomPoll -----------------------------
(***************************************************************************)
(* Discovery of new tickets: the grooming loop of the daemon and           *)
(* `poll:once`, each running cycles of load, search, triage and save over  *)
(* one state file (src/src/poller.ts, src/src/state/store.ts,              *)
(* src/src/triage/order.ts, src/src/jira/jql.ts).  A cycle finds tickets   *)
(* by a time window behind a cursor; the keys already seen are what stops  *)
(* a second triage, which costs money and posts to the ticket.             *)
(***************************************************************************)
EXTENDS Integers, Sequences, FiniteSets, FiniteSetsExt, SequencesExt

CONSTANTS
    Tickets,     \* issue numbers, which order tickets created together
    Pollers,     \* processes that poll: the daemon, and poll:once
    Daemons,     \* the ones whose loop goes on to another cycle
    Overlap,     \* CURSOR_OVERLAP_MS, in minutes
    FirstRun,    \* FIRST_RUN_LOOKBACK_MINUTES
    SeenCap,     \* MAX_SEEN_KEYS
    PageCap,     \* MAX_PAGES full pages of a search
    Lag,         \* how long Jira's index may take to show a ticket
    FirstCursor, \* the cursor the file starts with
    MaxTime,     \* bound: the last minute of an instance
    Faults,      \* what may go wrong
    MaxFails     \* bound: how many times

None == -1
PollFault == {"triage", "sink", "save", "crash", "stop", "search"}

ASSUME TicketsAssumption == Tickets \subseteq Nat /\ IsFiniteSet(Tickets)
ASSUME PollersAssumption == Daemons \subseteq Pollers
ASSUME WindowAssumption  == Overlap \in Nat /\ FirstRun \in Nat /\ Lag \in Nat /\ Lag <= Overlap
ASSUME CapsAssumption    == SeenCap \in Nat /\ PageCap \in 1..SeenCap
ASSUME CursorAssumption  == FirstCursor \in {None, 0}
ASSUME BoundsAssumption  == MaxTime \in Nat /\ MaxFails \in Nat /\ Faults \subseteq PollFault

VARIABLES
    now,       \* minutes
    created,   \* when each ticket was created, None before that
    visible,   \* the tickets Jira's index shows
    file,      \* the state file
    pc,        \* where each poller is
    mem,       \* its copy of the state
    fresh,     \* the unseen tickets of its search
    queue,     \* those it has not tried yet
    done,      \* those it has triaged in this cycle
    at,        \* the one whose triage it is saving
    paid,      \* history: triages paid for
    kept,      \* history: tickets whose key the file has held
    faults     \* how much of MaxFails is used

jira   == <<now, created, visible>>
cycle  == <<mem, fresh, queue, done, at>>
history == <<paid, kept>>
pollVars   == <<jira, file, pc, cycle, history, faults>>

Time == 0..MaxTime
State == [cursor : Time \cup {None}, seen : Seq(Tickets)]
NoState == [cursor |-> None, seen |-> <<>>]
Seen(s) == ToSet(s.seen)

PollTypeOK ==
    /\ now \in Time
    /\ created \in [Tickets -> Time \cup {None}]
    /\ visible \subseteq {t \in Tickets : created[t] # None}
    /\ file \in State
    /\ pc \in [Pollers -> {"idle", "search", "queue", "save"}]
    /\ mem \in [Pollers -> State]
    /\ fresh \in [Pollers -> SUBSET Tickets]
    /\ queue \in [Pollers -> SUBSET Tickets]
    /\ done \in [Pollers -> SUBSET Tickets]
    /\ at \in [Pollers -> Tickets \cup {None}]
    /\ paid \in [Tickets -> Nat]
    /\ kept \subseteq Tickets
    /\ faults \in 0..MaxFails
    /\ \A p \in Pollers : queue[p] \cup done[p] \subseteq fresh[p]

PollInit ==
    /\ now = 0
    /\ created = [t \in Tickets |-> None]
    /\ visible = {}
    /\ file = [cursor |-> FirstCursor, seen |-> <<>>]
    /\ pc = [p \in Pollers |-> "idle"]
    /\ mem = [p \in Pollers |-> NoState]
    /\ fresh = [p \in Pollers |-> {}]
    /\ queue = [p \in Pollers |-> {}]
    /\ done = [p \in Pollers |-> {}]
    /\ at = [p \in Pollers |-> None]
    /\ paid = [t \in Tickets |-> 0]
    /\ kept = {}
    /\ faults = 0

---------------------------------------------------------------------------
(* byCreatedAscending: oldest first, ties by key.                          *)
Before(t, u) == created[t] < created[u] \/ (created[t] = created[u] /\ t < u)

(* lookbackMinutes: with no cursor the window is the first run's, which    *)
(* slides with the clock; with one it is anchored to it.                   *)
WindowNoOverlap(cursor) == IF cursor = None THEN now - FirstRun ELSE cursor + 1
Window(cursor) == IF cursor = None THEN now - FirstRun ELSE cursor - Overlap

(* search: the oldest tickets of the window, up to the page limit.         *)
Found(cursor) ==
    LET matching == {t \in visible : created[t] >= Window(cursor)} IN
    {t \in matching : Cardinality({u \in matching : Before(u, t)}) < PageCap}

(* settledCursor: the last success in an unbroken run from the oldest.     *)
SettledNewest(candidates, ok) ==
    IF ok = {} THEN None ELSE CHOOSE c \in {created[t] : t \in ok} : \A t \in ok : created[t] <= c
Settled(candidates, ok) ==
    LET run == {t \in ok : \A u \in candidates \ ok : Before(t, u)} IN
    IF run = {} THEN None ELSE Max({created[t] : t \in run})

(* recordSeen: the key appended once, the list cut to its newest, and a    *)
(* null cursor leaving the old one.                                        *)
Record(s, t, cursor) ==
    LET keys == IF t \in Seen(s) THEN s.seen ELSE Append(s.seen, t) IN
    [cursor |-> IF cursor = None THEN s.cursor ELSE cursor,
     seen   |-> SubSeq(keys, Len(keys) - Min({SeenCap, Len(keys)}) + 1, Len(keys))]

---------------------------------------------------------------------------
Goto(p, l) == pc' = [pc EXCEPT ![p] = l]
Fail(f) == f \in Faults /\ faults < MaxFails /\ faults' = faults + 1

(* The end of a cycle forgets everything but the file.                     *)
EndCycle(p) ==
    /\ Goto(p, "idle")
    /\ mem' = [mem EXCEPT ![p] = NoState]
    /\ fresh' = [fresh EXCEPT ![p] = {}]
    /\ queue' = [queue EXCEPT ![p] = {}]
    /\ done' = [done EXCEPT ![p] = {}]
    /\ at' = [at EXCEPT ![p] = None]

(* loadState, at the head of every cycle.                                  *)
LoadStale(p) ==
    /\ pc[p] = "idle"
    /\ mem' = [mem EXCEPT ![p].cursor = file.cursor]
    /\ Goto(p, "search")
    /\ UNCHANGED <<jira, file, fresh, queue, done, at, history, faults>>
Load(p) ==
    /\ pc[p] = "idle"
    /\ mem' = [mem EXCEPT ![p] = file]
    /\ Goto(p, "search")
    /\ UNCHANGED <<jira, file, fresh, queue, done, at, history, faults>>

Search(p) ==
    /\ pc[p] = "search"
    /\ LET new == Found(mem[p].cursor) \ Seen(mem[p]) IN
       \/ new = {} /\ EndCycle(p) /\ UNCHANGED faults
       \/ /\ new # {}
          /\ fresh' = [fresh EXCEPT ![p] = new]
          /\ queue' = [queue EXCEPT ![p] = new]
          /\ Goto(p, "queue")
          /\ UNCHANGED <<mem, done, at, faults>>
       \/ Fail("search") /\ EndCycle(p)
    /\ UNCHANGED <<jira, file, history>>

(* One triage, in whatever order TRIAGE_STATUS_PRIORITY makes of the       *)
(* statuses.  It can fail before anything was posted, or after: the poster *)
(* answers without a receipt, or the report cannot be written.             *)
TriageOne(p, t) ==
    /\ pc[p] = "queue" /\ t \in queue[p]
    /\ queue' = [queue EXCEPT ![p] = @ \ {t}]
    /\ \/ /\ paid' = [paid EXCEPT ![t] = @ + 1]
          /\ at' = [at EXCEPT ![p] = t]
          /\ done' = [done EXCEPT ![p] = @ \cup {t}]
          /\ Goto(p, "save")
          /\ UNCHANGED faults
       \/ Fail("triage") /\ UNCHANGED <<paid, at, done, pc>>
       \/ Fail("sink") /\ paid' = [paid EXCEPT ![t] = @ + 1] /\ UNCHANGED <<at, done, pc>>
    /\ UNCHANGED <<jira, file, mem, fresh, kept>>

(* After each success, not after the loop.  A save that fails leaves the   *)
(* key in memory, so the next save of the cycle writes it too.             *)
Save(p) ==
    LET s == Record(mem[p], at[p], Settled(fresh[p], done[p])) IN
    /\ pc[p] = "save"
    /\ mem' = [mem EXCEPT ![p] = s]
    /\ \/ file' = s /\ kept' = kept \cup Seen(s) /\ UNCHANGED faults
       \/ Fail("save") /\ UNCHANGED <<file, kept>>
    /\ at' = [at EXCEPT ![p] = None]
    /\ Goto(p, "queue")
    /\ UNCHANGED <<jira, fresh, queue, done, paid>>

Finish(p) ==
    /\ pc[p] = "queue"
    /\ queue[p] = {}
    /\ EndCycle(p)
    /\ UNCHANGED <<jira, file, history, faults>>

(* A stop is honoured between two tickets, never inside a triage; poll:once*)
(* is given no signal.                                                     *)
Stop(p) ==
    /\ p \in Daemons /\ pc[p] = "queue" /\ queue[p] # {}
    /\ Fail("stop")
    /\ EndCycle(p)
    /\ UNCHANGED <<jira, file, history>>

Crash(p) ==
    /\ pc[p] # "idle"
    /\ Fail("crash")
    /\ EndCycle(p)
    /\ UNCHANGED <<jira, file, history>>

---------------------------------------------------------------------------
(* Jira: people create tickets, the index shows them within Lag.           *)
Create(t) ==
    /\ created[t] = None
    /\ created' = [created EXCEPT ![t] = now]
    /\ UNCHANGED <<now, visible, file, pc, cycle, history, faults>>

Index(t) ==
    /\ created[t] # None /\ t \notin visible
    /\ visible' = visible \cup {t}
    /\ UNCHANGED <<now, created, file, pc, cycle, history, faults>>

Minute ==
    /\ now < MaxTime
    /\ \A t \in Tickets : created[t] = None \/ t \in visible \/ now - created[t] < Lag
    /\ now' = now + 1
    /\ UNCHANGED <<created, visible, file, pc, cycle, history, faults>>

Poll(p) == Load(p) \/ Search(p) \/ (\E t \in Tickets : TriageOne(p, t)) \/ Save(p) \/ Finish(p)

PollNext ==
    \/ \E p \in Pollers : Poll(p) \/ Stop(p) \/ Crash(p)
    \/ \E t \in Tickets : Create(t) \/ Index(t)
    \/ Minute

PollSpec == PollInit /\ [][PollNext]_pollVars

(* A daemon's loop runs cycle after cycle, and the index does show every   *)
(* ticket.  poll:once, the clock and people owe nothing.                   *)
Fairness ==
    /\ \A p \in Daemons : WF_pollVars(Poll(p))
    /\ \A t \in Tickets : WF_pollVars(Index(t))

FairSpec == PollSpec /\ Fairness

---------------------------------------------------------------------------
(* A ticket Jira shows and nobody has handled is in the window of the next *)
(* cycle: neither the cursor, nor the order triage went in, nor the index  *)
(* being late, nor a save that fails puts it out of reach.                 *)
NoneSkipped ==
    \A t \in visible : t \notin kept => created[t] >= Window(file.cursor)

(* A key on disk is never triaged again, though its ticket stays in the    *)
(* overlapping window.                                                     *)
PaidOnce == [][\A t \in Tickets : paid'[t] # paid[t] => t \notin Seen(file)]_pollVars

(* Every ticket is triaged in the end, once triages stop failing.          *)
EveryTicketTriaged == \A t \in Tickets : created[t] # None ~> t \in kept
=============================================================================
