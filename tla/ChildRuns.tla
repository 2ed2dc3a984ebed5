------------------------------ MODULE ChildRuns ------------------------------
(***************************************************************************)
(* The two places that start a process: a model session, whose event       *)
(* stream is read and whose silence and length are watched                 *)
(* (src/src/triage/session.ts), and a command, whose timer asks it to      *)
(* stop and then makes it (src/src/solve/exec.ts).  One run of either      *)
(* kind, against a child that may ignore SIGTERM, leave a descendant on    *)
(* its pipes, go on talking after it was refused, or never say a word, on  *)
(* a machine that may sleep.                                               *)
(***************************************************************************)
EXTENDS Integers

CONSTANTS
    IdleMs,     \* SESSION_IDLE_TIMEOUT_MS
    MaxRunMs,   \* the ceiling on a pass; for a command, its timeout
    Interval,   \* WATCHDOG_INTERVAL_MS
    MinInterval,\* MIN_WATCHDOG_INTERVAL_MS
    SleepDrift, \* SLEEP_DRIFT_MS
    KillGrace,  \* KILL_GRACE_MS
    NapLengths, \* how long the machine may sleep
    MaxNaps     \* bound: how often

ASSUME BudgetAssumption ==
    /\ {IdleMs, MaxRunMs, Interval, MinInterval, SleepDrift, KillGrace} \subseteq Nat \ {0}
    /\ NapLengths \subseteq Nat \ {0} /\ MaxNaps \in Nat

VARIABLES
    kind,      \* "session" or "command"
    now,       \* the wall clock, the run starting at 0
    child,     \* the process: alive, a descendant holding its pipes, deaf to SIGTERM
    asked,     \* SIGTERM was sent
    watch,     \* the watchdog: its last tick, the last activity, the sleep it credited
    stream,    \* what the stream said: the servers, a failure kept, an answer parsed
    killAt,    \* when the command's SIGKILL is due, None before its timeout
    outcome,   \* what the caller was told
    awake,     \* history: time awake since the start and since the last byte; time since the last long sleep
    naps,      \* history: sleeps, what they may lose, whether the child spoke between one and the next tick
    said       \* history: what the child has said that no answer survives

vars == <<kind, now, child, asked, watch, stream, killAt, outcome, awake, naps, said>>

None == -1
Outcomes == {"none", "value", "failed", "idle", "total", "aborted", "error", "exited", "timedOut"}

(* watchdogIntervalFor: two looks inside the smaller budget.               *)
Tick ==
    LET smaller == IF IdleMs <= MaxRunMs THEN IdleMs ELSE MaxRunMs
        half == smaller \div 2
        wanted == IF half <= Interval THEN half ELSE Interval
    IN IF wanted >= MinInterval THEN wanted ELSE MinInterval

TypeOK ==
    /\ kind \in {"session", "command"}
    /\ now \in Nat
    /\ child \in [alive : BOOLEAN, heirs : BOOLEAN, deaf : BOOLEAN]
    /\ asked \in BOOLEAN
    /\ watch \in [tick : Nat, activity : Nat, slept : Nat]
    /\ stream \in [servers : {"unseen", "connected", "missing"}, failure : BOOLEAN, parsed : BOOLEAN]
    /\ killAt \in Nat \cup {None}
    /\ outcome \in Outcomes
    /\ awake \in [total : Nat, silent : Nat, since : Nat \cup {None}]
    /\ naps \in [count : 0..MaxNaps, lost : Nat, early : BOOLEAN]
    /\ said \in [missing : BOOLEAN, refused : BOOLEAN]

Settled == outcome # "none"

(* finish, settle: only the first word counts.                             *)
Finish(o) == outcome' = IF Settled THEN outcome ELSE o

Init ==
    /\ kind \in {"session", "command"}
    /\ now = 0
    /\ child \in [alive : {TRUE}, heirs : {FALSE}, deaf : BOOLEAN]
    /\ asked = FALSE
    /\ watch = [tick |-> 0, activity |-> 0, slept |-> 0]
    /\ stream = [servers |-> "unseen", failure |-> FALSE, parsed |-> FALSE]
    /\ killAt = None
    /\ outcome = "none"
    /\ awake = [total |-> 0, silent |-> 0, since |-> None]
    /\ naps = [count |-> 0, lost |-> 0, early |-> FALSE]
    /\ said = [missing |-> FALSE, refused |-> FALSE]

(* A start that gets no child: an aborted signal, a program off the list,  *)
(* a spawn that fails.                                                     *)
NeverStarts ==
    /\ now = 0 /\ child.alive /\ ~child.heirs /\ ~Settled
    /\ stream = [servers |-> "unseen", failure |-> FALSE, parsed |-> FALSE]
    /\ child' = [child EXCEPT !.alive = FALSE]
    /\ \/ kind = "session" /\ Finish("aborted")
       \/ Finish("error")
    /\ UNCHANGED <<kind, now, asked, watch, stream, killAt, awake, naps, said>>

---------------------------------------------------------------------------
(* The session's stream.  Every byte counts as activity before it is read. *)
DriftDue == now - watch.tick - Tick >= SleepDrift
Heard ==
    /\ watch' = [watch EXCEPT !.activity = now]
    /\ awake' = [awake EXCEPT !.silent = 0]
    /\ naps' = [naps EXCEPT !.early = @ \/ DriftDue]

Speaks == kind = "session" /\ child.alive

Chatter ==
    /\ Speaks
    /\ Heard
    /\ UNCHANGED <<kind, now, child, asked, stream, killAt, outcome, said>>

(* A missing server is the run's failure, and the child is asked to go.    *)
InitEvent ==
    /\ Speaks /\ stream.servers = "unseen"
    /\ Heard
    /\ \/ stream' = [stream EXCEPT !.servers = "connected"] /\ UNCHANGED <<asked, said>>
       \/ /\ stream' = [stream EXCEPT !.servers = "missing", !.failure = TRUE]
          /\ asked' = TRUE
          /\ said' = [said EXCEPT !.missing = TRUE]
    /\ UNCHANGED <<kind, now, child, killAt, outcome>>

(* A result that is an error, or that the caller's parser refuses, is kept *)
(* as the failure; a good one is kept for the close.  Nothing asks whether *)
(* the init event came first, or at all.                                   *)
ResultEvent ==
    /\ Speaks
    /\ Heard
    /\ \/ stream' = [stream EXCEPT !.parsed = TRUE] /\ UNCHANGED said
       \/ stream' = [stream EXCEPT !.failure = TRUE] /\ said' = [said EXCEPT !.refused = TRUE]
    /\ UNCHANGED <<kind, now, child, asked, killAt, outcome>>

---------------------------------------------------------------------------
(* The child and what it leaves behind.                                    *)

(* It starts a process of its own, which inherits its pipes.               *)
Forks ==
    /\ child.alive /\ ~child.heirs
    /\ child' = [child EXCEPT !.heirs = TRUE]
    /\ UNCHANGED <<kind, now, asked, watch, stream, killAt, outcome, awake, naps, said>>

(* By itself, or for a SIGTERM it heeds.                                   *)
Exits ==
    /\ child.alive
    /\ child' = [child EXCEPT !.alive = FALSE]
    /\ UNCHANGED <<kind, now, asked, watch, stream, killAt, outcome, awake, naps, said>>

HeirExits ==
    /\ child.heirs
    /\ child' = [child EXCEPT !.heirs = FALSE]
    /\ UNCHANGED <<kind, now, asked, watch, stream, killAt, outcome, awake, naps, said>>

(* "close": the child has gone and nothing holds its pipes.  A failure     *)
(* comes before any answer.                                                *)
Closed == ~child.alive /\ ~child.heirs
VerdictAnswerFirst == IF stream.parsed THEN "value" ELSE "failed"
Verdict == IF stream.failure \/ ~stream.parsed THEN "failed" ELSE "value"
Close ==
    /\ Closed
    /\ IF kind = "session" THEN Finish(Verdict)
       ELSE Finish(IF killAt = None THEN "exited" ELSE "timedOut")
    /\ UNCHANGED <<kind, now, child, asked, watch, stream, killAt, awake, naps, said>>

Kill == child' = [child EXCEPT !.alive = FALSE]

(* The caller's signal.                                                    *)
Abort ==
    /\ kind = "session" /\ ~Settled
    /\ Kill
    /\ Finish("aborted")
    /\ UNCHANGED <<kind, now, asked, watch, stream, killAt, awake, naps, said>>

---------------------------------------------------------------------------
(* The session's watchdog.                                                 *)
TickDue == kind = "session" /\ ~Settled /\ now >= watch.tick + Tick
Drift == now - watch.tick - Tick

(* The tick that finds a sleep credits it to both budgets, and judges      *)
(* nothing.                                                                *)
CreditBack == [watch EXCEPT !.tick = now, !.slept = @ + Drift, !.activity = @ - Drift]
CreditTotalOnly == [watch EXCEPT !.tick = now, !.slept = @ + Drift]
Credit == [watch EXCEPT !.tick = now, !.slept = @ + Drift, !.activity = @ + Drift]
WakeTick ==
    /\ TickDue /\ DriftDue
    /\ watch' = Credit
    /\ UNCHANGED <<kind, now, child, asked, stream, killAt, outcome, awake, naps, said>>

IsIdle == now - watch.activity >= IdleMs
IsLongQuiet == now - watch.activity >= MaxRunMs
IsLong == now - watch.slept >= MaxRunMs
WatchTick ==
    /\ TickDue /\ ~DriftDue
    /\ watch' = [watch EXCEPT !.tick = now]
    /\ IF IsIdle THEN Kill /\ Finish("idle")
       ELSE IF IsLong THEN Kill /\ Finish("total")
       ELSE UNCHANGED <<child, outcome>>
    /\ UNCHANGED <<kind, now, asked, stream, killAt, awake, naps, said>>

(* The command's two timers.                                               *)
TermDue == kind = "command" /\ ~Settled /\ killAt = None /\ now >= MaxRunMs
TermTimerOnly ==
    /\ TermDue
    /\ asked' = TRUE
    /\ UNCHANGED <<kind, now, child, watch, stream, killAt, outcome, awake, naps, said>>
TermTimer ==
    /\ TermDue
    /\ asked' = TRUE
    /\ killAt' = now + KillGrace
    /\ UNCHANGED <<kind, now, child, watch, stream, outcome, awake, naps, said>>

KillDue == kind = "command" /\ ~Settled /\ killAt # None /\ now >= killAt /\ child.alive
KillTimer ==
    /\ KillDue
    /\ Kill
    /\ UNCHANGED <<kind, now, asked, watch, stream, killAt, outcome, awake, naps, said>>

(* A child that heeds SIGTERM is gone before the clock moves on.           *)
Heeds == asked /\ ~child.deaf /\ child.alive

(* Time matters while a timer is set; an awake event loop fires it on      *)
(* time.                                                                   *)
Pending == ~Settled /\ (kind = "command" => killAt = None \/ child.alive)
Later(n) == IF awake.since = None \/ awake.since >= Tick THEN None ELSE awake.since + n
Clock ==
    /\ Pending
    /\ ~TickDue /\ ~TermDue /\ ~KillDue /\ ~Heeds
    /\ now' = now + 1
    /\ awake' = [total |-> awake.total + 1, silent |-> awake.silent + 1,
                 since |-> Later(1)]
    /\ UNCHANGED <<kind, child, asked, watch, stream, killAt, outcome, naps, said>>

(* The machine sleeps, and the timers come due on waking.  A tick that     *)
(* follows a long sleep must notice it, and its credit may fall short by   *)
(* what the tick still had to wait; a short sleep may be lost whole.       *)
LongNap(n) == n >= Tick + SleepDrift
Nap ==
    /\ Pending /\ naps.count < MaxNaps
    /\ \E n \in NapLengths :
         /\ now' = now + n
         /\ awake' = [awake EXCEPT !.since = IF LongNap(n) THEN 0 ELSE Later(n)]
         /\ naps' = [naps EXCEPT !.count = @ + 1, !.lost = @ + IF LongNap(n) THEN Tick ELSE n]
    /\ UNCHANGED <<kind, child, asked, watch, stream, killAt, outcome, said>>

Timers == WakeTick \/ WatchTick \/ TermTimer \/ KillTimer

Next ==
    \/ NeverStarts \/ Chatter \/ InitEvent \/ ResultEvent
    \/ Forks \/ Exits \/ HeirExits \/ Close \/ Abort
    \/ Timers \/ Clock \/ Nap

Spec == Init /\ [][Next]_vars

(* Time passes, timers fire, a close is delivered, a signal that is heeded *)
(* works, and a descendant of a command ends sometime.  A child owes       *)
(* nothing.                                                                *)
FairSpec ==
    /\ Spec
    /\ WF_vars(Clock) /\ WF_vars(Timers) /\ WF_vars(Close)
    /\ WF_vars(Heeds /\ Exits)
    /\ WF_vars(kind = "command" /\ ~child.alive /\ HeirExits)

---------------------------------------------------------------------------
(* What the caller is told is so.  An answer comes from a run that named   *)
(* no missing server and never failed, whatever else it printed; a command *)
(* that ended has left nothing alive over the worktree; a child that was   *)
(* judged is dead.                                                         *)
ReportIsTrue ==
    /\ outcome = "value" => ~said.missing /\ ~said.refused
    /\ outcome \in {"exited", "timedOut"} => Closed
    /\ outcome \in {"idle", "total", "aborted"} => ~child.alive

(* Sleep is not silence, nor work: a child is judged on its waking time,   *)
(* give or take a tick for each long sleep and what was too short to       *)
(* notice, and never in the tick that follows a long one.                  *)
SleepIsNotSilence ==
    /\ outcome = "idle" => awake.silent + naps.lost >= IdleMs
    /\ outcome = "total" => awake.total + naps.lost >= MaxRunMs
    /\ outcome \in {"idle", "total"} => awake.since = None \/ awake.since >= Tick

(* A child is cut off, however it behaves: at its ceiling when it talks,   *)
(* at the silence limit when it does not, give or take a tick and another  *)
(* for each sleep, or the drift that passes for none if that is longer.  A *)
(* child that spoke between a waking and the tick that noticed is credited *)
(* the sleep after it spoke, and only the ceiling cuts it.                 *)
Slack == IF SleepDrift <= Tick THEN Tick ELSE SleepDrift
Late == (naps.count + 1) * Slack
RunIsCut ==
    kind = "session" /\ ~Settled =>
        /\ awake.total <= MaxRunMs + Late
        /\ ~naps.early => awake.silent <= IdleMs + Late

(* The caller always gets an answer.                                       *)
Settles == <>Settled
=============================================================================
