---------------------------- MODULE DraftFiling ----------------------------
(***************************************************************************)
(* From a drafted ticket to a Jira issue: the Slack listener drafts a      *)
(* ticket off its promise chain, keeps a record of it, sends a message     *)
(* with a Post to Jira button, and files the draft when its asker presses  *)
(* it (src/src/slack/draft.ts, src/src/draft/offer.ts,                     *)
(* src/src/draft/pending.ts, src/src/slack/post.ts, src/src/draft/filer.ts,*)
(* src/src/slack/socket.ts).  Creating an issue cannot be asked about      *)
(* afterwards, so two marks on the record are all that stops a second one. *)
(***************************************************************************)
EXTENDS Naturals, Sequences

CONSTANTS
    Drafts,      \* record ids, one per draft asked for
    Users,       \* people on Slack
    Allowed,     \* SLACK_DRAFT_USERS
    Listeners,   \* processes holding a Socket Mode connection
    Live,        \* the ones started with --write or SLACK_LISTEN=live
    MaxPresses,  \* bound: deliveries of a press, resent ones included
    Faults,      \* what may go wrong in this instance
    MaxFaults    \* bound: how many times it does

Fault == {"read", "write", "send_lost", "send_refused", "discard", "crash"}

ASSUME PeopleAssumption == Allowed \subseteq Users /\ Live \subseteq Listeners
ASSUME BoundsAssumption == MaxPresses \in Nat /\ MaxFaults \in Nat /\ Faults \subseteq Fault

Nobody == "nobody"
NoDraft == "no draft"
NoRecord == [asker |-> Nobody, filing |-> FALSE, filed |-> FALSE]
ASSUME NamesAssumption == Nobody \notin Users /\ NoDraft \notin Drafts

VARIABLES
    record,    \* state/pending-drafts: one file per draft
    button,    \* drafts whose message with the button is in Slack
    issues,    \* issues Jira holds of each draft
    orphans,   \* drafts whose writer outlived its listener
    asked,     \* who asked for each draft
    chain,     \* each listener's promise chain: what it has heard and not begun
    pc, at,    \* the press it is handling, and that press's draft
    copy,      \* the record as update() read it
    drafting,  \* the draft it has running, off the chain
    stopping,  \* listeners whose AbortSignal fired
    presses, faults  \* how much of the two bounds is used

jira    == <<issues, orphans>>
slack   == <<button, asked, presses>>
press   == <<pc, at, copy>>
vars    == <<record, jira, slack, chain, press, drafting, stopping, faults>>

Record == [asker : Users, filing : BOOLEAN, filed : BOOLEAN]
Event  == [kind : {"draft", "press"}, draft : Drafts, user : Users]
Updating == {"mark", "clear", "key"}
Writing == [mark |-> "markWrite", clear |-> "clearWrite", key |-> "keyWrite"]
Pc == {"idle", "gate", "mark", "markWrite", "file", "clear", "clearWrite", "key", "keyWrite"}
NoRun == [draft |-> NoDraft, stage |-> "none"]

TypeOK ==
    /\ record \in [Drafts -> Record \cup {NoRecord}]
    /\ button \subseteq Drafts /\ orphans \subseteq Drafts
    /\ issues \in [Drafts -> Nat]
    /\ asked \in [Drafts -> Users \cup {Nobody}]
    /\ chain \in [Listeners -> Seq(Event)]
    /\ pc \in [Listeners -> Pc]
    /\ at \in [Listeners -> Drafts \cup {NoDraft}]
    /\ copy \in [Listeners -> Record \cup {NoRecord}]
    /\ drafting \in [Listeners -> [draft : Drafts \cup {NoDraft},
                                   stage : {"none", "session", "kept", "unsent"}]]
    /\ stopping \subseteq Listeners
    /\ presses \in 0..MaxPresses /\ faults \in 0..MaxFaults
    /\ \A l \in Listeners :
         /\ pc[l] # "idle" => at[l] \in Drafts
         /\ pc[l] \in {"markWrite", "clearWrite", "keyWrite"} => copy[l] \in Record
         /\ drafting[l].stage # "none" => drafting[l].draft \in Drafts

Init ==
    /\ record = [d \in Drafts |-> NoRecord]
    /\ button = {} /\ orphans = {}
    /\ issues = [d \in Drafts |-> 0]
    /\ asked = [d \in Drafts |-> Nobody]
    /\ chain = [l \in Listeners |-> <<>>]
    /\ pc = [l \in Listeners |-> "idle"]
    /\ at = [l \in Listeners |-> NoDraft]
    /\ copy = [l \in Listeners |-> NoRecord]
    /\ drafting = [l \in Listeners |-> NoRun]
    /\ stopping = {}
    /\ presses = 0 /\ faults = 0

Fail(f) == f \in Faults /\ faults < MaxFaults /\ faults' = faults + 1

---------------------------------------------------------------------------
(* Slack gives each event to one connection.  A press whose acknowledgement*)
(* was lost is sent again, which is one more press.                        *)
Hear(l, e) == l \notin stopping /\ chain' = [chain EXCEPT ![l] = Append(@, e)]

Ask(l, u, d) ==
    /\ asked[d] = Nobody
    /\ asked' = [asked EXCEPT ![d] = u]
    /\ Hear(l, [kind |-> "draft", draft |-> d, user |-> u])
    /\ UNCHANGED <<record, jira, button, press, drafting, stopping, presses, faults>>

Press(l, u, d) ==
    /\ d \in button /\ presses < MaxPresses
    /\ presses' = presses + 1
    /\ Hear(l, [kind |-> "press", draft |-> d, user |-> u])
    /\ UNCHANGED <<record, jira, button, asked, press, drafting, stopping, faults>>

---------------------------------------------------------------------------
(* A draft mention begins a session off the chain, one per listener.       *)
Begin(l, kind) ==
    /\ pc[l] = "idle" /\ chain[l] # <<>> /\ Head(chain[l]).kind = kind
    /\ chain' = [chain EXCEPT ![l] = Tail(@)]

HearDraft(l) ==
    /\ Begin(l, "draft")
    /\ drafting' =
         IF Head(chain[l]).user \in Allowed /\ drafting[l] = NoRun
         THEN [drafting EXCEPT ![l] = [draft |-> Head(chain[l]).draft, stage |-> "session"]]
         ELSE drafting
    /\ UNCHANGED <<record, jira, slack, press, stopping, faults>>

(* The session ends with a ticket the gate lets through, whose record is   *)
(* kept before the message goes out; or with a message without a button:   *)
(* no ticket, a refusal, a record that could not be kept, a kill by stop.  *)
EndSession(l) ==
    LET d == drafting[l].draft IN
    /\ drafting[l].stage = "session"
    /\ \/ /\ record' = [record EXCEPT ![d] =
                          [asker |-> asked[d], filing |-> FALSE, filed |-> FALSE]]
          /\ drafting' = [drafting EXCEPT ![l].stage = "kept"]
       \/ drafting' = [drafting EXCEPT ![l] = NoRun] /\ UNCHANGED record
    /\ UNCHANGED <<jira, slack, chain, press, stopping, faults>>

(* An error from Slack does not say the message is not there.              *)
Deliver(l) ==
    LET d == drafting[l].draft IN
    /\ drafting[l].stage = "kept"
    /\ \/ /\ button' = button \cup {d}
          /\ drafting' = [drafting EXCEPT ![l] = NoRun]
          /\ UNCHANGED faults
       \/ /\ Fail("send_lost")
          /\ button' = button \cup {d}
          /\ drafting' = [drafting EXCEPT ![l].stage = "unsent"]
       \/ /\ Fail("send_refused")
          /\ drafting' = [drafting EXCEPT ![l].stage = "unsent"]
          /\ UNCHANGED button
    /\ UNCHANGED <<record, jira, asked, presses, chain, press, stopping>>

Discard(l) ==
    /\ drafting[l].stage = "unsent"
    /\ \/ record' = [record EXCEPT ![drafting[l].draft] = NoRecord] /\ UNCHANGED faults
       \/ Fail("discard") /\ UNCHANGED record
    /\ drafting' = [drafting EXCEPT ![l] = NoRun]
    /\ UNCHANGED <<jira, slack, chain, press, stopping>>

---------------------------------------------------------------------------
(* Every answer to the press ends its handling; what it says changes       *)
(* nothing, and a reply Slack refuses is only logged.                      *)
AnswerRejects(l) == pc' = [pc EXCEPT ![l] = "rejected"] /\ UNCHANGED <<at, copy>>
Answer(l) ==
    /\ pc' = [pc EXCEPT ![l] = "idle"]
    /\ at' = [at EXCEPT ![l] = NoDraft]
    /\ copy' = [copy EXCEPT ![l] = NoRecord]
Goto(l, p) == pc' = [pc EXCEPT ![l] = p] /\ UNCHANGED <<at, copy>>

PressableUnlessFiled(d, u) ==
    record[d] # NoRecord /\ u \in Allowed /\ record[d].asker = u /\ ~record[d].filed
Pressable(d, u) ==
    /\ u \in Allowed
    /\ record[d] # NoRecord /\ record[d].asker = u
    /\ ~record[d].filed /\ ~record[d].filing

HearPress(l) ==
    LET e == Head(chain[l]) IN
    /\ Begin(l, "press")
    /\ \/ /\ Pressable(e.draft, e.user)
          /\ pc' = [pc EXCEPT ![l] = "gate"]
          /\ at' = [at EXCEPT ![l] = e.draft]
          /\ UNCHANGED <<copy, faults>>
       \/ ~Pressable(e.draft, e.user) /\ Answer(l) /\ UNCHANGED faults
       \/ Fail("read") /\ Answer(l)
    /\ UNCHANGED <<record, jira, slack, drafting, stopping>>

(* Jira is asked again whether the project would take it, and a dry        *)
(* listener, which holds no writer, stops at writing the request.          *)
Gate(l) ==
    /\ pc[l] = "gate"
    /\ (l \in Live /\ Goto(l, "mark")) \/ Answer(l)
    /\ UNCHANGED <<record, jira, slack, chain, drafting, stopping, faults>>

(* update(): the record read, then written whole, with no check between.   *)
(* Whichever of the three it is, an update that throws ends the press.     *)
UpdateRead(l) ==
    /\ pc[l] \in Updating
    /\ \/ /\ record[at[l]] # NoRecord
          /\ copy' = [copy EXCEPT ![l] = record[at[l]]]
          /\ pc' = [pc EXCEPT ![l] = Writing[pc[l]]]
          /\ UNCHANGED <<at, faults>>
       \/ record[at[l]] = NoRecord /\ Answer(l) /\ UNCHANGED faults
       \/ Fail("read") /\ Answer(l)
    /\ UNCHANGED <<record, jira, slack, chain, drafting, stopping>>

UpdateWrites(l, p, rec) == pc[l] = p /\ record' = [record EXCEPT ![at[l]] = rec]

MarkWrite(l) == UpdateWrites(l, "markWrite", [copy[l] EXCEPT !.filing = TRUE]) /\ Goto(l, "file")
ClearWrite(l) == UpdateWrites(l, "clearWrite", [copy[l] EXCEPT !.filing = FALSE]) /\ Answer(l)
KeyWrite(l) == UpdateWrites(l, "keyWrite", [copy[l] EXCEPT !.filed = TRUE]) /\ Answer(l)

UpdateWrite(l) ==
    /\ pc[l] \in {"markWrite", "clearWrite", "keyWrite"}
    /\ \/ (MarkWrite(l) \/ ClearWrite(l) \/ KeyWrite(l)) /\ UNCHANGED faults
       \/ Fail("write") /\ Answer(l) /\ UNCHANGED record
    /\ UNCHANGED <<jira, slack, chain, drafting, stopping>>

(* The writer's session.  It may call its one tool more than once, and a   *)
(* session that timed out may have left a call Atlassian is still working  *)
(* on: `unclear`, which keeps the mark.                                    *)
Created(d, n) == issues' = [issues EXCEPT ![d] = @ + n]

NotCreated(l) == Created(at[l], 0) /\ Goto(l, "clear") /\ UNCHANGED orphans
FiledAs(l)    == Created(at[l], 1) /\ Goto(l, "key") /\ UNCHANGED orphans
UnclearClears(l) ==
    /\ Goto(l, "clear")
    /\ \/ \E n \in 0..2 : Created(at[l], n) /\ UNCHANGED orphans
       \/ orphans' = orphans \cup {at[l]} /\ UNCHANGED issues
Unclear(l) ==
    /\ Answer(l)
    /\ \/ \E n \in 0..2 : Created(at[l], n) /\ UNCHANGED orphans
       \/ orphans' = orphans \cup {at[l]} /\ UNCHANGED issues

File(l) ==
    /\ pc[l] = "file"
    /\ NotCreated(l) \/ FiledAs(l) \/ Unclear(l)
    /\ UNCHANGED <<record, slack, chain, drafting, stopping, faults>>

---------------------------------------------------------------------------
(* A crash forgets the chain and the running draft; a writer at work is a  *)
(* child process that may go on.                                           *)
Forget(l) ==
    /\ Answer(l)
    /\ chain' = [chain EXCEPT ![l] = <<>>]
    /\ drafting' = [drafting EXCEPT ![l] = NoRun]
    /\ stopping' = stopping \ {l}

Crash(l) ==
    /\ Fail("crash")
    /\ orphans' = IF pc[l] = "file" THEN orphans \cup {at[l]} ELSE orphans
    /\ Forget(l)
    /\ UNCHANGED <<record, issues, slack>>

OrphanEnds(d) ==
    /\ d \in orphans
    /\ orphans' = orphans \ {d}
    /\ \E n \in 0..2 : Created(d, n)
    /\ UNCHANGED <<record, slack, chain, press, drafting, stopping, faults>>

(* A stop hears no more and finishes what it has begun; the daemon is then *)
(* started again.                                                          *)
Stop(l) ==
    /\ l \notin stopping
    /\ stopping' = stopping \cup {l}
    /\ UNCHANGED <<record, jira, slack, chain, press, drafting, faults>>

Restart(l) ==
    /\ l \in stopping /\ chain[l] = <<>> /\ pc[l] = "idle" /\ drafting[l] = NoRun
    /\ stopping' = stopping \ {l}
    /\ UNCHANGED <<record, jira, slack, chain, press, drafting, faults>>

Handle(l) ==
    HearDraft(l) \/ HearPress(l) \/ Gate(l) \/ UpdateRead(l) \/ UpdateWrite(l) \/ File(l)
Draft(l) == EndSession(l) \/ Deliver(l) \/ Discard(l)

Next ==
    \/ \E l \in Listeners :
         \/ Handle(l) \/ Draft(l) \/ Stop(l) \/ Restart(l) \/ Crash(l)
         \/ \E u \in Users, d \in Drafts : Ask(l, u, d) \/ Press(l, u, d)
    \/ \E d \in Drafts : OrphanEnds(d)

Spec == Init /\ [][Next]_vars

(* A promise chain runs what is on it, and every await in it settles: the  *)
(* HTTP calls and the writer's session have timeouts.                      *)
FairSpec == Spec /\ \A l \in Listeners : WF_vars(Handle(l)) /\ WF_vars(Draft(l))
---------------------------------------------------------------------------
(* One listener makes issues of a draft in one writer's session only,      *)
(* however often the button is pressed, the listener crashes, a write of   *)
(* the record fails, or the message is taken back while a press is going.  *)
FiledOnce == [][\A d \in Drafts : issues'[d] # issues[d] => issues[d] = 0]_vars

(* What makes it so: a draft a press would still file has no issue, and no *)
(* call that may yet make one.                                             *)
PressableIsUnfiled ==
    \A d \in Drafts :
        (\E u \in Users : Pressable(d, u)) => issues[d] = 0 /\ d \notin orphans

(* What a listener has heard it gets through: no press holds up the chain  *)
(* for good, and a stopping listener drains it.                            *)
ChainDrains ==
    \A l \in Listeners : chain[l] # <<>> ~> chain[l] = <<>> /\ pc[l] = "idle"
=============================================================================
