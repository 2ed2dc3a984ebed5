----------------------------- MODULE TriageGate -----------------------------
(***************************************************************************)
(* One ticket's triage from the model's answer to what is on the board     *)
(* (src/src/triage/runner.ts, fitness-note.ts, gate.ts, poster.ts, and     *)
(* createGroom of wiring.ts).  A session that cannot write returns a       *)
(* verdict and a mutation; code renders its fitness call into the comment, *)
(* refuses what contradicts itself, and hands the rest to a second session *)
(* that applies it call by call, while people move labels.  A comment is a *)
(* sequence of lines told apart only as far as the code does; a label, a   *)
(* repository or a stream is a name.                                       *)
(***************************************************************************)
EXTENDS Integers, Sequences, FiniteSets

CONSTANTS
    Payloads,   \* what a session may return, as it returns it
    MaxRounds,  \* bound: triages of the ticket
    MaxEdits,   \* bound: label edits by people
    MaxFaults   \* bound: poster's calls that fail, or sessions that die

(* A line of a comment: the verdict's heading, an agent-fitness block's    *)
(* first line by what it says, and the footer sentinel alone on its line,  *)
(* or after other text on it.                                              *)
Marker == {"yes", "no", "watch"}
Line == Marker \cup {"banner", "text", "sep", "legend", "footer", "tailfooter"}
Label == {"agent:start", "agent:solving", "agent:solvable", "agent:watching",
          "dor:pass", "team:a", "team:b", "human"}
Namespace == [l \in Label |->
    CASE l \in {"agent:start", "agent:solving", "agent:solvable", "agent:watching"} -> "agent:"
      [] l \in {"team:a", "team:b"} -> "team:"
      [] l = "dor:pass" -> "dor:"
      [] OTHER -> "none"]
Owned == {"agent:", "dor:"}
Revisable == {"team:"}
TriageOwned == {"agent:solvable", "agent:watching"}
PolicyStreams == {"stream"}

(* TriagePayload, with its Mutation and AgentFitness.  rows are those of   *)
(* the placeholders left in the ticket; keyed says that the body names it. *)
Payload == [verdict : {"ready-ish", "send-back"}, labels : SUBSET Label, rows : SUBSET Nat,
            body : Seq(Line), keyed : BOOLEAN, add : SUBSET Label, remove : SUBSET Label,
            component : {"", "stream", "other"}, create : BOOLEAN,
            solvable : BOOLEAN, plausible : BOOLEAN, blockers : BOOLEAN, repo : BOOLEAN]

ASSUME PayloadAssumption == Payloads \subseteq Payload
ASSUME BoundAssumption == {MaxRounds, MaxEdits, MaxFaults} \subseteq Nat

VARIABLES
    ticket,   \* the issue in Jira: its labels, its components, its triage comment
    job,      \* where the triage is, its payload, the labels the poster read
    refusal,  \* a rejection stands in the output directory
    past,     \* history: what the posted payload called for, and whether it
              \* was posted since the last refusal
    count     \* triages, edits and faults so far

vars == <<ticket, job, refusal, past, count>>

Nothing == [verdict |-> "send-back", labels |-> {}, rows |-> {}, body |-> <<>>, keyed |-> FALSE,
            add |-> {}, remove |-> {}, component |-> "", create |-> FALSE, solvable |-> FALSE,
            plausible |-> FALSE, blockers |-> FALSE, repo |-> FALSE]
Idle == [pc |-> "idle", payload |-> Nothing, read |-> {}]

TypeOK ==
    /\ ticket \in [labels : SUBSET Label, streams : SUBSET {"stream", "other"}, comment : Seq(Line)]
    /\ job \in [pc : {"idle", "comment", "read", "labels", "component"},
                payload : Payload, read : SUBSET Label]
    /\ refusal \in BOOLEAN
    /\ past \in [called : SUBSET Marker, posted : BOOLEAN]
    /\ count \in [rounds : 0..MaxRounds, edits : 0..MaxEdits, faults : 0..MaxFaults]

Init ==
    /\ ticket = [labels |-> {}, streams |-> {}, comment |-> <<>>]
    /\ job = Idle /\ refusal = FALSE
    /\ past = [called |-> {}, posted |-> FALSE]
    /\ count = [rounds |-> 0, edits |-> 0, faults |-> 0]

---------------------------------------------------------------------------
(* runner.ts: a row the model did not give, or that does not exist, is 0,  *)
(* and blocks like rows 1 to 3.                                            *)
Unattributed == 0
Parsed(p) == [p EXCEPT !.rows = {IF r \in 1..10 THEN r ELSE Unattributed : r \in @}]
Blocking(rows) == rows \cap {Unattributed, 1, 2, 3}
IncoherentPass(p) == Blocking(p.rows) # {} /\ "dor:pass" \in p.labels
Incoherent(p) == Blocking(p.rows) # {} /\ ("dor:pass" \in p.labels \/ p.verdict = "ready-ish")

---------------------------------------------------------------------------
(* fitness-note.ts: the block says what the payload's fitness says, and    *)
(* every block the model wrote goes.                                       *)
BuildNote(p) ==
    IF p.verdict = "ready-ish" THEN <<"sep", IF p.solvable THEN "yes" ELSE "no", "text">>
    ELSE IF p.plausible THEN <<"sep", "watch", "text">> ELSE <<>>

LastIn(s, lines) ==
    LET at == {i \in DOMAIN s : s[i] \in lines}
    IN IF at = {} THEN 0 ELSE CHOOSE i \in at : \A j \in at : j <= i
Unruled(s) == SubSeq(s, 1, LastIn(s, {s[i] : i \in DOMAIN s} \ {"sep"}))

StripLine(st, l) ==
    IF l \in Marker THEN [kept |-> Unruled(st.kept), inBlock |-> TRUE]
    ELSE IF ~st.inBlock THEN [st EXCEPT !.kept = Append(@, l)]
    ELSE IF l \in {"sep", "legend", "footer"} THEN [kept |-> Append(st.kept, l), inBlock |-> FALSE]
    ELSE st
Strip(body) ==
    LET st[n \in 0..Len(body)] ==
            IF n = 0 THEN [kept |-> <<>>, inBlock |-> FALSE] ELSE StripLine(st[n - 1], body[n])
    IN st[Len(body)].kept

LegendAbove(body) ==
    LET at == LastIn(body, {"footer"})
    IN IF at > 0 /\ SubSeq(body, at + 1, Len(body)) = <<"legend">>
       THEN SubSeq(body, 1, at - 1) \o <<"legend", "footer">> ELSE body

(* The body as the note's writer has it, and whether it ends in a footer   *)
(* for the note to stand above.                                            *)
Enders == {"footer", "tailfooter"}
Tidied(body) == LegendAbove(Strip(body))
Footed(body) == LastIn(Tidied(body), Enders) # 0

(* The note goes before the last sentinel; text before it on its own line  *)
(* stays above the note.                                                   *)
WithNoteIfAny(p) ==
    LET tidied == Tidied(p.body)
        at == LastIn(tidied, Enders)
    IN IF at = 0 \/ BuildNote(p) = <<>> THEN p
       ELSE [p EXCEPT !.body = SubSeq(tidied, 1, at - 1) \o BuildNote(p) \o SubSeq(tidied, at, Len(tidied))]
WithNote(p) ==
    LET tidied == Tidied(p.body)
        at == LastIn(tidied, Enders)
        above == IF tidied[at] = "tailfooter" THEN <<"text">> ELSE <<>>
    IN IF at = 0 \/ (BuildNote(p) = <<>> /\ tidied = p.body) THEN p
       ELSE [p EXCEPT !.body = SubSeq(tidied, 1, at - 1) \o above \o BuildNote(p)
                               \o <<"footer">> \o SubSeq(tidied, at + 1, Len(tidied))]

---------------------------------------------------------------------------
(* gate.ts: what makes a mutation unpostable.                              *)
BadComment(p) ==
    LET n == Len(p.body)
    IN \/ n = 0 \/ ~p.keyed
       \/ \A i \in 1..n : p.body[i] # "banner"
       \/ p.body[n] \notin Enders
       \/ Cardinality({i \in 1..n : p.body[i] \in Marker}) > 1

BadRemovalHuman(p) == \E l \in p.remove : Namespace[l] \notin Owned \cup Revisable
BadRemoval(p) ==
    \E l \in p.remove :
        /\ Namespace[l] \notin Owned
        /\ Namespace[l] \in Revisable => \A a \in p.add : Namespace[a] # Namespace[l]
BadAgentLabel(p) == \E l \in p.add \cup p.remove : Namespace[l] = "agent:" /\ l \notin TriageOwned
BadLabels(p) ==
    \/ BadRemoval(p)
    \/ BadAgentLabel(p)
    \/ ~(p.add \subseteq p.labels)
    \/ Blocking(p.rows) # {} /\ "dor:pass" \in p.add

OmittedNever(p, l) == FALSE
Omitted(p, l) == p.create /\ l \in p.labels /\ l \notin p.add
BadSolvable(p) ==
    \/ p.solvable /\ (p.verdict # "ready-ish" \/ p.blockers \/ ~p.repo)
    \/ p.solvable # ("agent:solvable" \in p.labels)
    \/ Omitted(p, "agent:solvable")
BadPlausible(p) ==
    \/ p.plausible /\ (p.solvable \/ ~p.blockers)
    \/ p.plausible # ("agent:watching" \in p.labels)
    \/ Omitted(p, "agent:watching")
BadComponent(p) == p.component \notin PolicyStreams \cup {""}

Unpostable(p) ==
    BadComment(p) \/ BadLabels(p) \/ BadSolvable(p) \/ BadPlausible(p) \/ BadComponent(p)

---------------------------------------------------------------------------
(* assertPostable.  A refusal is kept beside the output, and goes before   *)
(* the write of a later payload, not after it.                             *)
Gate(p) ==
    IF Unpostable(p) THEN job' = Idle /\ refusal' = TRUE /\ past' = [past EXCEPT !.posted = FALSE]
    ELSE job' = [job EXCEPT !.pc = "comment", !.payload = p] /\ refusal' = FALSE /\ UNCHANGED past

(* The session's answer: one made from nothing, or one that takes the      *)
(* comment on the ticket for its own body.  An incoherent answer throws,   *)
(* and leaves everything as it was.                                        *)
Triage ==
    /\ job.pc = "idle" /\ count.rounds < MaxRounds
    /\ count' = [count EXCEPT !.rounds = @ + 1]
    /\ \E raw \in Payloads :
         \E body \in {raw.body} \cup (IF ticket.comment = <<>> THEN {} ELSE {ticket.comment}) :
           LET p == Parsed([raw EXCEPT !.body = body])
           IN IF Incoherent(p) THEN UNCHANGED <<job, refusal, past>> ELSE Gate(WithNote(p))
    /\ UNCHANGED ticket

(* A call of the poster's that fails is noted and the next is made; a      *)
(* session that dies makes no more.                                        *)
Fault(next) ==
    /\ count.faults < MaxFaults
    /\ count' = [count EXCEPT !.faults = @ + 1]
    /\ job' \in {Idle, next}
    /\ UNCHANGED <<ticket, past>>

(* What the comment is to say, for the history. *)
CallFor(p) ==
    IF p.verdict = "ready-ish" THEN {IF p.solvable THEN "yes" ELSE "no"}
    ELSE IF p.plausible THEN {"watch"} ELSE {}

(* The comment is made, or found by its author and sentinel and replaced.  *)
AfterComment ==
    LET p == job.payload
    IN [job EXCEPT !.pc = IF p.add \cup p.remove # {} THEN "read" ELSE "component"]
PostComment ==
    /\ job.pc = "comment"
    /\ \/ /\ ticket' = [ticket EXCEPT !.comment = job.payload.body]
          /\ past' = [past EXCEPT !.called = CallFor(job.payload), !.posted = TRUE]
          /\ job' = AfterComment
          /\ UNCHANGED count
       \/ Fault(AfterComment)
    /\ UNCHANGED refusal

(* The labels are read, then all of them sent back with the delta.         *)
ReadLabels ==
    /\ job.pc = "read"
    /\ \/ /\ job' = [job EXCEPT !.pc = "labels", !.read = ticket.labels]
          /\ UNCHANGED <<ticket, past, count>>
       \/ Fault([job EXCEPT !.pc = "component"])
    /\ UNCHANGED refusal

Sent(p, read) == (read \cup p.add) \ p.remove
WriteLabels ==
    LET p == job.payload IN
    /\ job.pc = "labels"
    /\ \/ /\ ticket' = [ticket EXCEPT !.labels = Sent(p, job.read)]
          /\ job' = [job EXCEPT !.pc = "component"]
          /\ UNCHANGED <<past, count>>
       \/ Fault([job EXCEPT !.pc = "component"])
    /\ UNCHANGED refusal

SetComponent ==
    LET p == job.payload IN
    /\ job.pc = "component"
    /\ \/ /\ ticket' = [ticket EXCEPT !.streams = @ \cup ({p.component} \ {""})]
          /\ job' = Idle
          /\ UNCHANGED <<past, count>>
       \/ Fault(Idle)
    /\ UNCHANGED refusal

(* A person, or the solver, moves a label.                                 *)
Edit ==
    /\ count.edits < MaxEdits
    /\ count' = [count EXCEPT !.edits = @ + 1]
    /\ \E l \in Label : ticket' = [ticket EXCEPT !.labels = (@ \cup {l}) \ (@ \cap {l})]
    /\ UNCHANGED <<job, refusal, past>>

Next ==
    Triage \/ PostComment \/ ReadLabels \/ WriteLabels \/ SetComponent \/ Edit

Spec == Init /\ [][Next]_vars

---------------------------------------------------------------------------
(* The comment on the ticket carries exactly the note its payload's        *)
(* fitness calls for, and none where none is called for, whatever blocks   *)
(* the model wrote, copied from the comment already up, or left unclosed   *)
(* above its footer (fitness-note.ts, withFitnessNote).  Not so a comment  *)
(* with no footer but after other text in a block left open: the strip     *)
(* takes that line for the block's, and the writer, without a footer,      *)
(* returns the body as it was, with whatever it says.                      *)
Notes(c) == {i \in DOMAIN c : c[i] \in Marker}
NoteAgrees ==
    ticket.comment # <<>> /\ Footed(ticket.comment) =>
        /\ {ticket.comment[i] : i \in Notes(ticket.comment)} = past.called
        /\ Cardinality(Notes(ticket.comment)) <= 1

Written == job.pc = "labels" /\ job'.pc = "component" /\ count' = count
Gained == ticket'.labels \ job.read
Lost == job.read \ ticket'.labels

(* When triage marks a ticket as one an agent can solve, the payload       *)
(* called it ready, named a repository and no blocker, and no placeholder  *)
(* of a blocking row is left in the ticket: the checks of the parser and   *)
(* the gate compose (runner.ts, assertDorCoherent; gate.ts).               *)
GrantIsEarned ==
    [][LET p == job.payload IN
       Written /\ "agent:solvable" \in Gained =>
           p.solvable /\ p.verdict = "ready-ish" /\ p.repo /\ ~p.blockers /\ Blocking(p.rows) = {}]_vars

(* A write takes no label off that the skill does not own, grants no       *)
(* go-ahead, and leaves no namespace it may only revise empty: what people *)
(* and the solver put on the ticket stays (gate.ts, checkLabels).  Not so  *)
(* a delta that adds a label and removes it too: the gate takes it for its *)
(* own replacement, and the poster takes it off.                           *)
Replaced(ns) == \E l \in ticket'.labels : Namespace[l] = ns
BothWays(p) == p.add \cap p.remove
BoardIsKept ==
    [][Written =>
       /\ \A l \in Lost : Namespace[l] \in Owned \cup Revisable
       /\ \A l \in Lost \cup Gained : Namespace[l] = "agent:" => l \in TriageOwned
       /\ \A l \in job.read : Namespace[l] \in Revisable =>
            Replaced(Namespace[l]) \/ \E b \in BothWays(job.payload) : Namespace[b] = Namespace[l]]_vars

(* A first triage's call reaches the board: once its labels are written,   *)
(* the ticket is marked as its fitness says (gate.ts,                      *)
(* checkOwnedLabelReachesDelta), unless the delta that adds the mark       *)
(* removes it too, which the gate does not refuse.                         *)
CallReachesBoard ==
    [][LET p == job.payload IN
       Written /\ p.create =>
       /\ p.solvable => "agent:solvable" \in ticket'.labels \cup BothWays(p)
       /\ p.plausible => "agent:watching" \in ticket'.labels \cup BothWays(p)]_vars
=============================================================================
