--------------------------- MODULE GroomingProofs ---------------------------
(***************************************************************************)
(* Theorems about grooming: which tickets discovery triages, and what a    *)
(* triage leaves on the board.                                             *)
(*                                                                         *)
(* The gate's results hold for any answers a session can return, with the  *)
(* exceptions their properties name: a label a delta adds and removes too, *)
(* and a body whose footer the strip takes for a block's own.              *)
(*                                                                         *)
(* Discovery's hold for a file that starts with a cursor, with any         *)
(* failures and crashes: no ticket is skipped, however many processes      *)
(* poll, and with one of them none is paid for twice.                      *)
(***************************************************************************)
EXTENDS GroomPoll, TriageGate, FiniteSetTheorems, SequenceTheorems, WellFoundedInduction, TLAPS

(***************************************************************************)
(* The gate and the poster.                                                *)
(***************************************************************************)


(* The payload the poster has in hand has passed the parser and the gate.  *)
Passed(p) == ~Incoherent(p) /\ ~Unpostable(p)
PassedGate == job.pc # "idle" => Passed(job.payload)

(* The fields of a payload beside its body, and the shape of the job.      *)
Aside == {"verdict", "labels", "rows", "keyed", "add", "remove", "component", "create",
          "solvable", "plausible", "blockers", "repo"}
Shaped(p) == DOMAIN p = Aside \cup {"body"}
JobShape ==
    /\ DOMAIN job = {"pc", "payload", "read"}
    /\ Shaped(job.payload)
    /\ job.pc \in {"idle", "comment", "read", "labels", "component"}

(* Faults are counted, so a call that failed is told from one that did not, *)
(* and the ticket has its labels.                                          *)
Frame == count \in [rounds : Nat, edits : Nat, faults : Nat] /\ "labels" \in DOMAIN ticket

GateInv == JobShape /\ PassedGate

---------------------------------------------------------------------------
(* The parser gives each placeholder a row, and changes nothing else.      *)
LEMMA ParsedKeepsDelta ==
    ASSUME NEW raw \in Payload, NEW body
    PROVE  LET p == Parsed([raw EXCEPT !.body = body])
           IN Shaped(p) /\ p.add = raw.add /\ p.remove = raw.remove
<1>1. Shaped(raw)
  BY DEF Payload, Shaped, Aside
<1>. QED BY <1>1 DEF Parsed, Shaped, Aside

(* The note changes the body of a payload and nothing else.                *)
LEMMA NoteChangesBody ==
    ASSUME NEW p, Shaped(p)
    PROVE  Shaped(WithNote(p)) /\ \A f \in Aside : WithNote(p)[f] = p[f]
<1>1. ASSUME NEW b PROVE Shaped([p EXCEPT !.body = b]) /\ \A f \in Aside : [p EXCEPT !.body = b][f] = p[f]
  BY DEF Shaped, Aside
<1>2. WithNote(p) = p \/ \E b : WithNote(p) = [p EXCEPT !.body = b]
  BY DEF WithNote
<1>. QED BY <1>1, <1>2

(* Coherence is not about the body.                                        *)
LEMMA NoteKeepsCoherence ==
    ASSUME NEW p, Shaped(p), ~Incoherent(p)
    PROVE  ~Incoherent(WithNote(p))
<1>1. WithNote(p)["rows"] = p["rows"] /\ WithNote(p)["labels"] = p["labels"]
      /\ WithNote(p)["verdict"] = p["verdict"]
  BY NoteChangesBody DEF Aside
<1>. QED BY <1>1 DEF Incoherent, Blocking

(* A payload that passed, and grants agent:solvable, earned it.            *)
LEMMA GrantChain ==
    ASSUME NEW p, Passed(p), "agent:solvable" \in p.add
    PROVE  p.solvable /\ p.verdict = "ready-ish" /\ p.repo /\ ~p.blockers /\ Blocking(p.rows) = {}
<1>1. "agent:solvable" \in p.labels
  BY DEF Passed, Unpostable, BadLabels
<1>2. p.solvable
  BY <1>1 DEF Passed, Unpostable, BadSolvable
<1>3. p.verdict = "ready-ish" /\ ~p.blockers /\ p.repo
  BY <1>2 DEF Passed, Unpostable, BadSolvable
<1>. QED BY <1>2, <1>3 DEF Passed, Incoherent

---------------------------------------------------------------------------
(* The job at rest is in shape.                                            *)
LEMMA IdleShape == DOMAIN Idle = {"pc", "payload", "read"} /\ Shaped(Idle.payload) /\ Idle.pc = "idle"
<1>1. Shaped(Nothing)
  <2>1. DOMAIN Nothing = {"verdict", "labels", "rows", "body", "keyed", "add", "remove", "component",
                          "create", "solvable", "plausible", "blockers", "repo"}
    BY DEF Nothing
  <2>. QED BY <2>1 DEF Shaped, Aside
<1>2. DOMAIN Idle = {"pc", "payload", "read"}
  BY DEF Idle
<1>3. Idle.payload = Nothing /\ Idle.pc = "idle"
  BY DEF Idle
<1>. QED BY <1>1, <1>2, <1>3

(* What a fault leaves of the job: nothing, or the same job further on.    *)
LEMMA FaultKeepsPayload ==
    ASSUME GateInv, NEW next, Fault(next),
           DOMAIN next = DOMAIN job, next.payload = job.payload,
           next.pc \in {"idle", "read", "component"}, job.pc # "idle"
    PROVE  GateInv'
<1>1. CASE job' = Idle
  BY <1>1, IdleShape DEF GateInv, JobShape, PassedGate
<1>2. CASE job' = next
  BY <1>2 DEF GateInv, JobShape, PassedGate
<1>. QED BY <1>1, <1>2 DEF Fault

LEMMA GateInvInit == Init => GateInv
BY IdleShape DEF Init, GateInv, JobShape, PassedGate

LEMMA GateInvNext == GateInv /\ [Next]_vars => GateInv'
<1>. SUFFICES ASSUME GateInv, [Next]_vars PROVE GateInv'
  OBVIOUS
<1>1. CASE Triage
  <2>1. PICK raw \in Payloads : \E body :
          LET p == Parsed([raw EXCEPT !.body = body])
          IN IF Incoherent(p) THEN UNCHANGED <<job, refusal, past>> ELSE Gate(WithNote(p))
    BY <1>1 DEF Triage
  <2>0. PICK body :
          LET p == Parsed([raw EXCEPT !.body = body])
          IN IF Incoherent(p) THEN UNCHANGED <<job, refusal, past>> ELSE Gate(WithNote(p))
    BY <2>1
  <2>. DEFINE p == Parsed([raw EXCEPT !.body = body])
  <2>2. Shaped(p)
    BY ParsedKeepsDelta, PayloadAssumption
  <2>3. CASE Incoherent(p)
    BY <2>0, <2>3 DEF GateInv, JobShape, PassedGate
  <2>4. CASE ~Incoherent(p)
    <3>1. Gate(WithNote(p)) /\ Shaped(WithNote(p)) /\ ~Incoherent(WithNote(p))
      BY <2>0, <2>2, <2>4, NoteChangesBody, NoteKeepsCoherence
    <3>. HIDE DEF p
    <3>2. CASE Unpostable(WithNote(p))
      BY <3>1, <3>2, IdleShape DEF Gate, GateInv, JobShape, PassedGate
    <3>3. CASE ~Unpostable(WithNote(p))
      BY <3>1, <3>3 DEF Gate, GateInv, JobShape, PassedGate, Passed
    <3>. QED BY <3>2, <3>3
  <2>. QED BY <2>3, <2>4
<1>2. CASE PostComment
  <2>. DEFINE a == AfterComment
  <2>1. DOMAIN a = DOMAIN job /\ a.payload = job.payload /\ a.pc \in {"read", "component"}
    BY DEF AfterComment, GateInv, JobShape
  <2>2. CASE job' = a
    BY <1>2, <2>1, <2>2 DEF PostComment, GateInv, JobShape, PassedGate
  <2>3. CASE Fault(a)
    BY <1>2, <2>1, <2>3, FaultKeepsPayload DEF PostComment
  <2>. QED BY <1>2, <2>2, <2>3 DEF PostComment
<1>3. CASE ReadLabels
  <2>. DEFINE a == [job EXCEPT !.pc = "component"]
  <2>1. DOMAIN a = DOMAIN job /\ a.payload = job.payload /\ a.pc = "component"
    BY DEF GateInv, JobShape
  <2>2. CASE job' = [job EXCEPT !.pc = "labels", !.read = ticket.labels]
    BY <1>3, <2>2 DEF ReadLabels, GateInv, JobShape, PassedGate
  <2>3. CASE Fault(a)
    BY <1>3, <2>1, <2>3, FaultKeepsPayload DEF ReadLabels
  <2>. QED BY <1>3, <2>2, <2>3 DEF ReadLabels
<1>4. CASE WriteLabels
  <2>. DEFINE a == [job EXCEPT !.pc = "component"]
  <2>1. DOMAIN a = DOMAIN job /\ a.payload = job.payload /\ a.pc = "component"
    BY DEF GateInv, JobShape
  <2>2. CASE job' = a
    BY <1>4, <2>1, <2>2 DEF WriteLabels, GateInv, JobShape, PassedGate
  <2>3. CASE Fault(a)
    BY <1>4, <2>1, <2>3, FaultKeepsPayload DEF WriteLabels
  <2>. QED BY <1>4, <2>2, <2>3 DEF WriteLabels
<1>5. CASE SetComponent
  <2>1. job' = Idle
    BY <1>5 DEF SetComponent, Fault
  <2>. QED BY <2>1, IdleShape DEF GateInv, JobShape, PassedGate
<1>6. CASE Edit
  BY <1>6 DEF Edit, GateInv, JobShape, PassedGate
<1>7. CASE UNCHANGED vars
  BY <1>7 DEF vars, GateInv, JobShape, PassedGate
<1>. QED BY <1>1, <1>2, <1>3, <1>4, <1>5, <1>6, <1>7 DEF Next

LEMMA GateInvAlways == Spec => []GateInv
BY GateInvInit, GateInvNext, PTL DEF Spec

---------------------------------------------------------------------------
LEMMA FrameAlways == Spec => []Frame
<1>1. Init => Frame
  BY DEF Init, Frame
<1>2. Frame /\ [Next]_vars => Frame'
  <2>. SUFFICES ASSUME Frame, [Next]_vars PROVE Frame'
    OBVIOUS
  <2>1. CASE Triage
    BY <2>1 DEF Frame, Triage
  <2>2. CASE PostComment
    BY <2>2 DEF Frame, PostComment, Fault
  <2>3. CASE ReadLabels
    BY <2>3 DEF Frame, ReadLabels, Fault
  <2>4. CASE WriteLabels
    BY <2>4 DEF Frame, WriteLabels, Fault
  <2>5. CASE SetComponent
    <3>1. CASE Fault(Idle)
      BY <3>1 DEF Frame, Fault
    <3>2. CASE ~Fault(Idle)
      <4>1. PICK x : ticket' = [ticket EXCEPT !.streams = x]
        BY <2>5, <3>2 DEF SetComponent
      <4>2. count' = count
        BY <2>5, <3>2 DEF SetComponent
      <4>. QED BY <4>1, <4>2 DEF Frame
    <3>. QED BY <3>1, <3>2
  <2>6. CASE Edit
    BY <2>6 DEF Frame, Edit
  <2>7. CASE UNCHANGED vars
    BY <2>7 DEF Frame, vars
  <2>. QED BY <2>1, <2>2, <2>3, <2>4, <2>5, <2>6, <2>7 DEF Next
<1>. QED BY <1>1, <1>2, PTL DEF Spec

(* A step that writes labels sends what the poster read with the delta of  *)
(* a payload that passed.                                                  *)
LEMMA WrittenIsSent ==
    ASSUME GateInv, Frame, [Next]_vars, Written
    PROVE  ticket'.labels = Sent(job.payload, job.read) /\ Passed(job.payload)
<1>1. job.pc = "labels" /\ job'.pc = "component" /\ count' = count
  BY DEF Written
<1>2. ~UNCHANGED vars /\ ~Triage /\ ~PostComment /\ ~ReadLabels /\ ~SetComponent
  BY <1>1 DEF vars, Triage, PostComment, ReadLabels, SetComponent
<1>3. ~Edit
  BY <1>1 DEF Edit, Frame
<1>4. WriteLabels
  BY <1>2, <1>3 DEF Next
<1>5. ~Fault([job EXCEPT !.pc = "component"])
  BY <1>1 DEF Fault, Frame
<1>6. ticket' = [ticket EXCEPT !.labels = Sent(job.payload, job.read)]
  BY <1>4, <1>5 DEF WriteLabels
<1>. QED BY <1>1, <1>6 DEF GateInv, PassedGate, Frame

LEMMA GrantStep == GateInv /\ Frame /\ [Next]_vars =>
    [LET p == job.payload IN
       Written /\ "agent:solvable" \in Gained =>
         p.solvable /\ p.verdict = "ready-ish" /\ p.repo /\ ~p.blockers /\ Blocking(p.rows) = {}]_vars
<1>. SUFFICES ASSUME GateInv, Frame, [Next]_vars, Written, "agent:solvable" \in Gained
              PROVE  LET p == job.payload
                     IN p.solvable /\ p.verdict = "ready-ish" /\ p.repo /\ ~p.blockers /\ Blocking(p.rows) = {}
  OBVIOUS
<1>1. Passed(job.payload) /\ ticket'.labels = Sent(job.payload, job.read)
  BY WrittenIsSent
<1>2. "agent:solvable" \in job.payload.add
  BY <1>1 DEF Gained, Sent
<1>. QED BY <1>1, <1>2, GrantChain

(* GrantIsEarned for any answers: no session's output can put the          *)
(* go-ahead's candidate label on a ticket that has not passed its DoR.     *)
THEOREM GrantsAreEarned == Spec => GrantIsEarned
BY GrantStep, GateInvAlways, FrameAlways, PTL DEF GrantIsEarned, Spec

---------------------------------------------------------------------------
(* A passed payload's delta takes off only what the skill owns, and never  *)
(* the last of a namespace unless it adds and removes one label of it.     *)
LEMMA DeltaIsKind ==
    ASSUME NEW p, Passed(p), NEW read
    PROVE  /\ \A l \in read \ Sent(p, read) : Namespace[l] \in Owned \cup Revisable
           /\ \A l \in (read \ Sent(p, read)) \cup (Sent(p, read) \ read) :
                Namespace[l] = "agent:" => l \in TriageOwned
           /\ \A l \in read : Namespace[l] \in Revisable =>
                \/ \E k \in Sent(p, read) : Namespace[k] = Namespace[l]
                \/ \E b \in BothWays(p) : Namespace[b] = Namespace[l]
<1>1. ~BadRemoval(p) /\ ~BadAgentLabel(p)
  BY DEF Passed, Unpostable, BadLabels
<1>2. read \ Sent(p, read) \subseteq p.remove /\ Sent(p, read) \ read \subseteq p.add
  BY DEF Sent
<1>3. \A l \in p.remove : Namespace[l] \in Owned \cup Revisable
  BY <1>1 DEF BadRemoval
<1>4. \A l \in p.add \cup p.remove : Namespace[l] = "agent:" => l \in TriageOwned
  BY <1>1 DEF BadAgentLabel
<1>5. ASSUME NEW l \in read, Namespace[l] \in Revisable
      PROVE  \/ \E k \in Sent(p, read) : Namespace[k] = Namespace[l]
             \/ \E b \in BothWays(p) : Namespace[b] = Namespace[l]
  <2>1. CASE l \notin p.remove
    BY <2>1 DEF Sent
  <2>2. CASE l \in p.remove
    <3>1. Namespace[l] \notin Owned
      BY <1>5 DEF Revisable, Owned
    <3>2. PICK a \in p.add : Namespace[a] = Namespace[l]
      BY <1>1, <1>5, <2>2, <3>1 DEF BadRemoval
    <3>3. a \in Sent(p, read) \/ a \in BothWays(p)
      BY <3>2 DEF Sent, BothWays
    <3>. QED BY <3>2, <3>3
  <2>. QED BY <2>1, <2>2
<1>. QED BY <1>2, <1>3, <1>4, <1>5

LEMMA BoardStep == GateInv /\ Frame /\ [Next]_vars =>
    [Written =>
       /\ \A l \in Lost : Namespace[l] \in Owned \cup Revisable
       /\ \A l \in Lost \cup Gained : Namespace[l] = "agent:" => l \in TriageOwned
       /\ \A l \in job.read : Namespace[l] \in Revisable =>
            Replaced(Namespace[l]) \/ \E b \in BothWays(job.payload) : Namespace[b] = Namespace[l]]_vars
<1>. SUFFICES ASSUME GateInv, Frame, [Next]_vars, Written
              PROVE  /\ \A l \in Lost : Namespace[l] \in Owned \cup Revisable
                     /\ \A l \in Lost \cup Gained : Namespace[l] = "agent:" => l \in TriageOwned
                     /\ \A l \in job.read : Namespace[l] \in Revisable =>
                          \/ Replaced(Namespace[l])
                          \/ \E b \in BothWays(job.payload) : Namespace[b] = Namespace[l]
  OBVIOUS
<1>1. Passed(job.payload) /\ ticket'.labels = Sent(job.payload, job.read)
  BY WrittenIsSent
<1>. QED BY <1>1, DeltaIsKind DEF Lost, Gained, Replaced

(* BoardIsKept for any answers: what people and the solver put on the      *)
(* ticket stays, and a team: label goes only for another, or where the     *)
(* delta adds and removes one of them at once.                             *)
THEOREM BoardStays == Spec => BoardIsKept
BY BoardStep, GateInvAlways, FrameAlways, PTL DEF BoardIsKept, Spec

LEMMA CallStep == GateInv /\ Frame /\ [Next]_vars =>
    [LET p == job.payload IN
       Written /\ p.create =>
       /\ p.solvable => "agent:solvable" \in ticket'.labels \cup BothWays(p)
       /\ p.plausible => "agent:watching" \in ticket'.labels \cup BothWays(p)]_vars
<1>. SUFFICES ASSUME GateInv, Frame, [Next]_vars, Written, job.payload.create
              PROVE  /\ job.payload.solvable =>
                          "agent:solvable" \in ticket'.labels \cup BothWays(job.payload)
                     /\ job.payload.plausible =>
                          "agent:watching" \in ticket'.labels \cup BothWays(job.payload)
  OBVIOUS
<1>1. Passed(job.payload) /\ ticket'.labels = Sent(job.payload, job.read)
  BY WrittenIsSent
<1>2. job.payload.solvable => "agent:solvable" \in job.payload.add
  BY <1>1 DEF Passed, Unpostable, BadSolvable, Omitted
<1>3. job.payload.plausible => "agent:watching" \in job.payload.add
  BY <1>1 DEF Passed, Unpostable, BadPlausible, Omitted
<1>. QED BY <1>1, <1>2, <1>3 DEF Sent, BothWays

(* CallReachesBoard for any answers: what a first triage calls a ticket is *)
(* what the board says once its labels are written, but for a mark the     *)
(* same delta removes.                                                     *)
THEOREM CallsReachBoard == Spec => CallReachesBoard
BY CallStep, GateInvAlways, FrameAlways, PTL DEF CallReachesBoard, Spec

---------------------------------------------------------------------------
(* The lines of a comment but a note's.                                    *)
Plain == Line \ Marker

(* Where the lines of two parts are in the whole.                          *)
LEMMA Joined ==
    ASSUME NEW S, NEW a \in Seq(S), NEW b \in Seq(S), NEW c, c = a \o b
    PROVE  /\ c \in Seq(S) /\ Len(a) \in Nat /\ Len(b) \in Nat
           /\ Len(c) = Len(a) + Len(b)
           /\ \A i \in 1..Len(a) : c[i] = a[i]
           /\ \A i \in 1..Len(b) : c[Len(a) + i] = b[i]
<1>1. /\ c \in Seq(S) /\ Len(c) = Len(a) + Len(b)
      /\ \A i \in 1..(Len(a) + Len(b)) : c[i] = IF i <= Len(a) THEN a[i] ELSE b[i - Len(a)]
  BY ConcatProperties
<1>2. Len(a) \in Nat /\ Len(b) \in Nat
  OBVIOUS
<1>3. ASSUME NEW i \in 1..Len(a) PROVE c[i] = a[i]
  <2>1. i \in 1..(Len(a) + Len(b)) /\ i <= Len(a)
    BY <1>2
  <2>. QED BY <1>1, <2>1
<1>4. ASSUME NEW i \in 1..Len(b) PROVE c[Len(a) + i] = b[i]
  <2>. DEFINE j == Len(a) + i
  <2>1. j \in 1..(Len(a) + Len(b)) /\ ~(j <= Len(a)) /\ j - Len(a) = i
    BY <1>2
  <2>. HIDE DEF j
  <2>2. c[j] = b[i]
    BY <1>1, <2>1
  <2>. QED BY <2>2 DEF j
<1>. QED BY <1>1, <1>2, <1>3, <1>4

(* LastIn names the last line of a kind, or none.                          *)
LEMMA LastInIs ==
    ASSUME NEW X, NEW s \in Seq(X), NEW lines
    PROVE  /\ LastIn(s, lines) \in 0..Len(s)
           /\ LastIn(s, lines) # 0 => s[LastIn(s, lines)] \in lines
           /\ \A j \in 1..Len(s) : s[j] \in lines => LastIn(s, lines) # 0 /\ j <= LastIn(s, lines)
<1>. DEFINE ix == {i \in DOMAIN s : s[i] \in lines}
            ago == {Len(s) - i : i \in ix}
            earlier == OpToRel(<, Nat)
<1>1. Len(s) \in Nat /\ DOMAIN s = 1..Len(s)
  OBVIOUS
<1>2. CASE ix = {}
  <2>1. LastIn(s, lines) = 0
    BY <1>2 DEF LastIn
  <2>. QED BY <1>1, <1>2, <2>1
<1>3. CASE ix # {}
  <2>1. ago \subseteq Nat /\ ago # {}
    BY <1>1, <1>3
  <2>2. PICK x \in ago : \A y \in ago : ~(<<y, x>> \in earlier)
    <3>. HIDE DEF ago, earlier
    <3>1. IsWellFoundedOn(earlier, Nat)
      BY NatLessThanWellFounded DEF earlier
    <3>. QED BY <2>1, <3>1, WFMin
  <2>3. PICK m \in ix : x = Len(s) - m
    OBVIOUS
  <2>4. \A j \in ix : ~(Len(s) - j < Len(s) - m)
    BY <2>1, <2>2, <2>3 DEF OpToRel
  <2>5. \A j \in ix : j <= m
    BY <1>1, <2>4
  <2>6. LastIn(s, lines) = CHOOSE i \in ix : \A j \in ix : j <= i
    BY <1>3 DEF LastIn
  <2>7. LastIn(s, lines) \in ix /\ \A j \in ix : j <= LastIn(s, lines)
    <3>. HIDE DEF ix
    <3>. QED BY <2>5, <2>6
  <2>8. LastIn(s, lines) # 0
    BY <1>1, <2>7
  <2>. QED BY <1>1, <2>7, <2>8
<1>. QED BY <1>2, <1>3

(* A cut of separators leaves lines of the same kinds.                     *)
LEMMA UnruledKeeps ==
    ASSUME NEW s \in Seq(Plain)
    PROVE  Unruled(s) \in Seq(Plain)
<1>. DEFINE k == LastIn(s, {s[i] : i \in DOMAIN s} \ {"sep"})
<1>1. k \in 0..Len(s)
  BY LastInIs
<1>. HIDE DEF k
<1>2. SubSeq(s, 1, k) \in Seq(Plain)
  BY <1>1
<1>. QED BY <1>2 DEF Unruled, k

(* One line of the strip: no line kept opens a block, and a footer that    *)
(* opens its line is kept whatever came before.                            *)
Stripped == [kept : Seq(Plain), inBlock : BOOLEAN]
LEMMA StripLineKeeps ==
    ASSUME NEW st \in Stripped, NEW l \in Line
    PROVE  /\ StripLine(st, l) \in Stripped
           /\ l = "footer" => StripLine(st, l).kept = Append(st.kept, l)
<1>1. st.kept \in Seq(Plain) /\ Unruled(st.kept) \in Seq(Plain) /\ st.inBlock \in BOOLEAN
  BY UnruledKeeps DEF Stripped
<1>2. CASE l \in Marker
  BY <1>1, <1>2 DEF StripLine, Stripped, Marker
<1>3. CASE l \notin Marker
  <2>1. Append(st.kept, l) \in Seq(Plain)
    BY <1>1, <1>3 DEF Plain
  <2>2. CASE ~st.inBlock
    BY <1>1, <1>3, <2>1, <2>2 DEF StripLine, Stripped
  <2>3. CASE st.inBlock
    BY <1>1, <1>3, <2>1, <2>3 DEF StripLine, Stripped
  <2>. QED BY <2>2, <2>3
<1>. QED BY <1>2, <1>3

(* The strip line by line: where it is after n lines, by where it was.     *)
StripStep(body, n, v) ==
    IF n = 0 THEN [kept |-> <<>>, inBlock |-> FALSE] ELSE StripLine(v[n - 1], body[n])

LEMMA StripsExist ==
    ASSUME NEW body
    PROVE  \A k \in Nat : \E v : v = [n \in 0..k |-> StripStep(body, n, v)]
<1>. DEFINE HasStrips(k) == \E v : v = [n \in 0..k |-> StripStep(body, n, v)]
            bad == {k \in Nat : ~HasStrips(k)}
            below == OpToRel(<, Nat)
<1>. SUFFICES ASSUME bad # {} PROVE FALSE
  OBVIOUS
<1>1. PICK k \in bad : \A j \in bad : ~(<<j, k>> \in below)
  <2>1. IsWellFoundedOn(below, Nat) /\ bad \subseteq Nat
    BY NatLessThanWellFounded
  <2>. HIDE DEF bad, below
  <2>. QED BY <2>1, WFMin
<1>2. k \in Nat /\ ~HasStrips(k) /\ \A j \in Nat : j < k => HasStrips(j)
  BY <1>1 DEF OpToRel
<1>3. CASE k = 0
  <2>. DEFINE f == [n \in 0..0 |-> StripStep(body, n, <<>>)]
  <2>1. \A n \in 0..0 : StripStep(body, n, <<>>) = StripStep(body, n, f)
    BY DEF StripStep
  <2>2. f = [n \in 0..0 |-> StripStep(body, n, f)]
    BY <2>1, Zenon
  <2>. QED BY <1>2, <1>3, <2>2
<1>4. CASE k # 0
  <2>1. k - 1 \in Nat /\ k - 1 < k
    BY <1>2, <1>4
  <2>2. PICK v : v = [n \in 0..(k - 1) |-> StripStep(body, n, v)]
    BY <1>2, <2>1
  <2>. DEFINE f == [n \in 0..k |-> StripStep(body, n, v)]
  <2>3. ASSUME NEW n \in 0..k PROVE StripStep(body, n, v) = StripStep(body, n, f)
    <3>1. CASE n = 0
      BY <3>1 DEF StripStep
    <3>2. CASE n # 0
      <4>1. n - 1 \in 0..(k - 1) /\ n - 1 \in 0..k
        BY <1>2, <3>2
      <4>2. v[n - 1] = f[n - 1]
        <5>. DEFINE m == n - 1
        <5>1. f[m] = StripStep(body, m, v)
          BY <4>1
        <5>2. v[m] = StripStep(body, m, v)
          <6>. HIDE DEF m, f
          <6>. QED BY <2>2, <4>1, Zenon DEF m
        <5>. QED BY <5>1, <5>2
      <4>. HIDE DEF f
      <4>. QED BY <3>2, <4>2 DEF StripStep
    <3>. QED BY <3>1, <3>2
  <2>4. f = [n \in 0..k |-> StripStep(body, n, f)]
    <3>. DEFINE g == [n \in 0..k |-> StripStep(body, n, f)]
    <3>1. \A n \in 0..k : f[n] = g[n]
      BY <2>3
    <3>. QED BY <3>1
  <2>. QED BY <1>2, <2>4
<1>. QED BY <1>3, <1>4

(* What the strip returns is where it is after the last line.              *)
LEMMA StripIs ==
    ASSUME NEW body \in Seq(Line)
    PROVE  \E v : Strip(body) = v[Len(body)].kept /\ \A n \in 0..Len(body) : v[n] = StripStep(body, n, v)
<1>. DEFINE IsRead(v) == v = [n \in 0..Len(body) |-> StripStep(body, n, v)]
            w == CHOOSE v : IsRead(v)
<1>0. Len(body) \in Nat
  OBVIOUS
<1>1. \E v : IsRead(v)
  BY <1>0, StripsExist
<1>2. IsRead(w)
  <2>. HIDE DEF IsRead
  <2>. QED BY <1>1
<1>3. Strip(body) = w[Len(body)].kept
  BY Zenon DEF Strip, StripStep
<1>4. \A n \in 0..Len(body) : w[n] = StripStep(body, n, w)
  <2>. HIDE DEF w
  <2>. QED BY <1>2
<1>. QED BY <1>3, <1>4

(* The strip keeps no line that opens a block, and the footer of a body    *)
(* that ends with one on a line of its own.                                *)
LEMMA StripKeeps ==
    ASSUME NEW body \in Seq(Line)
    PROVE  /\ Strip(body) \in Seq(Plain)
           /\ body # <<>> /\ body[Len(body)] = "footer" =>
                Strip(body) # <<>> /\ Strip(body)[Len(Strip(body))] = "footer"
<1>0. Len(body) \in Nat /\ \A n \in 1..Len(body) : body[n] \in Line
  OBVIOUS
<1>1. PICK v : Strip(body) = v[Len(body)].kept /\ \A n \in 0..Len(body) : v[n] = StripStep(body, n, v)
  BY StripIs
<1>2. ASSUME NEW n \in 0..Len(body), n # 0
      PROVE  n - 1 \in 0..Len(body) /\ v[n] = StripLine(v[n - 1], body[n]) /\ body[n] \in Line
  BY <1>0, <1>1, <1>2 DEF StripStep
<1>3. v[0] \in Stripped
  <2>1. v[0] = [kept |-> <<>>, inBlock |-> FALSE]
    BY <1>0, <1>1 DEF StripStep
  <2>. QED BY <2>1 DEF Stripped
<1>4. \A n \in 0..Len(body) : v[n] \in Stripped
  <2>. DEFINE bad == {n \in 0..Len(body) : v[n] \notin Stripped}
              below == OpToRel(<, Nat)
  <2>. SUFFICES ASSUME bad # {} PROVE FALSE
    OBVIOUS
  <2>1. PICK n \in bad : \A j \in bad : ~(<<j, n>> \in below)
    <3>1. IsWellFoundedOn(below, Nat)
      BY NatLessThanWellFounded
    <3>2. bad \subseteq Nat
      BY <1>0
    <3>. HIDE DEF bad, below
    <3>. QED BY <3>1, <3>2, WFMin
  <2>2. n \in 0..Len(body) /\ v[n] \notin Stripped /\ \A j \in 0..Len(body) : j < n => v[j] \in Stripped
    <3>1. n \in 0..Len(body) /\ v[n] \notin Stripped /\ \A j \in bad : j \in Nat
      BY <1>0
    <3>2. \A j \in bad : ~(j < n)
      BY <1>0, <2>1, <3>1 DEF OpToRel
    <3>. QED BY <3>1, <3>2, Zenon
  <2>3. n # 0
    BY <1>3, <2>2
  <2>4. n - 1 \in 0..Len(body) /\ n - 1 < n
    BY <1>0, <1>2, <2>2, <2>3
  <2>5. v[n - 1] \in Stripped
    BY <2>2, <2>4
  <2>6. StripLine(v[n - 1], body[n]) \in Stripped
    BY <1>2, <2>2, <2>3, <2>5, StripLineKeeps
  <2>. QED BY <1>2, <2>2, <2>3, <2>6
<1>5. Strip(body) \in Seq(Plain)
  <2>1. v[Len(body)] \in Stripped
    BY <1>0, <1>4
  <2>. QED BY <1>1, <2>1 DEF Stripped
<1>6. ASSUME body # <<>>, body[Len(body)] = "footer"
      PROVE  Strip(body) # <<>> /\ Strip(body)[Len(Strip(body))] = "footer"
  <2>. DEFINE n == Len(body)
  <2>1. n \in 0..Len(body) /\ n # 0
    BY <1>0, <1>6
  <2>2. n - 1 \in 0..Len(body) /\ v[n] = StripLine(v[n - 1], body[n]) /\ body[n] \in Line
    BY <1>2, <2>1
  <2>3. v[n - 1] \in Stripped
    BY <1>4, <2>2
  <2>4. StripLine(v[n - 1], body[n]).kept = Append(v[n - 1].kept, body[n])
    BY <1>6, <2>2, <2>3, StripLineKeeps
  <2>5. Strip(body) = Append(v[n - 1].kept, "footer") /\ v[n - 1].kept \in Seq(Plain)
    BY <1>1, <1>6, <2>2, <2>3, <2>4 DEF Stripped
  <2>. DEFINE k == v[n - 1].kept
  <2>6. k \in Seq(Plain) /\ Strip(body) = Append(k, "footer")
    BY <2>5
  <2>. HIDE DEF k
  <2>. QED BY <2>6
<1>. QED BY <1>5, <1>6

(* The legend's move adds no note, and loses no footer.                    *)
LEMMA LegendKeeps ==
    ASSUME NEW s \in Seq(Plain)
    PROVE  /\ LegendAbove(s) \in Seq(Plain)
           /\ s # <<>> /\ s[Len(s)] = "footer" => LastIn(LegendAbove(s), Enders) # 0
<1>. DEFINE ix == LastIn(s, {"footer"})
            moved == SubSeq(s, 1, ix - 1) \o <<"legend", "footer">>
<1>1. ix \in 0..Len(s) /\ Len(s) \in Nat
  BY LastInIs
<1>2. LegendAbove(s) = s \/ (ix > 0 /\ LegendAbove(s) = moved)
  BY DEF LegendAbove
<1>. HIDE DEF ix
<1>3. CASE LegendAbove(s) = s
  <2>1. ASSUME s # <<>>, s[Len(s)] = "footer" PROVE LastIn(s, Enders) # 0
    <3>1. Len(s) \in 1..Len(s) /\ s[Len(s)] \in Enders
      BY <2>1 DEF Enders
    <3>. QED BY <3>1, LastInIs
  <2>. QED BY <1>3, <2>1
<1>4. CASE ix > 0 /\ LegendAbove(s) = moved
  <2>1. SubSeq(s, 1, ix - 1) \in Seq(Plain)
    BY <1>1, <1>4
  <2>2. <<"legend", "footer">> \in Seq(Plain)
    BY DEF Plain, Line, Marker
  <2>. DEFINE q == SubSeq(s, 1, ix - 1)
              e == <<"legend", "footer">>
  <2>3. q \in Seq(Plain) /\ e \in Seq(Plain)
    BY <2>1, <2>2
  <2>4. Len(e) = 2 /\ e[2] = "footer"
    OBVIOUS
  <2>. HIDE DEF q, e
  <2>5. q \o e \in Seq(Plain) /\ Len(q \o e) = Len(q) + 2 /\ (q \o e)[Len(q) + 2] = "footer"
        /\ Len(q) \in Nat
    <3>. DEFINE c == q \o e
    <3>1. c = q \o e
      OBVIOUS
    <3>. HIDE DEF c
    <3>2. /\ c \in Seq(Plain) /\ Len(q) \in Nat /\ Len(c) = Len(q) + Len(e)
          /\ \A i \in 1..Len(e) : c[Len(q) + i] = e[i]
      BY <2>3, <3>1, Joined
    <3>3. c \in Seq(Plain) /\ Len(c) = Len(q) + 2 /\ c[Len(q) + 2] = "footer" /\ Len(q) \in Nat
      BY <2>4, <3>2
    <3>. QED BY <3>3 DEF c
  <2>6. LegendAbove(s) = q \o e
    BY <1>4 DEF q, e
  <2>7. Len(q) + 2 \in 1..Len(q \o e) /\ (q \o e)[Len(q) + 2] \in Enders
    BY <2>5 DEF Enders
  <2>8. LastIn(q \o e, Enders) # 0
    BY <2>5, <2>7, LastInIs
  <2>. QED BY <2>5, <2>6, <2>8
<1>. QED BY <1>2, <1>3, <1>4

LEMMA TidiedIsPlain ==
    ASSUME NEW body \in Seq(Line)
    PROVE  Tidied(body) \in Seq(Plain)
BY StripKeeps, LegendKeeps DEF Tidied

(* What NoteAgrees leaves out is narrow: a body that ends with a footer on *)
(* a line of its own keeps it, whatever blocks stand open above.           *)
LEMMA OwnFooterStays ==
    ASSUME NEW body \in Seq(Line), body # <<>>, body[Len(body)] = "footer"
    PROVE  Footed(body)
<1>1. Strip(body) \in Seq(Plain) /\ Strip(body) # <<>> /\ Strip(body)[Len(Strip(body))] = "footer"
  BY StripKeeps
<1>. QED BY <1>1, LegendKeeps DEF Footed, Tidied

(* The notes of a comment are what a call asks for.                        *)
Carries(c, called) ==
    /\ {c[i] : i \in Notes(c)} = called
    /\ Cardinality(Notes(c)) <= 1

(* Of the lines of a note, its second alone opens a block, by the call.    *)
LEMMA NoNoteNoCall ==
    ASSUME NEW p, BuildNote(p) = <<>>
    PROVE  CallFor(p) = {}
BY DEF BuildNote, CallFor

LEMMA NoteSaysCall ==
    ASSUME NEW p
    PROVE  \/ BuildNote(p) = <<>> /\ CallFor(p) = {}
           \/ \E m \in Marker : BuildNote(p) = <<"sep", m, "text">> /\ CallFor(p) = {m}
BY DEF BuildNote, CallFor, Marker

(* Lines without a note carry none.                                        *)
LEMMA PlainCarriesNone ==
    ASSUME NEW c \in Seq(Plain)
    PROVE  Carries(c, {})
<1>1. Notes(c) = {}
  BY DEF Notes, Plain
<1>. QED BY <1>1, FS_EmptySet DEF Carries

(* One note between lines without any is the note of the whole.            *)
LEMMA OneNoteIsCarried ==
    ASSUME NEW head \in Seq(Plain), NEW tail \in Seq(Plain), NEW m \in Marker
    PROVE  Carries(head \o <<"sep", m, "text">> \o tail, {m})
<1>. DEFINE note == <<"sep", m, "text">>
            c == head \o note \o tail
            k == Len(head)
<1>1. note \in Seq(Line)
  BY DEF Line
<1>2. Len(note) = 3 /\ note[2] = m /\ note[1] \in Plain /\ note[3] \in Plain
  BY DEF Line, Plain, Marker
<1>3. head \in Seq(Line) /\ tail \in Seq(Line)
  BY DEF Plain
<1>. HIDE DEF note
<1>. DEFINE d == head \o note
<1>4. /\ d \in Seq(Line) /\ Len(d) = k + 3 /\ k \in Nat
      /\ \A i \in 1..k : d[i] = head[i]
      /\ d[k + 1] = note[1] /\ d[k + 2] = note[2] /\ d[k + 3] = note[3]
  <2>1. 1 \in 1..Len(note) /\ 2 \in 1..Len(note) /\ 3 \in 1..Len(note)
    BY <1>2
  <2>2. d = head \o note
    OBVIOUS
  <2>. HIDE DEF d
  <2>3. /\ d \in Seq(Line) /\ Len(d) = Len(head) + Len(note) /\ Len(head) \in Nat
        /\ \A i \in 1..Len(head) : d[i] = head[i]
        /\ \A i \in 1..Len(note) : d[Len(head) + i] = note[i]
    BY <1>1, <1>3, <2>2, Joined
  <2>. QED BY <1>2, <2>1, <2>3
<1>. HIDE DEF d
<1>5. d \in Seq(Line)
  BY <1>4
<1>6. c = d \o tail
  BY DEF d
<1>. HIDE DEF c
<1>7. /\ c \in Seq(Line) /\ Len(c) = Len(d) + Len(tail) /\ Len(tail) \in Nat
      /\ \A i \in 1..Len(d) : c[i] = d[i]
      /\ \A i \in 1..Len(tail) : c[Len(d) + i] = tail[i]
  BY <1>3, <1>5, <1>6, Joined
<1>8. c \in Seq(Line) /\ Len(c) = k + 3 + Len(tail) /\ k \in Nat /\ Len(tail) \in Nat
  BY <1>4, <1>7, <1>6
<1>9. /\ \A i \in 1..k : c[i] = head[i]
      /\ c[k + 1] = note[1] /\ c[k + 2] = note[2] /\ c[k + 3] = note[3]
      /\ \A i \in 1..Len(tail) : c[k + 3 + i] = tail[i]
  <2>1. ASSUME NEW i \in 1..(k + 3) PROVE c[i] = d[i]
    BY <1>4, <1>7, <1>6
  <2>2. ASSUME NEW i \in 1..Len(tail) PROVE c[k + 3 + i] = tail[i]
    BY <1>4, <1>7, <1>6
  <2>. QED BY <1>4, <2>1, <2>2
<1>10. c[k + 2] = m
  BY <1>2, <1>9
<1>11. ASSUME NEW i \in 1..Len(c), i # k + 2 PROVE c[i] \in Plain
  <2>1. CASE i <= k
    BY <1>8, <1>9, <2>1
  <2>2. CASE i = k + 1
    BY <1>2, <1>9, <2>2
  <2>3. CASE i = k + 3
    BY <1>2, <1>9, <2>3
  <2>4. CASE i > k + 3
    <3>1. i - (k + 3) \in 1..Len(tail) /\ i = k + 3 + (i - (k + 3))
      BY <1>8, <2>4
    <3>2. c[i] = tail[i - (k + 3)]
      BY <1>9, <3>1
    <3>. QED BY <3>1, <3>2
  <2>. QED BY <1>8, <1>11, <2>1, <2>2, <2>3, <2>4
<1>12. Notes(c) = {k + 2}
  <2>1. DOMAIN c = 1..Len(c) /\ k + 2 \in 1..Len(c)
    BY <1>8
  <2>. QED BY <1>10, <1>11, <2>1 DEF Notes, Plain
<1>13. Cardinality(Notes(c)) = 1
  BY <1>8, <1>12, FS_Singleton
<1>14. {c[i] : i \in Notes(c)} = {m}
  BY <1>10, <1>12
<1>15. Carries(c, {m})
  BY <1>13, <1>14 DEF Carries
<1>. QED BY <1>15 DEF c, note

(* The note's place: what stands above it and what below it.               *)
LEMMA NotedBody ==
    ASSUME NEW p, Shaped(p), p.body \in Seq(Line), Footed(p.body)
    PROVE  \/ /\ WithNote(p) = p /\ BuildNote(p) = <<>> /\ Tidied(p.body) = p.body
           \/ \E head \in Seq(Plain), tail \in Seq(Plain) :
                /\ WithNote(p).body = head \o BuildNote(p) \o tail
                /\ tail # <<>> /\ tail[1] = "footer"
                /\ \A i \in 2..Len(tail) : tail[i] \notin Enders
<1>. DEFINE tidied == Tidied(p.body)
            ix == LastIn(tidied, Enders)
            above == IF tidied[ix] = "tailfooter" THEN <<"text">> ELSE <<>>
            head == SubSeq(tidied, 1, ix - 1) \o above
            rest == SubSeq(tidied, ix + 1, Len(tidied))
            tail == <<"footer">> \o rest
<1>1. tidied \in Seq(Plain) /\ ix # 0
  BY TidiedIsPlain DEF Footed
<1>2. ix \in 1..Len(tidied) /\ Len(tidied) \in Nat
      /\ \A j \in 1..Len(tidied) : tidied[j] \in Enders => j <= ix
  BY <1>1, LastInIs
<1>3. \/ WithNote(p) = p /\ BuildNote(p) = <<>> /\ tidied = p.body
      \/ WithNote(p) = [p EXCEPT !.body = SubSeq(tidied, 1, ix - 1) \o above \o BuildNote(p)
                               \o <<"footer">> \o rest]
  BY <1>1 DEF WithNote, Tidied, Enders
<1>4. above \in Seq(Plain) /\ SubSeq(tidied, 1, ix - 1) \in Seq(Plain) /\ rest \in Seq(Plain)
  <2>1. <<"text">> \in Seq(Plain)
    BY DEF Plain, Line, Marker
  <2>. HIDE DEF tidied, ix
  <2>. QED BY <1>1, <1>2, <2>1
<1>5. \A i \in 1..Len(rest) : rest[i] \notin Enders
  <2>. HIDE DEF tidied, ix
  <2>1. ASSUME NEW i \in 1..Len(rest) PROVE rest[i] = tidied[ix + i] /\ ix + i \in 1..Len(tidied) /\ ix + i > ix
    BY <1>1, <1>2
  <2>. QED BY <1>2, <2>1
<1>. HIDE DEF rest
<1>6. tail \in Seq(Plain) /\ tail # <<>> /\ tail[1] = "footer" /\ \A i \in 2..Len(tail) : tail[i] \notin Enders
  <2>1. <<"footer">> \in Seq(Plain)
    BY DEF Plain, Line, Marker
  <2>2. Len(tail) = Len(rest) + 1 /\ Len(rest) \in Nat
    BY <1>4, <2>1
  <2>3. ASSUME NEW i \in 2..Len(tail) PROVE tail[i] = rest[i - 1] /\ i - 1 \in 1..Len(rest)
    BY <1>4, <2>1, <2>2
  <2>. QED BY <1>4, <1>5, <2>1, <2>2, <2>3
<1>. HIDE DEF above, tidied, ix
<1>7. BuildNote(p) \in Seq(Line)
  <2>1. ASSUME NEW m \in Marker PROVE <<"sep", m, "text">> \in Seq(Line)
    BY DEF Line
  <2>2. <<>> \in Seq(Line)
    OBVIOUS
  <2>. QED BY <2>1, <2>2, NoteSaysCall, Zenon
<1>8. CASE WithNote(p) = [p EXCEPT !.body = SubSeq(tidied, 1, ix - 1) \o above \o BuildNote(p)
                               \o <<"footer">> \o rest]
  <2>1. head \in Seq(Plain)
    BY <1>4
  <2>2. WithNote(p).body = head \o BuildNote(p) \o <<"footer">> \o rest
    BY <1>8 DEF Shaped, Aside
  <2>3. rest \in Seq(Line) /\ <<"footer">> \in Seq(Line) /\ head \in Seq(Line)
    BY <1>4, <2>1 DEF Plain, Line
  <2>. HIDE DEF head
  <2>4. (head \o BuildNote(p) \o <<"footer">>) \o rest = (head \o BuildNote(p)) \o (<<"footer">> \o rest)
    BY <1>7, <2>3
  <2>. QED BY <1>6, <2>1, <2>2, <2>4
<1>. QED BY <1>3, <1>8 DEF tidied

(* The payload that leaves the note's writer, and passes the gate, has a   *)
(* body that carries its call and nothing else, if it keeps its footer.    *)
LEMMA PassedCarries ==
    ASSUME NEW p, Shaped(p), p.body \in Seq(Line), Footed(p.body), ~BadComment(WithNote(p))
    PROVE  LET b == WithNote(p).body
           IN b \in Seq(Line) /\ Carries(b, CallFor(WithNote(p)))
<1>. DEFINE q == WithNote(p)
            b == q.body
            n == Len(b)
<1>1. b \notin {<<>>} /\ n # 0 /\ b[n] \in Enders
  BY DEF BadComment, Enders
<1>2. CallFor(q) = CallFor(p)
  <2>1. q["verdict"] = p["verdict"] /\ q["solvable"] = p["solvable"] /\ q["plausible"] = p["plausible"]
    BY NoteChangesBody DEF Aside
  <2>. HIDE DEF q
  <2>. QED BY <2>1 DEF CallFor
<1>4. CASE q = p /\ BuildNote(p) = <<>> /\ Tidied(p.body) = p.body
  <2>. HIDE DEF q
  <2>1. b = p.body /\ b \in Seq(Plain)
    BY <1>4, TidiedIsPlain
  <2>2. CallFor(q) = {}
    BY <1>2, <1>4, NoNoteNoCall
  <2>3. b \in Seq(Line)
    BY <2>1
  <2>4. Carries(b, CallFor(q))
    BY <2>1, <2>2, PlainCarriesNone
  <2>. QED BY <1>1, <2>3, <2>4 DEF q
<1>5. CASE \E head \in Seq(Plain), tail \in Seq(Plain) :
             /\ b = head \o BuildNote(p) \o tail
             /\ tail # <<>> /\ tail[1] = "footer"
             /\ \A i \in 2..Len(tail) : tail[i] \notin Enders
  <2>. HIDE DEF q
  <2>1. PICK head \in Seq(Plain), tail \in Seq(Plain) :
             /\ b = head \o BuildNote(p) \o tail
             /\ tail # <<>> /\ tail[1] = "footer"
             /\ \A i \in 2..Len(tail) : tail[i] \notin Enders
    BY <1>5
  <2>. DEFINE d == head \o BuildNote(p)
  <2>2. d \in Seq(Line) /\ head \in Seq(Line) /\ tail \in Seq(Line)
    <3>1. ASSUME NEW m \in Marker PROVE <<"sep", m, "text">> \in Seq(Line)
      BY DEF Line
    <3>2. <<>> \in Seq(Line)
      OBVIOUS
    <3>3. BuildNote(p) \in Seq(Line)
      BY <3>1, <3>2, NoteSaysCall, Zenon
    <3>4. head \in Seq(Line) /\ tail \in Seq(Line)
      BY DEF Plain
    <3>. HIDE DEF d
    <3>5. d = head \o BuildNote(p)
      BY DEF d
    <3>. QED BY <3>3, <3>4, <3>5, Joined
  <2>3. b = d \o tail
    BY <2>1
  <2>. HIDE DEF b, d
  <2>4. /\ b \in Seq(Line) /\ Len(b) = Len(d) + Len(tail) /\ Len(d) \in Nat /\ Len(tail) \in Nat
        /\ \A i \in 1..Len(tail) : b[Len(d) + i] = tail[i]
    BY <2>2, <2>3, Joined
  <2>5. b[n] = "footer"
    <3>1. Len(tail) # 0
      BY <2>1, <2>2
    <3>2. Len(tail) \in 1..Len(tail) /\ n = Len(d) + Len(tail)
      BY <2>4, <3>1
    <3>3. b[n] = tail[Len(tail)]
      BY <2>4, <3>2
    <3>4. Len(tail) \notin 2..Len(tail)
      BY <1>1, <2>1, <3>3
    <3>5. Len(tail) = 1
      <4>. DEFINE k == Len(tail)
      <4>1. k \in Nat /\ k # 0 /\ k \notin 2..k
        BY <2>4, <3>1, <3>4
      <4>. HIDE DEF k
      <4>2. k = 1
        BY <4>1
      <4>. QED BY <4>2 DEF k
    <3>. QED BY <2>1, <3>3, <3>5
  <2>6. Carries(b, CallFor(q))
    <3>1. CASE BuildNote(p) = <<>> /\ CallFor(p) = {}
      <4>1. d = head
        BY <3>1 DEF d
      <4>2. b \in Seq(Plain)
        BY <2>3, <4>1, Joined
      <4>. QED BY <1>2, <3>1, <4>2, PlainCarriesNone
    <3>2. CASE \E m \in Marker : BuildNote(p) = <<"sep", m, "text">> /\ CallFor(p) = {m}
      <4>1. PICK m \in Marker : BuildNote(p) = <<"sep", m, "text">> /\ CallFor(p) = {m}
        BY <3>2
      <4>2. Carries(head \o <<"sep", m, "text">> \o tail, {m})
        BY OneNoteIsCarried
      <4>3. b = head \o <<"sep", m, "text">> \o tail
        BY <2>1, <4>1
      <4>. QED BY <1>2, <4>1, <4>2, <4>3
    <3>. QED BY <3>1, <3>2, NoteSaysCall
  <2>. QED BY <1>1, <2>4, <2>6 DEF q, b
<1>. QED BY <1>4, <1>5, NotedBody

(* A body of lines that carries a call, if it keeps its footer.            *)
Sound(c, called) == c \in Seq(Line) /\ (Footed(c) => Carries(c, called))

(* A body without a footer leaves the writer as it was, still without one. *)
LEMMA PassedIsSound ==
    ASSUME NEW p, Shaped(p), p.body \in Seq(Line), ~BadComment(WithNote(p))
    PROVE  Sound(WithNote(p).body, CallFor(WithNote(p)))
<1>1. CASE Footed(p.body)
  BY <1>1, PassedCarries DEF Sound
<1>2. CASE ~Footed(p.body)
  <2>1. WithNote(p) = p
    BY <1>2 DEF WithNote, Footed
  <2>. QED BY <1>2, <2>1 DEF Sound
<1>. QED BY <1>1, <1>2

TicketNoted ==
    /\ DOMAIN ticket = {"labels", "streams", "comment"} /\ DOMAIN past = {"called", "posted"}
    /\ ticket.comment = <<>> \/ Sound(ticket.comment, past.called)
JobNoted == job.pc # "idle" => Sound(job.payload.body, CallFor(job.payload))
NoteInv == TicketNoted /\ JobNoted

LEMMA TriageKeepsNotes ==
    ASSUME GateInv, NoteInv, Triage
    PROVE  NoteInv'
<1>1. PICK raw \in Payloads :
        \E body \in {raw.body} \cup (IF ticket.comment = <<>> THEN {} ELSE {ticket.comment}) :
          LET p == Parsed([raw EXCEPT !.body = body])
          IN IF Incoherent(p) THEN UNCHANGED <<job, refusal, past>> ELSE Gate(WithNote(p))
  BY DEF Triage
<1>2. PICK body \in {raw.body} \cup (IF ticket.comment = <<>> THEN {} ELSE {ticket.comment}) :
        LET p == Parsed([raw EXCEPT !.body = body])
        IN IF Incoherent(p) THEN UNCHANGED <<job, refusal, past>> ELSE Gate(WithNote(p))
  BY <1>1
<1>. DEFINE p == Parsed([raw EXCEPT !.body = body])
<1>3. Shaped(p) /\ p.body = body
  <2>1. Shaped(p)
    BY ParsedKeepsDelta, PayloadAssumption
  <2>2. DOMAIN raw = Aside \cup {"body"}
    BY PayloadAssumption DEF Payload, Aside
  <2>3. p.body = body
    BY <2>2 DEF Parsed, Aside
  <2>. QED BY <2>1, <2>3
<1>4. body \in Seq(Line)
  <2>1. raw.body \in Seq(Line)
    BY PayloadAssumption DEF Payload
  <2>2. ticket.comment # <<>> => ticket.comment \in Seq(Line)
    BY DEF NoteInv, TicketNoted, Sound
  <2>. QED BY <1>2, <2>1, <2>2
<1>. HIDE DEF p
<1>5. ticket' = ticket
  BY DEF Triage
<1>6. CASE Incoherent(p)
  BY <1>2, <1>5, <1>6 DEF p, NoteInv, TicketNoted, JobNoted
<1>7. CASE ~Incoherent(p)
  <2>1. Gate(WithNote(p))
    BY <1>2, <1>7 DEF p
  <2>2. past'.called = past.called /\ DOMAIN past' = DOMAIN past
    BY <2>1 DEF Gate, NoteInv, TicketNoted
  <2>3. TicketNoted'
    BY <1>5, <2>2 DEF NoteInv, TicketNoted
  <2>4. CASE Unpostable(WithNote(p))
    BY <2>1, <2>3, <2>4, IdleShape DEF Gate, NoteInv, JobNoted
  <2>5. CASE ~Unpostable(WithNote(p))
    <3>1. ~BadComment(WithNote(p))
      BY <2>5 DEF Unpostable
    <3>2. Sound(WithNote(p).body, CallFor(WithNote(p)))
      BY <1>3, <1>4, <3>1, PassedIsSound
    <3>3. job'.payload = WithNote(p)
      BY <2>1, <2>5 DEF Gate, GateInv, JobShape
    <3>4. JobNoted'
      BY <3>2, <3>3 DEF JobNoted
    <3>. QED BY <2>3, <3>4 DEF NoteInv
  <2>. QED BY <2>4, <2>5
<1>. QED BY <1>6, <1>7

LEMMA NoteInvNext == GateInv /\ NoteInv /\ [Next]_vars => NoteInv'
<1>. SUFFICES ASSUME GateInv, NoteInv, [Next]_vars PROVE NoteInv'
  OBVIOUS
<1>1. CASE Triage
  BY <1>1, TriageKeepsNotes
<1>2. ASSUME job.pc # "idle", job' = Idle \/ job'.payload = job.payload
      PROVE  JobNoted'
  BY <1>2, IdleShape DEF NoteInv, JobNoted
<1>3. ASSUME DOMAIN ticket' = DOMAIN ticket, ticket'.comment = ticket.comment, past' = past
      PROVE  TicketNoted'
  BY <1>3 DEF NoteInv, TicketNoted
<1>4. CASE PostComment
  <2>1. JobNoted'
    BY <1>2, <1>4 DEF PostComment, Fault, AfterComment, GateInv, JobShape
  <2>2. CASE UNCHANGED <<ticket, past>>
    BY <1>3, <2>1, <2>2 DEF NoteInv
  <2>3. CASE /\ ticket' = [ticket EXCEPT !.comment = job.payload.body]
             /\ past' = [past EXCEPT !.called = CallFor(job.payload), !.posted = TRUE]
    <3>1. Sound(job.payload.body, CallFor(job.payload))
      BY <1>4 DEF PostComment, NoteInv, JobNoted
    <3>2. ticket'.comment = job.payload.body /\ past'.called = CallFor(job.payload)
          /\ DOMAIN ticket' = DOMAIN ticket /\ DOMAIN past' = DOMAIN past
      BY <2>3 DEF NoteInv, TicketNoted
    <3>3. TicketNoted'
      BY <3>1, <3>2 DEF NoteInv, TicketNoted
    <3>. QED BY <2>1, <3>3 DEF NoteInv
  <2>. QED BY <1>4, <2>2, <2>3 DEF PostComment, Fault
<1>5. CASE ReadLabels
  BY <1>2, <1>3, <1>5 DEF ReadLabels, Fault, GateInv, JobShape, NoteInv
<1>6. CASE WriteLabels
  <2>1. JobNoted'
    BY <1>2, <1>6 DEF WriteLabels, Fault, GateInv, JobShape
  <2>2. past' = past /\ DOMAIN ticket' = DOMAIN ticket /\ ticket'.comment = ticket.comment
    BY <1>6 DEF WriteLabels, Fault, NoteInv, TicketNoted
  <2>. QED BY <1>3, <2>1, <2>2 DEF NoteInv
<1>7. CASE SetComponent
  <2>1. JobNoted'
    BY <1>2, <1>7 DEF SetComponent, Fault, GateInv, JobShape
  <2>2. past' = past /\ DOMAIN ticket' = DOMAIN ticket /\ ticket'.comment = ticket.comment
    BY <1>7 DEF SetComponent, Fault, NoteInv, TicketNoted
  <2>. QED BY <1>3, <2>1, <2>2 DEF NoteInv
<1>8. CASE Edit
  <2>1. PICK x : ticket' = [ticket EXCEPT !.labels = x]
    BY <1>8 DEF Edit
  <2>2. past' = past /\ job' = job /\ DOMAIN ticket' = DOMAIN ticket /\ ticket'.comment = ticket.comment
    BY <1>8, <2>1 DEF Edit, NoteInv, TicketNoted
  <2>. QED BY <1>3, <2>2 DEF NoteInv, JobNoted
<1>9. CASE UNCHANGED vars
  BY <1>9 DEF vars, NoteInv, TicketNoted, JobNoted
<1>. QED BY <1>1, <1>4, <1>5, <1>6, <1>7, <1>8, <1>9 DEF Next

(* NoteAgrees for any answers: whatever the model wrote, copied or left    *)
(* open, the comment on the ticket carries the note its payload's fitness  *)
(* calls for and no other, unless the strip took its footer for a block's. *)
THEOREM NotesAgree == Spec => []NoteAgrees
<1>1. Init => NoteInv
  BY IdleShape DEF Init, NoteInv, TicketNoted, JobNoted
<1>2. GateInv /\ NoteInv /\ [Next]_vars => NoteInv'
  BY NoteInvNext
<1>3. NoteInv => NoteAgrees
  BY DEF NoteInv, TicketNoted, Sound, Carries, NoteAgrees
<1>. QED BY <1>1, <1>2, <1>3, GateInvAlways, PTL DEF Spec

---------------------------------------------------------------------------
(* A payload with other lines, or other rows, is a payload.                *)
LEMMA OtherBody ==
    ASSUME NEW p \in Payload, NEW b \in Seq(Line)
    PROVE  [p EXCEPT !.body = b] \in Payload
BY Zenon DEF Payload

LEMMA ParsedIsPayload ==
    ASSUME NEW p \in Payload
    PROVE  Parsed(p) \in Payload
<1>. DEFINE rows == {IF r \in 1..10 THEN r ELSE Unattributed : r \in p.rows}
<1>1. rows \subseteq Nat
  BY DEF Unattributed
<1>2. [p EXCEPT !.rows = rows] \in Payload
  BY <1>1, Zenon DEF Payload
<1>. QED BY <1>2 DEF Parsed

(* The note's writer leaves a payload.                                     *)
LEMMA NotedIsPayload ==
    ASSUME NEW p \in Payload
    PROVE  WithNote(p) \in Payload
<1>1. Shaped(p) /\ p.body \in Seq(Line)
  <2>1. DOMAIN p = Aside \cup {"body"}
    BY DEF Payload, Aside
  <2>2. p.body \in Seq(Line)
    BY Zenon DEF Payload
  <2>. QED BY <2>1, <2>2 DEF Shaped
<1>2. CASE ~Footed(p.body)
  BY <1>2 DEF WithNote, Footed
<1>3. CASE Footed(p.body) /\ WithNote(p) # p
  <2>1. PICK head \in Seq(Plain), tail \in Seq(Plain) : WithNote(p).body = head \o BuildNote(p) \o tail
    BY <1>1, <1>3, NotedBody
  <2>2. head \in Seq(Line) /\ tail \in Seq(Line)
    BY DEF Plain, Line
  <2>3. BuildNote(p) \in Seq(Line)
    <3>1. ASSUME NEW m \in Marker PROVE <<"sep", m, "text">> \in Seq(Line)
      BY DEF Line
    <3>2. <<>> \in Seq(Line)
      OBVIOUS
    <3>. QED BY <3>1, <3>2, NoteSaysCall, Zenon
  <2>4. head \o BuildNote(p) \o tail \in Seq(Line)
    BY <2>2, <2>3
  <2>5. PICK b : WithNote(p) = [p EXCEPT !.body = b]
    BY <1>3 DEF WithNote
  <2>6. b = WithNote(p).body
    BY <1>1, <2>5 DEF Shaped, Aside
  <2>. QED BY <2>1, <2>4, <2>5, <2>6, OtherBody, Zenon
<1>. QED BY <1>2, <1>3

(* The types, one variable at a time; a refusal is a Boolean apart.        *)
TicketType == ticket \in [labels : SUBSET Label, streams : SUBSET {"stream", "other"}, comment : Seq(Line)]
JobType == job \in [pc : {"idle", "comment", "read", "labels", "component"},
                    payload : Payload, read : SUBSET Label]
PastType == past \in [called : SUBSET Marker, posted : BOOLEAN]
CountType == count \in [rounds : 0..MaxRounds, edits : 0..MaxEdits, faults : 0..MaxFaults]

LEMMA NothingIsPayload == Nothing \in Payload /\ Idle.payload = Nothing /\ Idle.read = {} /\ Idle.pc = "idle"
<1>1. <<>> \in Seq(Line) /\ {} \in SUBSET Label /\ {} \in SUBSET Nat
  OBVIOUS
<1>2. Nothing \in Payload
  BY <1>1 DEF Nothing, Payload
<1>. QED BY <1>2 DEF Idle

LEMMA IdleIsJob == Idle \in [pc : {"idle", "comment", "read", "labels", "component"},
                             payload : Payload, read : SUBSET Label]
<1>1. Nothing \in Payload
  BY NothingIsPayload
<1>. QED BY <1>1 DEF Idle

(* What is in hand, and what is on the ticket, keep their kinds at every   *)
(* step.                                                                   *)
TypeParts == TicketType /\ JobType /\ PastType /\ CountType

LEMMA JobParts ==
    ASSUME JobType
    PROVE  /\ DOMAIN job = {"pc", "payload", "read"} /\ job.payload \in Payload /\ job.read \subseteq Label
           /\ job.payload.add \subseteq Label /\ job.payload.component \in {"", "stream", "other"}
           /\ job.payload.body \in Seq(Line)
           /\ \A x \in {"idle", "comment", "read", "labels", "component"} : [job EXCEPT !.pc = x] \in
                [pc : {"idle", "comment", "read", "labels", "component"},
                 payload : Payload, read : SUBSET Label]
<1>1. /\ DOMAIN job = {"pc", "payload", "read"} /\ job.payload \in Payload /\ job.read \subseteq Label
      /\ \A x \in {"idle", "comment", "read", "labels", "component"} : [job EXCEPT !.pc = x] \in
                [pc : {"idle", "comment", "read", "labels", "component"},
                 payload : Payload, read : SUBSET Label]
  BY DEF JobType
<1>2. /\ job.payload.add \subseteq Label /\ job.payload.component \in {"", "stream", "other"}
      /\ job.payload.body \in Seq(Line)
  BY <1>1, Zenon DEF Payload
<1>. QED BY <1>1, <1>2

LEMMA CountMoves ==
    ASSUME CountType
    PROVE  /\ count.rounds < MaxRounds /\ count' = [count EXCEPT !.rounds = @ + 1] => CountType'
           /\ count.edits < MaxEdits /\ count' = [count EXCEPT !.edits = @ + 1] => CountType'
           /\ count.faults < MaxFaults /\ count' = [count EXCEPT !.faults = @ + 1] => CountType'
BY BoundAssumption DEF CountType

LEMMA FaultTypes ==
    ASSUME TypeParts, NEW next, Fault(next),
           next \in [pc : {"idle", "comment", "read", "labels", "component"},
                     payload : Payload, read : SUBSET Label]
    PROVE  TypeParts'
<1>1. TicketType' /\ PastType'
  BY DEF Fault, TypeParts, TicketType, PastType
<1>2. CountType'
  BY CountMoves DEF Fault, TypeParts
<1>3. JobType'
  BY IdleIsJob DEF Fault, JobType
<1>. QED BY <1>1, <1>2, <1>3 DEF TypeParts

LEMMA TriageTypes == TypeParts /\ Triage => TypeParts'
<1>. SUFFICES ASSUME TypeParts, Triage PROVE TypeParts'
  OBVIOUS
<1>1. PICK raw \in Payloads :
        \E body \in {raw.body} \cup (IF ticket.comment = <<>> THEN {} ELSE {ticket.comment}) :
          LET p == Parsed([raw EXCEPT !.body = body])
          IN IF Incoherent(p) THEN UNCHANGED <<job, refusal, past>> ELSE Gate(WithNote(p))
  BY DEF Triage
<1>2. PICK body \in {raw.body} \cup (IF ticket.comment = <<>> THEN {} ELSE {ticket.comment}) :
        LET p == Parsed([raw EXCEPT !.body = body])
        IN IF Incoherent(p) THEN UNCHANGED <<job, refusal, past>> ELSE Gate(WithNote(p))
  BY <1>1
<1>3. raw \in Payload /\ raw.body \in Seq(Line) /\ ticket.comment \in Seq(Line)
  BY PayloadAssumption, Zenon DEF Payload, TypeParts, TicketType
<1>. DEFINE q == WithNote(Parsed([raw EXCEPT !.body = body]))
<1>4. q \in Payload
  <2>1. body \in Seq(Line)
    BY <1>2, <1>3, Zenon
  <2>. QED BY <1>3, <2>1, OtherBody, ParsedIsPayload, NotedIsPayload
<1>. HIDE DEF q
<1>5. UNCHANGED <<job, refusal, past>> \/ Gate(q)
  BY <1>2 DEF q
<1>6. TicketType' /\ CountType'
  BY CountMoves DEF Triage, TypeParts, TicketType
<1>7. PastType' /\ JobType'
  <2>1. CASE UNCHANGED <<job, refusal, past>>
    BY <2>1 DEF TypeParts, PastType, JobType
  <2>2. CASE job' = Idle /\ past' = [past EXCEPT !.posted = FALSE]
    BY <2>2, IdleIsJob DEF TypeParts, PastType, JobType
  <2>3. CASE job' = [job EXCEPT !.pc = "comment", !.payload = q] /\ past' = past
    BY <1>4, <2>3 DEF TypeParts, PastType, JobType
  <2>. QED BY <1>5, <2>1, <2>2, <2>3 DEF Gate
<1>. QED BY <1>6, <1>7 DEF TypeParts

LEMMA PosterTypes ==
    TypeParts /\ (PostComment \/ ReadLabels \/ WriteLabels \/ SetComponent \/ Edit) => TypeParts'
<1>. SUFFICES ASSUME TypeParts, PostComment \/ ReadLabels \/ WriteLabels \/ SetComponent \/ Edit
              PROVE  TypeParts'
  OBVIOUS
<1>0. TicketType /\ JobType /\ PastType /\ CountType
  BY DEF TypeParts
<1>1. CASE PostComment
  <2>1. AfterComment \in [pc : {"idle", "comment", "read", "labels", "component"},
                          payload : Payload, read : SUBSET Label]
    BY <1>0, JobParts DEF AfterComment
  <2>2. CASE /\ ticket' = [ticket EXCEPT !.comment = job.payload.body]
             /\ past' = [past EXCEPT !.called = CallFor(job.payload), !.posted = TRUE]
             /\ job' = AfterComment
             /\ UNCHANGED count
    <3>1. TicketType'
      BY <1>0, <2>2, JobParts, Zenon DEF TicketType
    <3>2. CallFor(job.payload) \subseteq Marker
      BY DEF CallFor, Marker
    <3>3. PastType'
      BY <1>0, <2>2, <3>2 DEF PastType
    <3>4. JobType' /\ CountType'
      BY <1>0, <2>1, <2>2 DEF JobType, CountType
    <3>. QED BY <3>1, <3>3, <3>4 DEF TypeParts
  <2>. QED BY <1>1, <2>1, <2>2, FaultTypes DEF PostComment
<1>2. CASE ReadLabels
  <2>1. ticket.labels \subseteq Label
    BY <1>0 DEF TicketType
  <2>2. CASE /\ job' = [job EXCEPT !.pc = "labels", !.read = ticket.labels]
             /\ UNCHANGED <<ticket, past, count>>
    BY <1>0, <2>1, <2>2 DEF TypeParts, TicketType, JobType, PastType, CountType
  <2>. QED BY <1>0, <1>2, <2>2, FaultTypes, JobParts DEF ReadLabels
<1>3. CASE WriteLabels
  <2>1. Sent(job.payload, job.read) \subseteq Label
    BY <1>0, JobParts DEF Sent
  <2>2. CASE /\ ticket' = [ticket EXCEPT !.labels = Sent(job.payload, job.read)]
             /\ job' = [job EXCEPT !.pc = "component"]
             /\ UNCHANGED <<past, count>>
    <3>1. TicketType'
      BY <1>0, <2>1, <2>2, Zenon DEF TicketType
    <3>2. JobType'
      BY <1>0, <2>2, JobParts DEF JobType
    <3>. QED BY <1>0, <2>2, <3>1, <3>2 DEF TypeParts, PastType, CountType
  <2>. QED BY <1>0, <1>3, <2>2, FaultTypes, JobParts DEF WriteLabels
<1>4. CASE SetComponent
  <2>1. CASE /\ ticket' = [ticket EXCEPT !.streams = @ \cup ({job.payload.component} \ {""})]
             /\ job' = Idle
             /\ UNCHANGED <<past, count>>
    <3>1. ticket.streams \cup ({job.payload.component} \ {""}) \subseteq {"stream", "other"}
      BY <1>0, JobParts DEF TicketType
    <3>2. TicketType'
      BY <1>0, <2>1, <3>1, Zenon DEF TicketType
    <3>. QED BY <1>0, <2>1, <3>2, IdleIsJob DEF TypeParts, JobType, PastType, CountType
  <2>. QED BY <1>4, <2>1, FaultTypes, IdleIsJob DEF SetComponent
<1>5. CASE Edit
  <2>1. PICK l \in Label : ticket' = [ticket EXCEPT !.labels = (@ \cup {l}) \ (@ \cap {l})]
    BY <1>5 DEF Edit
  <2>2. (ticket.labels \cup {l}) \ (ticket.labels \cap {l}) \subseteq Label
    BY <1>0 DEF TicketType
  <2>3. TicketType'
    BY <1>0, <2>1, <2>2, Zenon DEF TicketType
  <2>. QED BY <1>0, <1>5, <2>3, CountMoves DEF Edit, TypeParts, JobType, PastType
<1>. QED BY <1>1, <1>2, <1>3, <1>4, <1>5

LEMMA RefusalTypes == refusal \in BOOLEAN /\ [Next]_vars => (refusal \in BOOLEAN)'
BY Zenon DEF Next, vars, Triage, Gate, PostComment, ReadLabels, WriteLabels, SetComponent, Edit

LEMMA TypesBegin == Init => TypeParts /\ refusal \in BOOLEAN
<1>. SUFFICES ASSUME Init PROVE TypeParts /\ refusal \in BOOLEAN
  OBVIOUS
<1>1. TicketType
  <2>1. <<>> \in Seq(Line)
    OBVIOUS
  <2>. QED BY <2>1, Zenon DEF Init, TicketType
<1>2. JobType /\ PastType
  BY IdleIsJob DEF Init, JobType, PastType
<1>3. CountType
  BY BoundAssumption DEF Init, CountType
<1>4. refusal \in BOOLEAN
  BY Zenon DEF Init
<1>. QED BY <1>1, <1>2, <1>3, <1>4 DEF TypeParts

(* The type invariant of a triage: whatever the model answers, what the    *)
(* parser and the note's writer leave of it is an answer, and the poster   *)
(* puts labels, a component and lines on the ticket and nothing else.      *)
THEOREM TriageTypeCorrect == Spec => []TypeOK
<1>1. TypeParts /\ [Next]_vars => TypeParts'
  <2>1. TypeParts /\ UNCHANGED vars => TypeParts'
    BY DEF TypeParts, TicketType, JobType, PastType, CountType, vars
  <2>. QED BY <2>1, TriageTypes, PosterTypes DEF Next
<1>2. TypeParts /\ refusal \in BOOLEAN => TypeOK
  BY Zenon DEF TypeParts, TicketType, JobType, PastType, CountType, TypeOK
<1>. QED BY <1>1, <1>2, RefusalTypes, TypesBegin, PTL DEF Spec

(***************************************************************************)
(* Discovery.                                                              *)
(***************************************************************************)

(* A set of times has a latest, which is what Max names.                   *)
LEMMA LatestExists ==
    ASSUME NEW S, S \subseteq Time, S # {}
    PROVE  Max(S) \in S
<1>. DEFINE ago == {MaxTime - i : i \in S}
            earlier == OpToRel(<, Nat)
<1>1. ago \subseteq Nat /\ ago # {}
  <2>1. \A i \in S : MaxTime - i \in Nat
    BY BoundsAssumption DEF Time
  <2>. QED BY <2>1
<1>2. PICK x \in ago : \A y \in ago : ~(<<y, x>> \in earlier)
  <2>. HIDE DEF ago, earlier
  <2>1. IsWellFoundedOn(earlier, Nat)
    BY NatLessThanWellFounded DEF earlier
  <2>. QED BY <1>1, <2>1, WFMin
<1>3. \A y \in ago : ~(y < x)
  BY <1>1, <1>2 DEF OpToRel
<1>4. PICK m \in S : x = MaxTime - m
  OBVIOUS
<1>5. \A j \in S : ~(MaxTime - j < MaxTime - m)
  BY <1>3, <1>4
<1>6. \A j \in S : m >= j
  BY <1>5, BoundsAssumption DEF Time
<1>. QED BY <1>6 DEF Max

(* The settled cursor is when a triaged ticket was created, and no ticket  *)
(* that was not triaged is older.                                          *)
LEMMA SettledIsOfRun ==
    ASSUME NEW ts, NEW ok \in SUBSET ts, \A t \in ts : created[t] \in Time
    PROVE  \/ Settled(ts, ok) = None
           \/ \E f \in ok : /\ Settled(ts, ok) = created[f]
                            /\ \A u \in ts \ ok : created[f] <= created[u]
<1>. DEFINE run == {t \in ok : \A u \in ts \ ok : Before(t, u)}
<1>1. CASE run = {}
  BY <1>1 DEF Settled
<1>2. CASE run # {}
  <2>. DEFINE times == {created[t] : t \in run}
  <2>1. Max(times) \in times
    BY <1>2, LatestExists
  <2>2. Settled(ts, ok) = Max(times)
    BY <1>2 DEF Settled
  <2>3. PICK f \in run : Settled(ts, ok) = created[f]
    BY <2>1, <2>2
  <2>4. \A u \in ts \ ok : created[f] <= created[u]
    BY DEF Before, Time
  <2>. QED BY <2>3, <2>4
<1>. QED BY <1>1, <1>2

---------------------------------------------------------------------------
(* The list of keys.  The newest n of it are its last n.                   *)
Newest(s, n) == {s[i] : i \in {j \in 1..Len(s) : j > Len(s) - n}}

LEMMA SeqSet == ASSUME NEW s \in Seq(Tickets) PROVE ToSet(s) = {s[i] : i \in 1..Len(s)}
<1>1. DOMAIN s = 1..Len(s)
  OBVIOUS
<1>. QED BY <1>1 DEF ToSet

LEMMA MinOfTwo ==
    ASSUME NEW a \in Nat, NEW b \in Nat
    PROVE  /\ Min({a, b}) \in Nat /\ Min({a, b}) <= a /\ Min({a, b}) <= b
           /\ Min({a, b}) = a \/ Min({a, b}) = b
BY DEF Min

LEMMA Shift ==
    ASSUME NEW l \in Nat, NEW m \in Nat, NEW n \in Nat, NEW cap \in Nat, NEW j \in 1..l,
           m <= l, m = l \/ m = cap, n <= cap, j > l - n
    PROVE  \E i \in 1..m : i > m - n /\ (l - m + 1) + i - 1 = j
<1>1. j - l + m \in 1..m /\ j - l + m > m - n /\ (l - m + 1) + (j - l + m) - 1 = j
  OBVIOUS
<1>. QED BY <1>1

LEMMA CutKeepsNewest ==
    ASSUME NEW s \in Seq(Tickets), NEW cap \in Nat, NEW m \in Nat,
           m <= Len(s), m = Len(s) \/ m = cap
    PROVE  /\ SubSeq(s, Len(s) - m + 1, Len(s)) \in Seq(Tickets)
           /\ ToSet(SubSeq(s, Len(s) - m + 1, Len(s))) \subseteq ToSet(s)
           /\ \A n \in Nat : n <= cap => Newest(s, n) \subseteq Newest(SubSeq(s, Len(s) - m + 1, Len(s)), n)
<1>. DEFINE l == Len(s)
            a == l - m + 1
            cut == SubSeq(s, a, l)
<1>1. l \in Nat /\ a \in 1..(l + 1) /\ l - a + 1 = m
  OBVIOUS
<1>2. \A i \in 1..l : s[i] \in Tickets
  OBVIOUS
<1>3. /\ cut \in Seq(Tickets) /\ Len(cut) = m
      /\ \A i \in 1..m : cut[i] = s[a + i - 1]
  <2>. HIDE DEF a, l
  <2>1. a \in Int /\ l \in Int /\ \A i \in a..l : s[i] \in Tickets
    BY <1>1, <1>2
  <2>2. /\ SubSeq(s, a, l) \in Seq(Tickets)
        /\ Len(SubSeq(s, a, l)) = (IF a <= l THEN l - a + 1 ELSE 0)
        /\ \A i \in 1..(l - a + 1) : SubSeq(s, a, l)[i] = s[a + i - 1]
    BY <2>1, SubSeqProperties
  <2>3. (IF a <= l THEN l - a + 1 ELSE 0) = m
    BY <1>1
  <2>. QED BY <1>1, <2>2, <2>3
<1>. HIDE DEF cut
<1>4. ToSet(cut) \subseteq ToSet(s)
  <2>. SUFFICES ASSUME NEW i \in 1..m PROVE \E j \in 1..Len(s) : cut[i] = s[j]
    <3>1. ToSet(cut) = {cut[i] : i \in 1..m}
      BY <1>3, SeqSet
    <3>2. ToSet(s) = {s[i] : i \in 1..Len(s)}
      BY SeqSet
    <3>. QED BY <3>1, <3>2
  <2>1. a + i - 1 \in 1..Len(s)
    BY <1>1
  <2>. QED BY <1>3, <2>1
<1>5. ASSUME NEW n \in Nat, n <= cap PROVE Newest(s, n) \subseteq Newest(cut, n)
  <2>. SUFFICES ASSUME NEW j \in 1..Len(s), j > Len(s) - n PROVE s[j] \in Newest(cut, n)
    BY DEF Newest
  <2>1. PICK i \in 1..m : i > m - n /\ a + i - 1 = j
    <3>1. l \in Nat /\ j \in 1..l /\ m <= l /\ (m = l \/ m = cap) /\ j > l - n
      BY <1>1
    <3>. HIDE DEF l
    <3>2. \E i \in 1..m : i > m - n /\ (l - m + 1) + i - 1 = j
      BY <1>5, <3>1, Shift
    <3>. QED BY <3>2
  <2>2. cut[i] = s[j]
    BY <1>3, <2>1
  <2>. QED BY <1>3, <2>1, <2>2 DEF Newest
<1>. QED BY <1>3, <1>4, <1>5 DEF cut

(* A key recorded is the newest, and pushes out none of the n before it.   *)
LEMMA RecordIs ==
    ASSUME NEW s \in State, NEW t \in Tickets, NEW c \in Time \cup {None}
    PROVE  /\ Record(s, t, c) \in State
           /\ Record(s, t, c).cursor = IF c = None THEN s.cursor ELSE c
           /\ Seen(Record(s, t, c)) \subseteq Seen(s) \cup {t}
           /\ \A n \in Nat : t \notin Seen(s) /\ n + 1 <= SeenCap =>
                Newest(s.seen, n) \cup {t} \subseteq Newest(Record(s, t, c).seen, n + 1)
<1>. DEFINE keys == IF t \in Seen(s) THEN s.seen ELSE Append(s.seen, t)
            cut == SubSeq(keys, Len(keys) - Min({SeenCap, Len(keys)}) + 1, Len(keys))
<1>1. s.seen \in Seq(Tickets) /\ s.cursor \in Time \cup {None}
  BY DEF State
<1>2. keys \in Seq(Tickets) /\ ToSet(keys) \subseteq Seen(s) \cup {t}
  <2>1. CASE t \in Seen(s)
    BY <1>1, <2>1 DEF Seen
  <2>2. CASE t \notin Seen(s)
    <3>1. /\ keys \in Seq(Tickets) /\ Len(keys) = Len(s.seen) + 1
          /\ keys[Len(keys)] = t /\ \A i \in 1..Len(s.seen) : keys[i] = s.seen[i]
      BY <1>1, <2>2
    <3>. HIDE DEF keys
    <3>. QED BY <1>1, <3>1, SeqSet DEF Seen
  <2>. QED BY <2>1, <2>2
<1>3. SeenCap \in Nat /\ Len(keys) \in Nat
  BY <1>2, CapsAssumption
<1>. HIDE DEF keys
<1>4. /\ Min({SeenCap, Len(keys)}) \in Nat /\ Min({SeenCap, Len(keys)}) <= Len(keys)
      /\ Min({SeenCap, Len(keys)}) = Len(keys) \/ Min({SeenCap, Len(keys)}) = SeenCap
  BY <1>3, MinOfTwo
<1>5. /\ cut \in Seq(Tickets) /\ ToSet(cut) \subseteq ToSet(keys)
      /\ \A n \in Nat : n <= SeenCap => Newest(keys, n) \subseteq Newest(cut, n)
  <2>. DEFINE m == Min({SeenCap, Len(keys)})
  <2>1. m \in Nat /\ m <= Len(keys) /\ (m = Len(keys) \/ m = SeenCap)
    BY <1>4
  <2>. HIDE DEF m
  <2>2. /\ SubSeq(keys, Len(keys) - m + 1, Len(keys)) \in Seq(Tickets)
        /\ ToSet(SubSeq(keys, Len(keys) - m + 1, Len(keys))) \subseteq ToSet(keys)
        /\ \A n \in Nat : n <= SeenCap =>
             Newest(keys, n) \subseteq Newest(SubSeq(keys, Len(keys) - m + 1, Len(keys)), n)
    BY <1>2, <1>3, <2>1, CutKeepsNewest
  <2>. QED BY <2>2 DEF m
<1>. HIDE DEF cut
<1>6. Record(s, t, c).seen = cut /\ Record(s, t, c).cursor = IF c = None THEN s.cursor ELSE c
  BY DEF Record, keys, cut
<1>7. ASSUME t \notin Seen(s), NEW n \in Nat
      PROVE  Newest(s.seen, n) \cup {t} \subseteq Newest(keys, n + 1)
  <2>1. keys = Append(s.seen, t)
    BY <1>7 DEF keys
  <2>2. Len(keys) = Len(s.seen) + 1 /\ keys[Len(keys)] = t /\ \A i \in 1..Len(s.seen) : keys[i] = s.seen[i]
    BY <1>1, <2>1
  <2>3. Newest(s.seen, n) \subseteq Newest(keys, n + 1)
    <3>. SUFFICES ASSUME NEW i \in 1..Len(s.seen), i > Len(s.seen) - n
                  PROVE  s.seen[i] \in Newest(keys, n + 1)
      BY DEF Newest
    <3>. HIDE DEF keys
    <3>1. keys[i] = s.seen[i] /\ i \in 1..Len(keys) /\ i > Len(keys) - (n + 1)
      BY <1>1, <2>2
    <3>. QED BY <3>1 DEF Newest
  <2>4. t \in Newest(keys, n + 1)
    <3>. HIDE DEF keys
    <3>1. Len(keys) \in 1..Len(keys) /\ Len(keys) > Len(keys) - (n + 1)
      BY <1>1, <2>2
    <3>. QED BY <2>2, <3>1 DEF Newest
  <2>. QED BY <2>3, <2>4
<1>8. Record(s, t, c) \in State
  BY <1>1, <1>5 DEF Record, State, keys, cut
<1>9. Seen(Record(s, t, c)) \subseteq Seen(s) \cup {t}
  BY <1>2, <1>5, <1>6 DEF Seen
<1>10. ASSUME NEW n \in Nat, t \notin Seen(s), n + 1 <= SeenCap
       PROVE  Newest(s.seen, n) \cup {t} \subseteq Newest(Record(s, t, c).seen, n + 1)
  BY <1>5, <1>6, <1>7, <1>10
<1>. QED BY <1>6, <1>8, <1>9, <1>10

IsCreated(t) == created[t] # None

(* Nothing is created after now, and Jira's index is Lag behind at most.   *)
Dated ==
    /\ \A t \in Tickets : created[t] <= now
    /\ \A t \in Tickets \ visible : IsCreated(t) => now - created[t] <= Lag

InWindow(cursor, ts) == \A t \in ts : IsCreated(t) => created[t] >= cursor - Overlap

(* What the file's cursor leaves behind has been in the file.              *)
FileInv ==
    /\ Seen(file) \subseteq kept
    /\ file.cursor \in Time /\ file.cursor <= now
    /\ InWindow(file.cursor, Tickets \ kept)

Recorded(p) == done[p] \ {at[p]}

(* A cycle that is under way: what it knows of has been in the file or is  *)
(* triaged, its cursor leaves nothing else behind, nor would the time of a *)
(* ticket it found, and what it recorded is the newest of its list, so     *)
(* that no save of its own pushes it out.                                  *)
Steps(p) ==
    /\ pc[p] \in {"idle", "search"} => fresh[p] = {}
    /\ at[p] = None <=> pc[p] # "save"
    /\ pc[p] = "save" => at[p] \in done[p]
Waiting(p) ==
    /\ queue[p] \cap (Seen(mem[p]) \cup done[p]) = {}
    /\ at[p] \notin Seen(mem[p])
Behind(p) ==
    /\ Seen(mem[p]) \subseteq kept \cup done[p]
    /\ mem[p].cursor \in Time /\ mem[p].cursor <= now
    /\ InWindow(mem[p].cursor, Tickets \ (kept \cup done[p]))
    /\ \A t \in fresh[p] : IsCreated(t) /\ InWindow(created[t], Tickets \ (kept \cup fresh[p]))
Listed(p) ==
    /\ Cardinality(fresh[p]) <= PageCap
    /\ Recorded(p) \subseteq Newest(mem[p].seen, Cardinality(Recorded(p)))
CycleInv(p) ==
    /\ Steps(p)
    /\ pc[p] # "idle" => Waiting(p) /\ Behind(p) /\ Listed(p)

PollInv == PollTypeOK /\ Dated /\ FileInv /\ \A p \in Pollers : CycleInv(p)

---------------------------------------------------------------------------
(* A search answers no more than its pages hold: of the tickets with fewer *)
(* than PageCap before them there are PageCap at most.                     *)
LEMMA FoundFits ==
    ASSUME PollTypeOK, NEW c
    PROVE  IsFiniteSet(Found(c)) /\ Cardinality(Found(c)) <= PageCap
<1>. DEFINE M == {t \in visible : created[t] >= Window(c)}
            ahead(t) == {u \in M : Before(u, t)}
            before(t) == Cardinality(ahead(t))
            P == Found(c)
<1>0. P = {t \in M : before(t) < PageCap}
  BY DEF Found
<1>1. IsFiniteSet(M) /\ IsFiniteSet(P) /\ P \subseteq M /\ M \subseteq Tickets
  <2>1. M \subseteq Tickets
    BY DEF PollTypeOK
  <2>2. IsFiniteSet(M)
    BY <2>1, TicketsAssumption, FS_Subset
  <2>. QED BY <1>0, <2>1, <2>2, FS_Subset
<1>2. ASSUME NEW t \in M
      PROVE  IsFiniteSet(ahead(t)) /\ before(t) \in Nat
  BY <1>1, FS_Subset, FS_CardinalityType
<1>3. CASE P = {}
  <2>1. Cardinality(P) = 0
    BY <1>3, FS_EmptySet
  <2>. QED BY <1>1, <2>1, CapsAssumption
<1>4. CASE P # {}
  <2>. DEFINE left == {PageCap - before(t) : t \in P}
              smaller == OpToRel(<, Nat)
  <2>1. left \subseteq Nat /\ left # {}
    <3>1. \A t \in P : before(t) \in Nat /\ before(t) < PageCap
      BY <1>0, <1>1, <1>2
    <3>. HIDE DEF before, P
    <3>. QED BY <1>4, <3>1, CapsAssumption
  <2>2. PICK x \in left : \A y \in left : ~(<<y, x>> \in smaller)
    <3>. HIDE DEF left, smaller
    <3>1. IsWellFoundedOn(smaller, Nat)
      BY NatLessThanWellFounded DEF smaller
    <3>. QED BY <2>1, <3>1, WFMin
  <2>3. \A y \in left : ~(y < x)
    BY <2>1, <2>2 DEF OpToRel
  <2>4. PICK m \in P : x = PageCap - before(m)
    OBVIOUS
  <2>5. \A t \in P : before(t) <= before(m)
    <3>1. ASSUME NEW t \in P PROVE ~(PageCap - before(t) < PageCap - before(m))
      BY <2>3, <2>4
    <3>2. \A t \in P : before(t) \in Nat
      BY <1>1, <1>2
    <3>. HIDE DEF before, P
    <3>. QED BY <3>1, <3>2, CapsAssumption
  <2>6. P \ {m} \subseteq ahead(m)
    <3>. SUFFICES ASSUME NEW t \in P, t # m, ~Before(t, m) PROVE FALSE
      BY <1>1
    <3>1. m \in M /\ t \in M
      BY <1>1
    <3>2. m \in ahead(t) /\ ahead(m) \subseteq ahead(t) /\ m \notin ahead(m)
      <4>1. /\ created \in [Tickets -> Time \cup {None}]
            /\ \A u \in M : u \in Nat /\ created[u] \in Int
        BY <1>1, TicketsAssumption DEF PollTypeOK, Time, None
      <4>2. Before(m, t) /\ ~Before(m, m)
        BY <3>1, <4>1 DEF Before
      <4>3. ASSUME NEW u \in M, Before(u, m) PROVE Before(u, t)
        BY <3>1, <4>1, <4>2, <4>3 DEF Before
      <4>. QED BY <3>1, <4>2, <4>3
    <3>3. before(m) <= before(t) /\ before(m) # before(t)
      <4>. HIDE DEF ahead
      <4>. QED BY <1>2, <3>1, <3>2, FS_Subset
    <3>4. before(t) \in Nat /\ before(m) \in Nat /\ before(t) <= before(m)
      BY <1>2, <2>5, <3>1
    <3>. HIDE DEF before
    <3>. QED BY <3>3, <3>4
  <2>7. Cardinality(P \ {m}) <= before(m)
    BY <1>1, <1>2, <2>6, FS_Subset
  <2>8. Cardinality(P \ {m}) = Cardinality(P) - 1 /\ Cardinality(P) \in Nat
    BY <1>1, FS_RemoveElement, FS_CardinalityType
  <2>9. before(m) < PageCap /\ before(m) \in Nat /\ Cardinality(P \ {m}) \in Nat
    BY <1>0, <1>1, <1>2, FS_Subset, FS_CardinalityType, FS_RemoveElement
  <2>. HIDE DEF before, P
  <2>. QED BY <1>1, <2>7, <2>8, <2>9, CapsAssumption DEF P
<1>. QED BY <1>3, <1>4

(* A ticket in the window that a search does not answer was created no     *)
(* earlier than any it does.                                               *)
LEMMA CutIsLater ==
    ASSUME PollTypeOK, NEW c, NEW t \in Found(c), NEW u \in visible,
           created[u] >= Window(c), u \notin Found(c)
    PROVE  created[t] <= created[u]
<1>. DEFINE M == {v \in visible : created[v] >= Window(c)}
            ahead(v) == {w \in M : Before(w, v)}
            before(v) == Cardinality(ahead(v))
<1>1. t \in M /\ u \in M /\ before(t) < PageCap /\ ~(before(u) < PageCap)
  BY DEF Found
<1>2. IsFiniteSet(M) /\ M \subseteq Tickets
  BY TicketsAssumption, FS_Subset DEF PollTypeOK
<1>3. ASSUME NEW v \in M PROVE IsFiniteSet(ahead(v)) /\ before(v) \in Nat
  BY <1>2, FS_Subset, FS_CardinalityType
<1>4. \A v \in M : v \in Nat /\ created[v] \in Int
  BY <1>2, TicketsAssumption DEF PollTypeOK, Time, None
<1>. SUFFICES ASSUME created[u] < created[t] PROVE FALSE
  BY <1>1, <1>4
<1>5. ahead(u) \subseteq ahead(t)
  <2>1. ASSUME NEW w \in M, Before(w, u) PROVE Before(w, t)
    BY <1>1, <1>4, <2>1 DEF Before
  <2>. QED BY <2>1
<1>6. before(u) <= before(t)
  <2>. HIDE DEF ahead
  <2>. QED BY <1>1, <1>3, <1>5, FS_Subset
<1>7. before(u) \in Nat /\ before(t) \in Nat
  BY <1>1, <1>3
<1>. HIDE DEF before
<1>. QED BY <1>1, <1>6, <1>7, CapsAssumption

---------------------------------------------------------------------------
(* The invariant, action by action.                                        *)

LEMMA PollBegins ==
    ASSUME FirstCursor = 0, PollInit
    PROVE  PollInv
<1>1. PollTypeOK
  <2>1. file \in State /\ NoState \in State
    BY BoundsAssumption DEF PollInit, State, NoState, Time, None
  <2>2. 0 \in Time /\ 0 \in 0..MaxFails
    BY BoundsAssumption DEF Time
  <2>. QED BY <2>1, <2>2 DEF PollInit, PollTypeOK
<1>2. Dated
  <2>1. None <= 0
    BY DEF None
  <2>. QED BY <2>1 DEF PollInit, Dated, IsCreated
<1>3. FileInv
  <2>1. Seen(file) = {}
    BY DEF PollInit, Seen, ToSet
  <2>2. file.cursor \in Time /\ file.cursor <= now
    BY BoundsAssumption DEF PollInit, Time
  <2>. QED BY <2>1, <2>2 DEF FileInv, PollInit, InWindow, IsCreated
<1>4. ASSUME NEW p \in Pollers PROVE CycleInv(p)
  BY DEF PollInit, CycleInv, Steps
<1>. QED BY <1>1, <1>2, <1>3, <1>4 DEF PollInv

LEMMA NoneIsNoTicket == None \notin Tickets
<1>1. None \notin Nat
  BY DEF None
<1>. QED BY <1>1, TicketsAssumption

(* A step of one poller leaves the other's cycle as it was, and a file     *)
(* that has held more puts nothing more behind it.                         *)
LEMMA OthersKeep ==
    ASSUME PollInv, NEW p \in Pollers, NEW q \in Pollers, q # p,
           UNCHANGED jira, kept \subseteq kept',
           pc'[q] = pc[q], mem'[q] = mem[q], fresh'[q] = fresh[q], queue'[q] = queue[q],
           done'[q] = done[q], at'[q] = at[q]
    PROVE  CycleInv(q)'
<1>1. CycleInv(q)
  BY DEF PollInv
<1>2. Steps(q)'
  BY <1>1 DEF CycleInv, Steps
<1>. SUFFICES ASSUME pc[q] # "idle" PROVE (Waiting(q) /\ Behind(q) /\ Listed(q))'
  BY <1>2 DEF CycleInv
<1>3. Waiting(q) /\ Behind(q) /\ Listed(q)
  BY <1>1 DEF CycleInv
<1>4. (Waiting(q) /\ Listed(q))'
  BY <1>3 DEF Waiting, Listed, Recorded, Seen
<1>5. Behind(q)'
  BY <1>3 DEF Behind, InWindow, IsCreated, Seen, jira
<1>. QED BY <1>4, <1>5

LEMMA LoadKeeps ==
    ASSUME PollInv, NEW p \in Pollers, Load(p)
    PROVE  PollInv'
<1>1. /\ PollTypeOK /\ Dated /\ FileInv /\ Steps(p) /\ pc[p] = "idle"
      /\ UNCHANGED <<jira, file, fresh, queue, done, at, kept>>
  BY DEF PollInv, CycleInv, Load, history
<1>2. PollTypeOK'
  BY <1>1 DEF PollTypeOK, Load, Goto, jira, history
<1>3. Dated' /\ FileInv'
  BY <1>1 DEF jira, Dated, FileInv, IsCreated, InWindow, Seen
<1>4. mem'[p] = file /\ pc'[p] = "search"
  BY <1>1 DEF Load, Goto, PollTypeOK
<1>5. fresh[p] = {} /\ queue[p] = {} /\ done[p] = {} /\ at[p] = None
  BY <1>1 DEF Steps, PollTypeOK
<1>6. Steps(p)'
  BY <1>1, <1>4, <1>5 DEF Steps
<1>7. Waiting(p)'
  <2>1. None \notin Seen(file)
    BY <1>1, NoneIsNoTicket DEF FileInv, PollTypeOK
  <2>. QED BY <1>1, <1>4, <1>5, <2>1 DEF Waiting, Seen
<1>8. Behind(p)'
  BY <1>1, <1>4, <1>5 DEF Behind, FileInv, InWindow, IsCreated, Seen, jira
<1>9. Listed(p)'
  <2>1. Cardinality(fresh'[p]) = 0 /\ 0 <= PageCap
    BY <1>1, <1>5, FS_EmptySet, CapsAssumption
  <2>2. Recorded(p)' = {}
    BY <1>1, <1>5 DEF Recorded
  <2>. QED BY <2>1, <2>2 DEF Listed
<1>10. ASSUME NEW q \in Pollers, q # p PROVE CycleInv(q)'
  <2>1. pc'[q] = pc[q] /\ mem'[q] = mem[q]
    BY <1>1, <1>10 DEF Load, Goto, PollTypeOK
  <2>. QED BY <1>1, <1>10, <2>1, OthersKeep
<1>11. CycleInv(p)'
  BY <1>6, <1>7, <1>8, <1>9 DEF CycleInv
<1>. QED BY <1>2, <1>3, <1>10, <1>11 DEF PollInv

(* The end of a cycle, however it comes.                                   *)
LEMMA EndKeeps ==
    ASSUME PollInv, NEW p \in Pollers, EndCycle(p),
           UNCHANGED <<jira, file, history>>, faults' \in 0..MaxFails
    PROVE  PollInv'
<1>1. PollTypeOK'
  <2>1. NoState \in State
    BY DEF State, NoState, None
  <2>. QED BY <2>1 DEF PollInv, PollTypeOK, EndCycle, Goto, jira, history
<1>2. Dated' /\ FileInv'
  BY DEF PollInv, jira, history, Dated, FileInv, IsCreated, InWindow, Seen
<1>3. CycleInv(p)'
  <2>1. pc'[p] = "idle" /\ fresh'[p] = {} /\ at'[p] = None
    BY DEF EndCycle, Goto, PollInv, PollTypeOK
  <2>. QED BY <2>1 DEF CycleInv, Steps
<1>4. ASSUME NEW q \in Pollers, q # p PROVE CycleInv(q)'
  <2>1. /\ pc'[q] = pc[q] /\ mem'[q] = mem[q] /\ fresh'[q] = fresh[q] /\ queue'[q] = queue[q]
        /\ done'[q] = done[q] /\ at'[q] = at[q]
    BY <1>4 DEF EndCycle, Goto, PollInv, PollTypeOK
  <2>. QED BY <1>4, <2>1, OthersKeep DEF history
<1>. QED BY <1>1, <1>2, <1>3, <1>4 DEF PollInv

(* What a search answers and its cycle has not seen: what it does not      *)
(* answer is out of its pages or not in the index yet, and then no more    *)
(* than the overlap older than what it does.                               *)
LEMMA SearchIsBehind ==
    ASSUME PollTypeOK, Dated, NEW c \in Time, InWindow(c, Tickets \ kept), NEW t \in Found(c),
           NEW u \in Tickets \ kept, IsCreated(u), u \notin Found(c)
    PROVE  created[u] >= created[t] - Overlap
<1>1. /\ t \in visible /\ t \in Tickets /\ created[t] \in Int /\ created[u] \in Int
      /\ c # None /\ now \in Int
  BY DEF Found, PollTypeOK, Time, None
<1>2. CASE u \in visible
  <2>1. created[u] >= Window(c)
    BY <1>1 DEF InWindow, Window
  <2>2. created[t] <= created[u]
    BY <1>2, <2>1, CutIsLater
  <2>. QED BY <1>1, <2>2, WindowAssumption
<1>3. CASE u \notin visible
  <2>1. now - created[u] <= Lag /\ created[t] <= now
    BY <1>1, <1>3 DEF Dated
  <2>. QED BY <1>1, <2>1, WindowAssumption
<1>. QED BY <1>2, <1>3

LEMMA SearchKeeps ==
    ASSUME PollInv, NEW p \in Pollers, Search(p)
    PROVE  PollInv'
<1>. DEFINE cur == mem[p].cursor
            new == Found(cur) \ Seen(mem[p])
<1>1. /\ PollTypeOK /\ Dated /\ FileInv /\ pc[p] = "search"
      /\ Steps(p) /\ Waiting(p) /\ Behind(p)
  BY DEF PollInv, CycleInv, Search
<1>2. fresh[p] = {} /\ done[p] = {} /\ at[p] = None
  BY <1>1 DEF Steps, PollTypeOK
<1>3. UNCHANGED <<jira, file, history>>
  BY DEF Search
<1>4. CASE EndCycle(p) /\ (UNCHANGED faults \/ Fail("search"))
  <2>1. faults' \in 0..MaxFails
    BY <1>1, <1>4, BoundsAssumption DEF PollTypeOK, Fail
  <2>. QED BY <1>3, <1>4, <2>1, EndKeeps
<1>5. CASE /\ fresh' = [fresh EXCEPT ![p] = new] /\ queue' = [queue EXCEPT ![p] = new]
           /\ Goto(p, "queue") /\ UNCHANGED <<mem, done, at, faults>>
  <2>1. new \subseteq visible /\ new \subseteq Tickets
    BY <1>1 DEF PollTypeOK, Found
  <2>2. /\ fresh'[p] = new /\ queue'[p] = new /\ pc'[p] = "queue"
        /\ mem' = mem /\ done' = done /\ at' = at
    BY <1>1, <1>5 DEF PollTypeOK, Goto
  <2>3. PollTypeOK'
    <3>1. \A q \in Pollers : queue'[q] \cup done'[q] \subseteq fresh'[q]
      BY <1>1, <1>2, <1>5, <2>2 DEF PollTypeOK
    <3>. HIDE DEF new
    <3>. QED BY <1>1, <1>3, <1>5, <2>1, <3>1 DEF PollTypeOK, Goto, jira, history
  <2>4. Dated' /\ FileInv'
    BY <1>1, <1>3 DEF jira, history, Dated, FileInv, IsCreated, InWindow, Seen
  <2>5. Steps(p)'
    BY <1>2, <2>2 DEF Steps, None
  <2>6. Waiting(p)'
    BY <1>1, <1>2, <2>2 DEF Waiting, Seen
  <2>7. Behind(p)'
    <3>1. /\ Seen(mem[p]) \subseteq kept /\ cur \in Time /\ cur <= now
          /\ InWindow(cur, Tickets \ kept)
      BY <1>1, <1>2 DEF Behind
    <3>2. ASSUME NEW t \in new
          PROVE  IsCreated(t) /\ InWindow(created[t], Tickets \ (kept \cup new))
      <4>1. IsCreated(t) /\ t \in Found(cur)
        BY <1>1, <2>1 DEF PollTypeOK, IsCreated
      <4>2. ASSUME NEW u \in Tickets \ (kept \cup new), IsCreated(u)
            PROVE  created[u] >= created[t] - Overlap
        <5>1. u \notin Found(cur)
          BY <3>1
        <5>. HIDE DEF cur
        <5>. QED BY <1>1, <3>1, <4>1, <4>2, <5>1, SearchIsBehind
      <4>. QED BY <4>1, <4>2 DEF InWindow
    <3>. HIDE DEF new
    <3>3. created' = created /\ now' = now /\ kept' = kept
      BY <1>3 DEF jira, history
    <3>4. (mem[p].cursor \in Time /\ mem[p].cursor <= now /\ Seen(mem[p]) \subseteq kept \cup done[p])'
      BY <1>2, <2>2, <3>1, <3>3 DEF Seen
    <3>5. InWindow(mem[p].cursor, Tickets \ (kept \cup done[p]))'
      BY <1>2, <2>2, <3>1, <3>3 DEF InWindow, IsCreated
    <3>6. (\A t \in fresh[p] : IsCreated(t) /\ InWindow(created[t], Tickets \ (kept \cup fresh[p])))'
      BY <2>2, <3>2, <3>3 DEF InWindow, IsCreated
    <3>. QED BY <3>4, <3>5, <3>6 DEF Behind
  <2>8. Listed(p)'
    <3>1. IsFiniteSet(Found(cur)) /\ Cardinality(Found(cur)) <= PageCap
      BY <1>1, FoundFits
    <3>2. Cardinality(new) <= Cardinality(Found(cur)) /\ Cardinality(new) \in Nat
          /\ Cardinality(Found(cur)) \in Nat
      <4>1. new \subseteq Found(cur)
        OBVIOUS
      <4>. HIDE DEF new, cur
      <4>. QED BY <3>1, <4>1, FS_Subset, FS_CardinalityType
    <3>3. Recorded(p)' = {}
      BY <1>2, <2>2 DEF Recorded
    <3>. HIDE DEF new
    <3>. QED BY <2>2, <3>1, <3>2, <3>3, CapsAssumption DEF Listed
  <2>9. CycleInv(p)'
    BY <2>5, <2>6, <2>7, <2>8 DEF CycleInv
  <2>10. ASSUME NEW q \in Pollers, q # p PROVE CycleInv(q)'
    <3>. HIDE DEF new
    <3>1. pc'[q] = pc[q] /\ fresh'[q] = fresh[q] /\ queue'[q] = queue[q]
      BY <1>1, <1>5, <2>10 DEF Goto, PollTypeOK
    <3>. QED BY <1>3, <2>2, <2>10, <3>1, OthersKeep DEF history
  <2>. QED BY <2>3, <2>4, <2>9, <2>10 DEF PollInv
<1>6. \/ EndCycle(p) /\ (UNCHANGED faults \/ Fail("search"))
      \/ /\ fresh' = [fresh EXCEPT ![p] = new] /\ queue' = [queue EXCEPT ![p] = new]
         /\ Goto(p, "queue") /\ UNCHANGED <<mem, done, at, faults>>
  BY DEF Search
<1>. QED BY <1>4, <1>5, <1>6

(* A triage that succeeds moves its ticket from the queue to what the      *)
(* cycle has done; one that fails only takes it off the queue.             *)
LEMMA TriageKeeps ==
    ASSUME PollInv, NEW p \in Pollers, NEW t \in Tickets, TriageOne(p, t)
    PROVE  PollInv'
<1>1. /\ PollTypeOK /\ Dated /\ FileInv /\ pc[p] = "queue" /\ t \in queue[p]
      /\ Steps(p) /\ Waiting(p) /\ Behind(p) /\ Listed(p)
  BY DEF PollInv, CycleInv, TriageOne
<1>2. /\ UNCHANGED <<jira, file, mem, fresh, kept>>
      /\ queue'[p] = queue[p] \ {t} /\ queue' \in [Pollers -> SUBSET Tickets]
      /\ \A q \in Pollers : queue'[q] \subseteq queue[q]
  BY <1>1 DEF TriageOne, PollTypeOK
<1>3. Dated' /\ FileInv'
  BY <1>1, <1>2 DEF jira, Dated, FileInv, IsCreated, InWindow, Seen
<1>4. at[p] = None /\ t \notin done[p] /\ t \notin Seen(mem[p]) /\ None \notin done[p]
  BY <1>1, NoneIsNoTicket DEF Steps, Waiting, PollTypeOK
<1>5. CASE /\ paid' = [paid EXCEPT ![t] = @ + 1] /\ at' = [at EXCEPT ![p] = t]
           /\ done' = [done EXCEPT ![p] = @ \cup {t}] /\ Goto(p, "save") /\ UNCHANGED faults
  <2>1. done'[p] = done[p] \cup {t} /\ at'[p] = t /\ pc'[p] = "save"
    BY <1>1, <1>5 DEF PollTypeOK, Goto
  <2>2. PollTypeOK'
    <3>1. paid' \in [Tickets -> Nat]
      BY <1>1, <1>5 DEF PollTypeOK
    <3>2. \A q \in Pollers : queue'[q] \cup done'[q] \subseteq fresh'[q]
      <4>1. \A q \in Pollers : q # p => done'[q] = done[q]
        BY <1>1, <1>5 DEF PollTypeOK
      <4>. QED BY <1>1, <1>2, <2>1, <4>1 DEF PollTypeOK
    <3>3. /\ at' \in [Pollers -> Tickets \cup {None}] /\ done' \in [Pollers -> SUBSET Tickets]
          /\ pc' \in [Pollers -> {"idle", "search", "queue", "save"}]
      BY <1>1, <1>5 DEF PollTypeOK, Goto
    <3>. QED BY <1>1, <1>2, <1>5, <3>1, <3>2, <3>3 DEF PollTypeOK, jira
  <2>3. Steps(p)'
    BY <2>1, NoneIsNoTicket DEF Steps
  <2>4. Waiting(p)'
    BY <1>1, <1>2, <1>4, <2>1 DEF Waiting, Seen
  <2>5. Behind(p)'
    BY <1>1, <1>2, <2>1 DEF Behind, Seen, InWindow, IsCreated, jira
  <2>6. Listed(p)'
    <3>1. Recorded(p)' = Recorded(p)
      BY <1>4, <2>1 DEF Recorded
    <3>. QED BY <1>1, <1>2, <3>1 DEF Listed
  <2>7. CycleInv(p)'
    BY <2>3, <2>4, <2>5, <2>6 DEF CycleInv
  <2>8. ASSUME NEW q \in Pollers, q # p PROVE CycleInv(q)'
    <3>1. pc'[q] = pc[q] /\ done'[q] = done[q] /\ at'[q] = at[q] /\ queue'[q] = queue[q]
      BY <1>1, <1>5, <2>8 DEF PollTypeOK, Goto, TriageOne
    <3>. QED BY <1>2, <2>8, <3>1, OthersKeep
  <2>. QED BY <1>3, <2>2, <2>7, <2>8 DEF PollInv
<1>6. CASE /\ Fail("triage") \/ Fail("sink")
           /\ UNCHANGED <<at, done, pc>> /\ paid' \in [Tickets -> Nat]
  <2>1. faults' \in 0..MaxFails
    BY <1>1, <1>6, BoundsAssumption DEF PollTypeOK, Fail
  <2>2. PollTypeOK'
    <3>1. \A q \in Pollers : queue'[q] \cup done'[q] \subseteq fresh'[q]
      BY <1>1, <1>2, <1>6 DEF PollTypeOK
    <3>. QED BY <1>1, <1>2, <1>6, <2>1, <3>1 DEF PollTypeOK, jira
  <2>3. Steps(p)' /\ Waiting(p)'
    BY <1>1, <1>2, <1>6 DEF Steps, Waiting, Seen
  <2>4. Behind(p)' /\ Listed(p)'
    BY <1>1, <1>2, <1>6 DEF Behind, Listed, Recorded, Seen, InWindow, IsCreated, jira
  <2>5. CycleInv(p)'
    BY <2>3, <2>4 DEF CycleInv
  <2>6. ASSUME NEW q \in Pollers, q # p PROVE CycleInv(q)'
    <3>1. queue'[q] = queue[q]
      BY <1>1, <2>6 DEF PollTypeOK, TriageOne
    <3>. QED BY <1>2, <1>6, <2>6, <3>1, OthersKeep
  <2>. QED BY <1>3, <2>2, <2>5, <2>6 DEF PollInv
<1>7. \/ /\ paid' = [paid EXCEPT ![t] = @ + 1] /\ at' = [at EXCEPT ![p] = t]
         /\ done' = [done EXCEPT ![p] = @ \cup {t}] /\ Goto(p, "save") /\ UNCHANGED faults
      \/ /\ Fail("triage") \/ Fail("sink")
         /\ UNCHANGED <<at, done, pc>> /\ paid' \in [Tickets -> Nat]
  BY <1>1 DEF TriageOne, PollTypeOK
<1>. QED BY <1>5, <1>6, <1>7

(* What one save writes: the cursor leaves nothing behind but what the     *)
(* file has held, and every key of the cycle is in the list.               *)
LEMMA SavedCursor ==
    ASSUME PollTypeOK, Dated, NEW p \in Pollers, Behind(p)
    PROVE  LET c == Settled(fresh[p], done[p])
               d == IF c = None THEN mem[p].cursor ELSE c
           IN /\ c \in Time \cup {None}
              /\ d \in Time /\ d <= now
              /\ InWindow(d, Tickets \ (kept \cup done[p]))
<1>. DEFINE c == Settled(fresh[p], done[p])
            d == IF c = None THEN mem[p].cursor ELSE c
<1>1. /\ fresh[p] \subseteq Tickets /\ done[p] \in SUBSET fresh[p]
      /\ \A t \in fresh[p] : created[t] \in Time
  BY DEF PollTypeOK, Behind, IsCreated
<1>2. \/ c = None
      \/ \E f \in done[p] : /\ c = created[f]
                            /\ \A u \in fresh[p] \ done[p] : created[f] <= created[u]
  BY <1>1, SettledIsOfRun
<1>3. CASE c = None
  BY <1>3 DEF Behind
<1>4. ASSUME NEW f \in done[p], c = created[f],
             \A u \in fresh[p] \ done[p] : created[f] <= created[u]
      PROVE  /\ c \in Time \cup {None} /\ d \in Time /\ d <= now
             /\ InWindow(d, Tickets \ (kept \cup done[p]))
  <2>. HIDE DEF c
  <2>1. c \in Time /\ c # None /\ f \in fresh[p] /\ f \in Tickets
    BY <1>1, <1>4 DEF Time, None
  <2>2. c <= now
    BY <1>4, <2>1 DEF Dated
  <2>3. ASSUME NEW u \in Tickets \ (kept \cup done[p]), IsCreated(u)
        PROVE  created[u] >= c - Overlap
    <3>1. CASE u \in fresh[p]
      BY <1>1, <1>4, <2>1, <2>3, <3>1, WindowAssumption DEF Time
    <3>2. CASE u \notin fresh[p]
      BY <1>4, <2>1, <2>3, <3>2 DEF Behind, InWindow
    <3>. QED BY <3>1, <3>2
  <2>. QED BY <2>1, <2>2, <2>3 DEF InWindow
<1>. QED BY <1>2, <1>3, <1>4

LEMMA SaveKeeps ==
    ASSUME PollInv, NEW p \in Pollers, Save(p)
    PROVE  PollInv'
<1>. DEFINE c == Settled(fresh[p], done[p])
            s == Record(mem[p], at[p], c)
            n == Cardinality(Recorded(p))
<1>1. /\ PollTypeOK /\ Dated /\ FileInv /\ pc[p] = "save"
      /\ Steps(p) /\ Waiting(p) /\ Behind(p) /\ Listed(p)
  BY DEF PollInv, CycleInv, Save
<1>2. /\ mem'[p] = s /\ at'[p] = None /\ pc'[p] = "queue" /\ UNCHANGED <<jira, fresh, queue, done, paid>>
      /\ \/ file' = s /\ kept' = kept \cup Seen(s) /\ UNCHANGED faults
         \/ Fail("save") /\ UNCHANGED <<file, kept>>
  BY <1>1 DEF Save, PollTypeOK, Goto
<1>3. at[p] \in done[p] /\ at[p] \in Tickets /\ mem[p] \in State /\ at[p] \notin Seen(mem[p])
  BY <1>1 DEF Steps, Waiting, PollTypeOK
<1>4. /\ c \in Time \cup {None}
      /\ LET d == IF c = None THEN mem[p].cursor ELSE c
         IN d \in Time /\ d <= now /\ InWindow(d, Tickets \ (kept \cup done[p]))
  BY <1>1, SavedCursor
<1>5. /\ s \in State
      /\ s.cursor = IF c = None THEN mem[p].cursor ELSE c
      /\ Seen(s) \subseteq Seen(mem[p]) \cup {at[p]}
      /\ n \in Nat /\ n + 1 <= SeenCap =>
           Newest(mem[p].seen, n) \cup {at[p]} \subseteq Newest(s.seen, n + 1)
  <2>1. c \in Time \cup {None}
    BY <1>4
  <2>. HIDE DEF c
  <2>2. /\ Record(mem[p], at[p], c) \in State
        /\ Record(mem[p], at[p], c).cursor = IF c = None THEN mem[p].cursor ELSE c
        /\ Seen(Record(mem[p], at[p], c)) \subseteq Seen(mem[p]) \cup {at[p]}
        /\ \A k \in Nat : at[p] \notin Seen(mem[p]) /\ k + 1 <= SeenCap =>
             Newest(mem[p].seen, k) \cup {at[p]} \subseteq Newest(Record(mem[p], at[p], c).seen, k + 1)
    BY <1>3, <2>1, RecordIs
  <2>. HIDE DEF n
  <2>. QED BY <1>3, <2>2
<1>6. s.cursor \in Time /\ s.cursor <= now /\ InWindow(s.cursor, Tickets \ (kept \cup done[p]))
  <2>. HIDE DEF c, s
  <2>. QED BY <1>4, <1>5
<1>7. /\ n \in Nat /\ n + 1 <= SeenCap /\ Cardinality(done[p]) = n + 1
      /\ done[p] = Recorded(p) \cup {at[p]}
  <2>1. fresh[p] \subseteq Tickets /\ done[p] \subseteq fresh[p]
    BY <1>1 DEF PollTypeOK
  <2>2. IsFiniteSet(fresh[p]) /\ IsFiniteSet(done[p])
    BY <2>1, TicketsAssumption, FS_Subset
  <2>3. Cardinality(done[p]) <= Cardinality(fresh[p]) /\ Cardinality(done[p]) \in Nat
        /\ Cardinality(fresh[p]) \in Nat
    BY <2>1, <2>2, FS_Subset, FS_CardinalityType
  <2>4. IsFiniteSet(Recorded(p)) /\ n = Cardinality(done[p]) - 1 /\ n \in Nat
    BY <1>3, <2>2, FS_RemoveElement, FS_CardinalityType DEF Recorded
  <2>5. Cardinality(fresh[p]) <= PageCap
    BY <1>1 DEF Listed
  <2>. HIDE DEF n
  <2>6. done[p] = Recorded(p) \cup {at[p]}
    BY <1>3 DEF Recorded
  <2>. QED BY <2>3, <2>4, <2>5, <2>6, CapsAssumption
<1>8. done[p] \subseteq Newest(s.seen, n + 1)
  <2>1. Recorded(p) \subseteq Newest(mem[p].seen, n)
    BY <1>1 DEF Listed
  <2>. HIDE DEF s, n
  <2>. QED BY <1>5, <1>7, <2>1
<1>9. done[p] \subseteq Seen(s)
  <2>1. s.seen \in Seq(Tickets)
    BY <1>5 DEF State
  <2>. HIDE DEF s, n
  <2>. QED BY <1>8, <2>1, SeqSet DEF Newest, Seen
<1>. HIDE DEF s, c, n
<1>10. PollTypeOK'
  <2>1. /\ mem' \in [Pollers -> State] /\ at' \in [Pollers -> Tickets \cup {None}]
        /\ pc' \in [Pollers -> {"idle", "search", "queue", "save"}]
    BY <1>1, <1>5 DEF Save, PollTypeOK, Goto, s, c
  <2>2. Seen(s) \subseteq Tickets
    BY <1>5, SeqSet DEF Seen, State
  <2>3. file' \in State /\ kept' \subseteq Tickets /\ faults' \in 0..MaxFails
    BY <1>1, <1>2, <1>5, <2>2, BoundsAssumption DEF PollTypeOK, Fail
  <2>. QED BY <1>1, <1>2, <2>1, <2>3 DEF PollTypeOK, jira
<1>11. Dated'
  BY <1>1, <1>2 DEF Dated, IsCreated, jira
<1>12. FileInv'
  <2>1. CASE file' = s /\ kept' = kept \cup Seen(s)
    <3>1. Seen(file)' \subseteq kept'
      BY <2>1 DEF Seen
    <3>2. InWindow(file.cursor, Tickets \ kept)'
      BY <1>2, <1>6, <1>9, <2>1 DEF InWindow, IsCreated, jira
    <3>. QED BY <1>2, <1>6, <2>1, <3>1, <3>2 DEF FileInv, jira
  <2>2. CASE UNCHANGED <<file, kept>>
    BY <1>1, <1>2, <2>2 DEF FileInv, InWindow, IsCreated, Seen, jira
  <2>. QED BY <1>2, <2>1, <2>2
<1>13. Steps(p)'
  BY <1>2, NoneIsNoTicket DEF Steps
<1>14. Waiting(p)'
  <2>1. queue[p] \cap Seen(s) = {}
    BY <1>1, <1>3, <1>5 DEF Waiting
  <2>2. None \notin Seen(s)
    BY <1>5, NoneIsNoTicket, SeqSet DEF Seen, State
  <2>. QED BY <1>1, <1>2, <2>1, <2>2 DEF Waiting, Seen
<1>15. Behind(p)'
  <2>1. kept \subseteq kept'
    BY <1>2
  <2>2. (mem[p].cursor \in Time /\ mem[p].cursor <= now /\ Seen(mem[p]) \subseteq kept \cup done[p])'
    BY <1>1, <1>2, <1>3, <1>5, <1>6, <2>1 DEF Behind, Seen, jira
  <2>3. InWindow(mem[p].cursor, Tickets \ (kept \cup done[p]))'
    BY <1>2, <1>6, <2>1 DEF jira, InWindow, IsCreated
  <2>4. (\A t \in fresh[p] : IsCreated(t) /\ InWindow(created[t], Tickets \ (kept \cup fresh[p])))'
    BY <1>1, <1>2, <2>1 DEF jira, Behind, InWindow, IsCreated
  <2>. QED BY <2>2, <2>3, <2>4 DEF Behind
<1>16. Listed(p)'
  <2>1. Recorded(p)' = done[p]
    BY <1>1, <1>2, NoneIsNoTicket DEF Recorded, PollTypeOK
  <2>2. Cardinality(Recorded(p)') = n + 1
    BY <1>7, <2>1
  <2>. QED BY <1>1, <1>2, <1>8, <2>1, <2>2 DEF Listed
<1>17. CycleInv(p)'
  BY <1>13, <1>14, <1>15, <1>16 DEF CycleInv
<1>18. ASSUME NEW q \in Pollers, q # p PROVE CycleInv(q)'
  <2>1. pc'[q] = pc[q] /\ mem'[q] = mem[q] /\ at'[q] = at[q]
    BY <1>1, <1>18 DEF Save, PollTypeOK, Goto
  <2>. QED BY <1>2, <1>18, <2>1, OthersKeep
<1>. QED BY <1>10, <1>11, <1>12, <1>17, <1>18 DEF PollInv

(* What people and Jira's index do leaves every cursor and every list as   *)
(* it was; a ticket created now is in every window.                        *)
LEMMA JiraKeeps ==
    ASSUME PollInv, UNCHANGED <<file, pc, cycle, history, faults>>,
           PollTypeOK', Dated', now' >= now,
           \A t \in Tickets : created'[t] = created[t] \/ (created[t] = None /\ created'[t] = now)
    PROVE  PollInv'
<1>1. PollTypeOK /\ FileInv /\ UNCHANGED <<file, pc, mem, fresh, queue, done, at, kept>>
  BY DEF PollInv, cycle, history
<1>2. ASSUME NEW d \in Time, d <= now, NEW ts \in SUBSET Tickets, InWindow(d, ts)
      PROVE  d <= now' /\ \A t \in ts : created'[t] # None => created'[t] >= d - Overlap
  <2>1. d <= now'
    BY <1>1, <1>2 DEF PollTypeOK, Time
  <2>2. ASSUME NEW t \in ts, created'[t] # None PROVE created'[t] >= d - Overlap
    <3>1. CASE created'[t] = created[t]
      BY <1>2, <2>2, <3>1 DEF InWindow, IsCreated
    <3>2. CASE created'[t] = now
      BY <1>1, <1>2, <3>2, WindowAssumption DEF PollTypeOK, Time
    <3>. QED BY <3>1, <3>2
  <2>. QED BY <2>1, <2>2
<1>3. FileInv'
  <2>1. (file.cursor \in Time /\ file.cursor <= now)' /\ InWindow(file.cursor, Tickets \ kept)'
    BY <1>1, <1>2 DEF FileInv, InWindow, IsCreated
  <2>. QED BY <1>1, <2>1 DEF FileInv, Seen
<1>4. ASSUME NEW p \in Pollers PROVE CycleInv(p)'
  <2>1. CycleInv(p)
    BY DEF PollInv
  <2>2. Steps(p)'
    BY <1>1, <2>1 DEF CycleInv, Steps
  <2>. SUFFICES ASSUME pc[p] # "idle" PROVE (Waiting(p) /\ Behind(p) /\ Listed(p))'
    BY <1>1, <2>2 DEF CycleInv
  <2>3. Waiting(p) /\ Behind(p) /\ Listed(p)
    BY <2>1 DEF CycleInv
  <2>4. (Waiting(p) /\ Listed(p))'
    BY <1>1, <2>3 DEF Waiting, Listed, Seen, Recorded
  <2>5. (mem[p].cursor \in Time /\ mem[p].cursor <= now /\ Seen(mem[p]) \subseteq kept \cup done[p])'
        /\ InWindow(mem[p].cursor, Tickets \ (kept \cup done[p]))'
    BY <1>1, <1>2, <2>3 DEF Behind, Seen, InWindow, IsCreated
  <2>6. (\A t \in fresh[p] : IsCreated(t) /\ InWindow(created[t], Tickets \ (kept \cup fresh[p])))'
    <3>. SUFFICES ASSUME NEW t \in fresh[p]
                  PROVE  IsCreated(t)' /\ InWindow(created[t], Tickets \ (kept \cup fresh[p]))'
      BY <1>1
    <3>1. t \in Tickets /\ created[t] \in Time /\ created[t] <= now /\ created'[t] # None
          /\ InWindow(created[t], Tickets \ (kept \cup fresh[p]))
      <4>1. t \in Tickets /\ IsCreated(t) /\ InWindow(created[t], Tickets \ (kept \cup fresh[p]))
        BY <1>1, <2>3 DEF PollTypeOK, Behind
      <4>2. created[t] \in Time /\ created[t] <= now /\ now # None
        BY <1>1, <4>1 DEF PollTypeOK, IsCreated, PollInv, Dated, Time, None
      <4>. QED BY <4>1, <4>2 DEF IsCreated
    <3>2. created'[t] = created[t]
      BY <3>1 DEF Time, None
    <3>. QED BY <1>1, <1>2, <3>1, <3>2 DEF InWindow, IsCreated
  <2>. QED BY <2>4, <2>5, <2>6 DEF Behind
<1>. QED BY <1>1, <1>3, <1>4 DEF PollInv

LEMMA CreateKeeps ==
    ASSUME PollInv, NEW t \in Tickets, Create(t)
    PROVE  PollInv'
<1>1. PollTypeOK /\ Dated
  BY DEF PollInv
<1>2. PollTypeOK'
  <2>1. created' \in [Tickets -> Time \cup {None}]
    BY <1>1 DEF PollTypeOK, Create
  <2>2. visible' \subseteq {u \in Tickets : created'[u] # None}
    BY <1>1 DEF PollTypeOK, Create
  <2>. QED BY <1>1, <2>1, <2>2 DEF PollTypeOK, Create, cycle, history
<1>3. Dated'
  BY <1>1, WindowAssumption DEF PollTypeOK, Create, Dated, IsCreated, Time
<1>4. now' >= now /\ \A u \in Tickets : created'[u] = created[u] \/ (created[u] = None /\ created'[u] = now)
  BY <1>1 DEF PollTypeOK, Create, Time
<1>. QED BY <1>2, <1>3, <1>4, JiraKeeps DEF Create

LEMMA IndexKeeps ==
    ASSUME PollInv, NEW t \in Tickets, Index(t)
    PROVE  PollInv'
<1>1. PollTypeOK /\ Dated
  BY DEF PollInv
<1>2. PollTypeOK'
  BY <1>1 DEF PollTypeOK, Index, cycle, history
<1>3. Dated'
  BY <1>1 DEF Index, Dated, IsCreated
<1>4. now' >= now /\ \A u \in Tickets : created'[u] = created[u]
  BY <1>1 DEF PollTypeOK, Index, Time
<1>. QED BY <1>2, <1>3, <1>4, JiraKeeps DEF Index

LEMMA MinuteKeeps ==
    ASSUME PollInv, Minute
    PROVE  PollInv'
<1>1. PollTypeOK /\ Dated
  BY DEF PollInv
<1>2. PollTypeOK'
  <2>1. now' \in Time
    BY <1>1, BoundsAssumption DEF PollTypeOK, Minute, Time
  <2>. QED BY <1>1, <2>1 DEF PollTypeOK, Minute, cycle, history
<1>3. Dated'
  <2>1. \A u \in Tickets : created[u] \in Int /\ now \in Int
    BY <1>1 DEF PollTypeOK, Time, None
  <2>. QED BY <1>1, <2>1, WindowAssumption DEF Minute, Dated, IsCreated
<1>4. now' >= now /\ \A u \in Tickets : created'[u] = created[u]
  BY <1>1 DEF PollTypeOK, Minute, Time
<1>. QED BY <1>2, <1>3, <1>4, JiraKeeps DEF Minute

LEMMA PollInvariant ==
    ASSUME FirstCursor = 0
    PROVE  PollSpec => []PollInv
<1>1. PollInit => PollInv
  BY PollBegins
<1>2. PollInv /\ [PollNext]_pollVars => PollInv'
  <2>. SUFFICES ASSUME PollInv, [PollNext]_pollVars PROVE PollInv'
    OBVIOUS
  <2>1. ASSUME NEW p \in Pollers, Load(p) PROVE PollInv'
    BY <2>1, LoadKeeps
  <2>2. ASSUME NEW p \in Pollers, Search(p) PROVE PollInv'
    BY <2>2, SearchKeeps
  <2>3. ASSUME NEW p \in Pollers, NEW t \in Tickets, TriageOne(p, t) PROVE PollInv'
    BY <2>3, TriageKeeps
  <2>4. ASSUME NEW p \in Pollers, Save(p) PROVE PollInv'
    BY <2>4, SaveKeeps
  <2>5. ASSUME NEW p \in Pollers, Finish(p) PROVE PollInv'
    <3>1. faults' \in 0..MaxFails
      BY <2>5 DEF Finish, PollInv, PollTypeOK
    <3>. QED BY <2>5, <3>1, EndKeeps DEF Finish
  <2>6. ASSUME NEW p \in Pollers, Stop(p) \/ Crash(p) PROVE PollInv'
    <3>1. faults' \in 0..MaxFails
      BY <2>6, BoundsAssumption DEF Stop, Crash, Fail, PollInv, PollTypeOK
    <3>. QED BY <2>6, <3>1, EndKeeps DEF Stop, Crash
  <2>7. ASSUME NEW t \in Tickets, Create(t) \/ Index(t) PROVE PollInv'
    BY <2>7, CreateKeeps, IndexKeeps
  <2>8. CASE Minute
    BY <2>8, MinuteKeeps
  <2>9. CASE UNCHANGED pollVars
    BY <2>9 DEF pollVars, jira, cycle, history, PollInv, PollTypeOK, Dated, FileInv, CycleInv, Steps,
                Waiting, Behind, Listed, Recorded, InWindow, IsCreated, Seen
  <2>. QED BY <2>1, <2>2, <2>3, <2>4, <2>5, <2>6, <2>7, <2>8, <2>9 DEF PollNext, Poll
<1>. QED BY <1>1, <1>2, PTL DEF PollSpec

(* Discovery: a ticket that Jira shows and whose key the state file never  *)
(* held is in the window of the next cycle, whatever fails, whenever a     *)
(* process dies and however many poll (poller.ts, settledCursor).  The     *)
(* file starts with a cursor: with none the window slides with the clock.  *)
THEOREM NoTicketIsSkipped ==
    ASSUME FirstCursor = 0
    PROVE  PollSpec => [](PollTypeOK /\ NoneSkipped)
<1>1. PollInv => PollTypeOK /\ NoneSkipped
  <2>. SUFFICES ASSUME PollInv PROVE NoneSkipped
    BY DEF PollInv
  <2>1. visible \subseteq {t \in Tickets : IsCreated(t)} /\ file.cursor # None
    BY DEF PollInv, PollTypeOK, FileInv, IsCreated, Time, None
  <2>. QED BY <2>1 DEF PollInv, FileInv, InWindow, NoneSkipped, Window
<1>. QED BY <1>1, PollInvariant, PTL

---------------------------------------------------------------------------
(* With one poller, what waits for its triage is not in the file: nobody   *)
(* else has written there since it loaded.                                 *)
OnePoller == \A p, q \in Pollers : p = q

OwnFile ==
    \A p \in Pollers :
        /\ pc[p] = "search" => mem[p] = file
        /\ pc[p] # "idle" => queue[p] \cap Seen(file) = {}

LEMMA OwnFileStep ==
    ASSUME OnePoller, PollInv, OwnFile, [PollNext]_pollVars
    PROVE  OwnFile'
<1>1. PollTypeOK
  BY DEF PollInv
<1>2. ASSUME NEW p \in Pollers, Load(p) PROVE OwnFile'
  <2>1. /\ mem'[p] = file /\ file' = file /\ queue'[p] = {}
        /\ \A q \in Pollers : q = p
    BY <1>1, <1>2 DEF OnePoller, Load, PollInv, CycleInv, Steps, PollTypeOK
  <2>. QED BY <2>1 DEF OwnFile
<1>3. ASSUME NEW p \in Pollers, EndCycle(p), UNCHANGED file PROVE OwnFile'
  <2>1. pc'[p] = "idle" /\ \A q \in Pollers : q = p
    BY <1>1, <1>3 DEF OnePoller, EndCycle, Goto, PollTypeOK
  <2>. QED BY <2>1 DEF OwnFile
<1>4. ASSUME NEW p \in Pollers, Search(p) PROVE OwnFile'
  <2>1. CASE EndCycle(p)
    BY <1>3, <1>4, <2>1 DEF Search
  <2>2. CASE ~EndCycle(p)
    <3>1. mem[p] = file /\ UNCHANGED file /\ pc'[p] = "queue"
          /\ queue'[p] = Found(mem[p].cursor) \ Seen(mem[p])
          /\ \A q \in Pollers : q = p
      BY <1>1, <1>4, <2>2 DEF OnePoller, OwnFile, Search, Goto, PollTypeOK
    <3>. QED BY <3>1 DEF OwnFile, Seen
  <2>. QED BY <2>1, <2>2
<1>5. ASSUME NEW p \in Pollers, NEW t \in Tickets, TriageOne(p, t) PROVE OwnFile'
  <2>1. /\ file' = file /\ queue'[p] \subseteq queue[p] /\ pc[p] = "queue"
        /\ pc'[p] \in {"queue", "save"} /\ \A q \in Pollers : q = p
    BY <1>1, <1>5 DEF OnePoller, TriageOne, Goto, PollTypeOK
  <2>. QED BY <2>1 DEF OwnFile, Seen
<1>6. ASSUME NEW p \in Pollers, Save(p) PROVE OwnFile'
  <2>1. /\ pc[p] = "save" /\ pc'[p] = "queue" /\ queue' = queue
        /\ file' = Record(mem[p], at[p], Settled(fresh[p], done[p])) \/ file' = file
        /\ \A q \in Pollers : q = p
    BY <1>1, <1>6 DEF OnePoller, Save, Goto, PollTypeOK
  <2>2. /\ queue[p] \cap Seen(mem[p]) = {} /\ queue[p] \cap Seen(file) = {} /\ at[p] \notin queue[p]
        /\ mem[p] \in State /\ at[p] \in Tickets
    BY <1>1, <2>1 DEF OwnFile, PollInv, CycleInv, Waiting, Steps, PollTypeOK
  <2>3. Settled(fresh[p], done[p]) \in Time \cup {None}
    BY <1>1, <2>1, SavedCursor DEF PollInv, CycleInv
  <2>4. Seen(Record(mem[p], at[p], Settled(fresh[p], done[p]))) \subseteq Seen(mem[p]) \cup {at[p]}
    BY <2>2, <2>3, RecordIs
  <2>5. queue[p] \cap Seen(file)' = {}
    BY <2>1, <2>2, <2>4 DEF Seen
  <2>. QED BY <2>1, <2>5 DEF OwnFile
<1>7. ASSUME NEW p \in Pollers, Finish(p) \/ Stop(p) \/ Crash(p) PROVE OwnFile'
  BY <1>3, <1>7 DEF Finish, Stop, Crash
<1>8. CASE (\E t \in Tickets : Create(t) \/ Index(t)) \/ Minute \/ UNCHANGED pollVars
  BY <1>8 DEF Create, Index, Minute, pollVars, cycle, OwnFile, Seen
<1>. QED BY <1>2, <1>4, <1>5, <1>6, <1>7, <1>8 DEF PollNext, Poll

(* Discovery: a ticket whose key is in the state file is not triaged, and  *)
(* not paid for, again (poller.ts, the save after each triage).  For one   *)
(* poller: two write over each other's keys.                               *)
THEOREM NoTicketIsPaidTwice ==
    ASSUME OnePoller, FirstCursor = 0
    PROVE  PollSpec => PaidOnce
<1>1. PollInit => OwnFile
  BY DEF PollInit, OwnFile
<1>2. PollInv /\ OwnFile /\ [PollNext]_pollVars => OwnFile'
  BY OwnFileStep
<1>3. PollInv /\ OwnFile /\ [PollNext]_pollVars
        => [\A t \in Tickets : paid'[t] # paid[t] => t \notin Seen(file)]_pollVars
  <2>. SUFFICES ASSUME PollInv, OwnFile, PollNext, NEW t \in Tickets, paid'[t] # paid[t]
                PROVE  t \notin Seen(file)
    OBVIOUS
  <2>1. PICK p \in Pollers, u \in Tickets : TriageOne(p, u)
    BY DEF PollNext, Poll, Load, Search, Save, Finish, Stop, Crash, Create, Index, Minute, history
  <2>2. t = u
    BY <2>1 DEF TriageOne, PollInv, PollTypeOK
  <2>. QED BY <2>1, <2>2 DEF TriageOne, OwnFile
<1>. QED BY <1>1, <1>2, <1>3, PollInvariant, PTL DEF PollSpec, PaidOnce
=============================================================================
