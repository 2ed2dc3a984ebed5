---------------------------- MODULE SlackProofs ----------------------------
(***************************************************************************)
(* Theorems about what the program says in Slack: DraftFiling, for every   *)
(* set of drafts and people and every choice of faults, and AuditThread,   *)
(* for every set of callers, every kind of event and every limit.          *)
(*                                                                         *)
(* A draft is filed by one session as long as one listener runs; two would *)
(* each read the record before the other had marked it.  A ticket's thread *)
(* asks for no such thing: one process keeps one chain of updates for it.  *)
(***************************************************************************)
EXTENDS DraftFiling, AuditThread, FiniteSetTheorems, TLAPS

OneListener == \E l : Listeners = {l}

---------------------------------------------------------------------------
LEMMA FailTypes ==
    ASSUME TypeOK, NEW f, Fail(f)
    PROVE  faults' \in 0..MaxFaults
BY BoundsAssumption DEF TypeOK, Fail

(* What is heard is put behind the rest, and begun from the front.         *)
LEMMA HearTypes ==
    ASSUME TypeOK, NEW l \in Listeners, NEW e \in Event, Hear(l, e)
    PROVE  chain' \in [Listeners -> Seq(Event)]
BY DEF TypeOK, Hear

LEMMA BeginTypes ==
    ASSUME TypeOK, NEW l \in Listeners, NEW kind, Begin(l, kind)
    PROVE  /\ chain' \in [Listeners -> Seq(Event)]
           /\ Head(chain[l]) \in Event /\ Head(chain[l]).kind = kind
BY DEF TypeOK, Begin

(* The press a listener handles, in types: where it is, of which draft and *)
(* with which copy of the record.                                          *)
PressTypes ==
    /\ pc \in [Listeners -> Pc]
    /\ at \in [Listeners -> Drafts \cup {NoDraft}]
    /\ copy \in [Listeners -> Record \cup {NoRecord}]
    /\ \A l \in Listeners :
         /\ pc[l] # "idle" => at[l] \in Drafts
         /\ pc[l] \in {"markWrite", "clearWrite", "keyWrite"} => copy[l] \in Record
DraftTypes ==
    /\ drafting \in [Listeners -> [draft : Drafts \cup {NoDraft},
                                   stage : {"none", "session", "kept", "unsent"}]]
    /\ \A l \in Listeners : drafting[l].stage # "none" => drafting[l].draft \in Drafts
RestTypes ==
    /\ record \in [Drafts -> Record \cup {NoRecord}]
    /\ button \subseteq Drafts /\ orphans \subseteq Drafts
    /\ issues \in [Drafts -> Nat]
    /\ asked \in [Drafts -> Users \cup {Nobody}]
    /\ chain \in [Listeners -> Seq(Event)]
    /\ stopping \subseteq Listeners
    /\ presses \in 0..MaxPresses /\ faults \in 0..MaxFaults

LEMMA TypeParts == TypeOK <=> PressTypes /\ DraftTypes /\ RestTypes
BY DEF TypeOK, PressTypes, DraftTypes, RestTypes

LEMMA AnswerTypes ==
    ASSUME PressTypes, NEW l \in Listeners, Answer(l)
    PROVE  PressTypes'
BY DEF PressTypes, Answer, Pc

LEMMA GotoTypes ==
    ASSUME PressTypes, NEW l \in Listeners, NEW p \in Pc, Goto(l, p), pc[l] # "idle",
           p \notin {"markWrite", "clearWrite", "keyWrite"}
    PROVE  PressTypes'
BY DEF PressTypes, Goto, Pc

LEMMA CreatedTypes ==
    ASSUME RestTypes, NEW d \in Drafts, NEW n \in 0..2, Created(d, n)
    PROVE  issues' \in [Drafts -> Nat]
BY DEF RestTypes, Created

(* Whoever is on the chain or in a session to have a draft made asked for  *)
(* it, which is what names the record's asker.                             *)
ToDraft(l) == {i \in 1..Len(chain[l]) : chain[l][i].kind = "draft"}
AskedFor ==
    \A l \in Listeners :
        /\ \A i \in ToDraft(l) : asked[chain[l][i].draft] # Nobody
        /\ drafting[l].stage = "session" => asked[drafting[l].draft] # Nobody

LEMMA TypeInit == Init => TypeOK /\ AskedFor
BY BoundsAssumption DEF Init, TypeOK, NoRun, Pc, AskedFor, ToDraft

LEMMA TypeStep == TypeOK /\ AskedFor /\ [Next]_vars => TypeOK'
<1>. SUFFICES ASSUME TypeOK, AskedFor, [Next]_vars PROVE TypeOK'
  OBVIOUS
<1>0. PressTypes /\ DraftTypes /\ RestTypes
  BY TypeParts
<1>. SUFFICES PressTypes' /\ DraftTypes' /\ RestTypes'
  BY TypeParts DEF TypeOK, PressTypes, DraftTypes, RestTypes
<1>. USE DEF jira, slack, press
<1>1. ASSUME NEW l \in Listeners, NEW u \in Users, NEW d \in Drafts, Ask(l, u, d)
      PROVE  PressTypes' /\ DraftTypes' /\ RestTypes'
  <2>1. [kind |-> "draft", draft |-> d, user |-> u] \in Event
    BY DEF Event
  <2>2. chain' \in [Listeners -> Seq(Event)]
    BY <1>1, <2>1, HearTypes DEF Ask
  <2>. QED BY <1>0, <1>1, <2>2 DEF Ask, PressTypes, DraftTypes, RestTypes
<1>2. ASSUME NEW l \in Listeners, NEW u \in Users, NEW d \in Drafts, Press(l, u, d)
      PROVE  PressTypes' /\ DraftTypes' /\ RestTypes'
  <2>1. [kind |-> "press", draft |-> d, user |-> u] \in Event
    BY DEF Event
  <2>2. chain' \in [Listeners -> Seq(Event)]
    BY <1>2, <2>1, HearTypes DEF Press
  <2>3. presses' \in 0..MaxPresses
    BY <1>0, <1>2, BoundsAssumption DEF Press, RestTypes
  <2>. QED BY <1>0, <1>2, <2>2, <2>3 DEF Press, PressTypes, DraftTypes, RestTypes
<1>3. ASSUME NEW l \in Listeners, HearDraft(l) PROVE PressTypes' /\ DraftTypes' /\ RestTypes'
  <2>1. chain' \in [Listeners -> Seq(Event)] /\ Head(chain[l]).draft \in Drafts
    BY <1>3, BeginTypes DEF HearDraft, Event
  <2>2. DraftTypes'
    BY <1>0, <1>3, <2>1 DEF HearDraft, DraftTypes
  <2>. QED BY <1>0, <1>3, <2>1, <2>2 DEF HearDraft, PressTypes, RestTypes
<1>4. ASSUME NEW l \in Listeners, EndSession(l) PROVE PressTypes' /\ DraftTypes' /\ RestTypes'
  <2>1. DraftTypes'
    BY <1>0, <1>4 DEF EndSession, DraftTypes, NoRun
  <2>2. /\ drafting[l].draft \in Drafts
        /\ [asker |-> asked[drafting[l].draft], filing |-> FALSE, filed |-> FALSE] \in Record
    BY <1>0, <1>4 DEF EndSession, DraftTypes, RestTypes, AskedFor, Record
  <2>3. record' \in [Drafts -> Record \cup {NoRecord}]
    BY <1>0, <1>4, <2>2 DEF EndSession, RestTypes
  <2>. QED BY <1>0, <1>4, <2>1, <2>3 DEF EndSession, PressTypes, RestTypes
<1>5. ASSUME NEW l \in Listeners, Deliver(l) PROVE PressTypes' /\ DraftTypes' /\ RestTypes'
  <2>1. drafting[l].draft \in Drafts
    BY <1>0, <1>5 DEF Deliver, DraftTypes
  <2>3. \/ drafting' = [drafting EXCEPT ![l] = NoRun]
        \/ drafting' = [drafting EXCEPT ![l].stage = "unsent"]
    BY <1>5 DEF Deliver
  <2>4. DraftTypes'
    BY <1>0, <2>1, <2>3 DEF DraftTypes, NoRun
  <2>5. button' \subseteq Drafts
    BY <1>0, <1>5, <2>1 DEF Deliver, RestTypes
  <2>2. faults' \in 0..MaxFaults
    BY <1>0, <1>5, FailTypes DEF Deliver, RestTypes
  <2>. QED BY <1>0, <1>5, <2>2, <2>4, <2>5 DEF Deliver, PressTypes, RestTypes
<1>6. ASSUME NEW l \in Listeners, Discard(l) PROVE PressTypes' /\ DraftTypes' /\ RestTypes'
  <2>1. DraftTypes' /\ record' \in [Drafts -> Record \cup {NoRecord}]
    BY <1>0, <1>6 DEF Discard, DraftTypes, RestTypes, NoRun
  <2>2. faults' \in 0..MaxFaults
    BY <1>0, <1>6, FailTypes DEF Discard, RestTypes
  <2>. QED BY <1>0, <1>6, <2>1, <2>2 DEF Discard, PressTypes, RestTypes
<1>7. ASSUME NEW l \in Listeners, HearPress(l) PROVE PressTypes' /\ DraftTypes' /\ RestTypes'
  <2>1. chain' \in [Listeners -> Seq(Event)] /\ Head(chain[l]).draft \in Drafts
    BY <1>7, BeginTypes DEF HearPress, Event
  <2>2. faults' \in 0..MaxFaults
    BY <1>0, <1>7, FailTypes DEF HearPress, RestTypes
  <2>3. PressTypes'
    BY <1>0, <1>7, <2>1, AnswerTypes DEF HearPress, PressTypes, Pc
  <2>. QED BY <1>0, <1>7, <2>1, <2>2, <2>3 DEF HearPress, DraftTypes, RestTypes
<1>8. ASSUME NEW l \in Listeners, Gate(l) PROVE PressTypes' /\ DraftTypes' /\ RestTypes'
  BY <1>0, <1>8, AnswerTypes, GotoTypes DEF Gate, Pc, DraftTypes, RestTypes
<1>9. ASSUME NEW l \in Listeners, UpdateRead(l) PROVE PressTypes' /\ DraftTypes' /\ RestTypes'
  <2>1. faults' \in 0..MaxFaults
    BY <1>0, <1>9, FailTypes DEF UpdateRead, RestTypes
  <2>2. CASE Answer(l)
    BY <1>0, <1>9, <2>1, <2>2, AnswerTypes DEF UpdateRead, DraftTypes, RestTypes
  <2>3. CASE record[at[l]] # NoRecord /\ copy' = [copy EXCEPT ![l] = record[at[l]]]
             /\ pc' = [pc EXCEPT ![l] = Writing[pc[l]]] /\ UNCHANGED at
    <3>1. at[l] \in Drafts /\ record[at[l]] \in Record
      BY <1>0, <1>9, <2>3 DEF UpdateRead, Updating, PressTypes, RestTypes
    <3>2. Writing[pc[l]] \in {"markWrite", "clearWrite", "keyWrite"}
      BY <1>9 DEF UpdateRead, Updating, Writing
    <3>3. PressTypes'
      BY <1>0, <2>3, <3>1, <3>2 DEF PressTypes, Pc
    <3>. QED BY <1>0, <1>9, <2>1, <3>3 DEF UpdateRead, DraftTypes, RestTypes
  <2>. QED BY <1>9, <2>2, <2>3 DEF UpdateRead
<1>10. ASSUME NEW l \in Listeners, UpdateWrite(l) PROVE PressTypes' /\ DraftTypes' /\ RestTypes'
  <2>1. faults' \in 0..MaxFaults
    BY <1>0, <1>10, FailTypes DEF UpdateWrite, RestTypes
  <2>2. copy[l] \in Record /\ at[l] \in Drafts /\ pc[l] # "idle"
    BY <1>0, <1>10 DEF UpdateWrite, PressTypes
  <2>3. /\ [copy[l] EXCEPT !.filing = TRUE] \in Record /\ [copy[l] EXCEPT !.filing = FALSE] \in Record
        /\ [copy[l] EXCEPT !.filed = TRUE] \in Record
    BY <2>2 DEF Record
  <2>4. record' \in [Drafts -> Record \cup {NoRecord}]
    BY <1>0, <1>10, <2>2, <2>3
       DEF UpdateWrite, UpdateWrites, MarkWrite, ClearWrite, KeyWrite, RestTypes
  <2>5. PressTypes'
    BY <1>0, <1>10, <2>2, AnswerTypes, GotoTypes
       DEF UpdateWrite, MarkWrite, ClearWrite, KeyWrite, Pc
  <2>. QED BY <1>0, <1>10, <2>1, <2>4, <2>5 DEF UpdateWrite, DraftTypes, RestTypes
<1>11. ASSUME NEW l \in Listeners, File(l) PROVE PressTypes' /\ DraftTypes' /\ RestTypes'
  <2>1. at[l] \in Drafts
    BY <1>0, <1>11 DEF File, PressTypes
  <2>2. PressTypes'
    BY <1>0, <1>11, AnswerTypes, GotoTypes DEF File, NotCreated, FiledAs, Unclear, Pc
  <2>3. issues' \in [Drafts -> Nat] /\ orphans' \subseteq Drafts
    BY <1>0, <1>11, <2>1, CreatedTypes DEF File, NotCreated, FiledAs, Unclear, RestTypes
  <2>. QED BY <1>0, <1>11, <2>2, <2>3 DEF File, DraftTypes, RestTypes
<1>12. ASSUME NEW l \in Listeners, Crash(l) PROVE PressTypes' /\ DraftTypes' /\ RestTypes'
  <2>1. PressTypes' /\ faults' \in 0..MaxFaults
    BY <1>0, <1>12, AnswerTypes, FailTypes DEF Crash, Forget
  <2>2. DraftTypes'
    BY <1>0, <1>12 DEF Crash, Forget, DraftTypes, NoRun
  <2>3. orphans' \subseteq Drafts /\ chain' \in [Listeners -> Seq(Event)]
    BY <1>0, <1>12 DEF Crash, Forget, PressTypes, RestTypes
  <2>. QED BY <1>0, <1>12, <2>1, <2>2, <2>3 DEF Crash, Forget, RestTypes
<1>13. ASSUME NEW d \in Drafts, OrphanEnds(d) PROVE PressTypes' /\ DraftTypes' /\ RestTypes'
  <2>1. issues' \in [Drafts -> Nat] /\ orphans' \subseteq Drafts
    BY <1>0, <1>13, CreatedTypes DEF OrphanEnds, RestTypes
  <2>. QED BY <1>0, <1>13, <2>1 DEF OrphanEnds, PressTypes, DraftTypes, RestTypes
<1>14. ASSUME NEW l \in Listeners, Stop(l) \/ Restart(l) PROVE PressTypes' /\ DraftTypes' /\ RestTypes'
  BY <1>0, <1>14 DEF Stop, Restart, PressTypes, DraftTypes, RestTypes
<1>15. CASE UNCHANGED vars
  BY <1>0, <1>15 DEF vars, PressTypes, DraftTypes, RestTypes
<1>. QED
  BY <1>1, <1>2, <1>3, <1>4, <1>5, <1>6, <1>7, <1>8, <1>9, <1>10, <1>11, <1>12, <1>13, <1>14, <1>15
     DEF Next, Handle, Draft

(* An event on the chain stays where it is but for the place it loses when *)
(* the first is begun.                                                     *)
LEMMA BegunChain ==
    ASSUME TypeOK, NEW l \in Listeners, NEW kind, Begin(l, kind)
    PROVE  /\ 1 \in 1..Len(chain[l]) /\ Head(chain[l]) = chain[l][1]
           /\ \A i \in 1..Len(chain'[l]) :
                i + 1 \in 1..Len(chain[l]) /\ chain'[l][i] = chain[l][i + 1]
           /\ \A k \in Listeners : k # l => chain'[k] = chain[k]
BY DEF TypeOK, Begin

LEMMA HeardChain ==
    ASSUME TypeOK, NEW l \in Listeners, NEW e \in Event, Hear(l, e)
    PROVE  /\ \A i \in 1..Len(chain'[l]) :
                \/ i \in 1..Len(chain[l]) /\ chain'[l][i] = chain[l][i]
                \/ i = Len(chain[l]) + 1 /\ chain'[l][i] = e
           /\ \A k \in Listeners : k # l => chain'[k] = chain[k]
BY DEF TypeOK, Hear

(* What waits to be drafted after a begun event waited before it.          *)
LEMMA BegunWaits ==
    ASSUME TypeOK, NEW l \in Listeners, NEW kind, Begin(l, kind), NEW k \in Listeners,
           NEW i \in ToDraft(k)'
    PROVE  \/ k # l /\ i \in ToDraft(k) /\ chain'[k][i] = chain[k][i]
           \/ k = l /\ i + 1 \in ToDraft(k) /\ chain'[k][i] = chain[k][i + 1]
BY BegunChain DEF ToDraft

LEMMA HeardWaits ==
    ASSUME TypeOK, NEW l \in Listeners, NEW e \in Event, Hear(l, e), NEW k \in Listeners,
           NEW i \in ToDraft(k)'
    PROVE  \/ i \in ToDraft(k) /\ chain'[k][i] = chain[k][i]
           \/ k = l /\ i = Len(chain[k]) + 1 /\ chain'[k][i] = e /\ e.kind = "draft"
BY HeardChain DEF ToDraft

LEMMA WaitingIsDraft ==
    ASSUME TypeOK, NEW l \in Listeners, NEW i \in ToDraft(l)
    PROVE  chain[l][i].draft \in Drafts
<1>1. chain[l] \in Seq(Event) /\ i \in 1..Len(chain[l])
  BY DEF TypeOK, ToDraft
<1>2. chain[l][i] \in Event
  BY <1>1
<1>. QED BY <1>2 DEF Event

LEMMA AskedStep == TypeOK /\ AskedFor /\ [Next]_vars => AskedFor'
<1>. SUFFICES ASSUME TypeOK, AskedFor, [Next]_vars PROVE AskedFor'
  OBVIOUS
<1>. USE DEF jira, slack, press
<1>1. CASE UNCHANGED <<asked, chain, drafting>>
  BY <1>1 DEF AskedFor, ToDraft
<1>2. ASSUME NEW l \in Listeners, NEW u \in Users, NEW d \in Drafts, Ask(l, u, d) PROVE AskedFor'
  <2> DEFINE e == [kind |-> "draft", draft |-> d, user |-> u]
  <2>1. e \in Event /\ e.draft = d /\ Hear(l, e)
    BY <1>2 DEF Ask, Event
  <2>2. \A x \in Drafts : asked'[x] = IF x = d THEN u ELSE asked[x]
    BY <1>2 DEF Ask, TypeOK
  <2>3. u # Nobody /\ drafting' = drafting
    BY <1>2, NamesAssumption DEF Ask
  <2>. HIDE DEF e
  <2>4. ASSUME NEW k \in Listeners, NEW i \in ToDraft(k)' PROVE asked'[chain'[k][i].draft] # Nobody
    <3>1. CASE i \in ToDraft(k) /\ chain'[k][i] = chain[k][i]
      <4>1. chain[k][i].draft \in Drafts /\ asked[chain[k][i].draft] # Nobody
        BY <3>1, WaitingIsDraft DEF AskedFor
      <4>. QED BY <2>2, <2>3, <3>1, <4>1
    <3>2. CASE chain'[k][i] = e
      BY <2>1, <2>2, <2>3, <3>2
    <3>. QED BY <2>1, <2>4, <3>1, <3>2, HeardWaits
  <2>5. ASSUME NEW k \in Listeners, drafting'[k].stage = "session"
        PROVE  asked'[drafting'[k].draft] # Nobody
    BY <2>2, <2>3, <2>5 DEF TypeOK, AskedFor
  <2>. QED BY <2>4, <2>5 DEF AskedFor
<1>3. ASSUME NEW l \in Listeners, NEW u \in Users, NEW d \in Drafts, Press(l, u, d) PROVE AskedFor'
  <2> DEFINE e == [kind |-> "press", draft |-> d, user |-> u]
  <2>1. e \in Event /\ e.kind = "press" /\ Hear(l, e) /\ UNCHANGED <<asked, drafting>>
    BY <1>3 DEF Press, Event
  <2>. HIDE DEF e
  <2>. QED BY <2>1, HeardWaits DEF AskedFor
<1>4. ASSUME NEW l \in Listeners, HearDraft(l) PROVE AskedFor'
  <2>1. Begin(l, "draft") /\ asked' = asked
    BY <1>4 DEF HearDraft
  <2>2. \A k \in Listeners : \A i \in ToDraft(k)' : asked'[chain'[k][i].draft] # Nobody
    BY <2>1, BegunWaits DEF AskedFor
  <2>3. 1 \in ToDraft(l) /\ Head(chain[l]) = chain[l][1]
    BY <2>1, BegunChain DEF ToDraft, Begin
  <2>4. \A k \in Listeners : \/ drafting'[k] = drafting[k]
                             \/ drafting'[k].draft = chain[l][1].draft
    BY <1>4, <2>3 DEF HearDraft, TypeOK
  <2>. QED BY <2>1, <2>2, <2>3, <2>4 DEF AskedFor
<1>5. ASSUME NEW l \in Listeners, HearPress(l) PROVE AskedFor'
  <2>1. Begin(l, "press") /\ UNCHANGED <<asked, drafting>>
    BY <1>5 DEF HearPress
  <2>. QED BY <2>1, BegunWaits DEF AskedFor
<1>6. ASSUME NEW l \in Listeners, Draft(l) PROVE AskedFor'
  <2>1. UNCHANGED <<asked, chain>>
    BY <1>6 DEF Draft, EndSession, Deliver, Discard
  <2>2. \A k \in Listeners : drafting'[k] = drafting[k] \/ drafting'[k].stage # "session"
    BY <1>6 DEF Draft, EndSession, Deliver, Discard, NoRun, TypeOK
  <2>. QED BY <2>1, <2>2 DEF AskedFor, ToDraft
<1>7. ASSUME NEW l \in Listeners, Crash(l) PROVE AskedFor'
  <2>1. /\ asked' = asked /\ chain'[l] = <<>> /\ drafting'[l].stage = "none"
        /\ \A k \in Listeners : k # l => chain'[k] = chain[k] /\ drafting'[k] = drafting[k]
    BY <1>7 DEF Crash, Forget, NoRun, TypeOK
  <2>. QED BY <2>1 DEF AskedFor, ToDraft
<1>8. ASSUME NEW l \in Listeners,
             Gate(l) \/ UpdateRead(l) \/ UpdateWrite(l) \/ File(l) \/ Stop(l) \/ Restart(l)
      PROVE  AskedFor'
  BY <1>1, <1>8 DEF Gate, UpdateRead, UpdateWrite, File, Stop, Restart
<1>9. ASSUME NEW d \in Drafts, OrphanEnds(d) PROVE AskedFor'
  BY <1>1, <1>9 DEF OrphanEnds
<1>10. CASE UNCHANGED vars
  BY <1>1, <1>10 DEF vars
<1>. QED BY <1>2, <1>3, <1>4, <1>5, <1>6, <1>7, <1>8, <1>9, <1>10 DEF Next, Handle

(* The listener, its records and its presses keep their types, for any     *)
(* number of listeners.                                                    *)
THEOREM DraftTypeCorrect == Spec => []TypeOK
BY TypeInit, TypeStep, AskedStep, PTL DEF Spec

---------------------------------------------------------------------------
(* Drafts of which nothing has been made and no call may yet make something*)
(* and drafts whose record is marked, or gone, so that no press begins.    *)
clean  == {d \in Drafts : issues[d] = 0 /\ d \notin orphans}
marked == {d \in Drafts : record[d] = NoRecord \/ record[d].filing \/ record[d].filed}

(* A draft not yet drafted: asked for once, in one place, with no record.  *)
fresh == {d \in Drafts : d \in clean /\ record[d] = NoRecord /\ \A l \in Listeners : at[l] # d}
Unasked ==
    \A d \in Drafts : asked[d] = Nobody =>
        d \in fresh /\ \A l \in Listeners : drafting[l].draft # d
Waiting ==
    \A l \in Listeners : \A i \in ToDraft(l) :
        /\ chain[l][i].draft \in fresh /\ drafting[l].draft # chain[l][i].draft
        /\ \A j \in ToDraft(l) : chain[l][j].draft = chain[l][i].draft => i = j
InSession == \A l \in Listeners : drafting[l].stage = "session" => drafting[l].draft \in fresh
FreshInv == Unasked /\ Waiting /\ InSession

(* A draft whose record a press would take up is clean; a press keeps its  *)
(* draft clean up to the writer's session and again once the session has   *)
(* sworn it made nothing; the mark is there before the session and stays.  *)
UnmarkedIsClean == Drafts \subseteq marked \cup clean
OrphansUnmade == \A d \in orphans : issues[d] = 0
PressIsClean ==
    \A l \in Listeners :
        pc[l] \in {"gate", "mark", "markWrite", "file", "clear", "clearWrite"} => at[l] \in clean
PressIsMarked == \A l \in Listeners : pc[l] \in {"file", "key", "keyWrite"} => at[l] \in marked
FilingInv == UnmarkedIsClean /\ OrphansUnmade /\ PressIsClean /\ PressIsMarked

(* Nothing but the end of its session ends a draft's being fresh.          *)
SessionGoesOn(d) ==
    \A l \in Listeners :
        drafting[l].stage = "session" /\ drafting[l].draft = d => drafting'[l].stage = "session"

LEMMA FreshKept ==
    ASSUME TypeOK, [Next]_vars, NEW d \in Drafts, d \in fresh, SessionGoesOn(d)
    PROVE  d \in fresh'
<1>. USE DEF jira, slack, press
<1>0. record[d] = NoRecord /\ issues[d] = 0 /\ d \notin orphans /\ \A l \in Listeners : at[l] # d
  BY DEF fresh, clean
<1>. SUFFICES record'[d] = NoRecord /\ issues'[d] = 0 /\ d \notin orphans' /\ \A l \in Listeners : at'[l] # d
  BY DEF fresh, clean
<1>1. ASSUME NEW l \in Listeners, Answer(l) PROVE \A k \in Listeners : at'[k] # d
  BY <1>0, <1>1, NamesAssumption DEF Answer, TypeOK
<1>2. ASSUME NEW l \in Listeners, NEW u \in Users, NEW e \in Drafts, Ask(l, u, e) \/ Press(l, u, e)
      PROVE  UNCHANGED <<record, issues, orphans, at>>
  BY <1>2 DEF Ask, Press
<1>3. ASSUME NEW l \in Listeners, HearDraft(l) \/ Deliver(l) \/ Stop(l) \/ Restart(l)
      PROVE  UNCHANGED <<record, issues, orphans, at>>
  BY <1>3 DEF HearDraft, Deliver, Stop, Restart
<1>4. ASSUME NEW l \in Listeners, EndSession(l) \/ Discard(l)
      PROVE  record'[d] = NoRecord /\ UNCHANGED <<issues, orphans, at>>
  <2>1. CASE EndSession(l)
    <3>1. drafting'[l].stage # "session"
      BY <2>1 DEF EndSession, NoRun, TypeOK
    <3>2. drafting[l].draft # d
      BY <2>1, <3>1 DEF EndSession, SessionGoesOn
    <3>3. \/ record' = record
          \/ \E r : record' = [record EXCEPT ![drafting[l].draft] = r]
      BY <2>1 DEF EndSession
    <3>4. record'[d] = record[d]
      BY <3>2, <3>3 DEF TypeOK
    <3>. QED BY <1>0, <2>1, <3>4 DEF EndSession
  <2>2. CASE Discard(l)
    BY <1>0, <2>2 DEF Discard, TypeOK
  <2>. QED BY <1>4, <2>1, <2>2
<1>5. ASSUME NEW l \in Listeners, HearPress(l)
      PROVE  UNCHANGED <<record, issues, orphans>> /\ \A k \in Listeners : at'[k] # d
  <2>1. CASE Answer(l)
    BY <1>1, <1>5, <2>1 DEF HearPress
  <2>2. CASE Pressable(Head(chain[l]).draft, Head(chain[l]).user)
             /\ at' = [at EXCEPT ![l] = Head(chain[l]).draft]
    BY <1>0, <1>5, <2>2 DEF HearPress, Pressable, TypeOK
  <2>. QED BY <1>5, <2>1, <2>2 DEF HearPress
<1>6. ASSUME NEW l \in Listeners, Gate(l) \/ UpdateRead(l)
      PROVE  UNCHANGED <<record, issues, orphans>> /\ \A k \in Listeners : at'[k] # d
  BY <1>0, <1>1, <1>6 DEF Gate, UpdateRead, Goto
<1>7. ASSUME NEW l \in Listeners, UpdateWrite(l)
      PROVE  /\ record'[d] = NoRecord /\ UNCHANGED <<issues, orphans>>
             /\ \A k \in Listeners : at'[k] # d
  BY <1>0, <1>1, <1>7
     DEF UpdateWrite, UpdateWrites, MarkWrite, ClearWrite, KeyWrite, Goto, TypeOK
<1>8. ASSUME NEW l \in Listeners, File(l)
      PROVE  /\ UNCHANGED record /\ issues'[d] = 0 /\ d \notin orphans'
             /\ \A k \in Listeners : at'[k] # d
  BY <1>0, <1>1, <1>8 DEF File, NotCreated, FiledAs, Unclear, Created, Goto, TypeOK
<1>9. ASSUME NEW l \in Listeners, Crash(l)
      PROVE  /\ UNCHANGED <<record, issues>> /\ d \notin orphans'
             /\ \A k \in Listeners : at'[k] # d
  BY <1>0, <1>1, <1>9 DEF Crash, Forget
<1>10. ASSUME NEW e \in Drafts, OrphanEnds(e)
       PROVE  UNCHANGED <<record, at>> /\ issues'[d] = 0 /\ d \notin orphans'
  BY <1>0, <1>10 DEF OrphanEnds, Created, TypeOK
<1>11. CASE UNCHANGED vars
  BY <1>0, <1>11 DEF vars
<1>. QED
  BY <1>0, <1>2, <1>3, <1>4, <1>5, <1>6, <1>7, <1>8, <1>9, <1>10, <1>11 DEF Next, Handle, Draft

LEMMA FreshStep ==
    OneListener /\ TypeOK /\ AskedFor /\ FreshInv /\ [Next]_vars => FreshInv'
<1>. SUFFICES ASSUME NEW l, Listeners = {l}, TypeOK, AskedFor, FreshInv, [Next]_vars PROVE FreshInv'
  BY DEF OneListener
<1>. USE DEF jira, slack, press
<1>a. \A d \in Drafts : d \in fresh /\ SessionGoesOn(d) => d \in fresh'
  BY FreshKept
<1>b. \A i \in ToDraft(l) : /\ chain[l][i].draft \in Drafts
                            /\ asked[chain[l][i].draft] # Nobody
  BY WaitingIsDraft DEF AskedFor
<1>c. /\ \A d \in Drafts : asked[d] = Nobody => d \in fresh /\ drafting[l].draft # d
      /\ \A i \in ToDraft(l) : chain[l][i].draft \in fresh /\ drafting[l].draft # chain[l][i].draft
      /\ \A i, j \in ToDraft(l) : chain[l][j].draft = chain[l][i].draft => i = j
      /\ drafting[l].stage = "session" => drafting[l].draft \in Drafts /\ drafting[l].draft \in fresh
  BY DEF FreshInv, Unasked, Waiting, InSession, TypeOK
<1>1. CASE UNCHANGED <<asked, chain, drafting>>
  <2>1. \A d \in Drafts : SessionGoesOn(d)
    BY <1>1 DEF SessionGoesOn
  <2>2. ToDraft(l)' = ToDraft(l)
    BY <1>1 DEF ToDraft
  <2>. QED BY <1>1, <1>a, <1>b, <1>c, <2>1, <2>2 DEF FreshInv, Unasked, Waiting, InSession
<1>2. ASSUME NEW u \in Users, NEW d \in Drafts, Ask(l, u, d) PROVE FreshInv'
  <2> DEFINE e == [kind |-> "draft", draft |-> d, user |-> u]
  <2>1. e \in Event /\ e.draft = d /\ Hear(l, e) /\ asked[d] = Nobody /\ drafting' = drafting
    BY <1>2 DEF Ask, Event
  <2>2. \A x \in Drafts : asked'[x] = Nobody => asked[x] = Nobody
    BY <1>2, NamesAssumption DEF Ask, TypeOK
  <2>3. fresh \subseteq fresh'
    BY <1>a, <2>1 DEF SessionGoesOn, fresh
  <2>. HIDE DEF e
  <2>4. \A i \in ToDraft(l)' : \/ i \in ToDraft(l) /\ chain'[l][i] = chain[l][i]
                               \/ i = Len(chain[l]) + 1 /\ chain'[l][i].draft = d
    BY <2>1, HeardWaits
  <2>5. d \in fresh /\ drafting[l].draft # d /\ \A i \in ToDraft(l) : chain[l][i].draft # d
    BY <1>b, <1>c, <2>1
  <2>6. \A i \in ToDraft(l)' : chain'[l][i].draft \in fresh' /\ drafting[l].draft # chain'[l][i].draft
    BY <1>b, <1>c, <2>3, <2>4, <2>5
  <2>7. \A i, j \in ToDraft(l)' : chain'[l][j].draft = chain'[l][i].draft => i = j
    BY <1>c, <2>4, <2>5
  <2>8. Waiting'
    BY <2>1, <2>6, <2>7 DEF Waiting
  <2>9. Unasked' /\ InSession'
    BY <1>c, <2>1, <2>2, <2>3 DEF Unasked, InSession
  <2>. QED BY <2>8, <2>9 DEF FreshInv
<1>3. ASSUME NEW u \in Users, NEW d \in Drafts, Press(l, u, d) PROVE FreshInv'
  <2> DEFINE e == [kind |-> "press", draft |-> d, user |-> u]
  <2>1. e \in Event /\ e.kind = "press" /\ Hear(l, e) /\ UNCHANGED <<asked, drafting>>
    BY <1>3 DEF Press, Event
  <2>. HIDE DEF e
  <2>2. \A i \in ToDraft(l)' : i \in ToDraft(l) /\ chain'[l][i] = chain[l][i]
    BY <2>1, HeardWaits
  <2>3. fresh \subseteq fresh'
    BY <1>a, <2>1 DEF SessionGoesOn, fresh
  <2>4. Waiting'
    BY <1>b, <1>c, <2>1, <2>2, <2>3 DEF Waiting
  <2>. QED BY <1>c, <2>1, <2>3, <2>4 DEF FreshInv, Unasked, InSession
<1>4. CASE HearDraft(l)
  <2>1. Begin(l, "draft") /\ asked' = asked
    BY <1>4 DEF HearDraft
  <2>2. 1 \in ToDraft(l) /\ Head(chain[l]) = chain[l][1]
    BY <2>1, BegunChain DEF ToDraft, Begin
  <2>3. \A i \in ToDraft(l)' : i + 1 \in ToDraft(l) /\ chain'[l][i] = chain[l][i + 1] /\ i \in Nat \ {0}
    BY <2>1, BegunWaits DEF ToDraft
  <2>4. \/ drafting' = drafting
        \/ drafting[l] = NoRun /\ drafting'[l].draft = chain[l][1].draft
    BY <1>4, <2>2 DEF HearDraft, TypeOK
  <2>5. \A x \in Drafts : SessionGoesOn(x)
    BY <2>4 DEF SessionGoesOn, NoRun
  <2>6. fresh \subseteq fresh'
    BY <1>a, <2>5 DEF fresh
  <2>7. \A i \in ToDraft(l)' : /\ chain'[l][i].draft \in fresh'
                               /\ chain'[l][i].draft # chain[l][1].draft
                               /\ chain'[l][i].draft # drafting[l].draft
    BY <1>b, <1>c, <2>2, <2>3, <2>6
  <2>8. \A i, j \in ToDraft(l)' : chain'[l][j].draft = chain'[l][i].draft => i = j
    BY <1>c, <2>3
  <2>9. Waiting'
    BY <2>4, <2>7, <2>8 DEF Waiting
  <2>10. Unasked'
    BY <1>b, <1>c, <2>1, <2>2, <2>4, <2>6 DEF Unasked
  <2>11. InSession'
    BY <1>b, <1>c, <2>2, <2>4, <2>6 DEF InSession
  <2>. QED BY <2>9, <2>10, <2>11 DEF FreshInv
<1>5. CASE HearPress(l)
  <2>1. Begin(l, "press") /\ UNCHANGED <<asked, drafting>>
    BY <1>5 DEF HearPress
  <2>2. \A i \in ToDraft(l)' : i + 1 \in ToDraft(l) /\ chain'[l][i] = chain[l][i + 1] /\ i \in Nat
    BY <2>1, BegunWaits DEF ToDraft
  <2>3. fresh \subseteq fresh'
    BY <1>a, <2>1 DEF SessionGoesOn, fresh
  <2>4. Waiting'
    BY <1>b, <1>c, <2>1, <2>2, <2>3 DEF Waiting
  <2>. QED BY <1>c, <2>1, <2>3, <2>4 DEF FreshInv, Unasked, InSession
<1>6. CASE Draft(l)
  <2>1. UNCHANGED <<asked, chain>>
    BY <1>6 DEF Draft, EndSession, Deliver, Discard
  <2>2. drafting'[l].draft \in {drafting[l].draft, NoDraft} /\ drafting'[l].stage # "session"
    BY <1>6 DEF Draft, EndSession, Deliver, Discard, NoRun, TypeOK
  <2>3. \A x \in Drafts : x \in fresh /\ drafting[l].draft # x => x \in fresh'
    BY <1>a DEF SessionGoesOn
  <2>4. ToDraft(l)' = ToDraft(l)
    BY <2>1 DEF ToDraft
  <2>. QED BY <1>b, <1>c, <2>1, <2>2, <2>3, <2>4, NamesAssumption
           DEF FreshInv, Unasked, Waiting, InSession
<1>7. CASE Crash(l)
  <2>1. asked' = asked /\ chain'[l] = <<>> /\ drafting'[l] = NoRun
    BY <1>7 DEF Crash, Forget, TypeOK
  <2>2. ToDraft(l)' = {}
    BY <2>1 DEF ToDraft
  <2>3. \A x \in Drafts : x \in fresh /\ drafting[l].draft # x => x \in fresh'
    BY <1>a DEF SessionGoesOn
  <2>. QED BY <1>c, <2>1, <2>2, <2>3, NamesAssumption DEF NoRun, FreshInv, Unasked, Waiting, InSession
<1>8. CASE Gate(l) \/ UpdateRead(l) \/ UpdateWrite(l) \/ File(l) \/ Stop(l) \/ Restart(l)
  BY <1>1, <1>8 DEF Gate, UpdateRead, UpdateWrite, File, Stop, Restart
<1>9. ASSUME NEW d \in Drafts, OrphanEnds(d) PROVE FreshInv'
  BY <1>1, <1>9 DEF OrphanEnds
<1>10. CASE UNCHANGED vars
  BY <1>1, <1>10 DEF vars
<1>. QED BY <1>2, <1>3, <1>4, <1>5, <1>6, <1>7, <1>8, <1>9, <1>10 DEF Next, Handle

LEMMA FilingStep ==
    OneListener /\ TypeOK /\ FreshInv /\ FilingInv /\ [Next]_vars => FilingInv'
<1>. SUFFICES ASSUME NEW l, Listeners = {l}, TypeOK, FreshInv, FilingInv, [Next]_vars PROVE FilingInv'
  BY DEF OneListener
<1>. USE DEF jira, slack, press
<1>a. /\ Drafts \subseteq marked \cup clean
      /\ \A d \in orphans : issues[d] = 0
      /\ pc[l] \in {"gate", "mark", "markWrite", "file", "clear", "clearWrite"} => at[l] \in clean
      /\ pc[l] \in {"file", "key", "keyWrite"} => at[l] \in marked
  BY DEF FilingInv, UnmarkedIsClean, OrphansUnmade, PressIsClean, PressIsMarked
<1>b. /\ pc[l] # "idle" => at[l] \in Drafts
      /\ record \in [Drafts -> Record \cup {NoRecord}] /\ issues \in [Drafts -> Nat]
      /\ orphans \subseteq Drafts /\ NoRecord \notin Record
      /\ pc \in [Listeners -> Pc] /\ at \in [Listeners -> Drafts \cup {NoDraft}]
  BY NamesAssumption DEF TypeOK, NoRecord, Record
<1>c. SUFFICES /\ Drafts \subseteq marked' \cup clean'
               /\ \A d \in orphans' : issues'[d] = 0
               /\ pc'[l] \in {"gate", "mark", "markWrite", "file", "clear", "clearWrite"}
                    => at'[l] \in clean'
               /\ pc'[l] \in {"file", "key", "keyWrite"} => at'[l] \in marked'
  BY DEF FilingInv, UnmarkedIsClean, OrphansUnmade, PressIsClean, PressIsMarked
<1> DEFINE Goal == /\ Drafts \subseteq marked' \cup clean'
                   /\ \A d \in orphans' : issues'[d] = 0
                   /\ pc'[l] \in {"gate", "mark", "markWrite", "file", "clear", "clearWrite"}
                        => at'[l] \in clean'
                   /\ pc'[l] \in {"file", "key", "keyWrite"} => at'[l] \in marked'
<1>d. ASSUME UNCHANGED <<record, issues, orphans>> PROVE clean' = clean /\ marked' = marked
  BY <1>d DEF clean, marked
<1>e. ASSUME Answer(l) PROVE pc'[l] = "idle"
  BY <1>b, <1>e DEF Answer
<1>1. CASE UNCHANGED <<record, issues, orphans, pc, at>>
  BY <1>1, <1>a, <1>d
<1>2. ASSUME NEW u \in Users, NEW d \in Drafts, Ask(l, u, d) \/ Press(l, u, d) PROVE Goal
  BY <1>1, <1>2 DEF Ask, Press
<1>3. CASE HearDraft(l) \/ Deliver(l) \/ Stop(l) \/ Restart(l)
  BY <1>1, <1>3 DEF HearDraft, Deliver, Stop, Restart
<1>4. CASE EndSession(l)
  <2> DEFINE d == drafting[l].draft
  <2>1. UNCHANGED <<issues, orphans, pc, at>> /\ d \in fresh
    BY <1>4 DEF EndSession, FreshInv, InSession
  <2>2. clean' = clean /\ d \in clean /\ at[l] # d
    BY <2>1 DEF fresh, clean
  <2>3. \A x \in Drafts \ {d} : x \in marked => x \in marked'
    BY <1>4, <1>b DEF EndSession, marked
  <2>. HIDE DEF d
  <2>. QED BY <1>a, <1>b, <2>1, <2>2, <2>3
<1>5. CASE Discard(l)
  <2>1. UNCHANGED <<issues, orphans, pc, at>> /\ clean' = clean
    BY <1>5 DEF Discard, clean
  <2>2. marked \subseteq marked'
    BY <1>5, <1>b DEF Discard, marked
  <2>. QED BY <1>a, <2>1, <2>2
<1>6. CASE HearPress(l)
  <2>1. UNCHANGED <<record, issues, orphans>>
    BY <1>6 DEF HearPress
  <2>2. CASE Answer(l)
    BY <1>a, <1>d, <1>e, <2>1, <2>2
  <2>3. CASE ~Answer(l)
    <3> DEFINE d == Head(chain[l]).draft
    <3>1. pc'[l] = "gate" /\ at'[l] = d /\ Pressable(d, Head(chain[l]).user)
      BY <1>6, <1>b, <2>3 DEF HearPress
    <3>2. Begin(l, "press") /\ d \in Drafts
      BY <1>6, BeginTypes DEF HearPress, Event
    <3>3. d \notin marked
      BY <3>1 DEF Pressable, marked
    <3>. HIDE DEF d
    <3>. QED BY <1>a, <1>d, <2>1, <3>1, <3>2, <3>3
  <2>. QED BY <2>2, <2>3
<1>7. CASE Gate(l)
  <2>1. UNCHANGED <<record, issues, orphans>> /\ pc[l] = "gate"
    BY <1>7 DEF Gate
  <2>2. pc'[l] = "idle" \/ (pc'[l] = "mark" /\ at'[l] = at[l])
    BY <1>7, <1>b, <1>e DEF Gate, Goto
  <2>. QED BY <1>a, <1>d, <2>1, <2>2
<1>8. CASE UpdateRead(l)
  <2>1. UNCHANGED <<record, issues, orphans>> /\ pc[l] \in Updating
    BY <1>8 DEF UpdateRead
  <2>2. pc'[l] = "idle" \/ (pc'[l] = Writing[pc[l]] /\ at'[l] = at[l])
    BY <1>8, <1>b, <1>e DEF UpdateRead
  <2>3. \/ pc[l] \in {"mark", "clear"} /\ Writing[pc[l]] \in {"markWrite", "clearWrite"}
        \/ pc[l] = "key" /\ Writing[pc[l]] = "keyWrite"
    BY <2>1 DEF Updating, Writing
  <2>. QED BY <1>a, <1>d, <2>1, <2>2, <2>3
<1>9. CASE UpdateWrite(l)
  <2>1. UNCHANGED <<issues, orphans>> /\ clean' = clean /\ at[l] \in Drafts
    BY <1>9, <1>b DEF UpdateWrite, clean
  <2>2. CASE MarkWrite(l)
    <3>1. /\ pc[l] = "markWrite" /\ pc'[l] = "file" /\ at'[l] = at[l]
          /\ record' = [record EXCEPT ![at[l]] = [copy[l] EXCEPT !.filing = TRUE]]
      BY <1>b, <2>2 DEF MarkWrite, UpdateWrites, Goto
    <3>2. copy[l] \in Record
      BY <3>1 DEF TypeOK
    <3>3. marked \subseteq marked' /\ at[l] \in marked'
      BY <1>b, <2>1, <3>1, <3>2 DEF marked, Record
    <3>. QED BY <1>a, <2>1, <3>1, <3>3
  <2>3. CASE ClearWrite(l)
    <3>1. pc[l] = "clearWrite" /\ pc'[l] = "idle"
      BY <1>e, <2>3 DEF ClearWrite, UpdateWrites
    <3>2. \A x \in Drafts \ {at[l]} : x \in marked => x \in marked'
      BY <1>b, <2>3 DEF ClearWrite, UpdateWrites, marked
    <3>. QED BY <1>a, <2>1, <3>1, <3>2
  <2>4. CASE KeyWrite(l)
    <3>1. /\ pc[l] = "keyWrite" /\ pc'[l] = "idle"
          /\ record' = [record EXCEPT ![at[l]] = [copy[l] EXCEPT !.filed = TRUE]]
      BY <1>e, <2>4 DEF KeyWrite, UpdateWrites
    <3>2. copy[l] \in Record
      BY <3>1 DEF TypeOK
    <3>3. marked \subseteq marked'
      BY <1>b, <2>1, <3>1, <3>2 DEF marked, Record
    <3>. QED BY <1>a, <2>1, <3>1, <3>3
  <2>5. CASE Answer(l) /\ UNCHANGED record
    BY <1>a, <1>d, <1>e, <2>1, <2>5
  <2>. QED BY <1>9, <2>2, <2>3, <2>4, <2>5 DEF UpdateWrite
<1>10. CASE File(l)
  <2>1. /\ record' = record /\ marked' = marked /\ pc[l] = "file"
        /\ at[l] \in Drafts /\ at[l] \in marked /\ at[l] \in clean
    BY <1>10, <1>a, <1>b DEF File, marked
  <2>2. \A x \in Drafts \ {at[l]} : x \in clean => x \in clean'
    BY <1>10, <1>b DEF File, NotCreated, FiledAs, Unclear, Created, clean
  <2>3. Drafts \subseteq marked' \cup clean'
    BY <1>a, <2>1, <2>2
  <2>4. CASE NotCreated(l)
    <3>1. issues' = issues /\ orphans' = orphans /\ pc'[l] = "clear" /\ at'[l] = at[l]
      BY <1>b, <2>4 DEF NotCreated, Created, Goto
    <3>. QED BY <1>a, <2>1, <2>3, <3>1 DEF clean
  <2>5. CASE FiledAs(l)
    <3>1. /\ \A x \in Drafts \ {at[l]} : issues'[x] = issues[x]
          /\ orphans' = orphans /\ pc'[l] = "key" /\ at'[l] = at[l]
      BY <1>b, <2>5 DEF FiledAs, Created, Goto
    <3>. QED BY <1>a, <1>b, <2>1, <2>3, <3>1 DEF clean
  <2>6. CASE Unclear(l)
    <3>1. pc'[l] = "idle"
      BY <1>e, <2>6 DEF Unclear
    <3>2. \A x \in orphans' : issues'[x] = 0
      <4>1. CASE orphans' = orphans /\ \E n \in 0..2 : Created(at[l], n)
        BY <1>a, <1>b, <2>1, <4>1 DEF Created, clean
      <4>2. CASE orphans' = orphans \cup {at[l]} /\ issues' = issues
        BY <1>a, <2>1, <4>2 DEF clean
      <4>. QED BY <2>6, <4>1, <4>2 DEF Unclear
    <3>. QED BY <2>3, <3>1, <3>2
  <2>. QED BY <1>10, <2>4, <2>5, <2>6 DEF File
<1>11. CASE Crash(l)
  <2>1. UNCHANGED <<record, issues>> /\ marked' = marked /\ pc'[l] = "idle"
    BY <1>11, <1>e DEF Crash, Forget, marked
  <2>2. CASE pc[l] = "file"
    <3>1. orphans' = orphans \cup {at[l]} /\ at[l] \in clean /\ at[l] \in marked
      BY <1>11, <1>a, <2>2 DEF Crash
    <3>2. \A x \in Drafts \ {at[l]} : x \in clean => x \in clean'
      BY <2>1, <3>1 DEF clean
    <3>. QED BY <1>a, <2>1, <3>1, <3>2 DEF clean
  <2>3. CASE pc[l] # "file"
    BY <1>11, <1>a, <1>d, <2>1, <2>3 DEF Crash
  <2>. QED BY <2>2, <2>3
<1>12. ASSUME NEW d \in Drafts, OrphanEnds(d) PROVE Goal
  <2>1. /\ UNCHANGED <<record, pc, at>> /\ marked' = marked /\ d \in orphans
        /\ orphans' = orphans \ {d}
        /\ \A x \in Drafts \ {d} : issues'[x] = issues[x]
    BY <1>12, <1>b DEF OrphanEnds, Created, marked
  <2>2. d \notin clean /\ d \in marked
    BY <1>a, <1>b, <2>1 DEF clean
  <2>3. clean \subseteq clean'
    BY <2>1, <2>2 DEF clean
  <2>. QED BY <1>a, <1>b, <2>1, <2>2, <2>3
<1>13. CASE UNCHANGED vars
  BY <1>1, <1>13 DEF vars
<1>. QED
  BY <1>2, <1>3, <1>4, <1>5, <1>6, <1>7, <1>8, <1>9, <1>10, <1>11, <1>12, <1>13
     DEF Next, Handle, Draft

LEMMA FilingInit == Init => FreshInv /\ FilingInv
BY NamesAssumption
   DEF Init, NoRun, FreshInv, Unasked, Waiting, InSession, ToDraft, fresh, clean, marked,
       FilingInv, UnmarkedIsClean, OrphansUnmade, PressIsClean, PressIsMarked

LEMMA FilingInductive ==
    ASSUME OneListener
    PROVE  Spec => [](TypeOK /\ AskedFor /\ FreshInv /\ FilingInv)
<1>1. Init => TypeOK /\ AskedFor /\ FreshInv /\ FilingInv
  BY TypeInit, FilingInit
<1>2. TypeOK /\ AskedFor /\ FreshInv /\ FilingInv /\ [Next]_vars
        => (TypeOK /\ AskedFor /\ FreshInv /\ FilingInv)'
  BY OneListener, TypeStep, AskedStep, FreshStep, FilingStep
<1>. QED BY <1>1, <1>2, PTL DEF Spec

(* With one listener a draft a press would still file has no issue, and no *)
(* call that may yet make one: not after a crash, a lost write, a writer   *)
(* that outlived its session, nor a message taken back under a press.      *)
THEOREM OnlyUnfiledIsPressable ==
    ASSUME OneListener
    PROVE  Spec => []PressableIsUnfiled
<1>1. FilingInv => PressableIsUnfiled
  BY DEF FilingInv, UnmarkedIsClean, PressableIsUnfiled, Pressable, marked, clean
<1>. QED BY <1>1, FilingInductive, PTL

(* With one listener issues are made of a draft in one writer's session,   *)
(* however often its button is pressed.                                    *)
THEOREM FilesOnce ==
    ASSUME OneListener
    PROVE  Spec => FiledOnce
<1>1. TypeOK /\ FilingInv /\ [Next]_vars
        => [\A d \in Drafts : issues'[d] # issues[d] => issues[d] = 0]_vars
  <2>. SUFFICES ASSUME TypeOK, FilingInv, Next, NEW d \in Drafts, issues'[d] # issues[d]
                PROVE  issues[d] = 0
    OBVIOUS
  <2>1. CASE issues' = issues
    BY <2>1
  <2>2. ASSUME NEW l \in Listeners, File(l) PROVE issues[d] = 0
    <3>1. at[l] \in clean
      BY <2>2 DEF File, FilingInv, PressIsClean
    <3>2. d # at[l] => issues'[d] = issues[d]
      BY <2>2 DEF File, NotCreated, FiledAs, Unclear, Created, TypeOK
    <3>. QED BY <3>1, <3>2 DEF clean
  <2>3. ASSUME NEW e \in Drafts, OrphanEnds(e) PROVE issues[d] = 0
    <3>1. d # e => issues'[d] = issues[d]
      BY <2>3 DEF OrphanEnds, Created, TypeOK
    <3>. QED BY <2>3, <3>1 DEF OrphanEnds, FilingInv, OrphansUnmade
  <2>4. (\E l \in Listeners : File(l)) \/ (\E e \in Drafts : OrphanEnds(e)) \/ issues' = issues
    BY DEF Next, Handle, Draft, Ask, Press, HearDraft, EndSession, Deliver, Discard, HearPress,
           Gate, UpdateRead, UpdateWrite, Crash, Stop, Restart, jira
  <2>. QED BY <2>1, <2>2, <2>3, <2>4
<1>. QED BY <1>1, FilingInductive, PTL DEF Spec, FiledOnce

---------------------------------------------------------------------------
(* AuditThread.                                                            *)

Working(c) == job[c].pc \notin {"idle", "wait"}
Drawn(c)   == job[c].pc \in {"broadcast", "remove", "amend", "save"}

(* The process's chain: whoever has reported is in it once, and its head   *)
(* alone is at work.                                                       *)
ChainInv ==
    /\ \A i, j \in 1..Len(queue) : queue[i] = queue[j] => i = j
    /\ \A c \in Callers : job[c].pc # "idle" <=> \E i \in 1..Len(queue) : queue[i] = c
    /\ \A c \in Callers : Working(c) => c = queue[1]

(* Messages are told apart by when they were posted.                       *)
PostInv ==
    /\ IsFiniteSet(threads) /\ IsFiniteSet(replies)
    /\ threads \subseteq [ts : 1..count.posts, shows : AuditRecord]
    /\ \A a, b \in threads : a.ts = b.ts => a = b

(* An update goes by the message and the broadcast the ticket has, until   *)
(* it has drawn; posts a message only where there is none; and what it has *)
(* drawn is what it will save.                                             *)
DrawInv ==
    /\ DrawnIsSaved
    /\ \A c \in Callers : job[c].pc \in {"update", "post"} =>
         job[c].rec.slack = saved.slack /\ job[c].rec.bump = saved.bump
    /\ \A c \in Callers : job[c].pc = "post" => ~There(job[c].rec)
    /\ \A c \in Callers : Drawn(c) =>
         \A th \in threads : th.ts = job[c].rec.slack => th.shows = Shown(job[c].rec)

(* The record an update will save keeps what was told, and its own entry.  *)
Entries(c) == IF job[c].adds = "none" THEN {} ELSE {job[c].id}
KeepInv ==
    /\ IsFiniteSet(told)
    /\ EntriesKept
    /\ \A c \in Callers : Working(c) =>
         Cardinality((told \cup Entries(c)) \ Ids(job[c].rec)) <= job[c].rec.dropped

(* Messages and broadcasts beside the ticket's own are those of calls that *)
(* failed.  An update that has broadcast and not removed has two of its.   *)
Stale(s) == {th \in threads : th.ts # s}
OwnReplies(c) == {job[c].rec.bump} \cup (IF job[c].pc = "remove" THEN {count.posts} ELSE {})
StrayInv ==
    /\ (\A c \in Callers : ~Drawn(c)) =>
         /\ Cardinality(Stale(saved.slack)) <= count.faults
         /\ Cardinality(replies \ {saved.bump}) <= count.faults
    /\ \A c \in Callers : Drawn(c) =>
         /\ Cardinality(Stale(job[c].rec.slack)) <= count.faults
         /\ Cardinality(replies \ OwnReplies(c)) <= count.faults
AuditInv == AuditTypeOK /\ ChainInv /\ PostInv /\ DrawInv /\ KeepInv /\ StrayInv

---------------------------------------------------------------------------
LEMMA Within ==
    ASSUME NEW S, IsFiniteSet(S), NEW A, A \subseteq S
    PROVE  IsFiniteSet(A) /\ Cardinality(A) <= Cardinality(S) /\ Cardinality(A) \in Nat /\ Cardinality(S) \in Nat
BY FS_Subset, FS_CardinalityType

LEMMA WithinOneMore ==
    ASSUME NEW S, IsFiniteSet(S), NEW x, NEW A, A \subseteq S \cup {x}
    PROVE  IsFiniteSet(A) /\ Cardinality(A) <= Cardinality(S) + 1 /\ Cardinality(A) \in Nat /\ Cardinality(S) \in Nat
<1>. DEFINE U == S \cup {x}
<1>1. IsFiniteSet(U) /\ Cardinality(U) = IF x \in S THEN Cardinality(S) ELSE Cardinality(S) + 1
  BY FS_AddElement
<1>2. Cardinality(S) \in Nat
  BY FS_CardinalityType
<1>. HIDE DEF U
<1>3. IsFiniteSet(A) /\ Cardinality(A) <= Cardinality(U) /\ Cardinality(A) \in Nat /\ Cardinality(U) \in Nat
  BY <1>1, Within DEF U
<1>. QED BY <1>1, <1>2, <1>3

---------------------------------------------------------------------------
(* What an event makes of a record: nothing of its entries, or one more at *)
(* the end of one of its lists, and one less at the head of a full one,    *)
(* which is counted.                                                       *)
SeqIds(s) == {s[i].id : i \in DOMAIN s}

Grows(s, t, n, id) ==
    /\ t \in Seq(Entry) /\ id \in SeqIds(t)
    /\ \/ n = 0 /\ SeqIds(s) \subseteq SeqIds(t)
       \/ n = 1 /\ \E x : SeqIds(s) \subseteq SeqIds(t) \cup {x}

Follows(r, a, id) ==
    /\ a \in AuditRecord /\ a.slack = r.slack /\ a.bump = r.bump
    /\ \/ a.major = r.major /\ a.timeline = r.timeline /\ a.dropped = r.dropped
       \/ /\ a.timeline = r.timeline
          /\ \E n \in {0, 1} : a.dropped = r.dropped + n /\ Grows(r.major, a.major, n, id)
       \/ /\ a.major = r.major
          /\ \E n \in {0, 1} : a.dropped = r.dropped + n /\ Grows(r.timeline, a.timeline, n, id)

LEMMA KeptGrows ==
    ASSUME NEW s \in Seq(Entry), NEW e \in Entry, NEW limit \in Nat \ {0}
    PROVE  /\ Over(Append(s, e), limit) \in {0, 1}
           /\ Grows(s, Kept(Append(s, e), limit), Over(Append(s, e), limit), e.id)
<1>. DEFINE l == Append(s, e)
            k == Len(s) + 1
<1>1. /\ l \in Seq(Entry) /\ Len(l) = k /\ Len(s) \in Nat /\ l[k] = e
      /\ \A i \in 1..Len(s) : l[i] = s[i]
  OBVIOUS
<1>2. DOMAIN s = 1..Len(s) /\ DOMAIN l = 1..k
  BY <1>1
<1>. HIDE DEF l, k
<1>3. CASE ~(Len(l) > limit)
  <2>1. Kept(l, limit) = l /\ Over(l, limit) = 0
    BY <1>3 DEF Kept, Over
  <2>2. e.id \in SeqIds(l)
    BY <1>1, <1>2 DEF SeqIds, k
  <2>3. SeqIds(s) \subseteq SeqIds(l)
    <3>1. \A i \in 1..Len(s) : i \in 1..k /\ l[i] = s[i]
      BY <1>1 DEF k
    <3>. QED BY <1>2, <3>1 DEF SeqIds
  <2>. QED BY <1>1, <2>1, <2>2, <2>3 DEF Grows, l
<1>4. CASE Len(l) > limit
  <2>1. Kept(l, limit) = Tail(l) /\ Over(l, limit) = 1
    BY <1>4 DEF Kept, Over
  <2>2. k \in Nat /\ k >= 2
    BY <1>1, <1>4 DEF k
  <2>3. l # <<>>
    BY <1>1, <2>2
  <2>4. /\ Tail(l) \in Seq(Entry) /\ Len(Tail(l)) = k - 1
        /\ \A i \in 1..(k - 1) : Tail(l)[i] = l[i + 1]
    BY <1>1, <2>3
  <2>5. DOMAIN Tail(l) = 1..(k - 1)
    BY <2>4
  <2>6. e.id \in SeqIds(Tail(l))
    <3>1. k - 1 \in 1..(k - 1) /\ (k - 1) + 1 = k
      BY <2>2
    <3>. QED BY <1>1, <2>4, <2>5, <3>1 DEF SeqIds
  <2>7. SeqIds(s) \subseteq SeqIds(Tail(l)) \cup {l[1].id}
    <3>. SUFFICES ASSUME NEW i \in 1..Len(s) PROVE s[i].id \in SeqIds(Tail(l)) \cup {l[1].id}
      BY <1>2 DEF SeqIds
    <3>1. CASE i = 1
      BY <1>1, <3>1
    <3>2. CASE i # 1
      <4>1. i - 1 \in 1..(k - 1) /\ (i - 1) + 1 = i
        BY <1>1, <3>2 DEF k
      <4>2. Tail(l)[i - 1] = s[i]
        BY <1>1, <2>4, <4>1
      <4>. QED BY <2>5, <4>1, <4>2 DEF SeqIds
    <3>. QED BY <3>1, <3>2
  <2>. QED BY <2>1, <2>4, <2>6, <2>7 DEF Grows, l
<1>. QED BY <1>3, <1>4 DEF l

LEMMA MinorFollows ==
    ASSUME NEW r \in AuditRecord, NEW e \in Entry
    PROVE  Follows(r, Minor(r, e), e.id)
<1>. DEFINE s == Append(r.timeline, e)
            n == Over(s, MaxTimeline)
            t == Kept(s, MaxTimeline)
            a == Minor(r, e)
<1>1. r.timeline \in Seq(Entry) /\ MaxTimeline \in Nat \ {0} /\ r.dropped \in Nat
  BY AuditLimits DEF AuditRecord
<1>2. n \in {0, 1} /\ Grows(r.timeline, t, n, e.id)
  BY <1>1, KeptGrows
<1>. HIDE DEF n, t
<1>3. a = [r EXCEPT !.timeline = t, !.dropped = @ + n]
  BY DEF Minor, n, t
<1>4. t \in Seq(Entry) /\ r.dropped + n \in Nat
  BY <1>1, <1>2 DEF Grows
<1>. HIDE DEF a
<1>5. a \in AuditRecord /\ a.slack = r.slack /\ a.bump = r.bump /\ a.major = r.major
      /\ a.timeline = t /\ a.dropped = r.dropped + n
  BY <1>3, <1>4 DEF AuditRecord
<1>. QED BY <1>2, <1>5 DEF Follows, a

LEMMA MajorFollows ==
    ASSUME NEW r \in AuditRecord, NEW id \in Nat
    PROVE  Follows(r, Major(r, id), id)
<1>. DEFINE e == Line(id)
            s == Append(r.major, e)
            n == Over(s, MaxMajor)
            t == Kept(s, MaxMajor)
            a == Major(r, id)
<1>1. r.major \in Seq(Entry) /\ MaxMajor \in Nat \ {0} /\ r.dropped \in Nat
      /\ e \in Entry /\ e.id = id
  BY AuditLimits DEF AuditRecord, Entry, Line
<1>2. n \in {0, 1} /\ Grows(r.major, t, n, id)
  <2>. HIDE DEF e
  <2>. QED BY <1>1, KeptGrows
<1>. HIDE DEF n, t
<1>3. a = [r EXCEPT !.major = t, !.dropped = @ + n]
  BY DEF Major, n, t
<1>4. t \in Seq(Entry) /\ r.dropped + n \in Nat
  BY <1>1, <1>2 DEF Grows
<1>. HIDE DEF a
<1>5. a \in AuditRecord /\ a.slack = r.slack /\ a.bump = r.bump /\ a.timeline = r.timeline
      /\ a.major = t /\ a.dropped = r.dropped + n
  BY <1>3, <1>4 DEF AuditRecord
<1>. QED BY <1>2, <1>5 DEF Follows, a

(* Marks beside the entries make no difference.                            *)
Marked(r, b) ==
    /\ b \in AuditRecord /\ b.slack = r.slack /\ b.bump = r.bump
    /\ b.major = r.major /\ b.timeline = r.timeline /\ b.dropped = r.dropped

LEMMA MarkedFollows ==
    ASSUME NEW r, NEW b, NEW a, NEW id, Marked(r, b)
    PROVE  Follows(b, a, id) => Follows(r, a, id)
BY DEF Marked, Follows

LEMMA MarkedItself == ASSUME NEW r, NEW b, NEW id, Marked(r, b) PROVE Follows(r, b, id)
BY DEF Marked, Follows

LEMMA Marks ==
    ASSUME NEW r \in AuditRecord
    PROVE  /\ \A x \in BOOLEAN : Marked(r, [r EXCEPT !.work = x]) /\ Marked(r, [r EXCEPT !.crash = x])
           /\ \A x \in {"none", "draft", "ready", "reworking", "ended"} :
                Marked(r, [r EXCEPT !.pr = x]) /\ Marked(r, WithPr(r, x))
<1>1. ASSUME NEW x \in BOOLEAN PROVE Marked(r, [r EXCEPT !.work = x]) /\ Marked(r, [r EXCEPT !.crash = x])
  BY DEF AuditRecord, Marked
<1>2. ASSUME NEW x \in {"none", "draft", "ready", "reworking", "ended"} PROVE Marked(r, [r EXCEPT !.pr = x])
  BY DEF AuditRecord, Marked
<1>3. Marked(r, r)
  BY DEF Marked
<1>. QED BY <1>1, <1>2, <1>3 DEF WithPr

LEMMA ObserveFollows ==
    ASSUME NEW r \in AuditRecord, NEW isDraft \in BOOLEAN, NEW id \in Nat
    PROVE  Follows(r, Observe(r, isDraft, id), id)
<1>. DEFINE filled == [r EXCEPT !.work = TRUE]
            first == [filled EXCEPT !.pr = IF isDraft THEN "draft" ELSE "ready"]
            back == [filled EXCEPT !.pr = "draft"]
<1>1. Marked(r, filled) /\ filled \in AuditRecord
  BY Marks DEF Marked
<1>. HIDE DEF filled
<1>2. Marked(filled, first) /\ Marked(filled, back)
  BY <1>1, Marks
<1>3. Marked(r, first) /\ Marked(r, back) /\ first \in AuditRecord /\ back \in AuditRecord
  BY <1>1, <1>2 DEF Marked
<1>4. Line(id) \in Entry /\ Line(id).id = id
  BY DEF Line, Entry
<1>. HIDE DEF first, back
<1>5. Follows(r, Minor(first, Line(id)), id) /\ Follows(r, Minor(back, Line(id)), id) /\ Follows(r, filled, id)
  BY <1>1, <1>3, <1>4, MinorFollows, MarkedFollows, MarkedItself
<1>. QED BY <1>5 DEF Observe, first, back, filled

LEMMA TransitionFollows ==
    ASSUME NEW r \in AuditRecord, NEW k \in Kind, NEW id \in Nat, NEW folds \in BOOLEAN
    PROVE  Follows(r, Transition(r, k, id, folds), id)
<1>1. Line(id) \in Entry /\ Line(id).id = id /\ [id |-> id, net |-> TRUE] \in Entry
      /\ [id |-> id, net |-> TRUE].id = id
  BY DEF Line, Entry
<1>2. Follows(r, r, id)
  BY DEF Follows
<1>3. /\ Marked(r, [r EXCEPT !.work = TRUE]) /\ Marked(r, [r EXCEPT !.crash = TRUE])
      /\ Marked(r, [r EXCEPT !.pr = "draft"]) /\ Marked(r, [r EXCEPT !.pr = "reworking"])
      /\ Marked(r, WithPr(r, "ready")) /\ Marked(r, WithPr(r, "ended"))
  BY Marks
<1>4. ASSUME NEW b, Marked(r, b)
      PROVE  Follows(r, b, id) /\ Follows(r, Minor(b, Line(id)), id) /\ Follows(r, Major(b, id), id)
  <2>1. b \in AuditRecord
    BY <1>4 DEF Marked
  <2>. QED BY <1>1, <1>4, <2>1, MinorFollows, MajorFollows, MarkedFollows, MarkedItself
<1>5. CASE k = "minor"
  BY <1>3, <1>4, <1>5 DEF Transition
<1>6. CASE k = "major"
  BY <1>3, <1>4, <1>6 DEF Transition
<1>7. CASE k = "opened"
  BY <1>3, <1>4, <1>7 DEF Transition
<1>8. CASE k = "draft"
  BY <1>8, ObserveFollows DEF Transition
<1>9. CASE k = "found"
  BY <1>9, ObserveFollows DEF Transition
<1>10. CASE k = "ready"
  BY <1>2, <1>3, <1>4, <1>10 DEF Transition
<1>11. CASE k = "reworking"
  BY <1>2, <1>3, <1>4, <1>11 DEF Transition
<1>12. CASE k = "ended"
  BY <1>2, <1>3, <1>4, <1>12 DEF Transition
<1>13. CASE k = "crashed"
  BY <1>2, <1>3, <1>4, <1>13 DEF Transition
<1>14. CASE k = "unreachable"
  <2>1. Follows(r, Minor(r, [id |-> id, net |-> TRUE]), id)
    BY <1>1, MinorFollows
  <2>. QED BY <1>2, <1>14, <2>1 DEF Transition
<1>15. CASE k \in {"redraw", "bump"}
  BY <1>2, <1>15 DEF Transition
<1>. QED BY <1>5, <1>6, <1>7, <1>8, <1>9, <1>10, <1>11, <1>12, <1>13, <1>14, <1>15 DEF Kind

LEMMA ApplyFollows ==
    ASSUME NEW r \in AuditRecord, NEW k \in Kind, NEW id \in Nat, NEW folds \in BOOLEAN
    PROVE  Follows(r, Apply(r, k, id, folds), id)
<1>. DEFINE b == IF k \in {"crashed", "unreachable", "redraw", "bump"} THEN r ELSE [r EXCEPT !.crash = FALSE]
<1>1. Marked(r, b)
  BY Marks DEF Marked
<1>2. b \in AuditRecord
  BY <1>1 DEF Marked
<1>. HIDE DEF b
<1>3. Follows(r, Transition(b, k, id, folds), id)
  BY <1>1, <1>2, TransitionFollows, MarkedFollows
<1>. QED BY <1>3 DEF Apply, b

(* So what was told of a record is told of the next, with the entry added. *)
LEMMA AppliedKeeps ==
    ASSUME NEW r \in AuditRecord, NEW a, NEW id, Follows(r, a, id), NEW T, IsFiniteSet(T),
           Cardinality(T \ Ids(r)) <= r.dropped
    PROVE  Cardinality((T \cup (IF Added(r, a) = "none" THEN {} ELSE {id})) \ Ids(a)) <= a.dropped
<1>. DEFINE mine == IF Added(r, a) = "none" THEN {} ELSE {id}
<1>1. Ids(r) = SeqIds(r.major) \cup SeqIds(r.timeline) /\ Ids(a) = SeqIds(a.major) \cup SeqIds(a.timeline)
  BY DEF Ids, SeqIds
<1>2. mine \subseteq Ids(a)
  <2>1. CASE a.major = r.major /\ a.timeline = r.timeline
    BY <2>1 DEF Added, Last
  <2>2. CASE id \in SeqIds(a.major) \cup SeqIds(a.timeline)
    BY <1>1, <2>2
  <2>. QED BY <2>1, <2>2 DEF Follows, Grows
<1>. HIDE DEF mine
<1>3. IsFiniteSet(T \ Ids(r)) /\ IsFiniteSet(T \ Ids(a)) /\ (T \cup mine) \ Ids(a) = T \ Ids(a)
      /\ r.dropped \in Nat /\ Cardinality(T \ Ids(r)) \in Nat /\ Cardinality(T \ Ids(a)) \in Nat
  BY <1>2, FS_Subset, FS_CardinalityType DEF AuditRecord
<1>4. CASE a.dropped = r.dropped /\ Ids(r) \subseteq Ids(a)
  <2>1. T \ Ids(a) \subseteq T \ Ids(r)
    BY <1>4
  <2>2. Cardinality(T \ Ids(a)) <= Cardinality(T \ Ids(r))
    BY <1>3, <2>1, FS_Subset
  <2>. QED BY <1>3, <1>4, <2>2 DEF mine
<1>5. ASSUME NEW x, a.dropped = r.dropped + 1, Ids(r) \subseteq Ids(a) \cup {x}
      PROVE  Cardinality(T \ Ids(a)) <= a.dropped
  <2>1. T \ Ids(a) \subseteq (T \ Ids(r)) \cup {x}
    BY <1>5
  <2>2. Cardinality(T \ Ids(a)) <= Cardinality(T \ Ids(r)) + 1
    BY <1>3, <2>1, WithinOneMore
  <2>. QED BY <1>3, <1>5, <2>2
<1>6. \/ a.dropped = r.dropped /\ Ids(r) \subseteq Ids(a)
      \/ \E x : a.dropped = r.dropped + 1 /\ Ids(r) \subseteq Ids(a) \cup {x}
  <2>1. r.dropped + 0 = r.dropped
    BY <1>3
  <2>. QED BY <1>1, <2>1 DEF Follows, Grows
<1>. QED BY <1>3, <1>4, <1>5, <1>6 DEF mine

---------------------------------------------------------------------------
(* The chain: an update that moves on, one that ends, and a new one.       *)
Step == {"idle", "wait", "update", "post", "broadcast", "remove", "amend", "save"}

Moved(c, l, r) ==
    /\ job' \in [Callers -> Job]
    /\ \A d \in Callers : d # c => job'[d] = job[d]
    /\ job'[c].pc = l /\ job'[c].rec = r /\ job'[c].adds = job[c].adds /\ job'[c].id = job[c].id

Ended(c) ==
    /\ job' \in [Callers -> Job] /\ queue' = Tail(queue)
    /\ \A d \in Callers : d # c => job'[d] = job[d]
    /\ job'[c].pc = "idle"

LEMMA GotoMoves ==
    ASSUME AuditTypeOK, NEW c \in Callers, NEW l \in Step, AuditGoto(c, l)
    PROVE  Moved(c, l, job[c].rec)
BY DEF AuditTypeOK, AuditGoto, Moved, Job, Step

LEMMA GotoWithMoves ==
    ASSUME AuditTypeOK, NEW c \in Callers, NEW l \in Step, NEW r \in AuditRecord, GotoWith(c, l, r)
    PROVE  Moved(c, l, r)
BY DEF AuditTypeOK, GotoWith, Moved, Job, Step

LEMMA RestingIsJob == Resting \in Job /\ NoAudit \in AuditRecord
<1>1. <<>> \in Seq(Entry)
  OBVIOUS
<1>. QED BY <1>1 DEF Resting, Job, NoAudit, AuditRecord, Kind, None

LEMMA DoneEnds ==
    ASSUME AuditTypeOK, NEW c \in Callers, NEW ok, Done(c, ok)
    PROVE  Ended(c) /\ whole' = ok
<1>1. job' \in [Callers -> Job] /\ job'[c].pc = "idle" /\ \A d \in Callers : d # c => job'[d] = job[d]
  BY RestingIsJob DEF AuditTypeOK, Done, Resting
<1>. QED BY <1>1 DEF Done, Ended

(* Only the head of the chain is at work, and the head is whose turn it is. *)
LEMMA OneAtWork ==
    ASSUME AuditTypeOK, ChainInv, NEW c \in Callers, Working(c) \/ (job[c].pc = "wait" /\ MyTurn(c))
    PROVE  /\ c = queue[1] /\ queue # <<>>
           /\ \A d \in Callers : d # c => ~Working(d) /\ ~Drawn(d)
<1>1. job[c].pc # "idle"
  BY DEF Working
<1>2. PICK i \in 1..Len(queue) : queue[i] = c
  BY <1>1 DEF ChainInv
<1>3. queue \in Seq(Callers) /\ queue # <<>>
  BY <1>2 DEF AuditTypeOK
<1>4. c = queue[1]
  BY <1>3 DEF ChainInv, MyTurn
<1>5. \A d \in Callers : Drawn(d) => Working(d)
  BY DEF Drawn, Working
<1>. QED BY <1>3, <1>4, <1>5 DEF ChainInv

LEMMA MovedKeepsChain ==
    ASSUME AuditTypeOK, ChainInv, NEW c \in Callers, Working(c) \/ (job[c].pc = "wait" /\ MyTurn(c)),
           queue' = queue, \A d \in Callers : d # c => job'[d] = job[d],
           job'[c].pc \notin {"idle", "wait"}
    PROVE  ChainInv'
<1>1. c = queue[1] /\ \A d \in Callers : d # c => ~Working(d)
  BY OneAtWork
<1>2. job[c].pc # "idle"
  BY DEF Working
<1>3. \A d \in Callers : job'[d].pc # "idle" <=> job[d].pc # "idle"
  BY <1>2
<1>4. \A d \in Callers : Working(d)' => d = c
  BY <1>1 DEF Working
<1>. QED BY <1>1, <1>3, <1>4 DEF ChainInv

LEMMA EndedKeepsChain ==
    ASSUME AuditTypeOK, ChainInv, NEW c \in Callers, Working(c) \/ (job[c].pc = "wait" /\ MyTurn(c)),
           Ended(c)
    PROVE  ChainInv' /\ \A d \in Callers : ~Working(d)' /\ ~Drawn(d)'
<1>1. c = queue[1] /\ queue # <<>> /\ queue \in Seq(Callers)
      /\ \A d \in Callers : d # c => ~Working(d) /\ ~Drawn(d)
  BY OneAtWork DEF AuditTypeOK
<1>2. /\ Len(queue) \in Nat /\ Len(queue) >= 1 /\ Len(queue') = Len(queue) - 1
      /\ \A i \in 1..Len(queue') : queue'[i] = queue[i + 1]
  BY <1>1 DEF Ended
<1>3. \A d \in Callers : ~Working(d)' /\ ~Drawn(d)'
  BY <1>1 DEF Ended, Working, Drawn
<1>4. ASSUME NEW i \in 1..Len(queue'), NEW j \in 1..Len(queue'), queue'[i] = queue'[j]
      PROVE  i = j
  <2>1. i + 1 \in 1..Len(queue) /\ j + 1 \in 1..Len(queue)
    BY <1>2
  <2>2. i + 1 = j + 1
    BY <1>2, <1>4, <2>1 DEF ChainInv
  <2>. QED BY <2>2
<1>5. ASSUME NEW d \in Callers
      PROVE  job'[d].pc # "idle" <=> \E i \in 1..Len(queue') : queue'[i] = d
  <2>1. CASE d = c
    <3>1. ASSUME NEW i \in 1..Len(queue') PROVE queue'[i] # c
      <4>1. i + 1 \in 1..Len(queue) /\ 1 \in 1..Len(queue) /\ i + 1 # 1
        BY <1>2
      <4>. QED BY <1>1, <1>2, <4>1 DEF ChainInv
    <3>. QED BY <2>1, <3>1 DEF Ended
  <2>2. CASE d # c
    <3>1. job'[d] = job[d]
      BY <2>2 DEF Ended
    <3>2. (\E i \in 1..Len(queue) : queue[i] = d) => \E i \in 1..Len(queue') : queue'[i] = d
      <4>. SUFFICES ASSUME NEW i \in 1..Len(queue), queue[i] = d PROVE \E k \in 1..Len(queue') : queue'[k] = d
        OBVIOUS
      <4>1. i # 1
        BY <1>1, <2>2
      <4>2. i - 1 \in 1..Len(queue') /\ (i - 1) + 1 = i
        BY <1>2, <4>1
      <4>. QED BY <1>2, <4>2
    <3>3. (\E i \in 1..Len(queue') : queue'[i] = d) => \E i \in 1..Len(queue) : queue[i] = d
      <4>1. \A i \in 1..Len(queue') : i + 1 \in 1..Len(queue)
        BY <1>2
      <4>. QED BY <1>2, <4>1
    <3>. QED BY <3>1, <3>2, <3>3 DEF ChainInv
  <2>. QED BY <2>1, <2>2
<1>. QED BY <1>3, <1>4, <1>5 DEF ChainInv

LEMMA ReportKeepsChain ==
    ASSUME AuditTypeOK, ChainInv, NEW c \in Callers, job[c].pc = "idle",
           queue' = Append(queue, c), job'[c].pc = "wait",
           \A d \in Callers : d # c => job'[d] = job[d]
    PROVE  ChainInv'
<1>1. queue \in Seq(Callers)
  BY DEF AuditTypeOK
<1>. DEFINE n == Len(queue)
<1>2. /\ n \in Nat /\ Len(queue') = n + 1 /\ queue'[n + 1] = c
      /\ \A i \in 1..n : queue'[i] = queue[i]
  BY <1>1
<1>. HIDE DEF n
<1>3. \A i \in 1..n : queue[i] # c
  BY DEF ChainInv, n
<1>4. 1..(n + 1) = 1..n \cup {n + 1} /\ n + 1 \notin 1..n
  BY <1>2
<1>5. \A i, j \in 1..Len(queue') : queue'[i] = queue'[j] => i = j
  BY <1>2, <1>3, <1>4 DEF ChainInv, n
<1>6. \A d \in Callers : job'[d].pc # "idle" <=> \E i \in 1..Len(queue') : queue'[i] = d
  BY <1>2, <1>3, <1>4 DEF ChainInv, n
<1>7. ASSUME NEW d \in Callers, Working(d)' PROVE d = queue'[1]
  <2>1. d # c /\ Working(d)
    BY <1>7 DEF Working
  <2>2. queue # <<>> /\ d = queue[1]
    BY <2>1, OneAtWork
  <2>3. 1 \in 1..n
    BY <1>1, <2>2 DEF n
  <2>. QED BY <1>2, <2>2, <2>3
<1>. QED BY <1>5, <1>6, <1>7 DEF ChainInv

---------------------------------------------------------------------------
(* What moving on and ending leave of the entries and of the messages.     *)
LEMMA CountsAre ==
    ASSUME AuditTypeOK
    PROVE  count.posts \in Nat /\ count.events \in Nat /\ count.faults \in Nat
BY AuditBounds DEF AuditTypeOK

LEMMA FailIs ==
    ASSUME AuditTypeOK, NEW f, AuditFail(f)
    PROVE  /\ count' \in [posts : Nat, events : 0..MaxEvents, deletes : 0..MaxDeletes, faults : 0..MaxAuditFaults]
           /\ count'.faults = count.faults + 1 /\ count'.posts = count.posts
BY AuditBounds DEF AuditTypeOK, AuditFail

LEMMA MovedKeepsEntries ==
    ASSUME AuditTypeOK, ChainInv, KeepInv, NEW c \in Callers, Working(c), NEW l, NEW r, Moved(c, l, r),
           UNCHANGED <<saved, told>>, Ids(r) = Ids(job[c].rec), r.dropped = job[c].rec.dropped
    PROVE  KeepInv'
<1>1. \A d \in Callers : d # c => ~Working(d)'
  BY OneAtWork DEF Moved, Working
<1>2. Entries(c)' = Entries(c) /\ Ids(job[c].rec)' = Ids(job[c].rec) /\ job'[c].rec.dropped = job[c].rec.dropped
  BY DEF Moved, Entries, Ids
<1>3. Cardinality((told \cup Entries(c)) \ Ids(job[c].rec)) <= job[c].rec.dropped
  BY DEF KeepInv
<1>4. EntriesKept'
  BY DEF KeepInv, EntriesKept, Ids
<1>5. Cardinality((told' \cup Entries(c)') \ Ids(job[c].rec)') <= job'[c].rec.dropped
  BY <1>2, <1>3
<1>. QED BY <1>1, <1>4, <1>5 DEF KeepInv

LEMMA EndedKeepsEntries ==
    ASSUME AuditTypeOK, KeepInv, NEW c \in Callers, \A d \in Callers : ~Working(d)',
           \/ UNCHANGED <<saved, told>>
           \/ Working(c) /\ saved' = job[c].rec /\ told' \subseteq told \cup Entries(c)
    PROVE  KeepInv'
<1>1. CASE UNCHANGED <<saved, told>>
  BY <1>1 DEF KeepInv, EntriesKept, Ids
<1>2. CASE Working(c) /\ saved' = job[c].rec /\ told' \subseteq told \cup Entries(c)
  <2>. DEFINE r == job[c].rec
              S == (told \cup Entries(c)) \ Ids(r)
  <2>1. IsFiniteSet(told \cup Entries(c))
    <3>1. IsFiniteSet(Entries(c))
      BY FS_EmptySet, FS_Singleton DEF Entries
    <3>. QED BY <3>1, FS_Union DEF KeepInv
  <2>2. IsFiniteSet(S) /\ IsFiniteSet(told') /\ Cardinality(S) <= r.dropped /\ r.dropped \in Nat
    BY <1>2, <2>1, FS_Subset DEF KeepInv, AuditTypeOK, Job, AuditRecord
  <2>3. Ids(saved)' = Ids(r) /\ saved'.dropped = r.dropped
    BY <1>2 DEF Ids
  <2>4. told' \ Ids(r) \subseteq S
    BY <1>2
  <2>. HIDE DEF S, r
  <2>5. Cardinality(told' \ Ids(r)) <= Cardinality(S) /\ Cardinality(S) \in Nat
        /\ Cardinality(told' \ Ids(r)) \in Nat
    BY <2>2, <2>4, Within
  <2>6. EntriesKept'
    BY <2>2, <2>3, <2>5 DEF EntriesKept
  <2>. QED BY <2>2, <2>6 DEF KeepInv
<1>. QED BY <1>1, <1>2

LEMMA FailureEnds ==
    ASSUME AuditInv, NEW c \in Callers, Working(c) \/ (job[c].pc = "wait" /\ MyTurn(c)),
           Ended(c), whole' = FALSE, UNCHANGED <<saved, told>>
    PROVE  ChainInv' /\ KeepInv' /\ DrawInv' /\ \A d \in Callers : ~Drawn(d)'
<1>1. ChainInv' /\ \A d \in Callers : ~Working(d)' /\ ~Drawn(d)'
  BY EndedKeepsChain DEF AuditInv
<1>2. KeepInv'
  BY <1>1, EndedKeepsEntries DEF AuditInv
<1>3. DrawInv'
  BY <1>1 DEF DrawInv, DrawnIsSaved, Working
<1>. QED BY <1>1, <1>2, <1>3

(* A redrawn message keeps its place, and shows the record.                *)
LEMMA DrawIs ==
    ASSUME AuditTypeOK, PostInv, NEW r \in AuditRecord
    PROVE  /\ IsFiniteSet(Draw(r)) /\ Draw(r) \subseteq [ts : 1..count.posts, shows : AuditRecord]
           /\ \A a, b \in Draw(r) : a.ts = b.ts => a = b
           /\ {th \in Draw(r) : th.ts # r.slack} = Stale(r.slack)
           /\ \A th \in Draw(r) : th.ts = r.slack => th.shows = Shown(r)
<1>. DEFINE drawn(th) == IF th.ts = r.slack THEN [th EXCEPT !.shows = Shown(r)] ELSE th
<1>1. Draw(r) = {drawn(th) : th \in threads}
  BY DEF Draw
<1>2. IsFiniteSet(Draw(r))
  <2>. DEFINE f == [th \in threads |-> drawn(th)]
  <2>1. IsFiniteSet(threads) /\ Draw(r) = {f[th] : th \in threads}
    BY <1>1 DEF PostInv
  <2>2. f \in Surjection(threads, Draw(r))
    <3>. HIDE DEF drawn
    <3>. QED BY <1>1 DEF Surjection
  <2>. QED BY <2>1, <2>2, FS_Surjection
<1>3. Shown(r) \in AuditRecord
  BY DEF Shown, AuditRecord, None
<1>4. \A th \in threads : /\ drawn(th) \in [ts : 1..count.posts, shows : AuditRecord] /\ drawn(th).ts = th.ts
                          /\ th.ts = r.slack => drawn(th).shows = Shown(r)
                          /\ th.ts # r.slack => drawn(th) = th
  <2>. SUFFICES ASSUME NEW th \in threads
                PROVE  /\ drawn(th) \in [ts : 1..count.posts, shows : AuditRecord] /\ drawn(th).ts = th.ts
                       /\ th.ts = r.slack => drawn(th).shows = Shown(r)
                       /\ th.ts # r.slack => drawn(th) = th
    OBVIOUS
  <2>1. th \in [ts : 1..count.posts, shows : AuditRecord]
    BY DEF PostInv
  <2>. QED BY <1>3, <2>1
<1>. HIDE DEF drawn
<1>5. \A a, b \in Draw(r) : a.ts = b.ts => a = b
  <2>. SUFFICES ASSUME NEW a \in threads, NEW b \in threads, drawn(a).ts = drawn(b).ts
                PROVE  drawn(a) = drawn(b)
    BY <1>1
  <2>1. a.ts = b.ts
    BY <1>4
  <2>. QED BY <2>1 DEF PostInv
<1>6. {th \in Draw(r) : th.ts # r.slack} = Stale(r.slack)
  BY <1>1, <1>4 DEF Stale
<1>. QED BY <1>1, <1>2, <1>4, <1>5, <1>6

(* A message posted is told apart from those before it.                    *)
LEMMA PostIs ==
    ASSUME AuditTypeOK, PostInv, NEW th, th \in [ts : {NextTs}, shows : AuditRecord]
    PROVE  /\ IsFiniteSet(threads \cup {th})
           /\ threads \cup {th} \subseteq [ts : 1..NextTs, shows : AuditRecord]
           /\ \A a, b \in threads \cup {th} : a.ts = b.ts => a = b
           /\ \A a \in threads : a.ts # NextTs
           /\ replies \subseteq 1..NextTs /\ NextTs \notin replies /\ NextTs \in Nat
<1>1. count.posts \in Nat /\ 1..count.posts \subseteq 1..NextTs /\ NextTs \in 1..NextTs /\ NextTs \in Nat
      /\ NextTs \notin 1..count.posts
  BY CountsAre DEF NextTs
<1>2. \A a \in threads : a.ts \in 1..count.posts /\ a \in [ts : 1..NextTs, shows : AuditRecord]
  <2>. SUFFICES ASSUME NEW a \in threads
                PROVE  a.ts \in 1..count.posts /\ a \in [ts : 1..NextTs, shows : AuditRecord]
    OBVIOUS
  <2>1. a \in [ts : 1..count.posts, shows : AuditRecord]
    BY DEF PostInv
  <2>. QED BY <1>1, <2>1
<1>3. th.ts = NextTs /\ th \in [ts : 1..NextTs, shows : AuditRecord]
  BY <1>1
<1>4. IsFiniteSet(threads \cup {th})
  BY FS_AddElement DEF PostInv
<1>. QED BY <1>1, <1>2, <1>3, <1>4 DEF PostInv, AuditTypeOK

---------------------------------------------------------------------------
(* The invariant, action by action.                                        *)
LEMMA AuditBegins ==
    ASSUME AuditInit
    PROVE  AuditInv
<1>1. AuditTypeOK
  <2>1. 0 \in 0..MaxEvents /\ 0 \in 0..MaxDeletes /\ 0 \in 0..MaxAuditFaults
    BY AuditBounds
  <2>2. queue \in Seq(Callers)
    BY DEF AuditInit
  <2>. QED BY <2>1, <2>2, RestingIsJob DEF AuditInit, AuditTypeOK
<1>2. \A c \in Callers : job[c].pc = "idle"
  BY DEF AuditInit, Resting
<1>3. ChainInv
  BY <1>2 DEF AuditInit, ChainInv, Working
<1>4. PostInv
  BY FS_EmptySet DEF AuditInit, PostInv
<1>5. DrawInv
  BY <1>2 DEF AuditInit, DrawInv, DrawnIsSaved, Drawn
<1>6. Cardinality({}) = 0 /\ IsFiniteSet({}) /\ 0 <= 0
  BY FS_EmptySet
<1>7. KeepInv
  <2>1. told = {} /\ saved.dropped = 0 /\ told \ Ids(saved) = {}
    BY DEF AuditInit, NoAudit
  <2>. QED BY <1>2, <1>6, <2>1 DEF KeepInv, EntriesKept, Working
<1>8. StrayInv
  <2>1. Stale(saved.slack) = {} /\ replies \ {saved.bump} = {} /\ count.faults = 0
    BY DEF AuditInit, Stale
  <2>. QED BY <1>2, <1>6, <2>1 DEF StrayInv, Drawn
<1>. QED BY <1>1, <1>3, <1>4, <1>5, <1>7, <1>8 DEF AuditInv

LEMMA ReportKeeps ==
    ASSUME AuditInv, NEW c \in Callers, Report(c)
    PROVE  AuditInv'
<1>1. AuditTypeOK /\ job[c].pc = "idle" /\ UNCHANGED <<saved, threads, replies, told, whole>>
  BY DEF AuditInv, Report
<1>2. /\ job' \in [Callers -> Job] /\ job'[c].pc = "wait"
      /\ \A d \in Callers : d # c => job'[d] = job[d]
  <2>1. PICK k \in Kinds : job' = [job EXCEPT ![c] = [Resting EXCEPT !.pc = "wait", !.kind = k, !.id = count.events + 1]]
    BY DEF Report
  <2>2. [Resting EXCEPT !.pc = "wait", !.kind = k, !.id = count.events + 1] \in Job
    <3>1. /\ k \in Kind /\ count.events + 1 \in Nat /\ "wait" \in Step /\ Resting \in Job
      BY <1>1, AuditBounds, RestingIsJob, CountsAre DEF Step
    <3>. HIDE DEF Resting
    <3>. QED BY <3>1 DEF Job, Step
  <2>. QED BY <1>1, <2>1, <2>2, RestingIsJob DEF AuditTypeOK, Job
<1>3. /\ count' \in [posts : Nat, events : 0..MaxEvents, deletes : 0..MaxDeletes, faults : 0..MaxAuditFaults]
      /\ count'.faults = count.faults /\ count'.posts = count.posts
  BY <1>1, AuditBounds DEF AuditTypeOK, Report
<1>4. AuditTypeOK'
  BY <1>1, <1>2, <1>3 DEF AuditTypeOK, Report
<1>5. ChainInv'
  BY <1>1, <1>2, ReportKeepsChain DEF AuditInv, Report
<1>6. PostInv'
  BY <1>1, <1>3 DEF AuditInv, PostInv
<1>7. /\ \A d \in Callers : Working(d)' => d # c /\ Working(d)
      /\ \A d \in Callers : Drawn(d)' <=> Drawn(d)
      /\ Quiet' <=> Quiet
  BY <1>1, <1>2 DEF Working, Drawn, Quiet
<1>8. DrawInv'
  BY <1>1, <1>2, <1>7 DEF AuditInv, DrawInv, DrawnIsSaved, Drawn, There
<1>9. KeepInv'
  BY <1>1, <1>2, <1>7 DEF AuditInv, KeepInv, EntriesKept, Entries
<1>10. StrayInv'
  BY <1>1, <1>2, <1>3, <1>7 DEF AuditInv, StrayInv, Stale, OwnReplies, Drawn
<1>. QED BY <1>4, <1>5, <1>6, <1>8, <1>9, <1>10 DEF AuditInv

LEMMA DeleteKeeps ==
    ASSUME AuditInv, Delete
    PROVE  AuditInv'
<1>1. /\ AuditTypeOK /\ UNCHANGED <<saved, queue, job, told, whole>>
      /\ threads' \subseteq threads /\ replies' \subseteq replies
  BY DEF AuditInv, Delete
<1>2. /\ count' \in [posts : Nat, events : 0..MaxEvents, deletes : 0..MaxDeletes, faults : 0..MaxAuditFaults]
      /\ count'.faults = count.faults /\ count'.posts = count.posts
  BY <1>1, AuditBounds DEF AuditTypeOK, Delete
<1>3. AuditTypeOK'
  BY <1>1, <1>2 DEF AuditTypeOK
<1>4. ChainInv'
  BY <1>1 DEF AuditInv, ChainInv, Working
<1>5. PostInv'
  BY <1>1, <1>2, FS_Subset DEF AuditInv, PostInv
<1>6. DrawInv'
  BY <1>1 DEF AuditInv, DrawInv, DrawnIsSaved, Quiet, Drawn, There
<1>7. KeepInv'
  BY <1>1 DEF AuditInv, KeepInv, EntriesKept, Entries, Working, Ids
<1>8. StrayInv'
  <2>1. ASSUME NEW s, NEW n, Cardinality(Stale(s)) <= n, n \in Nat PROVE Cardinality({th \in threads' : th.ts # s}) <= n
    <3>1. {th \in threads' : th.ts # s} \subseteq Stale(s) /\ IsFiniteSet(Stale(s))
      BY <1>1, FS_Subset DEF AuditInv, PostInv, Stale
    <3>. QED BY <2>1, <3>1, Within
  <2>2. ASSUME NEW X, NEW n, Cardinality(replies \ X) <= n, n \in Nat PROVE Cardinality(replies' \ X) <= n
    <3>1. replies' \ X \subseteq replies \ X /\ IsFiniteSet(replies \ X)
      BY <1>1, FS_Subset DEF AuditInv, PostInv
    <3>. QED BY <2>2, <3>1, Within
  <2>3. count.faults \in Nat
    BY <1>1, CountsAre
  <2>4. \A d \in Callers : Drawn(d)' = Drawn(d) /\ OwnReplies(d)' = OwnReplies(d)
    BY <1>1, <1>2 DEF Drawn, OwnReplies
  <2>5. StrayInv
    BY DEF AuditInv
  <2>6. ASSUME \A d \in Callers : ~Drawn(d)
        PROVE  /\ Cardinality({th \in threads' : th.ts # saved.slack}) <= count.faults
               /\ Cardinality(replies' \ {saved.bump}) <= count.faults
    BY <2>1, <2>2, <2>3, <2>5, <2>6 DEF StrayInv
  <2>7. ASSUME NEW d \in Callers, Drawn(d)
        PROVE  /\ Cardinality({th \in threads' : th.ts # job[d].rec.slack}) <= count.faults
               /\ Cardinality(replies' \ OwnReplies(d)) <= count.faults
    BY <2>1, <2>2, <2>3, <2>5, <2>7 DEF StrayInv
  <2>. QED BY <1>1, <1>2, <2>4, <2>6, <2>7 DEF StrayInv, Stale
<1>. QED BY <1>3, <1>4, <1>5, <1>6, <1>7, <1>8 DEF AuditInv

LEMMA LoadsKeep ==
    ASSUME AuditInv, NEW c \in Callers, Load(c)
    PROVE  AuditInv'
<1>1. /\ AuditTypeOK /\ ChainInv /\ PostInv /\ DrawInv /\ KeepInv /\ StrayInv
      /\ job[c].pc = "wait" /\ MyTurn(c) /\ UNCHANGED <<saved, threads, replies, told>>
  BY DEF AuditInv, Load
<1>2. \A d \in Callers : d # c => ~Working(d) /\ ~Drawn(d)
  BY <1>1, OneAtWork
<1>3. \A d \in Callers : ~Working(d) /\ ~Drawn(d)
  BY <1>1, <1>2 DEF Working, Drawn
<1>4. /\ Cardinality(Stale(saved.slack)) <= count.faults
      /\ Cardinality(replies \ {saved.bump}) <= count.faults
  BY <1>1, <1>3 DEF StrayInv
<1>5. ASSUME NEW folds \in BOOLEAN,
             LET r == Apply(saved, job[c].kind, job[c].id, folds)
             IN job' = [job EXCEPT ![c].pc = IF saved.slack = None THEN "post" ELSE "update",
                                   ![c].rec = r, ![c].adds = Added(saved, r)],
             UNCHANGED <<queue, whole, count>>
      PROVE  AuditInv'
  <2>. DEFINE r == Apply(saved, job[c].kind, job[c].id, folds)
              l == IF saved.slack = None THEN "post" ELSE "update"
  <2>1. job[c] \in Job /\ saved \in AuditRecord
    BY <1>1 DEF AuditTypeOK
  <2>2. Follows(saved, r, job[c].id)
    BY <2>1, ApplyFollows DEF Job
  <2>3. r \in AuditRecord /\ Added(saved, r) \in {"none", "minor", "major"}
    BY <2>2 DEF Follows, Added
  <2>4. job' = [job EXCEPT ![c].pc = l, ![c].rec = r, ![c].adds = Added(saved, r)]
    BY <1>5
  <2>. HIDE DEF r, l
  <2>5. l \in {"post", "update"} /\ (l = "post" => saved.slack = None)
    BY DEF l
  <2>6. /\ job' \in [Callers -> Job] /\ \A d \in Callers : d # c => job'[d] = job[d]
        /\ job'[c].pc = l /\ job'[c].rec = r /\ job'[c].adds = Added(saved, r) /\ job'[c].id = job[c].id
    BY <1>1, <2>1, <2>3, <2>4, <2>5 DEF AuditTypeOK, Job
  <2>7. AuditTypeOK'
    BY <1>1, <1>5, <2>6 DEF AuditTypeOK
  <2>8. ChainInv'
    BY <1>1, <1>5, <2>5, <2>6, MovedKeepsChain
  <2>9. PostInv'
    BY <1>1, <1>5 DEF PostInv
  <2>10. KeepInv'
    <3>1. \A d \in Callers : Working(d)' => d = c
      BY <1>3, <2>6 DEF Working
    <3>2. Cardinality((told \cup (IF Added(saved, r) = "none" THEN {} ELSE {job[c].id})) \ Ids(r)) <= r.dropped
      BY <1>1, <2>1, <2>2, AppliedKeeps DEF KeepInv, EntriesKept
    <3>3. Entries(c)' = (IF Added(saved, r) = "none" THEN {} ELSE {job[c].id}) /\ Ids(job[c].rec)' = Ids(r)
      BY <2>6 DEF Entries, Ids
    <3>4. Cardinality((told' \cup Entries(c)') \ Ids(job[c].rec)') <= job'[c].rec.dropped
      BY <1>1, <2>6, <3>2, <3>3
    <3>5. EntriesKept'
      BY <1>1 DEF KeepInv, EntriesKept, Ids
    <3>. QED BY <1>1, <3>1, <3>4, <3>5 DEF KeepInv
  <2>11. \A d \in Callers : ~Drawn(d)' /\ (job'[d].pc \in {"update", "post"} => d = c)
    BY <1>3, <2>5, <2>6 DEF Drawn, Working
  <2>12. DrawInv'
    <3>1. ~Quiet'
      BY <2>5, <2>6 DEF Quiet
    <3>2. r.slack = saved.slack /\ r.bump = saved.bump
      BY <2>2 DEF Follows
    <3>3. l = "post" => ~There(r)
      <4>1. \A th \in threads : th.ts \in 1..count.posts
        BY <1>1 DEF AuditTypeOK
      <4>. QED BY <2>5, <3>2, <4>1 DEF There, None
    <3>4. There(job[c].rec)' <=> There(r)
      BY <1>1, <2>6 DEF There
    <3>. QED BY <1>1, <2>6, <2>11, <3>1, <3>2, <3>3, <3>4 DEF DrawInv, DrawnIsSaved
  <2>13. StrayInv'
    BY <1>1, <1>4, <1>5, <2>11 DEF StrayInv, Stale
  <2>. QED BY <2>7, <2>8, <2>9, <2>10, <2>12, <2>13 DEF AuditInv
<1>6. CASE Done(c, whole) /\ UNCHANGED count
  <2>1. Ended(c) /\ whole' = whole
    BY <1>1, <1>6, DoneEnds
  <2>2. ChainInv' /\ \A d \in Callers : ~Working(d)' /\ ~Drawn(d)'
    BY <1>1, <2>1, EndedKeepsChain
  <2>3. AuditTypeOK'
    <3>1. queue' \in Seq(Callers)
      BY <1>1, <2>1, OneAtWork DEF Ended, AuditTypeOK
    <3>. QED BY <1>1, <1>6, <2>1, <3>1 DEF AuditTypeOK, Ended
  <2>4. PostInv'
    BY <1>1, <1>6 DEF PostInv
  <2>5. DrawInv'
    <3>1. Quiet
      BY <1>3 DEF Quiet, Working
    <3>. QED BY <1>1, <2>1, <2>2, <3>1 DEF DrawInv, DrawnIsSaved, Working
  <2>6. KeepInv'
    BY <1>1, <2>2, EndedKeepsEntries
  <2>7. StrayInv'
    BY <1>1, <1>4, <1>6, <2>2 DEF StrayInv, Stale
  <2>. QED BY <2>2, <2>3, <2>4, <2>5, <2>6, <2>7 DEF AuditInv
<1>7. ASSUME NEW f, AuditFail(f), Done(c, FALSE) PROVE AuditInv'
  <2>1. Ended(c) /\ whole' = FALSE
    BY <1>1, <1>7, DoneEnds
  <2>2. /\ count' \in [posts : Nat, events : 0..MaxEvents, deletes : 0..MaxDeletes, faults : 0..MaxAuditFaults]
        /\ count'.faults = count.faults + 1 /\ count'.posts = count.posts
    BY <1>1, <1>7, FailIs
  <2>3. ChainInv' /\ KeepInv' /\ DrawInv' /\ \A d \in Callers : ~Drawn(d)'
    BY <1>1, <2>1, FailureEnds
  <2>4. AuditTypeOK'
    <3>1. queue' \in Seq(Callers)
      BY <1>1, <2>1, OneAtWork DEF Ended, AuditTypeOK
    <3>. QED BY <1>1, <2>1, <2>2, <3>1 DEF AuditTypeOK, Ended
  <2>5. PostInv'
    BY <1>1, <2>2 DEF PostInv
  <2>6. StrayInv'
    <3>1. count.faults \in Nat /\ IsFiniteSet(Stale(saved.slack)) /\ IsFiniteSet(replies \ {saved.bump})
      BY <1>1, CountsAre, FS_Subset DEF PostInv, Stale
    <3>2. Cardinality(Stale(saved.slack)) \in Nat /\ Cardinality(replies \ {saved.bump}) \in Nat
      BY <3>1, FS_CardinalityType
    <3>3. /\ Cardinality(Stale(saved.slack)) <= count.faults + 1
          /\ Cardinality(replies \ {saved.bump}) <= count.faults + 1
      BY <1>4, <3>1, <3>2
    <3>. QED BY <1>1, <2>2, <2>3, <3>3 DEF StrayInv, Stale
  <2>. QED BY <2>3, <2>4, <2>5, <2>6 DEF AuditInv
<1>. QED BY <1>5, <1>6, <1>7 DEF Load

---------------------------------------------------------------------------
(* An update at work moves on with a record that has the entries of the    *)
(* one it had: what remains is the messages.                               *)
LEMMA MoveKeeps ==
    ASSUME AuditInv, NEW c \in Callers, Working(c), NEW l \in Step, l \notin {"idle", "wait"},
           NEW r \in AuditRecord, Moved(c, l, r), UNCHANGED <<saved, told, queue, whole>>,
           Ids(r) = Ids(job[c].rec), r.dropped = job[c].rec.dropped
    PROVE  /\ ChainInv' /\ KeepInv' /\ ~Quiet'
           /\ \A d \in Callers : d # c => job'[d].pc \in {"idle", "wait"} /\ ~Drawn(d)'
           /\ saved' \in AuditRecord /\ queue' \in Seq(Callers) /\ job' \in [Callers -> Job]
           /\ told' \subseteq Nat /\ whole' \in BOOLEAN
<1>1. AuditTypeOK /\ ChainInv /\ KeepInv
  BY DEF AuditInv
<1>2. ChainInv'
  BY <1>1, MovedKeepsChain DEF Moved
<1>3. KeepInv'
  BY <1>1, MovedKeepsEntries
<1>4. \A d \in Callers : d # c => job'[d].pc \in {"idle", "wait"} /\ ~Drawn(d)'
  <2>1. \A d \in Callers : d # c => ~Working(d) /\ ~Drawn(d)
    BY <1>1, OneAtWork
  <2>. QED BY <2>1 DEF Moved, Working, Drawn
<1>. QED BY <1>1, <1>2, <1>3, <1>4 DEF Quiet, Moved, AuditTypeOK

(* A call that failed, landed or not, ends its update: one more message or *)
(* reply may stand than before.                                            *)
LEMMA FailKeeps ==
    ASSUME AuditInv, NEW c \in Callers, Working(c), Ended(c), whole' = FALSE, UNCHANGED <<saved, told>>,
           count' \in [posts : Nat, events : 0..MaxEvents, deletes : 0..MaxDeletes, faults : 0..MaxAuditFaults],
           count'.faults = count.faults + 1, PostInv', replies' \subseteq 1..count'.posts,
           NEW th, {m \in threads' : m.ts # saved.slack} \subseteq {m \in threads : m.ts # saved.slack} \cup {th},
           Cardinality({m \in threads : m.ts # saved.slack}) <= count.faults,
           NEW b, replies' \ {saved.bump} \subseteq (replies \ {saved.bump}) \cup {b},
           Cardinality(replies \ {saved.bump}) <= count.faults
    PROVE  AuditInv'
<1>1. AuditTypeOK /\ PostInv /\ ChainInv
  BY DEF AuditInv
<1>2. ChainInv' /\ KeepInv' /\ DrawInv' /\ \A d \in Callers : ~Drawn(d)'
  BY FailureEnds
<1>3. AuditTypeOK'
  <2>1. queue' \in Seq(Callers)
    BY <1>1, OneAtWork DEF Ended, AuditTypeOK
  <2>2. \A m \in threads' : m.ts \in 1..count'.posts /\ m.shows \in AuditRecord
    BY DEF PostInv
  <2>. QED BY <1>1, <2>1, <2>2 DEF AuditTypeOK, Ended
<1>4. StrayInv'
  <2>. DEFINE S == {m \in threads : m.ts # saved.slack}
              S1 == {m \in threads' : m.ts # saved.slack}
              R == replies \ {saved.bump}
              R1 == replies' \ {saved.bump}
  <2>1. count.faults \in Nat /\ IsFiniteSet(S) /\ IsFiniteSet(R)
    BY <1>1, CountsAre, FS_Subset DEF PostInv
  <2>2. S1 \subseteq S \cup {th} /\ R1 \subseteq R \cup {b} /\ Cardinality(S) <= count.faults
        /\ Cardinality(R) <= count.faults
    OBVIOUS
  <2>3. StrayInv' <=> (Cardinality(S1) <= count'.faults /\ Cardinality(R1) <= count'.faults)
    BY <1>2 DEF StrayInv, Stale
  <2>. HIDE DEF S, S1, R, R1
  <2>4. Cardinality(S1) <= Cardinality(S) + 1 /\ Cardinality(S1) \in Nat /\ Cardinality(S) \in Nat
    BY <2>1, <2>2, WithinOneMore
  <2>5. Cardinality(R1) <= Cardinality(R) + 1 /\ Cardinality(R1) \in Nat /\ Cardinality(R) \in Nat
    BY <2>1, <2>2, WithinOneMore
  <2>. QED BY <2>1, <2>2, <2>3, <2>4, <2>5
<1>. QED BY <1>2, <1>3, <1>4 DEF AuditInv

CountOK == [posts : Nat, events : 0..MaxEvents, deletes : 0..MaxDeletes, faults : 0..MaxAuditFaults]

(* An update that has drawn moves on, with at most the messages beside its *)
(* own that failed calls account for.                                      *)
LEMMA DrawnKeeps ==
    ASSUME AuditInv, NEW c \in Callers, Working(c), NEW l \in {"broadcast", "remove", "amend", "save"},
           NEW r \in AuditRecord, Moved(c, l, r), UNCHANGED <<saved, told, queue, whole>>,
           Ids(r) = Ids(job[c].rec), r.dropped = job[c].rec.dropped,
           count' \in CountOK, PostInv', replies' \subseteq 1..count'.posts,
           \A th \in threads' : th.ts = r.slack => th.shows = Shown(r),
           Cardinality({th \in threads' : th.ts # r.slack}) <= count'.faults,
           NEW own, own = {r.bump} \cup (IF l = "remove" THEN {count'.posts} ELSE {}),
           Cardinality(replies' \ own) <= count'.faults
    PROVE  AuditInv'
<1>1. l \in Step /\ l \notin {"idle", "wait"}
  BY DEF Step
<1>2. /\ ChainInv' /\ KeepInv' /\ ~Quiet'
      /\ \A d \in Callers : d # c => job'[d].pc \in {"idle", "wait"} /\ ~Drawn(d)'
      /\ saved' \in AuditRecord /\ queue' \in Seq(Callers) /\ job' \in [Callers -> Job]
      /\ told' \subseteq Nat /\ whole' \in BOOLEAN
  BY <1>1, MoveKeeps
<1>3. job'[c].pc = l /\ job'[c].rec = r
  BY DEF Moved
<1>4. AuditTypeOK'
  <2>1. \A m \in threads' : m.ts \in 1..count'.posts /\ m.shows \in AuditRecord
    BY DEF PostInv
  <2>. QED BY <1>2, <2>1 DEF AuditTypeOK, CountOK
<1>5. DrawInv'
  <2>1. \A d \in Callers : job'[d].pc \notin {"update", "post"} /\ (Drawn(d)' => d = c)
    BY <1>2, <1>3
  <2>. QED BY <1>2, <1>3, <2>1 DEF DrawInv, DrawnIsSaved
<1>6. StrayInv'
  <2>1. Drawn(c)' /\ OwnReplies(c)' = own
    BY <1>3 DEF Drawn, OwnReplies
  <2>. QED BY <1>2, <1>3, <2>1 DEF StrayInv, Stale
<1>. QED BY <1>2, <1>4, <1>5, <1>6 DEF AuditInv

(* Before it has drawn, nobody has.                                        *)
LEMMA NobodyHasDrawn ==
    ASSUME AuditInv, NEW c \in Callers, job[c].pc \in {"update", "post"}
    PROVE  /\ Working(c) /\ job[c] \in Job /\ job[c].rec \in AuditRecord
           /\ job[c].rec.slack = saved.slack /\ job[c].rec.bump = saved.bump
           /\ Cardinality(Stale(saved.slack)) <= count.faults
           /\ Cardinality(replies \ {saved.bump}) <= count.faults
           /\ count \in CountOK /\ count.faults \in Nat /\ count.posts \in Nat
           /\ replies \subseteq 1..count.posts
<1>1. AuditTypeOK /\ ChainInv /\ DrawInv /\ StrayInv
  BY DEF AuditInv
<1>2. Working(c) /\ ~Drawn(c)
  BY DEF Working, Drawn
<1>3. \A d \in Callers : ~Drawn(d)
  BY <1>1, <1>2, OneAtWork
<1>4. job[c] \in Job /\ job[c].rec \in AuditRecord
  BY <1>1 DEF AuditTypeOK, Job
<1>. QED BY <1>1, <1>2, <1>3, <1>4, CountsAre DEF DrawInv, StrayInv, AuditTypeOK, CountOK

LEMMA UpdateKeeps ==
    ASSUME AuditInv, NEW c \in Callers, Update(c)
    PROVE  AuditInv'
<1>. DEFINE r == job[c].rec
            shown == r.major # <<>>
            next == IF job[c].adds = "major" \/ (job[c].kind = "bump" /\ shown) THEN "broadcast"
                    ELSE IF job[c].adds = "minor" /\ r.bump # None /\ shown THEN "amend" ELSE "save"
<1>1. /\ AuditTypeOK /\ PostInv /\ ChainInv /\ DrawInv /\ job[c].pc = "update"
      /\ UNCHANGED <<saved, replies, told>>
  BY DEF AuditInv, Update
<1>2. /\ Working(c) /\ job[c] \in Job /\ r \in AuditRecord
      /\ r.slack = saved.slack /\ r.bump = saved.bump
      /\ Cardinality(Stale(saved.slack)) <= count.faults
      /\ Cardinality(replies \ {saved.bump}) <= count.faults
      /\ count \in CountOK /\ count.faults \in Nat /\ count.posts \in Nat
      /\ replies \subseteq 1..count.posts
  BY <1>1, NobodyHasDrawn
<1>3. next \in {"broadcast", "amend", "save"} /\ next \in Step
  BY DEF Step
<1>4. /\ IsFiniteSet(Draw(r)) /\ Draw(r) \subseteq [ts : 1..count.posts, shows : AuditRecord]
      /\ \A a, b \in Draw(r) : a.ts = b.ts => a = b
      /\ {th \in Draw(r) : th.ts # r.slack} = Stale(r.slack)
      /\ \A th \in Draw(r) : th.ts = r.slack => th.shows = Shown(r)
  BY <1>1, <1>2, DrawIs
<1>. HIDE DEF r, next
<1>5. CASE threads' = Draw(r) /\ AuditGoto(c, next) /\ UNCHANGED <<queue, whole, count>>
  <2>1. Moved(c, next, r)
    BY <1>1, <1>3, <1>5, GotoMoves DEF r
  <2>2. PostInv'
    BY <1>1, <1>4, <1>5 DEF PostInv
  <2>3. {th \in threads' : th.ts # r.slack} = Stale(saved.slack)
    BY <1>2, <1>4, <1>5
  <2>4. next # "remove"
    BY <1>3
  <2>. DEFINE own == {r.bump} \cup (IF next = "remove" THEN {count'.posts} ELSE {})
  <2>5. replies' \ own = replies \ {saved.bump}
    BY <1>1, <1>2, <2>4
  <2>. HIDE DEF own
  <2>6. Cardinality(replies' \ own) <= count'.faults /\ Cardinality({th \in threads' : th.ts # r.slack}) <= count'.faults
    BY <1>2, <1>5, <2>3, <2>5
  <2>7. \A th \in threads' : th.ts = r.slack => th.shows = Shown(r)
    BY <1>4, <1>5
  <2>8. count' \in CountOK /\ replies' \subseteq 1..count'.posts
    BY <1>1, <1>2, <1>5
  <2>9. /\ next \in {"broadcast", "remove", "amend", "save"}
        /\ Ids(r) = Ids(job[c].rec) /\ r.dropped = job[c].rec.dropped
        /\ UNCHANGED <<saved, told, queue, whole>>
    BY <1>1, <1>3, <1>5 DEF r
  <2>10. own = {r.bump} \cup (IF next = "remove" THEN {count'.posts} ELSE {})
    BY DEF own
  <2>. QED BY <1>2, <2>1, <2>2, <2>6, <2>7, <2>8, <2>9, <2>10, DrawnKeeps
<1>6. CASE ~There(r) /\ AuditGoto(c, "post") /\ UNCHANGED <<threads, queue, whole, count>>
  <2>1. "post" \in Step
    BY DEF Step
  <2>2. Moved(c, "post", r)
    BY <1>1, <1>6, <2>1, GotoMoves DEF r
  <2>3. /\ ChainInv' /\ KeepInv' /\ ~Quiet'
        /\ \A d \in Callers : d # c => job'[d].pc \in {"idle", "wait"} /\ ~Drawn(d)'
        /\ saved' \in AuditRecord /\ queue' \in Seq(Callers) /\ job' \in [Callers -> Job]
        /\ told' \subseteq Nat /\ whole' \in BOOLEAN
    BY <1>1, <1>2, <1>6, <2>1, <2>2, MoveKeeps DEF r
  <2>4. job'[c].pc = "post" /\ job'[c].rec = r
    BY <2>2 DEF Moved
  <2>5. AuditTypeOK'
    BY <1>1, <1>6, <2>3 DEF AuditTypeOK
  <2>6. PostInv'
    BY <1>1, <1>6 DEF PostInv
  <2>7. \A d \in Callers : ~Drawn(d)'
    BY <2>3, <2>4 DEF Drawn
  <2>8. DrawInv'
    <3>1. There(job[c].rec)' <=> There(r)
      BY <1>6, <2>4 DEF There
    <3>. QED BY <1>1, <1>2, <1>6, <2>3, <2>4, <2>7, <3>1 DEF DrawInv, DrawnIsSaved
  <2>9. StrayInv'
    BY <1>1, <1>2, <1>6, <2>7 DEF StrayInv, Stale
  <2>. QED BY <2>3, <2>5, <2>6, <2>8, <2>9 DEF AuditInv
<1>7. ASSUME NEW f, AuditFail(f), Done(c, FALSE), threads' \in {threads, Draw(r)}
      PROVE  AuditInv'
  <2>1. Ended(c) /\ whole' = FALSE
    BY <1>1, <1>7, DoneEnds
  <2>2. /\ count' \in [posts : Nat, events : 0..MaxEvents, deletes : 0..MaxDeletes, faults : 0..MaxAuditFaults]
        /\ count'.faults = count.faults + 1 /\ count'.posts = count.posts
    BY <1>1, <1>7, FailIs
  <2>3. PostInv'
    BY <1>1, <1>4, <1>7, <2>2 DEF PostInv
  <2>4. {m \in threads' : m.ts # saved.slack} = Stale(saved.slack)
    BY <1>2, <1>4, <1>7 DEF Stale
  <2>5. Stale(saved.slack) = {m \in threads : m.ts # saved.slack}
    BY DEF Stale
  <2>6. /\ {m \in threads' : m.ts # saved.slack} \subseteq {m \in threads : m.ts # saved.slack} \cup {0}
        /\ replies' \ {saved.bump} \subseteq (replies \ {saved.bump}) \cup {0}
        /\ Cardinality({m \in threads : m.ts # saved.slack}) <= count.faults
        /\ replies' \subseteq 1..count'.posts
    BY <1>1, <1>2, <2>2, <2>4, <2>5
  <2>. QED BY <1>1, <1>2, <2>1, <2>2, <2>3, <2>6, FailKeeps
<1>. QED BY <1>5, <1>6, <1>7 DEF Update, r, next

LEMMA PostKeeps ==
    ASSUME AuditInv, NEW c \in Callers, Post(c)
    PROVE  AuditInv'
<1>. DEFINE r == job[c].rec
            r1 == [r EXCEPT !.slack = NextTs]
            th == [ts |-> NextTs, shows |-> Shown(r)]
<1>1. /\ AuditTypeOK /\ PostInv /\ ChainInv /\ DrawInv /\ job[c].pc = "post"
      /\ UNCHANGED <<saved, replies, told>>
  BY DEF AuditInv, Post
<1>2. /\ Working(c) /\ job[c] \in Job /\ r \in AuditRecord
      /\ r.slack = saved.slack /\ r.bump = saved.bump
      /\ Cardinality(Stale(saved.slack)) <= count.faults
      /\ Cardinality(replies \ {saved.bump}) <= count.faults
      /\ count \in CountOK /\ count.faults \in Nat /\ count.posts \in Nat
      /\ replies \subseteq 1..count.posts
  BY <1>1, NobodyHasDrawn
<1>3. ~There(r)
  BY <1>1 DEF DrawInv
<1>. HIDE DEF r
<1>4. Shown(r) \in AuditRecord
  BY <1>2 DEF Shown, AuditRecord, None
<1>5. th \in [ts : {NextTs}, shows : AuditRecord] /\ th.ts = NextTs /\ th.shows = Shown(r)
  BY <1>4
<1>. HIDE DEF th
<1>6. /\ IsFiniteSet(threads \cup {th})
      /\ threads \cup {th} \subseteq [ts : 1..NextTs, shows : AuditRecord]
      /\ \A a, b \in threads \cup {th} : a.ts = b.ts => a = b
      /\ \A a \in threads : a.ts # NextTs
      /\ replies \subseteq 1..NextTs /\ NextTs \notin replies /\ NextTs \in Nat
  BY <1>1, <1>5, PostIs
<1>7. Stale(saved.slack) = threads
  BY <1>2, <1>3 DEF Stale, There
<1>8. /\ r1 \in AuditRecord /\ r1.slack = NextTs /\ r1.bump = r.bump /\ Ids(r1) = Ids(r)
      /\ r1.dropped = r.dropped /\ Shown(r1) = Shown(r)
  <2>. DEFINE ts == NextTs
  <2>1. ts \in Nat
    BY <1>6
  <2>. HIDE DEF ts
  <2>2. r1 = [r EXCEPT !.slack = ts]
    BY DEF ts
  <2>3. /\ r1 \in AuditRecord /\ r1.slack = ts /\ r1.bump = r.bump /\ r1.dropped = r.dropped
        /\ r1.major = r.major /\ r1.timeline = r.timeline
    BY <1>2, <2>1, <2>2 DEF AuditRecord
  <2>4. Shown(r1) = Shown(r)
    BY <1>2, <2>2 DEF Shown, AuditRecord
  <2>. HIDE DEF r1
  <2>. QED BY <2>3, <2>4 DEF Ids, ts
<1>. HIDE DEF r1
<1>9. CASE threads' = threads \cup {th} /\ count' = [count EXCEPT !.posts = @ + 1]
           /\ GotoWith(c, "save", r1) /\ UNCHANGED <<queue, whole>>
  <2>1. Moved(c, "save", r1)
    BY <1>1, <1>8, <1>9, GotoWithMoves DEF Step
  <2>2. count' \in CountOK /\ count'.posts = NextTs /\ count'.faults = count.faults
    BY <1>2, <1>9 DEF CountOK, NextTs
  <2>3. PostInv'
    BY <1>1, <1>6, <1>9, <2>2 DEF PostInv
  <2>4. {m \in threads' : m.ts # r1.slack} = threads
    BY <1>5, <1>6, <1>8, <1>9
  <2>5. \A m \in threads' : m.ts = r1.slack => m.shows = Shown(r1)
    BY <1>5, <1>6, <1>8, <1>9
  <2>. DEFINE own == {r1.bump} \cup (IF "save" = "remove" THEN {count'.posts} ELSE {})
  <2>6. replies' \ own = replies \ {saved.bump}
    BY <1>1, <1>2, <1>8
  <2>. HIDE DEF own
  <2>7. /\ Cardinality(replies' \ own) <= count'.faults
        /\ Cardinality({m \in threads' : m.ts # r1.slack}) <= count'.faults
        /\ replies' \subseteq 1..count'.posts
    BY <1>1, <1>2, <1>6, <1>7, <2>2, <2>4, <2>6
  <2>. QED BY <1>1, <1>2, <1>8, <1>9, <2>1, <2>2, <2>3, <2>5, <2>7, DrawnKeeps DEF r, own
<1>10. ASSUME Done(c, FALSE), count' \in CountOK, count'.faults = count.faults + 1,
              \/ threads' = threads /\ count'.posts = count.posts
              \/ threads' = threads \cup {th} /\ count'.posts = NextTs
       PROVE  AuditInv'
  <2>1. Ended(c) /\ whole' = FALSE
    BY <1>1, <1>10, DoneEnds
  <2>2. PostInv'
    BY <1>1, <1>6, <1>10 DEF PostInv
  <2>3. Stale(saved.slack) = {m \in threads : m.ts # saved.slack}
    BY DEF Stale
  <2>4. /\ {m \in threads' : m.ts # saved.slack} \subseteq {m \in threads : m.ts # saved.slack} \cup {th}
        /\ replies' \ {saved.bump} \subseteq (replies \ {saved.bump}) \cup {0}
        /\ Cardinality({m \in threads : m.ts # saved.slack}) <= count.faults
        /\ replies' \subseteq 1..count'.posts
    BY <1>1, <1>2, <1>6, <1>10, <2>3
  <2>. QED BY <1>1, <1>2, <1>10, <2>1, <2>2, <2>4, FailKeeps DEF CountOK
<1>11. CASE AuditFail("post") /\ Done(c, FALSE) /\ UNCHANGED threads
  <2>1. count' \in CountOK /\ count'.faults = count.faults + 1 /\ count'.posts = count.posts
    BY <1>1, <1>11, FailIs DEF CountOK
  <2>. QED BY <1>10, <1>11, <2>1
<1>12. CASE /\ "lost" \in AuditFaults /\ count.faults < MaxAuditFaults
            /\ threads' = threads \cup {th}
            /\ count' = [count EXCEPT !.posts = @ + 1, !.faults = @ + 1]
            /\ Done(c, FALSE)
  <2>1. count' \in CountOK /\ count'.faults = count.faults + 1 /\ count'.posts = NextTs
    <3>1. count.faults + 1 \in 0..MaxAuditFaults /\ count.posts + 1 \in Nat
      BY <1>2, <1>12, AuditBounds
    <3>. QED BY <1>2, <1>12, <3>1 DEF CountOK, NextTs
  <2>. QED BY <1>10, <1>12, <2>1
<1>. QED BY <1>9, <1>11, <1>12 DEF Post, th, r1, r

(* Once it has drawn, its own record says which messages are the ticket's. *)
LEMMA HasDrawn ==
    ASSUME AuditInv, NEW c \in Callers, Drawn(c)
    PROVE  /\ Working(c) /\ job[c] \in Job /\ job[c].rec \in AuditRecord
           /\ IsFiniteSet(Stale(job[c].rec.slack)) /\ IsFiniteSet(replies \ OwnReplies(c))
           /\ Cardinality(Stale(job[c].rec.slack)) <= count.faults
           /\ Cardinality(replies \ OwnReplies(c)) <= count.faults
           /\ \A th \in threads : th.ts = job[c].rec.slack => th.shows = Shown(job[c].rec)
           /\ count \in CountOK /\ count.faults \in Nat /\ count.posts \in Nat
           /\ replies \subseteq 1..count.posts /\ None \notin replies
           /\ NextTs \in Nat /\ NextTs \notin replies
<1>1. AuditTypeOK /\ PostInv /\ DrawInv /\ StrayInv
  BY DEF AuditInv
<1>2. Working(c)
  BY DEF Working, Drawn
<1>3. job[c] \in Job /\ job[c].rec \in AuditRecord
  BY <1>1 DEF AuditTypeOK, Job
<1>4. IsFiniteSet(Stale(job[c].rec.slack)) /\ IsFiniteSet(replies \ OwnReplies(c))
  BY <1>1, FS_Subset DEF PostInv, Stale
<1>5. count \in CountOK /\ count.faults \in Nat /\ count.posts \in Nat /\ replies \subseteq 1..count.posts
  BY <1>1, CountsAre DEF AuditTypeOK, CountOK
<1>6. None \notin replies /\ NextTs \in Nat /\ NextTs \notin replies
  BY <1>5 DEF None, NextTs
<1>. QED BY <1>1, <1>2, <1>3, <1>4, <1>5, <1>6 DEF DrawInv, StrayInv

LEMMA RebumpIs ==
    ASSUME NEW r \in AuditRecord, NEW b \in Nat
    PROVE  LET r1 == [r EXCEPT !.bump = b]
           IN /\ r1 \in AuditRecord /\ r1.bump = b /\ r1.slack = r.slack /\ Shown(r1) = Shown(r)
              /\ Ids(r1) = Ids(r) /\ r1.dropped = r.dropped
<1>. DEFINE r1 == [r EXCEPT !.bump = b]
<1>1. /\ r1 \in AuditRecord /\ r1.bump = b /\ r1.slack = r.slack /\ r1.dropped = r.dropped
      /\ r1.major = r.major /\ r1.timeline = r.timeline
  BY DEF AuditRecord
<1>2. Shown(r1) = Shown(r)
  BY DEF AuditRecord, Shown
<1>. HIDE DEF r1
<1>3. Ids(r1) = Ids(r)
  BY <1>1 DEF Ids
<1>. QED BY <1>1, <1>2, <1>3 DEF r1

(* A step that leaves the messages and changes the replies: no reply more  *)
(* beside the ticket's own, or one where a call failed.                    *)
LEMMA RepliesKeep ==
    ASSUME AuditInv, NEW c \in Callers, Drawn(c), NEW l \in {"broadcast", "remove", "amend", "save"},
           NEW r \in AuditRecord, r.slack = job[c].rec.slack, Shown(r) = Shown(job[c].rec),
           Ids(r) = Ids(job[c].rec), r.dropped = job[c].rec.dropped,
           Moved(c, l, r), UNCHANGED <<saved, told, queue, whole, threads>>,
           count' \in CountOK, count'.posts \in {count.posts, NextTs}, replies' \subseteq 1..count'.posts,
           NEW own, own = {r.bump} \cup (IF l = "remove" THEN {count'.posts} ELSE {}),
           NEW x,
           \/ count'.faults = count.faults /\ replies' \ own \subseteq replies \ OwnReplies(c)
           \/ count'.faults = count.faults + 1 /\ replies' \ own \subseteq (replies \ OwnReplies(c)) \cup {x}
    PROVE  AuditInv'
<1>. DEFINE R == replies \ OwnReplies(c)
            R1 == replies' \ own
            S == Stale(r.slack)
<1>1. /\ Working(c) /\ IsFiniteSet(S) /\ IsFiniteSet(R) /\ Cardinality(S) <= count.faults
      /\ Cardinality(R) <= count.faults /\ count.faults \in Nat /\ count.posts \in Nat
      /\ \A th \in threads : th.ts = job[c].rec.slack => th.shows = Shown(job[c].rec)
  BY HasDrawn
<1>2. PostInv'
  <2>1. PostInv
    BY DEF AuditInv
  <2>2. 1..count.posts \subseteq 1..count'.posts
    BY <1>1 DEF NextTs
  <2>3. IsFiniteSet(replies')
    <3>1. IsFiniteSet(R \cup {x})
      BY <1>1, FS_AddElement
    <3>2. own \cap replies' \subseteq {r.bump} \cup {count'.posts}
      OBVIOUS
    <3>3. IsFiniteSet({r.bump} \cup {count'.posts})
      BY FS_Singleton, FS_Union
    <3>4. IsFiniteSet((R \cup {x}) \cup ({r.bump} \cup {count'.posts}))
      BY <3>1, <3>3, FS_Union
    <3>5. replies' \subseteq (R \cup {x}) \cup ({r.bump} \cup {count'.posts})
      BY <3>2
    <3>. QED BY <3>4, <3>5, FS_Subset
  <2>4. [ts : 1..count.posts, shows : AuditRecord] \subseteq [ts : 1..count'.posts, shows : AuditRecord]
    BY <2>2
  <2>. QED BY <2>1, <2>3, <2>4 DEF PostInv
<1>3. Cardinality(S) \in Nat /\ {th \in threads' : th.ts # r.slack} = S
  BY <1>1, FS_CardinalityType DEF Stale
<1>4. \/ count'.faults = count.faults /\ R1 \subseteq R
      \/ count'.faults = count.faults + 1 /\ R1 \subseteq R \cup {x}
  OBVIOUS
<1>5. \A th \in threads' : th.ts = r.slack => th.shows = Shown(r)
  BY <1>1
<1>6. Cardinality(R1) <= count'.faults
  <2>. HIDE DEF R, R1, S
  <2>1. CASE count'.faults = count.faults /\ R1 \subseteq R
    <3>1. Cardinality(R1) <= Cardinality(R) /\ Cardinality(R1) \in Nat /\ Cardinality(R) \in Nat
      BY <1>1, <2>1, Within
    <3>. QED BY <1>1, <2>1, <3>1
  <2>2. CASE count'.faults = count.faults + 1 /\ R1 \subseteq R \cup {x}
    <3>1. Cardinality(R1) <= Cardinality(R) + 1 /\ Cardinality(R1) \in Nat /\ Cardinality(R) \in Nat
      BY <1>1, <2>2, WithinOneMore
    <3>. QED BY <1>1, <2>2, <3>1
  <2>. QED BY <1>4, <2>1, <2>2
<1>7. Cardinality({th \in threads' : th.ts # r.slack}) <= count'.faults
  <2>1. count'.faults = count.faults \/ count'.faults = count.faults + 1
    BY <1>4
  <2>2. Cardinality(S) <= count'.faults
    <3>. HIDE DEF S
    <3>. QED BY <1>1, <1>3, <2>1
  <2>. QED BY <1>3, <2>2
<1>. QED BY <1>1, <1>2, <1>5, <1>6, <1>7, DrawnKeeps

(* The same, where the record is saved next.                               *)
LEMMA SavedNextKeeps ==
    ASSUME AuditInv, NEW c \in Callers, Drawn(c),
           NEW r \in AuditRecord, r.slack = job[c].rec.slack, Shown(r) = Shown(job[c].rec),
           Ids(r) = Ids(job[c].rec), r.dropped = job[c].rec.dropped,
           Moved(c, "save", r), UNCHANGED <<saved, told, queue, whole, threads>>,
           count' \in CountOK, count'.posts \in {count.posts, NextTs}, replies' \subseteq 1..count'.posts,
           NEW x,
           \/ count'.faults = count.faults /\ replies' \ {r.bump} \subseteq replies \ OwnReplies(c)
           \/ count'.faults = count.faults + 1 /\ replies' \ {r.bump} \subseteq (replies \ OwnReplies(c)) \cup {x}
    PROVE  AuditInv'
<1>1. {r.bump} = {r.bump} \cup (IF "save" = "remove" THEN {count'.posts} ELSE {})
  OBVIOUS
<1>2. "save" \in {"broadcast", "remove", "amend", "save"}
  OBVIOUS
<1>. QED BY <1>1, <1>2, RepliesKeep

LEMMA BroadcastKeeps ==
    ASSUME AuditInv, NEW c \in Callers, Broadcast(c)
    PROVE  AuditInv'
<1>. DEFINE r == job[c].rec
            r1 == [r EXCEPT !.bump = NextTs]
            R == replies \ {r.bump}
<1>1. /\ AuditTypeOK /\ job[c].pc = "broadcast" /\ Drawn(c) /\ OwnReplies(c) = {r.bump}
      /\ UNCHANGED <<saved, threads, queue, told, whole>>
  BY DEF AuditInv, Broadcast, Drawn, OwnReplies
<1>2. /\ r \in AuditRecord /\ count \in CountOK /\ count.faults \in Nat /\ count.posts \in Nat
      /\ replies \subseteq 1..count.posts /\ None \notin replies /\ NextTs \in Nat /\ NextTs \notin replies
  BY <1>1, HasDrawn
<1>3. /\ replies \subseteq 1..NextTs /\ replies \cup {NextTs} \subseteq 1..NextTs
  <2>1. count.posts \in Nat /\ replies \subseteq 1..count.posts
    BY <1>2
  <2>2. 1..count.posts \subseteq 1..(count.posts + 1) /\ count.posts + 1 \in 1..(count.posts + 1)
    BY <2>1
  <2>. QED BY <2>1, <2>2 DEF NextTs
<1>4. /\ r1 \in AuditRecord /\ r1.bump = NextTs /\ r1.slack = r.slack /\ Shown(r1) = Shown(r)
      /\ Ids(r1) = Ids(r) /\ r1.dropped = r.dropped
  BY <1>2, RebumpIs
<1>. HIDE DEF r, r1
<1>5. CASE replies' = replies \cup {NextTs} /\ count' = [count EXCEPT !.posts = @ + 1] /\ RemoveNext(c)
  <2>1. count' \in CountOK /\ count'.posts = NextTs /\ count'.faults = count.faults
    BY <1>2, <1>5 DEF CountOK, NextTs
  <2>2. CASE r.bump = None
    <3>1. GotoWith(c, "save", r1)
      BY <1>5, <2>2 DEF RemoveNext, r1, r
    <3>2. Moved(c, "save", r1)
      BY <1>1, <1>4, <3>1, GotoWithMoves DEF Step
    <3>3. replies' \ {r1.bump} \subseteq replies \ OwnReplies(c)
      BY <1>1, <1>2, <1>4, <1>5, <2>2
    <3>. QED BY <1>1, <1>3, <1>4, <1>5, <2>1, <3>2, <3>3, SavedNextKeeps DEF r
  <2>3. CASE r.bump # None
    <3>1. Moved(c, "remove", r)
      BY <1>1, <1>5, <2>3, GotoMoves DEF RemoveNext, r, Step
    <3>2. replies' \ {r.bump, NextTs} \subseteq replies \ OwnReplies(c)
      BY <1>1, <1>5
    <3>3. {r.bump, NextTs} = {r.bump} \cup (IF "remove" = "remove" THEN {count'.posts} ELSE {})
      BY <2>1
    <3>4. "remove" \in {"broadcast", "remove", "amend", "save"}
      OBVIOUS
    <3>5. /\ count'.posts \in {count.posts, NextTs} /\ replies' \subseteq 1..count'.posts
          /\ count'.faults = count.faults /\ UNCHANGED <<saved, told, queue, whole, threads>>
      BY <1>1, <1>3, <1>5, <2>1
    <3>6. Shown(r) = Shown(job[c].rec) /\ Ids(r) = Ids(job[c].rec) /\ r = job[c].rec
      BY DEF r
    <3>. QED BY <1>1, <1>2, <2>1, <3>1, <3>2, <3>3, <3>4, <3>5, <3>6, RepliesKeep
  <2>. QED BY <2>2, <2>3
<1>6. CASE AuditFail("broadcast") /\ AuditGoto(c, "save") /\ UNCHANGED replies
  <2>1. count' \in CountOK /\ count'.faults = count.faults + 1 /\ count'.posts = count.posts
    BY <1>1, <1>6, FailIs DEF CountOK
  <2>2. Moved(c, "save", r)
    BY <1>1, <1>6, GotoMoves DEF r, Step
  <2>3. replies' \ {r.bump} \subseteq (replies \ OwnReplies(c)) \cup {0} /\ replies' \subseteq 1..count'.posts
    BY <1>1, <1>2, <1>6, <2>1
  <2>. QED BY <1>1, <1>2, <2>1, <2>2, <2>3, SavedNextKeeps DEF r
<1>7. CASE /\ "lost" \in AuditFaults /\ count.faults < MaxAuditFaults
           /\ replies' = replies \cup {NextTs}
           /\ count' = [count EXCEPT !.posts = @ + 1, !.faults = @ + 1]
           /\ AuditGoto(c, "save")
  <2>1. count' \in CountOK /\ count'.faults = count.faults + 1 /\ count'.posts = NextTs
    <3>1. count.faults + 1 \in 0..MaxAuditFaults /\ count.posts + 1 \in Nat
      BY <1>2, <1>7, AuditBounds
    <3>. QED BY <1>2, <1>7, <3>1 DEF CountOK, NextTs
  <2>2. Moved(c, "save", r)
    BY <1>1, <1>7, GotoMoves DEF r, Step
  <2>3. replies' \ {r.bump} \subseteq (replies \ OwnReplies(c)) \cup {NextTs} /\ replies' \subseteq 1..count'.posts
    BY <1>1, <1>3, <1>7, <2>1
  <2>. QED BY <1>1, <1>2, <2>1, <2>2, <2>3, SavedNextKeeps DEF r
<1>. QED BY <1>5, <1>6, <1>7 DEF Broadcast

LEMMA RemoveKeeps ==
    ASSUME AuditInv, NEW c \in Callers, Remove(c)
    PROVE  AuditInv'
<1>. DEFINE r == job[c].rec
            r1 == [r EXCEPT !.bump = count.posts]
<1>1. /\ AuditTypeOK /\ job[c].pc = "remove" /\ Drawn(c) /\ OwnReplies(c) = {r.bump} \cup {count.posts}
      /\ UNCHANGED <<saved, threads, queue, told, whole>>
  BY DEF AuditInv, Remove, Drawn, OwnReplies
<1>2. /\ r \in AuditRecord /\ count \in CountOK /\ count.faults \in Nat /\ count.posts \in Nat
      /\ replies \subseteq 1..count.posts
  BY <1>1, HasDrawn
<1>3. /\ r1 \in AuditRecord /\ r1.bump = count.posts /\ r1.slack = r.slack /\ Shown(r1) = Shown(r)
      /\ Ids(r1) = Ids(r) /\ r1.dropped = r.dropped
  BY <1>2, RebumpIs
<1>4. GotoWith(c, "save", r1)
  BY DEF Remove
<1>. HIDE DEF r, r1
<1>5. Moved(c, "save", r1)
  BY <1>1, <1>3, <1>4, GotoWithMoves DEF Step
<1>6. CASE replies' = replies \ {job[c].rec.bump} /\ UNCHANGED count
  <2>1. replies' \ {r1.bump} \subseteq replies \ OwnReplies(c) /\ replies' \subseteq 1..count'.posts
    BY <1>1, <1>2, <1>3, <1>6 DEF r
  <2>. QED BY <1>1, <1>2, <1>3, <1>5, <1>6, <2>1, SavedNextKeeps DEF r
<1>7. CASE AuditFail("remove") /\ UNCHANGED replies
  <2>1. count' \in CountOK /\ count'.faults = count.faults + 1 /\ count'.posts = count.posts
    BY <1>1, <1>7, FailIs DEF CountOK
  <2>2. replies' \ {r1.bump} \subseteq (replies \ OwnReplies(c)) \cup {r.bump} /\ replies' \subseteq 1..count'.posts
    BY <1>1, <1>2, <1>3, <1>7, <2>1
  <2>. QED BY <1>1, <1>2, <1>3, <1>5, <2>1, <2>2, SavedNextKeeps DEF r
<1>. QED BY <1>6, <1>7 DEF Remove

LEMMA AmendKeeps ==
    ASSUME AuditInv, NEW c \in Callers, Amend(c)
    PROVE  AuditInv'
<1>. DEFINE r == job[c].rec
            r1 == [r EXCEPT !.bump = None]
<1>1. /\ AuditTypeOK /\ job[c].pc = "amend" /\ Drawn(c) /\ OwnReplies(c) = {r.bump}
      /\ UNCHANGED <<saved, threads, replies, queue, told, whole>>
  BY DEF AuditInv, Amend, Drawn, OwnReplies
<1>2. /\ r \in AuditRecord /\ count \in CountOK /\ count.faults \in Nat /\ count.posts \in Nat
      /\ replies \subseteq 1..count.posts
  BY <1>1, HasDrawn
<1>3. /\ r1 \in AuditRecord /\ r1.slack = r.slack /\ Shown(r1) = Shown(r)
      /\ Ids(r1) = Ids(r) /\ r1.dropped = r.dropped
  BY <1>2, RebumpIs DEF None
<1>. HIDE DEF r, r1
<1>4. ASSUME AuditGoto(c, "save"), count' \in CountOK, count'.posts = count.posts,
             count'.faults \in {count.faults, count.faults + 1}
      PROVE  AuditInv'
  <2>1. Moved(c, "save", r)
    BY <1>1, <1>4, GotoMoves DEF r, Step
  <2>2. /\ replies' \ {r.bump} \subseteq replies \ OwnReplies(c)
        /\ replies' \ {r.bump} \subseteq (replies \ OwnReplies(c)) \cup {0}
        /\ replies' \subseteq 1..count'.posts
    BY <1>1, <1>2, <1>4
  <2>. QED BY <1>1, <1>2, <1>4, <2>1, <2>2, SavedNextKeeps DEF r
<1>5. CASE r.bump \in replies /\ AuditGoto(c, "save") /\ UNCHANGED count
  BY <1>2, <1>4, <1>5
<1>6. CASE r.bump \notin replies /\ GotoWith(c, "save", r1) /\ UNCHANGED count
  <2>1. Moved(c, "save", r1)
    BY <1>1, <1>3, <1>6, GotoWithMoves DEF Step
  <2>2. replies' \ {r1.bump} \subseteq replies \ OwnReplies(c) /\ replies' \subseteq 1..count'.posts
    BY <1>1, <1>2, <1>6
  <2>. QED BY <1>1, <1>2, <1>3, <1>6, <2>1, <2>2, SavedNextKeeps DEF r
<1>7. CASE AuditFail("amend") /\ AuditGoto(c, "save")
  <2>1. count' \in CountOK /\ count'.faults = count.faults + 1 /\ count'.posts = count.posts
    BY <1>1, <1>7, FailIs DEF CountOK
  <2>. QED BY <1>4, <1>7, <2>1
<1>. QED BY <1>5, <1>6, <1>7 DEF Amend, r, r1

LEMMA SaveKeeps ==
    ASSUME AuditInv, NEW c \in Callers, Save(c)
    PROVE  AuditInv'
<1>. DEFINE r == job[c].rec
            S == Stale(r.slack)
            R == replies \ {r.bump}
<1>1. /\ AuditTypeOK /\ PostInv /\ ChainInv /\ KeepInv /\ job[c].pc = "save" /\ Drawn(c)
      /\ OwnReplies(c) = {r.bump} /\ UNCHANGED <<threads, replies>>
  BY DEF AuditInv, Save, Drawn, OwnReplies
<1>2. /\ Working(c) /\ r \in AuditRecord /\ job[c] \in Job /\ IsFiniteSet(S) /\ IsFiniteSet(R)
      /\ Cardinality(S) <= count.faults /\ Cardinality(R) <= count.faults
      /\ \A th \in threads : th.ts = r.slack => th.shows = Shown(r)
      /\ count \in CountOK /\ count.faults \in Nat /\ count.posts \in Nat
      /\ replies \subseteq 1..count.posts
  BY <1>1, HasDrawn
<1>3. ASSUME Done(c, whole'), whole' \in BOOLEAN, count' \in CountOK, count'.posts = count.posts,
             \/ /\ saved' = r /\ told' \subseteq told \cup Entries(c)
                /\ count'.faults \in {count.faults, count.faults + 1}
             \/ /\ saved' = saved /\ told' = told /\ whole' = FALSE
                /\ count'.faults = count.faults + 1
      PROVE  AuditInv'
  <2>1. Ended(c)
    BY <1>1, <1>3, DoneEnds
  <2>2. ChainInv' /\ \A d \in Callers : ~Working(d)' /\ ~Drawn(d)'
    BY <1>1, <1>2, <2>1, EndedKeepsChain
  <2>3. KeepInv'
    BY <1>1, <1>2, <1>3, <2>2, EndedKeepsEntries
  <2>4. AuditTypeOK'
    <3>1. queue' \in Seq(Callers)
      BY <1>1, <1>2, <2>1, OneAtWork DEF Ended, AuditTypeOK
    <3>2. told' \subseteq Nat /\ saved' \in AuditRecord
      BY <1>1, <1>2, <1>3 DEF AuditTypeOK, Entries, Job
    <3>. QED BY <1>1, <1>3, <2>1, <3>1, <3>2 DEF AuditTypeOK, Ended, CountOK
  <2>5. PostInv'
    BY <1>1, <1>3 DEF PostInv
  <2>6. DrawInv'
    <3>1. DrawnIsSaved'
      BY <1>1, <1>2, <1>3 DEF DrawnIsSaved
    <3>. QED BY <2>2, <3>1 DEF DrawInv, Working
  <2>7. StrayInv'
    <3>1. /\ Cardinality(Stale(saved'.slack)) <= count'.faults
          /\ Cardinality(replies \ {saved'.bump}) <= count'.faults
      <4>1. CASE saved' = r /\ count'.faults \in {count.faults, count.faults + 1}
        <5>1. Cardinality(S) \in Nat /\ Cardinality(R) \in Nat
          BY <1>2, FS_CardinalityType
        <5>2. Cardinality(S) <= count'.faults /\ Cardinality(R) <= count'.faults
          BY <1>2, <4>1, <5>1
        <5>. QED BY <4>1, <5>2
      <4>2. CASE saved' = saved /\ count'.faults = count.faults + 1
        <5>. DEFINE S1 == Stale(saved.slack)
                    R1 == replies \ {saved.bump}
        <5>1. PICK th : \A m \in threads : m.ts = r.slack => m = th
          BY <1>1 DEF PostInv
        <5>2. S1 \subseteq S \cup {th} /\ R1 \subseteq R \cup {r.bump}
          BY <5>1 DEF Stale
        <5>. HIDE DEF S1, R1, S, R
        <5>3. Cardinality(S1) <= Cardinality(S) + 1 /\ Cardinality(S1) \in Nat /\ Cardinality(S) \in Nat
          BY <1>2, <5>2, WithinOneMore
        <5>4. Cardinality(R1) <= Cardinality(R) + 1 /\ Cardinality(R1) \in Nat /\ Cardinality(R) \in Nat
          BY <1>2, <5>2, WithinOneMore
        <5>5. Cardinality(S1) <= count'.faults /\ Cardinality(R1) <= count'.faults
          BY <1>2, <4>2, <5>3, <5>4
        <5>. QED BY <4>2, <5>5 DEF S1, R1
      <4>. QED BY <1>3, <4>1, <4>2
    <3>2. Stale(saved.slack)' = Stale(saved'.slack)
      BY <1>1 DEF Stale
    <3>. QED BY <1>1, <2>2, <3>1, <3>2 DEF StrayInv
  <2>. QED BY <2>2, <2>3, <2>4, <2>5, <2>6, <2>7 DEF AuditInv
<1>4. CASE saved' = r /\ Done(c, TRUE) /\ told' = told \cup Entries(c) /\ UNCHANGED count
  <2>1. whole' = TRUE
    BY <1>4 DEF Done
  <2>. QED BY <1>2, <1>3, <1>4, <2>1
<1>5. ASSUME NEW f, AuditFail(f), Done(c, FALSE), told' = told, saved' = saved \/ saved' = r
      PROVE  AuditInv'
  <2>1. whole' = FALSE
    BY <1>5 DEF Done
  <2>2. count' \in CountOK /\ count'.faults = count.faults + 1 /\ count'.posts = count.posts
    BY <1>1, <1>5, FailIs DEF CountOK
  <2>. QED BY <1>3, <1>5, <2>1, <2>2
<1>. QED BY <1>4, <1>5 DEF Save, Entries

LEMMA AuditStep ==
    ASSUME AuditInv, [AuditNext]_auditVars
    PROVE  AuditInv'
<1>1. CASE UNCHANGED auditVars
  <2>1. UNCHANGED <<saved, threads, replies, queue, job, told, whole, count>>
    BY <1>1 DEF auditVars
  <2>2. AuditTypeOK /\ ChainInv /\ PostInv /\ DrawInv /\ KeepInv /\ StrayInv
    BY DEF AuditInv
  <2>3. AuditTypeOK' /\ ChainInv' /\ PostInv'
    BY <2>1, <2>2 DEF AuditTypeOK, ChainInv, PostInv, Working
  <2>4. DrawInv'
    BY <2>1, <2>2 DEF DrawInv, DrawnIsSaved, Drawn, There, Quiet
  <2>5. KeepInv'
    BY <2>1, <2>2 DEF KeepInv, EntriesKept, Entries, Working, Ids
  <2>6. StrayInv'
    BY <2>1, <2>2 DEF StrayInv, Stale, OwnReplies, Drawn
  <2>. QED BY <2>3, <2>4, <2>5, <2>6 DEF AuditInv
<1>2. CASE AuditNext
  BY <1>1, <1>2, DeleteKeeps, ReportKeeps, LoadsKeep, UpdateKeeps, PostKeeps, BroadcastKeeps,
     RemoveKeeps, AmendKeeps, SaveKeeps DEF AuditNext, Work, Rest
<1>. QED BY <1>1, <1>2

LEMMA AuditInductive == AuditSpec => []AuditInv
BY AuditBegins, AuditStep, PTL DEF AuditSpec

(* Every record, message and queued update stays of its type, whatever     *)
(* fails and whatever people delete (audit.ts, AuditRecord).               *)
THEOREM AuditTypeCorrect == AuditSpec => []AuditTypeOK
<1>1. AuditInv => AuditTypeOK
  BY DEF AuditInv
<1>. QED BY <1>1, AuditInductive, PTL

(* However many loops report at once, no entry a caller was told of is     *)
(* lost but those the record counts as dropped: a ticket's updates are one *)
(* behind the other, and an event adds one entry and cuts one at most      *)
(* (notifier.ts, enqueue; audit.ts, minor and major).                      *)
THEOREM NoEntryIsLost == AuditSpec => []EntriesKept
<1>1. AuditInv => EntriesKept
  BY DEF AuditInv, KeepInv
<1>. QED BY <1>1, AuditInductive, PTL

(* After an update that left nothing undone the ticket's message shows the *)
(* record that was saved (notifier.ts, apply).                             *)
THEOREM ChannelShowsRecord == AuditSpec => []DrawnIsSaved
<1>1. AuditInv => DrawnIsSaved
  BY DEF AuditInv, DrawInv
<1>. QED BY <1>1, AuditInductive, PTL

(* Between updates a ticket has one message and one broadcast, plus one    *)
(* for each call that failed, whatever people delete in the meantime       *)
(* (notifier.ts, resurface and apply).                                     *)
THEOREM OneThreadPerTicket == AuditSpec => []OnePerTicket
<1>1. AuditInv => OnePerTicket
  <2>. SUFFICES ASSUME AuditInv, Quiet
                PROVE  Cardinality(threads) <= 1 + count.faults /\ Cardinality(replies) <= 1 + count.faults
    BY DEF OnePerTicket
  <2>. DEFINE S == Stale(saved.slack)
              R == replies \ {saved.bump}
  <2>1. \A c \in Callers : ~Drawn(c)
    BY DEF Quiet, Drawn
  <2>2. /\ Cardinality(S) <= count.faults /\ Cardinality(R) <= count.faults
        /\ IsFiniteSet(S) /\ IsFiniteSet(R) /\ count.faults \in Nat
    BY <2>1, CountsAre, FS_Subset DEF AuditInv, StrayInv, PostInv, Stale
  <2>3. PICK th : \A m \in threads : m.ts = saved.slack => m = th
    BY DEF AuditInv, PostInv
  <2>4. threads \subseteq S \cup {th} /\ replies \subseteq R \cup {saved.bump}
    BY <2>3 DEF Stale
  <2>. HIDE DEF S, R
  <2>5. Cardinality(threads) <= Cardinality(S) + 1 /\ Cardinality(threads) \in Nat /\ Cardinality(S) \in Nat
    BY <2>2, <2>4, WithinOneMore
  <2>6. Cardinality(replies) <= Cardinality(R) + 1 /\ Cardinality(replies) \in Nat /\ Cardinality(R) \in Nat
    BY <2>2, <2>4, WithinOneMore
  <2>. QED BY <2>2, <2>5, <2>6
<1>. QED BY <1>1, AuditInductive, PTL
=============================================================================
