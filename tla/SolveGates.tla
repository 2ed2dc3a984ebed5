----------------------------- MODULE SolveGates -----------------------------
(***************************************************************************)
(* What may reach a pull request (src/src/solve/diff-gate.ts,              *)
(* dependency-bump.ts, verify.ts, and dropRefusedEdits of                  *)
(* orchestrator.ts): a round edits a checkout; its whole diff from the     *)
(* base is gated by path and, for a pom.xml, by content; a review round's  *)
(* refused edits are put back; what is left is verified by the base's own  *)
(* commands.  A pom.xml is read as text, which Maven reads otherwise: here *)
(* both readings are of one abstract file.                                 *)
(***************************************************************************)
EXTENDS Integers, FiniteSets

CONSTANTS
    Elements,   \* the elements of the pom.xml, each alone on its line
    Place,      \* "dependency" versions, "property" values, and what is "other"
    Values,     \* the texts an element may hold
    Versions,   \* those that are version numbers
    Mutable,    \* those that can change after review
    Bases,      \* the base branches a run may start from
    MaxEdits,   \* bound: edits of a run
    MaxRounds,  \* bound: rounds of a run
    MaxFaults   \* bound: commands that fail or time out

Properties == {e \in Elements : Place[e] = "property"}

(* An element's text: a value, or a use of a property, whole or with more  *)
(* text, with a comment beside it, or spelled through a comment, a         *)
(* character reference or a CDATA section.                                 *)
Use == {"whole", "mixed", "noted", "joined", "char", "cdata"}
Text == [form : {"value"}, of : Values] \cup [form : Use, of : Properties]

(* What the diff holds of one pom.xml: the elements' texts, those inside   *)
(* comments, the properties a comment names, and the rest: whether the     *)
(* file is there, reads as XML in an ordinary modification, holds $Id, and *)
(* has a parent or modules, and its other lines.                           *)
Rest == [there : BOOLEAN, plain : BOOLEAN, id : BOOLEAN, outside : BOOLEAN, lines : Nat]
Pom == [text : [Elements -> Text], gone : SUBSET Elements, said : SUBSET Properties, rest : Rest]

(* The other files, by what the rules tell apart, and their contents.      *)
Paths == {"src", "test", "manifest", "lock"}
Forbidden == {"lock"}   \* a lock file, CI, a secret, the harness's own
Verification == {"manifest"}
Tests == {"test"}
Content == {"absent", "old", "new", "bytes"}
Tree == [pom : Pom, files : [Paths -> Content]]

ASSUME ElementsAssumption ==
    /\ IsFiniteSet(Elements)
    /\ Place \in [Elements -> {"dependency", "property", "other"}]
ASSUME ValuesAssumption == Mutable \subseteq Versions /\ Versions \subseteq Values
ASSUME BasesAssumption == Bases \subseteq [tree : Tree, others : BOOLEAN, bumps : BOOLEAN]
ASSUME BoundAssumption == {MaxEdits, MaxRounds, MaxFaults} \subseteq Nat

VARIABLES
    base,       \* the base's tree, another pom.xml in it, and DEPENDENCY_BUMPS
    head,       \* the pull request's last commit
    tree,       \* the checkout
    pc,         \* where the round is
    verdict,    \* what the round came to
    dropped,    \* the paths put back in this round, and the checkout before
    count       \* edits, rounds and faults so far, and the round's repair

vars == <<base, head, tree, pc, verdict, dropped, count>>

TypeOK ==
    /\ base \in Bases
    /\ head \in Tree /\ tree \in Tree
    /\ pc \in {"edit", "repair", "drop", "verify", "probe", "done"}
    /\ verdict \in {"none", "refused", "failed", "passed", "guarded", "vacuous"}
    /\ dropped \in [paths : SUBSET (Paths \cup {"pom"}), before : Tree]
    /\ count \in [edits : 0..MaxEdits, rounds : 0..MaxRounds, faults : 0..MaxFaults, repairs : 0..1]

Init ==
    /\ base \in Bases
    /\ head = base.tree /\ tree = base.tree
    /\ pc = "edit" /\ verdict = "none"
    /\ dropped = [paths |-> {}, before |-> base.tree]
    /\ count = [edits |-> 0, rounds |-> 0, faults |-> 0, repairs |-> 0]

---------------------------------------------------------------------------
(* dependency-bump.ts.  With its comments cut out, a line within one is    *)
(* blank, and a use beside or through one is whole.                        *)
Blank == [form |-> "blank", of |-> "blank"]
Bare(pom, e) ==
    IF e \in pom.gone THEN Blank
    ELSE IF pom.text[e].form \in {"noted", "joined"} THEN [pom.text[e] EXCEPT !.form = "whole"]
    ELSE pom.text[e]

Changed(was, now) == {e \in Elements : Bare(was, e) # Bare(now, e)}

(* ONE_ELEMENT_LINE, VERSION and MUTABLE.                                  *)
MovesVersion(was, now, e) ==
    /\ Bare(was, e).form = "value" /\ Bare(now, e).form = "value"
    /\ was.text[e].of \in Versions /\ now.text[e].of \in Versions \ Mutable

(* Uses of property p that a text search finds in the file as it is, in    *)
(* comments too, and with the comments cut out.                            *)
RawUses(pom, p) == {e \in Elements : pom.text[e].form \in {"whole", "mixed", "noted"} /\ pom.text[e].of = p}
BareUses(pom, p) == {e \in Elements : Bare(pom, e).form \in {"whole", "mixed"} /\ Bare(pom, e).of = p}

StrayRawOnly(pom, p) ==
    \/ p \in pom.said
    \/ \E e \in RawUses(pom, p) : e \in pom.gone \/ Place[e] # "dependency" \/ pom.text[e].form # "whole"
Stray(pom, p) ==
    \/ p \in pom.said
    \/ \E e \in RawUses(pom, p) : e \in pom.gone \/ Place[e] # "dependency" \/ pom.text[e].form # "whole"
    \/ \E e \in BareUses(pom, p) : Place[e] # "dependency" \/ Bare(pom, e).form # "whole"

(* A property may move if every use of it is the whole of a dependency's   *)
(* version, and no use of it can be out of sight.                          *)
MayMove(pom, p, others) ==
    /\ ~others /\ ~pom.rest.outside
    /\ \A e \in Elements : pom.text[e].form # "char"
    /\ \A e \in Elements \ pom.gone : pom.text[e].form # "cdata"
    /\ RawUses(pom, p) # {} \/ p \in pom.said
    /\ ~Stray(pom, p)

(* judgePomChange, of what textsFromFullDiff can read.                     *)
Judge(was, now, others) ==
    /\ was.rest.there /\ now.rest.there /\ was.rest.plain /\ now.rest.plain
    /\ ~was.rest.id /\ ~now.rest.id
    /\ was # now
    /\ was.rest.lines = now.rest.lines /\ was.rest.outside = now.rest.outside
    /\ \A e \in Changed(was, now) :
         /\ MovesVersion(was, now, e)
         /\ Place[e] = "dependency" \/ (Place[e] = "property" /\ MayMove(was, e, others))

---------------------------------------------------------------------------
(* diff-gate.ts.                                                           *)
ChangedPaths(from, to) ==
    {p \in Paths : from.files[p] # to.files[p]} \cup {p \in {"pom"} : from.pom # to.pom}
Binary(p, to) == p \in Paths /\ to.files[p] = "bytes"

(* judgeBumps: a change that could not be read is no exception.            *)
Excused(to, read) == read /\ base.bumps /\ Judge(base.tree.pom, to.pom, base.others)
Refused(to, read) ==
    {p \in ChangedPaths(base.tree, to) :
        \/ p \in Forbidden \cup Verification \/ Binary(p, to)
        \/ p = "pom" /\ ~Excused(to, read)}
GateOpen(to, read) == ChangedPaths(base.tree, to) # {} /\ Refused(to, read) = {}

---------------------------------------------------------------------------
(* plannedPathRefusals: a solve whose plan names a path no diff may change *)
(* ends before it edits; a pom.xml that could be excused waits for it.     *)
Hopeless(planned) ==
    planned \cap (Forbidden \cup Verification \cup {p \in {"pom"} : ~base.bumps})
RefusePlan ==
    /\ pc = "edit" /\ count.rounds = 0 /\ tree = head
    /\ \E planned \in SUBSET (Paths \cup {"pom"}) : Hopeless(planned) # {}
    /\ pc' = "done" /\ verdict' = "refused"
    /\ UNCHANGED <<base, head, tree, dropped, count>>

(* A pass of the round edits the checkout.                                 *)
EditPom ==
    \/ \E e \in Elements \ tree.pom.gone, t \in Text : tree' = [tree EXCEPT !.pom.text[e] = t]
    \/ \E e \in Elements :
         /\ tree.pom.text[e].form \notin {"noted", "joined"}   \* comments do not nest
         /\ tree' = [tree EXCEPT !.pom.gone = (@ \cup {e}) \ (@ \cap {e})]
    \/ \E p \in Properties : tree' = [tree EXCEPT !.pom.said = (@ \cup {p}) \ (@ \cap {p})]
    \/ tree' = [tree EXCEPT !.pom.rest.lines = @ + 1]
    \/ \E f \in {"id", "plain", "outside", "there"} : tree' = [tree EXCEPT !.pom.rest[f] = ~@]
EditFile ==
    \E p \in Paths, c \in Content : c # tree.files[p] /\ tree' = [tree EXCEPT !.files[p] = c]
Edit ==
    /\ pc \in {"edit", "repair"} /\ count.edits < MaxEdits
    /\ (tree.pom.rest.there /\ EditPom) \/ EditFile
    /\ count' = [count EXCEPT !.edits = @ + 1]
    /\ UNCHANGED <<base, head, pc, verdict, dropped>>

Say(v) == verdict' = v /\ pc' = "done"
Fault == count.faults < MaxFaults /\ count' = [count EXCEPT !.faults = @ + 1]

(* readNumstat and gateDiff.  A review round may drop what is refused; a   *)
(* repair may not, and a refusal that cannot be read is whole.             *)
Gate ==
    /\ pc \in {"edit", "repair"}
    /\ \E read \in BOOLEAN :
         /\ IF read THEN UNCHANGED count ELSE Fault
         /\ IF GateOpen(tree, read) THEN pc' = "verify" /\ UNCHANGED verdict
            ELSE \/ count.rounds > 0 /\ pc = "edit" /\ pc' = "drop" /\ UNCHANGED verdict
                 \/ (count.rounds = 0 \/ pc = "repair" \/ ~read) /\ Say("refused")
    /\ UNCHANGED <<base, head, tree, dropped>>

(* dropRefusedEdits: each refused path back to the branch's last commit,   *)
(* if the round changed it and the commit has it; then the gate again.     *)
Has(t, p) == IF p = "pom" THEN t.pom.rest.there ELSE t.files[p] # "absent"
RestoredAll(paths) == head
Restored(paths) ==
    [pom |-> IF "pom" \in paths THEN head.pom ELSE tree.pom,
     files |-> [p \in Paths |-> IF p \in paths THEN head.files[p] ELSE tree.files[p]]]
Drop ==
    /\ pc = "drop"
    /\ \E read \in BOOLEAN :
         LET paths == Refused(tree, read)
         IN \/ /\ paths # {} /\ paths \subseteq ChangedPaths(head, tree) /\ \A p \in paths : Has(head, p)
               /\ tree' = Restored(paths)
               /\ dropped' = [paths |-> paths, before |-> tree]
               /\ IF GateOpen(Restored(paths), read) THEN pc' = "verify" /\ UNCHANGED verdict
                  ELSE Say("refused")
               /\ IF read THEN UNCHANGED count ELSE Fault
            \/ /\ ~(paths # {} /\ paths \subseteq ChangedPaths(head, tree) /\ \A p \in paths : Has(head, p))
               /\ Say("refused") /\ UNCHANGED <<tree, dropped>>
               /\ IF read THEN UNCHANGED count ELSE Fault
            \/ Fault /\ Say("refused") /\ UNCHANGED <<tree, dropped>>
    /\ UNCHANGED <<base, head>>

(* unverifiableChanges: the same judge, asked again.                       *)
Tainted(to) ==
    {p \in ChangedPaths(base.tree, to) : p \in Verification \/ (p = "pom" /\ ~Excused(to, TRUE))}

(* discoverPlan, from the base: one toolchain, and a test to run.          *)
Plan == IF Has(base.tree, "manifest") = Has(base.tree, "pom") THEN "none"
        ELSE IF Has(base.tree, "pom") THEN "maven" ELSE "node"

(* verify: what could not be run says nothing of the code; a step that     *)
(* failed, or hung, does.                                                  *)
Verify ==
    /\ pc = "verify"
    /\ \/ Fault /\ Say("refused")
       \/ Tainted(tree) # {} /\ Say("refused") /\ UNCHANGED count
       \/ Tainted(tree) = {} /\ Plan = "none" /\ Say("refused") /\ UNCHANGED count
       \/ Tainted(tree) = {} /\ Plan # "none" /\ Say("failed") /\ UNCHANGED count
       \/ Tainted(tree) = {} /\ Plan # "none" /\ UNCHANGED count
          /\ verdict' = "passed" /\ pc' = IF count.rounds = 0 THEN "probe" ELSE "done"
    /\ UNCHANGED <<base, head, tree, dropped>>

(* checkFailFirst: a solve's tests on the base, without its fix.  A red or *)
(* unfinished experiment is no finding.                                    *)
Experiment ==
    LET changed == ChangedPaths(base.tree, tree)
    IN changed \cap Tests # {} /\ changed \ Tests # {} /\ \A p \in changed \cap Tests : Has(tree, p)
Probe ==
    /\ pc = "probe" /\ pc' = "done"
    /\ \/ Experiment /\ verdict' \in {"guarded", "vacuous"}
       \/ UNCHANGED verdict
    /\ UNCHANGED <<base, head, tree, dropped, count>>

(* A change that failed its checks is repaired once, and gated anew.       *)
Repair ==
    /\ pc = "done" /\ verdict = "failed" /\ count.repairs = 0
    /\ pc' = "repair" /\ verdict' = "none"
    /\ dropped' = [paths |-> {}, before |-> tree]
    /\ count' = [count EXCEPT !.repairs = 1]
    /\ UNCHANGED <<base, head, tree>>

Passed == verdict \in {"passed", "guarded", "vacuous"}

(* A pass that dies, gives up or contradicts itself ends its round, and    *)
(* its repair; what it left in the checkout is evidence, read by nobody.   *)
GiveUp ==
    /\ pc \in {"edit", "repair"}
    /\ Say(IF pc = "edit" THEN "refused" ELSE "failed")
    /\ tree' = head /\ UNCHANGED <<base, head, dropped, count>>

(* escapeVerdict, and a repair that nothing armed: what passed is not used. *)
Withhold ==
    /\ pc = "done" /\ Passed
    /\ verdict' = IF count.repairs = 1 THEN "failed" ELSE "refused"
    /\ UNCHANGED <<base, head, tree, pc, dropped, count>>

(* solveWithRetry: the machine stopped a solve, which starts over.         *)
Retry ==
    /\ pc = "done" /\ verdict = "refused" /\ count.rounds = 0
    /\ pc' = "edit" /\ verdict' = "none" /\ Fault
    /\ UNCHANGED <<base, head, tree, dropped>>

(* What passed is committed; a review round that did not goes with its     *)
(* checkout, and a solve that did not has no pull request to review.       *)
Settle ==
    /\ pc = "done" /\ count.rounds < MaxRounds /\ (Passed \/ count.rounds > 0)
    /\ head' = IF Passed THEN tree ELSE head
    /\ tree' = head'
    /\ pc' = "edit" /\ verdict' = "none" /\ dropped' = [paths |-> {}, before |-> head']
    /\ count' = [count EXCEPT !.rounds = @ + 1, !.repairs = 0]
    /\ UNCHANGED base

Next == RefusePlan \/ Edit \/ Gate \/ Drop \/ Verify \/ Probe \/ Repair
        \/ GiveUp \/ Withhold \/ Retry \/ Settle

Spec == Init /\ [][Next]_vars

---------------------------------------------------------------------------
(* A pom.xml as Maven reads it, of its own rules: comments are no text, a  *)
(* character reference and a CDATA section are, and a property's use is    *)
(* its value, with whatever text stood beside the use along the way; a use *)
(* that leads back to itself is left as it stands.                         *)
Reading(pom, e, via) ==
    LET t == pom.text[e]
    IN IF e \in pom.gone THEN [beside |-> 0, of |-> "missing"]
       ELSE IF t.form = "value" \/ t.of \in pom.gone THEN [beside |-> 0, of |-> t.of]
       ELSE IF t.form = "mixed" THEN [via[t.of] EXCEPT !.beside = @ + 1]
       ELSE via[t.of]
Value(pom) ==
    LET v[n \in 0..Cardinality(Elements)] ==
          [e \in Elements |-> IF n = 0 THEN [beside |-> 0, of |-> e] ELSE Reading(pom, e, v[n - 1])]
    IN v[Cardinality(Elements)]

(* The build the base describes, with other released versions of its       *)
(* dependencies and nothing else.                                          *)
Release == [beside : {0}, of : Versions \ Mutable]
SameBuild(was, now) ==
    LET old == Value(was)
        new == Value(now)
    IN /\ now.gone = was.gone /\ now.rest = was.rest
       /\ \A e \in {x \in Elements : old[x] # new[x]} :
            /\ Place[e] # "other" /\ new[e] \in Release
            /\ Place[e] = "property" =>
                 /\ ~base.others /\ ~was.rest.outside
                 /\ \E d \in Elements : Place[d] = "dependency" /\ new[d] = new[e]

(* What a run commits builds and tests as the base does: no manifest, lock *)
(* file, build file or binary of its own, and a pom.xml that Maven reads   *)
(* as the base's with other released versions of dependencies, however a   *)
(* property's use is spelled.  In every round, not only the first.         *)
PublishedIsSafe ==
    \A t \in {head} \cup {x \in {tree} : Passed} :
        /\ \A p \in Paths :
             t.files[p] # base.tree.files[p] =>
                 p \notin Forbidden \cup Verification /\ t.files[p] # "bytes"
        /\ t.pom # base.tree.pom => base.bumps /\ SameBuild(base.tree.pom, t.pom)

(* Putting refused edits back is exact: nothing the gate refuses is left,  *)
(* and every other edit of the round is as it was.                         *)
DropIsExact ==
    dropped.paths # {} =>
        /\ Refused(tree, TRUE) = {}
        /\ \A p \in Paths \ dropped.paths : tree.files[p] = dropped.before.files[p]
        /\ "pom" \notin dropped.paths => tree.pom = dropped.before.pom
=============================================================================
