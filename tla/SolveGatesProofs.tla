------------------------- MODULE SolveGatesProofs -------------------------
(***************************************************************************)
(* Theorems about SolveReports, and the SolveGates it runs, for every      *)
(* pom.xml, every base, every number of edits and rounds and every choice  *)
(* of faults.                                                              *)
(*                                                                         *)
(* What is published is safe by two arguments that do not know of each     *)
(* other: the gate was passed by whatever is committed or about to be      *)
(* (GateInv), and a pom.xml the judge excuses is read by Maven as the      *)
(* base's with other released versions (JudgedIsSameBuild, an induction    *)
(* on how far a use leads, of which no step needs the round).              *)
(***************************************************************************)
EXTENDS SolveReports, FiniteSetTheorems, WellFoundedInduction, TLAPS

Depth == Cardinality(Elements)

LEMMA DepthIsNat == Depth \in Nat
BY ElementsAssumption, FS_CardinalityType DEF Depth

---------------------------------------------------------------------------
(* How Maven reads a pom.xml, one use deeper at a time.                    *)
Level(pom, n, v) ==
    [e \in Elements |-> IF n = 0 THEN [beside |-> 0, of |-> e] ELSE Reading(pom, e, v[n - 1])]

(* The levels a reading is made of exist: the least that had none would be *)
(* made of the one below it.                                               *)
LEMMA LevelsExist ==
    ASSUME NEW pom
    PROVE  \A k \in Nat : \E v : v = [n \in 0..k |-> Level(pom, n, v)]
<1>. DEFINE HasLevels(k) == \E v : v = [n \in 0..k |-> Level(pom, n, v)]
            bad == {k \in Nat : ~HasLevels(k)}
            below == OpToRel(<, Nat)
<1>. SUFFICES ASSUME bad # {} PROVE FALSE
  OBVIOUS
<1>1. PICK k \in bad : \A j \in bad : ~(<<j, k>> \in below)
  <2>1. IsWellFoundedOn(below, Nat) /\ bad \subseteq Nat
    BY NatLessThanWellFounded
  <2>. HIDE DEF bad, below
  <2>. QED BY <2>1, WFMin
<1>2. k \in Nat /\ ~HasLevels(k) /\ \A j \in Nat : j < k => HasLevels(j)
  BY <1>1 DEF OpToRel
<1>3. CASE k = 0
  <2>. DEFINE f == [n \in 0..0 |-> Level(pom, n, <<>>)]
  <2>1. \A n \in 0..0 : Level(pom, n, <<>>) = Level(pom, n, f)
    BY DEF Level
  <2>2. f = [n \in 0..0 |-> Level(pom, n, f)]
    BY <2>1, Zenon
  <2>. QED BY <1>2, <1>3, <2>2
<1>4. CASE k # 0
  <2>1. k - 1 \in Nat /\ k - 1 < k
    BY <1>2, <1>4
  <2>2. PICK v : v = [n \in 0..(k - 1) |-> Level(pom, n, v)]
    BY <1>2, <2>1
  <2>. DEFINE f == [n \in 0..k |-> Level(pom, n, v)]
  <2>3. ASSUME NEW n \in 0..k PROVE Level(pom, n, v) = Level(pom, n, f)
    <3>1. CASE n = 0
      BY <3>1 DEF Level
    <3>2. CASE n # 0
      <4>1. n - 1 \in 0..(k - 1) /\ n - 1 \in 0..k
        BY <1>2, <3>2
      <4>2. v[n - 1] = f[n - 1]
        <5>. DEFINE m == n - 1
        <5>1. f[m] = Level(pom, m, v)
          BY <4>1
        <5>2. v[m] = Level(pom, m, v)
          <6>. HIDE DEF m, f
          <6>. QED BY <2>2, <4>1, Zenon DEF m
        <5>. QED BY <5>1, <5>2
      <4>. HIDE DEF f
      <4>. QED BY <3>2, <4>2 DEF Level
    <3>. QED BY <3>1, <3>2
  <2>4. f = [n \in 0..k |-> Level(pom, n, f)]
    BY <2>3, Zenon
  <2>. QED BY <1>2, <2>4
<1>. QED BY <1>3, <1>4

(* So a pom.xml's value is the last of its levels, each read by the last.  *)
LEMMA ValueIsRead ==
    ASSUME NEW pom
    PROVE  \E v : /\ Value(pom) = v[Depth]
                  /\ \A n \in 0..Depth : v[n] = Level(pom, n, v)
<1>. DEFINE IsRead(v) == v = [n \in 0..Depth |-> Level(pom, n, v)]
            w == CHOOSE v : IsRead(v)
<1>1. \E v : IsRead(v)
  BY LevelsExist, DepthIsNat
<1>2. IsRead(w)
  <2>. HIDE DEF IsRead
  <2>. QED BY <1>1
<1>3. Value(pom) = w[Depth]
  BY DEF Value, Level, Depth
<1>4. \A n \in 0..Depth : w[n] = Level(pom, n, w)
  <2>. HIDE DEF w
  <2>. QED BY <1>2
<1>. QED BY <1>3, <1>4

---------------------------------------------------------------------------
(* The texts of a pom.xml, with its comments cut out.                      *)
LEMMA BareForms ==
    ASSUME NEW pom \in Pom, NEW e \in Elements
    PROVE  /\ e \in pom.gone <=> Bare(pom, e).form = "blank"
           /\ e \notin pom.gone =>
                /\ pom.text[e] \in Text
                /\ Bare(pom, e).of = pom.text[e].of
                /\ Bare(pom, e).form = "value" <=> pom.text[e].form = "value"
                /\ Bare(pom, e).form = "mixed" <=> pom.text[e].form = "mixed"
<1>1. pom.text[e] \in Text /\ pom.text[e].form \in Use \cup {"value"}
  BY DEF Pom, Text
<1>. QED BY <1>1 DEF Bare, Blank, Use, Text

(* An element that moves, and one whose version is all a moving property.  *)
Moves(was, now, e) == e \in Changed(was, now)
MovesAlong(was, now, e) ==
    /\ Place[e] = "dependency" /\ e \notin now.gone
    /\ now.text[e].form \in Use \ {"mixed"} /\ now.text[e].of \in Changed(was, now)

(* A change the judge excuses touches texts alone, each a version's move.  *)
LEMMA JudgedTexts ==
    ASSUME NEW was \in Pom, NEW now \in Pom, NEW others \in BOOLEAN, Judge(was, now, others)
    PROVE  /\ now.gone = was.gone /\ now.rest = was.rest
           /\ \A e \in Changed(was, now) :
                /\ e \in Elements /\ e \notin now.gone
                /\ now.text[e].form = "value" /\ now.text[e].of \in Versions \ Mutable
                /\ Place[e] # "other"
                /\ Place[e] = "property" => MayMove(was, e, others)
<1>1. \A e \in Elements : e \in now.gone <=> e \in was.gone
  BY BareForms DEF Judge, Changed, MovesVersion
<1>2. now.gone = was.gone
  BY <1>1 DEF Pom
<1>3. now.rest = was.rest
  BY DEF Judge, Pom, Rest
<1>4. ASSUME NEW e \in Changed(was, now)
      PROVE  /\ e \in Elements /\ e \notin now.gone
             /\ now.text[e].form = "value" /\ now.text[e].of \in Versions \ Mutable
             /\ Place[e] # "other"
             /\ Place[e] = "property" => MayMove(was, e, others)
  <2>1. e \in Elements
    BY DEF Changed
  <2>2. MovesVersion(was, now, e)
    BY DEF Judge
  <2>3. e \notin now.gone /\ now.text[e].form = "value"
    BY <2>1, <2>2, BareForms DEF MovesVersion
  <2>. QED BY <2>1, <2>2, <2>3 DEF Judge, MovesVersion
<1>. QED BY <1>2, <1>3, <1>4

(* A use of a property that may move is the whole of a dependency's        *)
(* version, whichever way it is spelled.                                   *)
LEMMA UseOfMoving ==
    ASSUME NEW was \in Pom, NEW others, NEW p, MayMove(was, p, others),
           NEW e \in Elements, e \notin was.gone,
           was.text[e].form # "value", was.text[e].of = p
    PROVE  Place[e] = "dependency" /\ was.text[e].form \in {"whole", "joined"}
<1>1. was.text[e].form \in Use /\ was.text[e].form \notin {"char", "cdata"}
  BY DEF MayMove, Pom, Text
<1>2. CASE was.text[e].form \in {"whole", "mixed", "noted"}
  <2>1. e \in RawUses(was, p)
    BY <1>2 DEF RawUses
  <2>. QED BY <1>2, <2>1 DEF MayMove, Stray
<1>3. CASE was.text[e].form = "joined"
  <2>1. Bare(was, e).form = "whole" /\ Bare(was, e).of = p
    BY <1>3 DEF Bare, Pom, Text
  <2>2. e \in BareUses(was, p)
    BY <2>1 DEF BareUses
  <2>. QED BY <1>3, <2>2 DEF MayMove, Stray
<1>. QED BY <1>1, <1>2, <1>3 DEF Use

(* What an unmoved element's two texts have in common.                     *)
LEMMA UnmovedTexts ==
    ASSUME NEW was \in Pom, NEW now \in Pom, now.gone = was.gone,
           NEW e \in Elements, e \notin Changed(was, now), e \notin was.gone
    PROVE  /\ now.text[e].of = was.text[e].of
           /\ now.text[e].form = "value" <=> was.text[e].form = "value"
           /\ now.text[e].form = "mixed" <=> was.text[e].form = "mixed"
           /\ was.text[e].form # "value" => was.text[e].of \in Properties
<1>1. Bare(was, e) = Bare(now, e)
  BY DEF Changed
<1>2. was.text[e].form # "value" => was.text[e].of \in Properties
  BY DEF Pom, Text
<1>. QED BY <1>1, <1>2, BareForms

(* However deep a use is followed, what the two readings differ in has     *)
(* moved, or is a dependency whose whole version is a property that has:   *)
(* the least depth at which something else differed would differ one use   *)
(* nearer too.                                                             *)
LEMMA ReadingsAgree ==
    ASSUME NEW was \in Pom, NEW now \in Pom, NEW others \in BOOLEAN, Judge(was, now, others),
           NEW v, \A n \in 0..Depth : v[n] = Level(was, n, v),
           NEW w, \A n \in 0..Depth : w[n] = Level(now, n, w)
    PROVE  \A n \in 0..Depth, e \in Elements :
               v[n][e] = w[n][e] \/ e \in Changed(was, now) \/ MovesAlong(was, now, e)
<1>. DEFINE Agrees(n, e) == v[n][e] = w[n][e] \/ e \in Changed(was, now) \/ MovesAlong(was, now, e)
            bad == {n \in 0..Depth : \E e \in Elements : ~Agrees(n, e)}
            below == OpToRel(<, Nat)
<1>. SUFFICES ASSUME bad # {} PROVE FALSE
  OBVIOUS
<1>1. PICK n \in bad : \A j \in bad : ~(<<j, n>> \in below)
  <2>1. IsWellFoundedOn(below, Nat)
    BY NatLessThanWellFounded
  <2>2. bad \subseteq Nat
    <3>. HIDE DEF Agrees
    <3>. QED BY DepthIsNat
  <2>. HIDE DEF bad, below
  <2>. QED BY <2>1, <2>2, WFMin
<1>2. n \in 0..Depth /\ \A j \in 0..Depth : j < n => \A e \in Elements : Agrees(j, e)
  <2>. HIDE DEF Agrees
  <2>1. n \in 0..Depth /\ \A j \in bad : j \in Nat
    BY DepthIsNat
  <2>2. \A j \in bad : ~(j < n)
    BY <1>1, <2>1, DepthIsNat DEF OpToRel
  <2>. QED BY <2>1, <2>2, Zenon
<1>3. PICK e \in Elements : ~Agrees(n, e)
  BY <1>1
<1>4. v[n] = Level(was, n, v) /\ w[n] = Level(now, n, w)
  BY <1>2
<1>5. v[n][e] # w[n][e] /\ e \notin Changed(was, now) /\ ~MovesAlong(was, now, e)
  BY <1>3
<1>6. n # 0
  BY <1>4, <1>5 DEF Level
<1>7. v[n][e] = Reading(was, e, v[n - 1]) /\ w[n][e] = Reading(now, e, w[n - 1])
  BY <1>4, <1>6 DEF Level
<1>8. now.gone = was.gone
  BY JudgedTexts
<1>9. e \notin was.gone
  BY <1>5, <1>7, <1>8 DEF Reading
<1>10. /\ now.text[e].of = was.text[e].of
       /\ now.text[e].form = "value" <=> was.text[e].form = "value"
       /\ now.text[e].form = "mixed" <=> was.text[e].form = "mixed"
       /\ was.text[e].form # "value" => was.text[e].of \in Properties
  BY <1>5, <1>8, <1>9, UnmovedTexts
<1>. DEFINE p == was.text[e].of
<1>11. /\ was.text[e].form # "value" /\ p \notin was.gone
       /\ v[n - 1][p] # w[n - 1][p]
  BY <1>5, <1>7, <1>8, <1>9, <1>10 DEF Reading
<1>12. p \in Elements /\ Place[p] = "property"
  BY <1>10, <1>11 DEF Properties
<1>13. p \in Changed(was, now)
  <2>1. n - 1 \in 0..Depth /\ n - 1 < n
    BY <1>2, <1>6, DepthIsNat
  <2>2. Agrees(n - 1, p)
    BY <1>2, <1>12, <2>1
  <2>. QED BY <1>11, <1>12, <2>2 DEF MovesAlong
<1>14. MayMove(was, p, others)
  BY <1>12, <1>13, JudgedTexts
<1>15. Place[e] = "dependency" /\ was.text[e].form \in {"whole", "joined"}
  BY <1>9, <1>11, <1>14, UseOfMoving
<1>16. now.text[e].form \in Use
  BY <1>8, <1>9, <1>10, <1>11 DEF Pom, Text
<1>17. MovesAlong(was, now, e)
  BY <1>8, <1>9, <1>10, <1>13, <1>15, <1>16 DEF MovesAlong
<1>. QED BY <1>5, <1>17

(* Two elements in different places are two: a use's value is in reach.    *)
LEMMA TwoDeep ==
    ASSUME NEW d \in Elements, NEW p \in Elements, d # p
    PROVE  Depth > 1
<1>1. Cardinality({d, p}) = 2 /\ IsFiniteSet({d, p})
  <2>1. IsFiniteSet({p}) /\ Cardinality({p}) = 1
    BY FS_Singleton
  <2>2. {d, p} = {p} \cup {d}
    OBVIOUS
  <2>. QED BY <2>1, <2>2, FS_AddElement
<1>2. Cardinality({d, p}) <= Depth
  BY ElementsAssumption, FS_Subset DEF Depth
<1>. QED BY <1>1, <1>2, DepthIsNat

LEMMA OneDeep ==
    ASSUME NEW e \in Elements
    PROVE  Depth > 0
<1>1. Depth # 0
  BY ElementsAssumption, FS_EmptySet DEF Depth
<1>. QED BY <1>1, DepthIsNat

(* What moved is read as its own new version, and so is what moves along.  *)
LEMMA MovedReads ==
    ASSUME NEW was \in Pom, NEW now \in Pom, NEW others \in BOOLEAN, Judge(was, now, others),
           NEW w, \A n \in 0..Depth : w[n] = Level(now, n, w),
           NEW e \in Changed(was, now), NEW n \in 0..Depth, n # 0
    PROVE  w[n][e] = [beside |-> 0, of |-> now.text[e].of] /\ w[n][e] \in Release
<1>1. /\ e \in Elements /\ e \notin now.gone /\ now.text[e].form = "value"
      /\ now.text[e].of \in Versions \ Mutable
  BY JudgedTexts
<1>2. w[n][e] = Reading(now, e, w[n - 1])
  BY <1>1 DEF Level
<1>3. w[n][e] = [beside |-> 0, of |-> now.text[e].of]
  BY <1>1, <1>2 DEF Reading
<1>. QED BY <1>1, <1>3 DEF Release

LEMMA AlongReads ==
    ASSUME NEW was \in Pom, NEW now \in Pom, NEW others \in BOOLEAN, Judge(was, now, others),
           NEW w, \A n \in 0..Depth : w[n] = Level(now, n, w),
           NEW d \in Elements, MovesAlong(was, now, d)
    PROVE  /\ w[Depth][d] = w[Depth][now.text[d].of]
           /\ w[Depth][d] \in Release
<1>. DEFINE p == now.text[d].of
<1>1. p \in Changed(was, now)
  BY DEF MovesAlong
<1>2. p \in Elements /\ p \notin now.gone /\ now.text[p].form = "value"
  BY <1>1, JudgedTexts
<1>3. now.text[d].form \notin {"value", "mixed"} /\ d \notin now.gone
  BY DEF MovesAlong, Use
<1>4. Depth > 1
  BY <1>2, <1>3, TwoDeep
<1>5. Depth \in 0..Depth /\ Depth - 1 \in 0..Depth /\ Depth - 1 # 0 /\ Depth # 0
  BY <1>4, DepthIsNat
<1>6. w[Depth][d] = Reading(now, d, w[Depth - 1])
  BY <1>5 DEF Level
<1>7. w[Depth][d] = w[Depth - 1][p]
  BY <1>2, <1>3, <1>6 DEF Reading
<1>8. /\ w[Depth - 1][p] = [beside |-> 0, of |-> now.text[p].of] /\ w[Depth - 1][p] \in Release
      /\ w[Depth][p] = [beside |-> 0, of |-> now.text[p].of]
  <2>. HIDE DEF p
  <2>. QED BY <1>1, <1>5, MovedReads
<1>. QED BY <1>7, <1>8

(* A property that may move is the whole version of some dependency.       *)
LEMMA MovedHasUse ==
    ASSUME NEW was \in Pom, NEW now \in Pom, NEW others \in BOOLEAN, Judge(was, now, others),
           NEW p \in Changed(was, now), MayMove(was, p, others)
    PROVE  \E d \in Elements : MovesAlong(was, now, d) /\ now.text[d].of = p
<1>1. PICK d \in RawUses(was, p) : d \notin was.gone /\ Place[d] = "dependency" /\ was.text[d].form = "whole"
  BY DEF MayMove, Stray
<1>2. d \in Elements /\ was.text[d].of = p
  BY <1>1 DEF RawUses
<1>3. d \notin Changed(was, now)
  <2>1. Bare(was, d).form # "value"
    BY <1>1, <1>2, BareForms
  <2>. QED BY <2>1 DEF Judge, MovesVersion
<1>4. now.gone = was.gone
  BY JudgedTexts
<1>5. /\ now.text[d].of = p /\ now.text[d].form # "value" /\ now.text[d].form # "mixed"
  BY <1>1, <1>2, <1>3, <1>4, UnmovedTexts
<1>6. now.text[d].form \in Use
  BY <1>2, <1>5 DEF Pom, Text
<1>. QED BY <1>1, <1>2, <1>4, <1>5, <1>6 DEF MovesAlong

(* The judge excuses no change of what Maven builds but other released     *)
(* versions: the text search misses no use, however it is spelled.         *)
LEMMA JudgedIsSameBuild ==
    ASSUME NEW was \in Pom, NEW now \in Pom, base.others \in BOOLEAN,
           Judge(was, now, base.others)
    PROVE  SameBuild(was, now)
<1>. DEFINE old == Value(was)
            new == Value(now)
<1>1. now.gone = was.gone /\ now.rest = was.rest
  BY JudgedTexts
<1>2. PICK v : old = v[Depth] /\ \A n \in 0..Depth : v[n] = Level(was, n, v)
  BY ValueIsRead
<1>3. PICK w : new = w[Depth] /\ \A n \in 0..Depth : w[n] = Level(now, n, w)
  BY ValueIsRead
<1>4. ASSUME NEW e \in Elements, old[e] # new[e]
      PROVE  /\ Place[e] # "other" /\ new[e] \in Release
             /\ Place[e] = "property" =>
                  /\ ~base.others /\ ~was.rest.outside
                  /\ \E d \in Elements : Place[d] = "dependency" /\ new[d] = new[e]
  <2>. HIDE DEF old, new
  <2>1. Depth \in 0..Depth /\ Depth # 0
    BY OneDeep, DepthIsNat
  <2>2. e \in Changed(was, now) \/ MovesAlong(was, now, e)
    <3>1. v[Depth][e] # w[Depth][e]
      BY <1>2, <1>3, <1>4
    <3>. QED BY <1>2, <1>3, <2>1, <3>1, ReadingsAgree
  <2>3. CASE e \in Changed(was, now)
    <3>1. Place[e] # "other" /\ (Place[e] = "property" => MayMove(was, e, base.others))
      BY <2>3, JudgedTexts
    <3>2. new[e] \in Release
      BY <1>3, <2>1, <2>3, MovedReads
    <3>3. CASE Place[e] = "property"
      <4>1. PICK d \in Elements : MovesAlong(was, now, d) /\ now.text[d].of = e
        BY <2>3, <3>1, <3>3, MovedHasUse
      <4>2. new[d] = new[e]
        BY <1>3, <4>1, AlongReads
      <4>. QED BY <3>1, <3>2, <3>3, <4>1, <4>2 DEF MayMove, MovesAlong
    <3>. QED BY <3>1, <3>2, <3>3
  <2>4. CASE MovesAlong(was, now, e)
    <3>1. new[e] \in Release
      BY <1>3, <2>4, AlongReads
    <3>. QED BY <2>4, <3>1 DEF MovesAlong
  <2>. QED BY <2>2, <2>3, <2>4
<1>. QED BY <1>1, <1>4 DEF SameBuild

---------------------------------------------------------------------------
(* A run's step is a step of its round, the end of a run that did not      *)
(* pass, or none of the round's business.                                  *)
LeftOver == pc = "done" /\ ~Passed /\ Left

LEMMA RunStepIsStep == [RunNext]_all => Next \/ LeftOver \/ UNCHANGED vars
<1>. SUFFICES ASSUME [RunNext]_all PROVE Next \/ LeftOver \/ UNCHANGED vars
  OBVIOUS
<1>1. CASE Begin \/ Recon \/ Write \/ Fix \/ Simplify \/ Review
  BY <1>1 DEF Begin, Recon, Write, Fix, Simplify, Review, Gone, Next
<1>2. CASE Judging \/ Mended \/ RepairPass
  BY <1>2 DEF Judging, Mended, RepairPass, Next
<1>3. CASE Conclude
  BY <1>3 DEF Conclude, LeftOver, Next
<1>4. CASE Escape \/ SolveAgain \/ Tell \/ NextRound
  BY <1>4 DEF Escape, SolveAgain, Tell, NextRound, Next
<1>5. CASE UNCHANGED all
  BY <1>5 DEF all
<1>. QED BY <1>1, <1>2, <1>3, <1>4, <1>5 DEF RunNext

(* Types.                                                                  *)
LEMMA CountTypes ==
    ASSUME TypeOK
    PROVE  /\ count.edits \in 0..MaxEdits /\ count.rounds \in 0..MaxRounds
           /\ count.faults \in 0..MaxFaults /\ count.repairs \in 0..1
           /\ MaxEdits \in Nat /\ MaxRounds \in Nat /\ MaxFaults \in Nat
BY BoundAssumption DEF TypeOK

Counts == [edits : 0..MaxEdits, rounds : 0..MaxRounds, faults : 0..MaxFaults, repairs : 0..1]

LEMMA FaultTypes ==
    ASSUME TypeOK, Fault \/ UNCHANGED count
    PROVE  /\ count' \in Counts
           /\ count'.rounds = count.rounds /\ count'.repairs = count.repairs
<1>1. CASE Fault
  BY <1>1, CountTypes DEF TypeOK, Fault, Counts
<1>2. CASE UNCHANGED count
  BY <1>2 DEF TypeOK, Counts
<1>. QED BY <1>1, <1>2

LEMMA EditPomTypes ==
    ASSUME TypeOK, EditPom
    PROVE  tree' \in Tree
<1>1. /\ tree \in Tree /\ tree.pom \in Pom /\ tree.pom.rest \in Rest
      /\ tree.pom.text \in [Elements -> Text] /\ tree.files \in [Paths -> Content]
  BY DEF TypeOK, Tree, Pom
<1>2. ASSUME NEW e \in Elements, NEW t \in Text, tree' = [tree EXCEPT !.pom.text[e] = t]
      PROVE  tree' \in Tree
  <2>1. [tree.pom.text EXCEPT ![e] = t] \in [Elements -> Text]
    BY <1>1, <1>2
  <2>. QED BY <1>1, <1>2, <2>1 DEF Tree, Pom
<1>3. ASSUME NEW e \in Elements, tree' = [tree EXCEPT !.pom.gone = (@ \cup {e}) \ (@ \cap {e})]
      PROVE  tree' \in Tree
  BY <1>1, <1>3 DEF Tree, Pom
<1>4. ASSUME NEW p \in Properties, tree' = [tree EXCEPT !.pom.said = (@ \cup {p}) \ (@ \cap {p})]
      PROVE  tree' \in Tree
  BY <1>1, <1>4 DEF Tree, Pom
<1>5. CASE tree' = [tree EXCEPT !.pom.rest.lines = @ + 1]
  <2>1. [tree.pom.rest EXCEPT !.lines = @ + 1] \in Rest
    BY <1>1 DEF Rest
  <2>. QED BY <1>1, <1>5, <2>1 DEF Tree, Pom
<1>6. ASSUME NEW f \in {"id", "plain", "outside", "there"}, tree' = [tree EXCEPT !.pom.rest[f] = ~@]
      PROVE  tree' \in Tree
  <2>1. [tree.pom.rest EXCEPT ![f] = ~@] \in Rest
    BY <1>1 DEF Rest
  <2>. QED BY <1>1, <1>6, <2>1 DEF Tree, Pom
<1>. QED BY <1>2, <1>3, <1>4, <1>5, <1>6 DEF EditPom

LEMMA RestoredTypes ==
    ASSUME TypeOK, NEW paths
    PROVE  Restored(paths) \in Tree
BY DEF TypeOK, Restored, Tree

LEMMA RefusedPaths ==
    ASSUME NEW to, NEW read
    PROVE  Refused(to, read) \subseteq Paths \cup {"pom"}
BY DEF Refused, ChangedPaths

LEMMA TypeStep == TypeOK /\ (Next \/ LeftOver \/ UNCHANGED vars) => TypeOK'
<1>. SUFFICES ASSUME TypeOK, Next \/ LeftOver \/ UNCHANGED vars PROVE TypeOK'
  OBVIOUS
<1>1. CASE Edit
  <2>1. tree' \in Tree
    <3>1. CASE EditPom
      BY <3>1, EditPomTypes
    <3>2. CASE EditFile
      BY <3>2 DEF EditFile, TypeOK, Tree
    <3>. QED BY <1>1, <3>1, <3>2 DEF Edit
  <2>2. count' \in Counts
    BY <1>1, CountTypes DEF Edit, TypeOK, Counts
  <2>. QED BY <1>1, <2>1, <2>2 DEF Edit, TypeOK, Counts
<1>2. CASE RefusePlan \/ Probe \/ Withhold \/ GiveUp
  BY <1>2 DEF RefusePlan, Probe, Withhold, GiveUp, Say, TypeOK
<1>3. CASE Gate
  <2>1. count' \in Counts
    BY <1>3, FaultTypes DEF Gate
  <2>. QED BY <1>3, <2>1 DEF Gate, Say, TypeOK, Counts
<1>4. CASE Drop
  <2>1. count' \in Counts
    BY <1>4, FaultTypes DEF Drop
  <2>2. tree' \in Tree /\ dropped' \in [paths : SUBSET (Paths \cup {"pom"}), before : Tree]
    BY <1>4, RestoredTypes, RefusedPaths DEF Drop, TypeOK
  <2>3. pc' \in {"verify", "done"} /\ verdict' \in {verdict, "refused"} /\ UNCHANGED <<base, head>>
    BY <1>4 DEF Drop, Say
  <2>. QED BY <2>1, <2>2, <2>3 DEF TypeOK, Counts
<1>5. CASE Verify
  <2>1. count' \in Counts
    BY <1>5, FaultTypes DEF Verify
  <2>. QED BY <1>5, <2>1 DEF Verify, Say, TypeOK, Counts
<1>6. CASE Repair
  <2>1. count' \in Counts
    BY <1>6, CountTypes DEF Repair, TypeOK, Counts
  <2>. QED BY <1>6, <2>1 DEF Repair, TypeOK, Counts
<1>7. CASE Retry
  <2>1. count' \in Counts
    BY <1>7, FaultTypes DEF Retry
  <2>. QED BY <1>7, <2>1 DEF Retry, TypeOK, Counts
<1>8. CASE Settle
  <2>1. count' \in Counts
    <3>1. /\ count' = [count EXCEPT !.rounds = @ + 1, !.repairs = 0]
          /\ count.rounds < MaxRounds /\ count \in Counts
      BY <1>8 DEF Settle, TypeOK, Counts
    <3>2. count.rounds + 1 \in 0..MaxRounds
      BY <3>1, CountTypes
    <3>. DEFINE counted == [count EXCEPT !.rounds = @ + 1]
    <3>3. counted \in Counts
      BY <3>1, <3>2 DEF Counts
    <3>4. count' = [counted EXCEPT !.repairs = 0]
      BY <3>1
    <3>. HIDE DEF counted
    <3>. QED BY <3>3, <3>4 DEF Counts
  <2>. QED BY <1>8, <2>1 DEF Settle, TypeOK, Counts
<1>9. CASE LeftOver
  BY <1>9 DEF LeftOver, Left, TypeOK
<1>10. CASE UNCHANGED vars
  BY <1>10 DEF vars, TypeOK
<1>. QED BY <1>1, <1>2, <1>3, <1>4, <1>5, <1>6, <1>7, <1>8, <1>9, <1>10 DEF Next

LEMMA TypeInit == Init => TypeOK
BY BasesAssumption, BoundAssumption DEF Init, TypeOK

---------------------------------------------------------------------------
(* The gate.  What is on the branch is let through by it, and so is what   *)
(* is being checked or has passed.  A verdict comes with the round's end,  *)
(* and what was put back is remembered only while the tree is as the gate  *)
(* left it; the refused are put back in review rounds alone, which a solve *)
(* that starts over relies on.                                             *)
Clean(t) == Refused(t, TRUE) = {}
GateInv ==
    /\ Clean(head)
    /\ pc \in {"verify", "probe"} \/ Passed => Clean(tree)
PhaseInv ==
    /\ pc \in {"edit", "repair", "drop", "verify"} => verdict = "none"
    /\ pc = "probe" => verdict = "passed"
    /\ pc = "done" => verdict # "none"
DropInv ==
    /\ pc \in {"edit", "repair", "drop"} => dropped.paths = {}
    /\ count.rounds = 0 => pc # "drop" /\ dropped.paths = {}
    /\ DropIsExact
RoundInv == GateInv /\ PhaseInv /\ DropInv

(* A change that could be read is refused no more than one that could not. *)
LEMMA ReadRefusesLess ==
    ASSUME NEW to, NEW read \in BOOLEAN
    PROVE  Refused(to, TRUE) \subseteq Refused(to, read)
BY DEF Refused, Excused

LEMMA OpenIsClean ==
    ASSUME NEW to, NEW read \in BOOLEAN, GateOpen(to, read)
    PROVE  Clean(to)
BY ReadRefusesLess DEF GateOpen, Clean

LEMMA BaseIsClean == Clean(base.tree)
BY DEF Clean, Refused, ChangedPaths

(* Each path is judged alone: with the refused ones as the branch has      *)
(* them, none is refused.                                                  *)
LEMMA RestoredIsClean ==
    ASSUME Clean(head), NEW read \in BOOLEAN
    PROVE  Clean(Restored(Refused(tree, read)))
<1>. DEFINE paths == Refused(tree, read)
            new == Restored(paths)
<1>. SUFFICES ASSUME NEW p \in Refused(new, TRUE) PROVE FALSE
  BY DEF Clean
<1>1. p \in Paths \cup {"pom"} /\ p \in ChangedPaths(base.tree, new)
  BY RefusedPaths DEF Refused
<1>2. CASE p \in Paths /\ p \in paths
  <2>1. new.files[p] = head.files[p] /\ p # "pom"
    BY <1>2 DEF Restored, Paths
  <2>2. p \in Refused(head, TRUE)
    BY <1>1, <1>2, <2>1 DEF Refused, ChangedPaths, Binary
  <2>. QED BY <2>2 DEF Clean
<1>3. CASE p \in Paths /\ p \notin paths
  <2>1. new.files[p] = tree.files[p] /\ p # "pom"
    BY <1>3 DEF Restored, Paths
  <2>2. p \in Refused(tree, read)
    BY <1>1, <1>3, <2>1 DEF Refused, ChangedPaths, Binary
  <2>. QED BY <1>3, <2>2
<1>4. CASE p = "pom" /\ p \in paths
  <2>1. new.pom = head.pom
    BY <1>4 DEF Restored
  <2>2. p \in Refused(head, TRUE)
    BY <1>1, <1>4, <2>1 DEF Refused, ChangedPaths, Binary, Excused, Paths
  <2>. QED BY <2>2 DEF Clean
<1>5. CASE p = "pom" /\ p \notin paths
  <2>1. new.pom = tree.pom
    BY <1>5 DEF Restored
  <2>2. p \in Refused(tree, TRUE)
    BY <1>1, <1>5, <2>1 DEF Refused, ChangedPaths, Binary, Excused, Paths
  <2>. QED BY <1>5, <2>2, ReadRefusesLess
<1>. QED BY <1>1, <1>2, <1>3, <1>4, <1>5

(* What a step leaves alone stays clean.                                   *)
LEMMA CleanStays ==
    ASSUME UNCHANGED base
    PROVE  /\ Clean(head) /\ UNCHANGED head => Clean(head)'
           /\ Clean(tree) /\ UNCHANGED tree => Clean(tree)'
           /\ Clean(head) /\ tree' = head => Clean(tree)'
           /\ Clean(tree) /\ head' = tree => Clean(head)'
BY DEF Clean, Refused, ChangedPaths, Binary, Excused

LEMMA DropIsExactStays ==
    ASSUME DropIsExact, UNCHANGED <<base, tree, dropped>>
    PROVE  DropIsExact'
BY DEF DropIsExact, Refused, ChangedPaths, Binary, Excused

LEMMA NothingDropped ==
    ASSUME dropped'.paths = {}
    PROVE  DropIsExact'
BY DEF DropIsExact

LEMMA DropStep ==
    ASSUME TypeOK, RoundInv, Drop
    PROVE  RoundInv'
<1>. USE DEF RoundInv
<1>1. /\ UNCHANGED <<base, head>> /\ Clean(head) /\ verdict = "none" /\ dropped.paths = {}
      /\ count.rounds # 0 /\ pc = "drop"
  BY DEF Drop, GateInv, PhaseInv, DropInv
<1>2. PICK read \in BOOLEAN :
         LET paths == Refused(tree, read)
         IN \/ /\ tree' = Restored(paths)
               /\ dropped' = [paths |-> paths, before |-> tree]
               /\ IF GateOpen(Restored(paths), read) THEN pc' = "verify" /\ UNCHANGED verdict
                  ELSE Say("refused")
            \/ Say("refused") /\ UNCHANGED <<tree, dropped>>
  BY DEF Drop
<1>3. count'.rounds = count.rounds
  BY FaultTypes DEF Drop
<1>4. CASE Say("refused") /\ UNCHANGED <<tree, dropped>>
  <2>1. GateInv'
    BY <1>1, <1>4, CleanStays DEF GateInv, Say, Passed
  <2>2. PhaseInv' /\ DropInv'
    BY <1>1, <1>3, <1>4, NothingDropped DEF PhaseInv, DropInv, Say
  <2>. QED BY <2>1, <2>2
<1>. DEFINE paths == Refused(tree, read)
<1>5. CASE /\ tree' = Restored(paths)
           /\ dropped' = [paths |-> paths, before |-> tree]
           /\ IF GateOpen(Restored(paths), read) THEN pc' = "verify" /\ UNCHANGED verdict
              ELSE Say("refused")
  <2>1. Clean(Restored(paths))
    BY <1>1, RestoredIsClean
  <2>2. Clean(tree)' /\ Clean(head)'
    <3>1. Clean(tree)'
      BY <1>1, <1>5, <2>1 DEF Clean, Refused, ChangedPaths, Binary, Excused
    <3>. QED BY <1>1, <3>1, CleanStays
  <2>3. \/ pc' = "verify" /\ verdict' = "none"
        \/ pc' = "done" /\ verdict' = "refused"
    BY <1>1, <1>5 DEF Say
  <2>4. DropIsExact'
    <3>1. (Refused(tree, TRUE) = {})'
      BY <2>2 DEF Clean
    <3>2. /\ \A p \in Paths \ paths : tree'.files[p] = tree.files[p]
          /\ "pom" \notin paths => tree'.pom = tree.pom
      <4>. HIDE DEF paths
      <4>. QED BY <1>5 DEF Restored
    <3>. HIDE DEF paths
    <3>. QED BY <1>5, <3>1, <3>2 DEF DropIsExact
  <2>. QED BY <1>1, <1>3, <2>2, <2>3, <2>4 DEF GateInv, PhaseInv, DropInv, Passed
<1>. QED BY <1>2, <1>4, <1>5

LEMMA RoundStep == TypeOK /\ RoundInv /\ (Next \/ LeftOver \/ UNCHANGED vars) => RoundInv'
<1>. SUFFICES ASSUME TypeOK, RoundInv, Next \/ LeftOver \/ UNCHANGED vars PROVE RoundInv'
  OBVIOUS
<1>. USE DEF RoundInv
<1>1. CASE RefusePlan
  <2>1. GateInv' /\ PhaseInv'
    BY <1>1, CleanStays DEF RefusePlan, GateInv, PhaseInv, Passed
  <2>. QED BY <1>1, <2>1, DropIsExactStays DEF RefusePlan, DropInv
<1>2. CASE Edit
  <2>1. GateInv' /\ PhaseInv'
    BY <1>2, CleanStays DEF Edit, GateInv, PhaseInv, Passed
  <2>2. DropInv'
    BY <1>2, CountTypes, NothingDropped DEF Edit, DropInv, TypeOK
  <2>. QED BY <2>1, <2>2
<1>3. CASE Gate
  <2>1. count'.rounds = count.rounds
    BY <1>3, FaultTypes DEF Gate
  <2>2. /\ verdict = "none" /\ UNCHANGED <<base, head, tree, dropped>> /\ dropped.paths = {}
        /\ \/ pc' = "verify" /\ verdict' = "none" /\ \E read \in BOOLEAN : GateOpen(tree, read)
           \/ pc' = "drop" /\ verdict' = "none" /\ count.rounds > 0
           \/ pc' = "done" /\ verdict' = "refused"
    BY <1>3 DEF Gate, PhaseInv, DropInv, Say
  <2>3. GateInv' /\ PhaseInv'
    BY <2>2, CleanStays, OpenIsClean DEF GateInv, PhaseInv, Passed
  <2>4. DropInv'
    BY <2>1, <2>2, CountTypes, NothingDropped DEF DropInv
  <2>. QED BY <2>3, <2>4
<1>4. CASE Drop
  BY <1>4, DropStep
<1>5. CASE Verify
  <2>1. count'.rounds = count.rounds
    BY <1>5, FaultTypes DEF Verify
  <2>2. /\ pc = "verify" /\ UNCHANGED <<base, head, tree, dropped>>
        /\ \/ pc' = "done" /\ verdict' \in {"refused", "failed", "passed"}
           \/ pc' = "probe" /\ verdict' = "passed"
    BY <1>5 DEF Verify, Say
  <2>3. GateInv' /\ PhaseInv'
    BY <2>2, CleanStays DEF GateInv, PhaseInv, Passed
  <2>4. DropInv'
    BY <2>1, <2>2, DropIsExactStays DEF DropInv
  <2>. QED BY <2>3, <2>4
<1>6. CASE Probe
  <2>1. GateInv' /\ PhaseInv'
    BY <1>6, CleanStays DEF Probe, GateInv, PhaseInv, Passed
  <2>. QED BY <1>6, <2>1, DropIsExactStays DEF Probe, DropInv
<1>7. CASE Repair
  <2>1. GateInv' /\ PhaseInv'
    BY <1>7, CleanStays DEF Repair, GateInv, PhaseInv, Passed
  <2>2. DropInv'
    BY <1>7, CountTypes, NothingDropped DEF Repair, DropInv, TypeOK
  <2>. QED BY <2>1, <2>2
<1>8. CASE GiveUp
  <2>1. GateInv' /\ PhaseInv'
    BY <1>8, CleanStays DEF GiveUp, Say, GateInv, PhaseInv, Passed
  <2>2. DropInv'
    BY <1>8, NothingDropped DEF GiveUp, Say, DropInv
  <2>. QED BY <2>1, <2>2
<1>9. CASE Withhold
  <2>1. GateInv' /\ PhaseInv'
    BY <1>9, CleanStays DEF Withhold, GateInv, PhaseInv, Passed
  <2>. QED BY <1>9, <2>1, DropIsExactStays DEF Withhold, DropInv
<1>10. CASE Retry
  <2>1. GateInv' /\ PhaseInv'
    BY <1>10, CleanStays DEF Retry, GateInv, PhaseInv, Passed
  <2>2. dropped'.paths = {} /\ pc' = "edit"
    BY <1>10 DEF Retry, DropInv
  <2>. QED BY <2>1, <2>2, NothingDropped DEF DropInv
<1>11. CASE Settle
  <2>1. Clean(head)'
    BY <1>11, CleanStays DEF Settle, GateInv
  <2>2. GateInv' /\ PhaseInv' /\ DropInv'
    BY <1>11, <2>1, NothingDropped DEF Settle, GateInv, PhaseInv, DropInv, Passed
  <2>. QED BY <2>2
<1>12. CASE LeftOver
  <2>1. GateInv' /\ PhaseInv'
    BY <1>12, CleanStays DEF LeftOver, Left, GateInv, PhaseInv, Passed
  <2>. QED BY <1>12, <2>1, NothingDropped DEF LeftOver, Left, DropInv
<1>13. CASE UNCHANGED vars
  <2>1. GateInv' /\ PhaseInv'
    BY <1>13, CleanStays DEF vars, GateInv, PhaseInv, Passed
  <2>. QED BY <1>13, <2>1, DropIsExactStays DEF vars, DropInv
<1>. QED BY <1>1, <1>2, <1>3, <1>4, <1>5, <1>6, <1>7, <1>8, <1>9, <1>10, <1>11, <1>12, <1>13 DEF Next

LEMMA RoundInit == Init => RoundInv
<1>. SUFFICES ASSUME Init PROVE RoundInv
  OBVIOUS
<1>1. Clean(head)
  BY BaseIsClean DEF Init
<1>. QED BY <1>1 DEF Init, RoundInv, GateInv, PhaseInv, DropInv, DropIsExact, Passed

LEMMA RoundInvariant == RunSpec => [](TypeOK /\ RoundInv)
<1>1. RunInit => TypeOK /\ RoundInv
  BY TypeInit, RoundInit DEF RunInit
<1>2. TypeOK /\ RoundInv /\ [RunNext]_all => TypeOK' /\ RoundInv'
  BY RunStepIsStep, TypeStep, RoundStep
<1>. QED BY <1>1, <1>2, PTL DEF RunSpec

(* What the gate lets through builds and tests as the base does.           *)
LEMMA CleanIsSafe ==
    ASSUME TypeOK, NEW t \in Tree, Clean(t)
    PROVE  /\ \A p \in Paths :
                t.files[p] # base.tree.files[p] =>
                    p \notin Forbidden \cup Verification /\ t.files[p] # "bytes"
           /\ t.pom # base.tree.pom => base.bumps /\ SameBuild(base.tree.pom, t.pom)
<1>1. ASSUME NEW p \in Paths, t.files[p] # base.tree.files[p]
      PROVE  p \notin Forbidden \cup Verification /\ t.files[p] # "bytes"
  BY <1>1 DEF Clean, Refused, ChangedPaths, Binary
<1>2. ASSUME t.pom # base.tree.pom
      PROVE  base.bumps /\ SameBuild(base.tree.pom, t.pom)
  <2>1. Excused(t, TRUE)
    BY <1>2 DEF Clean, Refused, ChangedPaths
  <2>2. base.tree.pom \in Pom /\ t.pom \in Pom /\ base.others \in BOOLEAN
    BY BasesAssumption DEF TypeOK, Tree
  <2>. QED BY <2>1, <2>2, JudgedIsSameBuild DEF Excused
<1>. QED BY <1>1, <1>2

(* What a run commits, or has checked and will, is safe: whatever the      *)
(* pom.xml looks like and however a property's use is spelled in it, in    *)
(* every round of any number, and after refused edits were put back        *)
(* (gateDiff, judgePomChange, dropRefusedEdits).                           *)
THEOREM OnlySafeIsPublished == RunSpec => []PublishedIsSafe
<1>1. TypeOK /\ RoundInv => PublishedIsSafe
  <2>. SUFFICES ASSUME TypeOK, RoundInv, NEW t \in {head} \cup {x \in {tree} : Passed}
                PROVE  /\ \A p \in Paths :
                            t.files[p] # base.tree.files[p] =>
                                p \notin Forbidden \cup Verification /\ t.files[p] # "bytes"
                       /\ t.pom # base.tree.pom => base.bumps /\ SameBuild(base.tree.pom, t.pom)
    BY DEF PublishedIsSafe
  <2>1. t \in Tree /\ Clean(t)
    BY DEF TypeOK, RoundInv, GateInv
  <2>. QED BY <2>1, CleanIsSafe
<1>. QED BY <1>1, RoundInvariant, PTL

(* Putting refused edits back leaves nothing refused and every other edit  *)
(* as it was (dropRefusedEdits).                                           *)
THEOREM DropsExactly == RunSpec => []DropIsExact
<1>1. RoundInv => DropIsExact
  BY DEF RoundInv, DropInv
<1>. QED BY <1>1, RoundInvariant, PTL

---------------------------------------------------------------------------
(* What is said of a run.  Each stage is at its place of the round, a      *)
(* repaired one is known by its count, and what the run came to agrees     *)
(* with the round it came from; what was written is what that calls for.   *)
Ended == {"over", "told"}
Outcomes == [kind : Kind, read : BOOLEAN, cause : Cause, mend : Mend,
             detail : SUBSET {"plan", "blockers", "remedy"}, left : BOOLEAN]
StageInv ==
    /\ stage \in {"start", "recon", "fix", "simplify"} => Solving
    /\ stage = "review" => ~Solving
    /\ stage \in {"start", "recon", "fix", "simplify", "review"} => pc = "edit"
    /\ stage = "repair" => pc = "repair"
    /\ stage \in Ended => pc = "done"
    /\ pc \in {"edit", "drop"} => count.repairs = 0
    /\ pc = "repair" => count.repairs = 1
EndOf(o) ==
    /\ Passed => o.kind = "verified"
    /\ o.kind = "refused" => verdict = "refused" /\ count.repairs = 0
    /\ o.kind = "failed" => verdict = "failed" \/ count.repairs = 1
    /\ o.kind = "abandoned" /\ Solving => o.cause # "none"
    /\ o.kind = "bailed" => o.detail \in {{"plan"}, {"blockers", "remedy"}}
    /\ o.kind # "none"
    /\ o.kind = "escaped" \/ IF count.repairs = 1 THEN o.kind \in {"failed", "verified"} /\ o.mend # "none"
                             ELSE o.mend = "none"
    /\ o.kind = "verified" /\ count.repairs = 1 => o.mend = "verified"
OutcomeInv ==
    /\ stage \notin Ended => outcome.mend = "none" /\ outcome.cause = "none"
    /\ stage \in Ended => EndOf(outcome)
ToldInv ==
    stage = "told" =>
        /\ report.said # "none" =>
             Solving /\ report.said = Headline(outcome) /\ report.detail = BailDetail(outcome)
        /\ report.scored => Scored(outcome)
        /\ report.repair \in {"none", RepairRow(outcome)}
        /\ Solving => report.repair = RepairRow(outcome)
ReportInv == StageInv /\ OutcomeInv /\ ToldInv

(* What reading an answer leaves.                                          *)
LEMMA ReadBails ==
    ASSUME NEW a \in ReconRead
    PROVE  /\ a.detail \subseteq {"blockers", "remedy"}
           /\ a.proceed \in BOOLEAN
           /\ ~a.proceed => a.detail = {"blockers", "remedy"}
<1>1. PICK x \in ReconAnswer :
         /\ ReadsRecon(x)
         /\ a = [proceed |-> x.proceed, detail |-> {f \in {"blockers", "remedy"} : x[f]}]
  BY DEF ReconRead
<1>2. x.proceed \in BOOLEAN /\ (~x.proceed => x["blockers"] /\ x["remedy"])
  BY <1>1 DEF ReadsRecon, ReconAnswer
<1>. QED BY <1>1, <1>2

LEMMA ReadGivesCause ==
    ASSUME NEW a \in FixRead
    PROVE  a.cause \in Cause /\ (a.abandoned => a.cause # "none")
<1>1. PICK x \in FixAnswer : ReadsFix(x) /\ a = [abandoned |-> x.abandoned, cause |-> x.cause]
  BY DEF FixRead
<1>. QED BY <1>1 DEF ReadsFix, FixAnswer

Details == SUBSET {"plan", "blockers", "remedy"}
LEMMA OutcomeUpdates ==
    ASSUME NEW o \in Outcomes, NEW k \in Kind, NEW m \in Mend, NEW c \in Cause, NEW d \in Details,
           NEW l \in BOOLEAN
    PROVE  /\ [o EXCEPT !.kind = k] \in Outcomes
           /\ [o EXCEPT !.read = TRUE] \in Outcomes
           /\ [o EXCEPT !.kind = k, !.mend = m] \in Outcomes
           /\ [o EXCEPT !.kind = k, !.read = TRUE, !.detail = d] \in Outcomes
           /\ [o EXCEPT !.kind = k, !.cause = c, !.left = l] \in Outcomes
<1>. DEFINE came == [o EXCEPT !.kind = k]
            was_read == [came EXCEPT !.read = TRUE]
            caused == [came EXCEPT !.cause = c]
<1>1. came \in Outcomes /\ [o EXCEPT !.read = TRUE] \in Outcomes
  BY DEF Outcomes
<1>2. was_read \in Outcomes /\ caused \in Outcomes /\ [came EXCEPT !.mend = m] \in Outcomes
  <2>. HIDE DEF came
  <2>. QED BY <1>1 DEF Outcomes
<1>3. [was_read EXCEPT !.detail = d] \in Outcomes /\ [caused EXCEPT !.left = l] \in Outcomes
  <2>. HIDE DEF came, was_read, caused
  <2>. QED BY <1>2 DEF Outcomes, Details
<1>. QED BY <1>1, <1>2, <1>3

LEMMA HeadlineTypes ==
    ASSUME NEW o \in Outcomes
    PROVE  /\ Headline(o) \in Kind \cup {"judgement", "environment"}
           /\ RepairRow(o) \in {"none", "unread", "dash"}
           /\ Scored(o) \in BOOLEAN
           /\ BailDetail(o) \subseteq {"plan", "blockers", "remedy"}
<1>1. Headline(o) \in Kind \cup {"judgement", "environment"}
  BY DEF Outcomes, Headline, Kind
<1>. QED BY <1>1 DEF Outcomes, RepairRow, Scored, BailDetail

LEMMA ReportTypesStep == TypeOK /\ RoundInv /\ ReportsOK /\ [RunNext]_all => ReportsOK'
<1>. SUFFICES ASSUME TypeOK, RoundInv, ReportsOK, [RunNext]_all PROVE ReportsOK'
  OBVIOUS
<1>0. outcome \in Outcomes /\ Open \in Outcomes
  BY DEF ReportsOK, Outcomes, Open, Kind, Cause, Mend
<1>1. ASSUME NEW k \in Kind, Came(k), UNCHANGED <<attempt, report>> PROVE ReportsOK'
  BY <1>0, <1>1 DEF Came, ReportsOK, Outcomes, Stages
<1>2. CASE Begin
  <2>1. CASE Gone("no-worktree") \/ Gone("unusable-base")
    BY <1>1, <2>1 DEF Gone, Kind
  <2>2. CASE stage' = "recon" /\ UNCHANGED <<vars, attempt, outcome, report>>
    BY <2>2 DEF ReportsOK, Stages
  <2>. QED BY <1>2, <2>1, <2>2 DEF Begin
<1>3. CASE Recon
  <2>1. CASE Came("crashed")
    BY <1>1, <1>3, <2>1 DEF Recon, Kind
  <2>2. ASSUME NEW a \in ReconRead, stage' \in {"fix", "over"}, UNCHANGED <<attempt, report>>,
               \/ outcome' = [outcome EXCEPT !.read = TRUE]
               \/ outcome' = [outcome EXCEPT !.kind = "bailed", !.read = TRUE, !.detail = {"plan"}]
               \/ outcome' = [outcome EXCEPT !.kind = "bailed", !.read = TRUE, !.detail = a.detail]
        PROVE  ReportsOK'
    <3>1. {"plan"} \in Details /\ a.detail \in Details /\ "bailed" \in Kind /\ outcome.mend \in Mend
          /\ outcome.cause \in Cause /\ outcome.left \in BOOLEAN
      BY <1>0, ReadBails DEF Details, Kind, Outcomes
    <3>2. /\ [outcome EXCEPT !.read = TRUE] \in Outcomes
          /\ \A d \in Details : [outcome EXCEPT !.kind = "bailed", !.read = TRUE, !.detail = d] \in Outcomes
      BY <1>0, <3>1, OutcomeUpdates
    <3>3. outcome' \in Outcomes
      BY <2>2, <3>1, <3>2
    <3>. QED BY <2>2, <3>3 DEF ReportsOK, Outcomes, Stages
  <2>. QED BY <1>3, <2>1, <2>2 DEF Recon
<1>4. CASE Write
  BY <1>4 DEF Write, reports, ReportsOK
<1>5. CASE Fix
  <2>1. CASE Came("crashed")
    BY <1>1, <1>5, <2>1 DEF Fix, Kind
  <2>2. ASSUME NEW a \in FixRead, stage' = "over", UNCHANGED <<attempt, report>>,
               outcome' = [outcome EXCEPT !.kind = "abandoned", !.cause = a.cause, !.left = tree # head]
        PROVE  ReportsOK'
    BY <1>0, <2>2, ReadGivesCause DEF ReportsOK, Outcomes, Stages, Kind
  <2>3. CASE stage' = "simplify" /\ UNCHANGED <<attempt, report, outcome>>
    BY <2>3 DEF ReportsOK, Stages
  <2>. QED BY <1>5, <2>1, <2>2, <2>3 DEF Fix
<1>6. CASE Simplify
  BY <1>0, <1>6 DEF Simplify, Came, ReportsOK, Outcomes, Stages, Kind
<1>7. CASE Review
  <2>1. CASE Came("abandoned") \/ Came("refused")
    BY <1>1, <1>7, <2>1 DEF Review, Kind
  <2>2. CASE stage' = "judge" /\ UNCHANGED <<attempt, report, outcome>>
    BY <2>2 DEF ReportsOK, Stages
  <2>. QED BY <1>7, <2>1, <2>2 DEF Review
<1>8. CASE Judging \/ Mended
  BY <1>8 DEF Judging, Mended, reports, ReportsOK, Stages
<1>9. CASE RepairPass
  <2>1. ASSUME NEW m \in {"crashed", "abandoned"}, stage' = "over",
               outcome' = [outcome EXCEPT !.kind = "failed", !.mend = m], UNCHANGED <<attempt, report>>
        PROVE  ReportsOK'
    BY <1>0, <2>1 DEF ReportsOK, Outcomes, Stages, Kind, Mend
  <2>2. CASE stage' = "judge" /\ UNCHANGED <<attempt, report, outcome>>
    BY <2>2 DEF ReportsOK, Stages
  <2>. QED BY <1>9, <2>1, <2>2 DEF RepairPass
<1>10. CASE Conclude
  <2>1. pc = "done" /\ verdict # "none" /\ verdict \in {"none", "refused", "failed"} \cup {"passed", "guarded", "vacuous"}
    BY <1>10 DEF Conclude, RoundInv, PhaseInv, TypeOK
  <2>2. PICK k \in {"verified", "refused", "failed"}, m \in {outcome.mend, "verified", "refused", "failed"} :
           outcome' = [outcome EXCEPT !.kind = k, !.mend = m]
    <3>1. \A k \in {"verified", verdict} :
             [outcome EXCEPT !.kind = k] = [outcome EXCEPT !.kind = k, !.mend = outcome.mend]
      BY <1>0 DEF Outcomes
    <3>2. \/ outcome' = [outcome EXCEPT !.kind = "verified", !.mend = outcome.mend]
          \/ ~Passed /\ outcome' = [outcome EXCEPT !.kind = verdict, !.mend = outcome.mend]
          \/ outcome' = [outcome EXCEPT !.kind = "verified", !.mend = "verified"]
          \/ outcome' = [outcome EXCEPT !.kind = "failed", !.mend = "verified"]
          \/ ~Passed /\ outcome' = [outcome EXCEPT !.kind = "failed", !.mend = verdict]
      BY <1>10, <3>1 DEF Conclude
    <3>. QED BY <2>1, <3>2 DEF Passed
  <2>3. outcome' \in Outcomes
    <3>1. k \in Kind /\ m \in Mend /\ outcome.cause \in Cause /\ {} \in Details /\ outcome.left \in BOOLEAN
      BY <1>0 DEF Kind, Mend, Outcomes, Details
    <3>. QED BY <1>0, <2>2, <3>1, OutcomeUpdates
  <2>. QED BY <1>10, <2>3 DEF Conclude, ReportsOK, Outcomes, Stages
<1>11. CASE Escape
  BY <1>1, <1>11 DEF Escape, Kind
<1>12. CASE SolveAgain
  BY <1>0, <1>12 DEF SolveAgain, ReportsOK, Outcomes, Stages
<1>13. CASE Tell
  <2>1. CASE Solving
    <3>1. PICK said \in {Headline(outcome), "none"} :
             report' = [scored |-> Scored(outcome), repair |-> RepairRow(outcome), said |-> said,
                        detail |-> IF said = "none" THEN {} ELSE BailDetail(outcome)]
      BY <1>13, <2>1 DEF Tell
    <3>2. said \in Kind \cup {"judgement", "environment"}
      BY <1>0, HeadlineTypes DEF Kind
    <3>. QED BY <1>0, <1>13, <3>1, <3>2, HeadlineTypes DEF Tell, ReportsOK, Stages
  <2>2. CASE ~Solving
    <3>1. PICK row \in {RepairRow(outcome), "none"} : report' = [Unsaid EXCEPT !.repair = row]
      BY <1>13, <2>2 DEF Tell
    <3>2. row \in {"none", "unread", "dash"}
      BY <1>0, <3>1, HeadlineTypes
    <3>. QED BY <1>13, <3>1, <3>2 DEF Tell, ReportsOK, Stages, Unsaid, Kind
  <2>. QED BY <2>1, <2>2
<1>14. CASE NextRound
  BY <1>0, <1>14 DEF NextRound, ReportsOK, Outcomes, Stages, Unsaid, Kind
<1>15. CASE UNCHANGED all
  BY <1>15 DEF all, reports, ReportsOK
<1>. QED BY <1>2, <1>3, <1>4, <1>5, <1>6, <1>7, <1>8, <1>9, <1>10, <1>11, <1>12, <1>13, <1>14, <1>15 DEF RunNext

LEMMA GaveUp ==
    ASSUME GiveUp
    PROVE  /\ pc' = "done" /\ ~Passed' /\ UNCHANGED count /\ Solving' = Solving
           /\ pc = "edit" => verdict' = "refused"
BY DEF GiveUp, Say, Passed, Solving

LEMMA StageStep == TypeOK /\ ReportInv /\ [RunNext]_all => StageInv'
<1>. SUFFICES ASSUME TypeOK, ReportInv, [RunNext]_all PROVE StageInv'
  OBVIOUS
<1>0. StageInv /\ OutcomeInv
  BY DEF ReportInv
<1>. USE <1>0 DEF Ended
<1>1. ASSUME stage' = "over", GiveUp PROVE StageInv'
  BY <1>1, GaveUp DEF StageInv
<1>2. ASSUME UNCHANGED vars, stage' \in {"judge", "over", "told"}, stage' \in Ended => pc = "done"
      PROVE  StageInv'
  BY <1>2 DEF StageInv, vars, Solving
<1>3. CASE Begin
  <2>1. CASE stage' = "recon" /\ UNCHANGED vars
    BY <1>3, <2>1 DEF Begin, StageInv, vars, Solving
  <2>. QED BY <1>1, <1>3, <2>1 DEF Begin, Gone, Came
<1>4. CASE Recon
  <2>1. CASE stage' = "fix" /\ UNCHANGED vars
    BY <1>4, <2>1 DEF Recon, StageInv, vars, Solving
  <2>2. CASE stage' = "over" /\ RefusePlan
    BY <1>4, <2>2 DEF Recon, RefusePlan, StageInv, Solving
  <2>. QED BY <1>1, <1>4, <2>1, <2>2 DEF Recon, Came
<1>5. CASE Write
  <2>1. UNCHANGED stage /\ UNCHANGED pc /\ count'.rounds = count.rounds /\ count'.repairs = count.repairs
    BY <1>5 DEF Write, reports, Edit, TypeOK
  <2>. QED BY <2>1 DEF StageInv, Solving
<1>6. CASE Fix
  <2>1. CASE stage' = "simplify" /\ UNCHANGED vars
    BY <1>6, <2>1 DEF Fix, StageInv, vars, Solving
  <2>. QED BY <1>1, <1>6, <2>1 DEF Fix, Came
<1>7. CASE Simplify
  BY <1>1, <1>2, <1>7 DEF Simplify, Came
<1>8. CASE Review
  BY <1>1, <1>2, <1>8 DEF Review, Came
<1>9. CASE Judging
  <2>1. count'.rounds = count.rounds /\ count'.repairs = count.repairs
    BY <1>9, FaultTypes DEF Judging, Gate, Drop, Verify, Probe
  <2>2. stage = "judge" /\ stage' = "judge" /\ pc' \in {"drop", "verify", "probe", "done"}
    BY <1>9 DEF Judging, reports, Gate, Drop, Verify, Probe, Say
  <2>3. pc' = "drop" => pc = "edit"
    BY <1>9 DEF Judging, Gate, Drop, Verify, Probe, Say
  <2>. QED BY <2>1, <2>2, <2>3 DEF StageInv, Solving
<1>10. CASE Mended
  <2>1. count'.repairs = 1 /\ stage' = "repair" /\ pc' = "repair"
    BY <1>10 DEF Mended, Repair, TypeOK
  <2>. QED BY <2>1 DEF StageInv
<1>11. CASE RepairPass
  BY <1>1, <1>2, <1>11 DEF RepairPass
<1>12. CASE Conclude
  <2>1. stage' = "over" /\ pc' = "done"
    BY <1>12 DEF Conclude, Left, Withhold, vars
  <2>. QED BY <2>1 DEF StageInv
<1>13. CASE Escape
  <2>1. stage' = "over" /\ pc' = "done"
    BY <1>13 DEF Escape, Came, Withhold, vars, StageInv
  <2>. QED BY <2>1 DEF StageInv
<1>14. CASE SolveAgain
  <2>1. outcome.kind = "abandoned" /\ stage = "over" /\ Solving /\ stage' = "start" /\ pc' = "edit"
    BY <1>14 DEF SolveAgain, Retry
  <2>2. count.repairs = 0
    BY <2>1, CountTypes DEF OutcomeInv, EndOf
  <2>3. count'.rounds = count.rounds /\ count'.repairs = 0
    BY <1>14, <2>2, FaultTypes DEF SolveAgain, Retry
  <2>. QED BY <2>1, <2>3 DEF StageInv, Solving
<1>15. CASE Tell
  BY <1>2, <1>15 DEF Tell, StageInv
<1>16. CASE NextRound
  <2>1. stage' = "review" /\ pc' = "edit" /\ count'.rounds = count.rounds + 1 /\ count'.repairs = 0
    BY <1>16 DEF NextRound, Settle, TypeOK
  <2>. QED BY <2>1, CountTypes DEF StageInv, Solving
<1>17. CASE UNCHANGED all
  BY <1>17 DEF all, reports, vars, StageInv, Solving
<1>. QED BY <1>3, <1>4, <1>5, <1>6, <1>7, <1>8, <1>9, <1>10, <1>11, <1>12, <1>13, <1>14, <1>15, <1>16, <1>17 DEF RunNext

LEMMA OutcomeStep == TypeOK /\ RoundInv /\ ReportsOK /\ ReportInv /\ [RunNext]_all => OutcomeInv'
<1>. SUFFICES ASSUME TypeOK, RoundInv, ReportsOK, ReportInv, [RunNext]_all PROVE OutcomeInv'
  OBVIOUS
<1>0. StageInv /\ OutcomeInv /\ outcome \in Outcomes
  BY DEF ReportInv, ReportsOK, Outcomes
<1>. USE <1>0 DEF Ended
<1>1. ASSUME stage \notin Ended, stage' \notin Ended, UNCHANGED outcome PROVE OutcomeInv'
  BY <1>1 DEF OutcomeInv
(* A run that gave up in its round, not in a repair.                       *)
<1>2. ASSUME stage \notin Ended, pc = "edit", GiveUp \/ (RefusePlan /\ count.repairs = 0), stage' = "over",
             outcome'.mend = outcome.mend,
             outcome'.kind \in {"no-worktree", "unusable-base", "crashed", "refused", "bailed", "abandoned"},
             outcome'.kind = "abandoned" /\ Solving => outcome'.cause # "none",
             outcome'.kind = "bailed" => outcome'.detail \in {{"plan"}, {"blockers", "remedy"}}
      PROVE  OutcomeInv'
  <2>1. verdict' = "refused" /\ ~Passed' /\ Solving' = Solving /\ count'.repairs = 0 /\ outcome'.mend = "none"
    BY <1>2, GaveUp DEF RefusePlan, Passed, Solving, StageInv, OutcomeInv
  <2>. QED BY <1>2, <2>1 DEF OutcomeInv, EndOf
<1>3. ASSUME NEW k \in {"no-worktree", "unusable-base", "crashed", "refused"},
             stage \notin Ended, pc = "edit", Came(k), GiveUp
      PROVE  OutcomeInv'
  <2>1. outcome'.kind = k /\ outcome'.mend = outcome.mend /\ stage' = "over"
    BY <1>3 DEF Came, Outcomes
  <2>. QED BY <1>2, <1>3, <2>1
<1>4. CASE Begin
  BY <1>1, <1>3, <1>4 DEF Begin, Gone, StageInv
<1>5. CASE Recon
  <2>1. stage = "recon" /\ pc = "edit" /\ count.repairs = 0
    BY <1>5 DEF Recon, StageInv
  <2>2. CASE Came("crashed") /\ GiveUp
    BY <1>3, <2>1, <2>2
  <2>3. CASE stage' = "fix" /\ outcome' = [outcome EXCEPT !.read = TRUE]
    BY <2>1, <2>3 DEF OutcomeInv, Outcomes
  <2>4. CASE /\ RefusePlan /\ stage' = "over"
             /\ outcome' = [outcome EXCEPT !.kind = "bailed", !.read = TRUE, !.detail = {"plan"}]
    <3>1. outcome'.mend = outcome.mend /\ outcome'.kind = "bailed" /\ outcome'.detail = {"plan"}
      BY <2>4 DEF Outcomes
    <3>. QED BY <1>2, <2>1, <2>4, <3>1
  <2>5. ASSUME NEW a \in ReconRead, ~a.proceed, GiveUp, stage' = "over",
               outcome' = [outcome EXCEPT !.kind = "bailed", !.read = TRUE, !.detail = a.detail]
        PROVE  OutcomeInv'
    <3>1. outcome'.mend = outcome.mend /\ outcome'.kind = "bailed" /\ outcome'.detail = {"blockers", "remedy"}
      BY <2>5, ReadBails DEF Outcomes
    <3>. QED BY <1>2, <2>1, <2>5, <3>1
  <2>. QED BY <1>5, <2>2, <2>3, <2>4, <2>5 DEF Recon
<1>6. CASE Write
  BY <1>1, <1>6 DEF Write, reports
<1>7. CASE Fix
  <2>1. stage = "fix" /\ pc = "edit"
    BY <1>7 DEF Fix, StageInv
  <2>2. CASE Came("crashed") /\ GiveUp
    BY <1>3, <2>1, <2>2
  <2>3. ASSUME NEW a \in FixRead, a.abandoned, GiveUp, stage' = "over",
               outcome' = [outcome EXCEPT !.kind = "abandoned", !.cause = a.cause, !.left = tree # head]
        PROVE  OutcomeInv'
    <3>1. outcome'.mend = outcome.mend /\ outcome'.kind = "abandoned" /\ outcome'.cause # "none"
      BY <2>3, ReadGivesCause DEF Outcomes
    <3>. QED BY <1>2, <2>1, <2>3, <3>1
  <2>4. CASE stage' = "simplify" /\ UNCHANGED outcome
    BY <1>1, <2>1, <2>4
  <2>. QED BY <1>7, <2>2, <2>3, <2>4 DEF Fix
<1>8. CASE Simplify
  BY <1>1, <1>3, <1>8 DEF Simplify, StageInv
<1>9. CASE Review
  <2>1. stage = "review" /\ pc = "edit" /\ ~Solving
    BY <1>9 DEF Review, StageInv
  <2>2. CASE Came("abandoned") /\ GiveUp
    <3>1. outcome'.mend = outcome.mend /\ outcome'.kind = "abandoned" /\ stage' = "over"
      BY <2>2 DEF Came, Outcomes
    <3>. QED BY <1>2, <2>1, <2>2, <3>1
  <2>3. CASE Came("refused") /\ GiveUp
    BY <1>3, <2>1, <2>3
  <2>4. CASE stage' = "judge" /\ UNCHANGED outcome
    BY <1>1, <2>1, <2>4
  <2>. QED BY <1>9, <2>2, <2>3, <2>4 DEF Review
<1>10. CASE Judging \/ Mended
  BY <1>1, <1>10 DEF Judging, Mended, reports
<1>11. CASE RepairPass
  <2>1. stage = "repair" /\ pc = "repair" /\ count.repairs = 1
    BY <1>11 DEF RepairPass, StageInv
  <2>2. ASSUME NEW m \in {"crashed", "abandoned"}, GiveUp, stage' = "over",
               outcome' = [outcome EXCEPT !.kind = "failed", !.mend = m]
        PROVE  OutcomeInv'
    <3>1. outcome'.kind = "failed" /\ outcome'.mend = m
      BY <2>2 DEF Outcomes
    <3>. QED BY <2>1, <2>2, <3>1, GaveUp DEF OutcomeInv, EndOf
  <2>3. CASE stage' = "judge" /\ UNCHANGED outcome
    BY <1>1, <2>1, <2>3
  <2>. QED BY <1>11, <2>2, <2>3 DEF RepairPass
<1>12. CASE Conclude
  <2>1. /\ stage = "judge" /\ stage' = "over" /\ outcome.mend = "none"
        /\ verdict \in {"refused", "failed", "passed", "guarded", "vacuous"}
    BY <1>12 DEF Conclude, OutcomeInv, RoundInv, PhaseInv, TypeOK
  <2>2. CASE count.repairs = 0 /\ Passed /\ UNCHANGED vars /\ outcome' = [outcome EXCEPT !.kind = "verified"]
    <3>1. outcome'.kind = "verified" /\ outcome'.mend = "none"
      BY <2>1, <2>2 DEF Outcomes
    <3>. QED BY <2>1, <2>2, <3>1 DEF OutcomeInv, EndOf, vars, Passed
  <2>3. CASE count.repairs = 0 /\ ~Passed /\ Left /\ outcome' = [outcome EXCEPT !.kind = verdict]
    <3>1. outcome'.kind = verdict /\ outcome'.mend = "none"
      BY <2>1, <2>3 DEF Outcomes
    <3>. QED BY <2>1, <2>3, <3>1 DEF OutcomeInv, EndOf, Left, Passed
  <2>4. CASE /\ count.repairs = 1 /\ Passed /\ UNCHANGED vars
             /\ outcome' = [outcome EXCEPT !.kind = "verified", !.mend = "verified"]
    <3>1. outcome'.kind = "verified" /\ outcome'.mend = "verified"
      BY <2>4 DEF Outcomes
    <3>. QED BY <2>1, <2>4, <3>1 DEF OutcomeInv, EndOf, vars, Passed
  <2>5. CASE /\ count.repairs = 1 /\ Passed /\ Withhold
             /\ outcome' = [outcome EXCEPT !.kind = "failed", !.mend = "verified"]
    <3>1. outcome'.kind = "failed" /\ outcome'.mend = "verified"
      BY <2>5 DEF Outcomes
    <3>. QED BY <2>1, <2>5, <3>1 DEF OutcomeInv, EndOf, Withhold, Passed
  <2>6. CASE /\ count.repairs = 1 /\ ~Passed /\ Left
             /\ outcome' = [outcome EXCEPT !.kind = "failed", !.mend = verdict]
    <3>1. outcome'.kind = "failed" /\ outcome'.mend = verdict
      BY <2>6 DEF Outcomes
    <3>. QED BY <2>1, <2>6, <3>1 DEF OutcomeInv, EndOf, Left, Passed
  <2>. QED BY <1>12, <2>2, <2>3, <2>4, <2>5, <2>6 DEF Conclude
<1>13. CASE Escape
  <2>1. outcome'.kind = "escaped" /\ stage' = "over"
    BY <1>13 DEF Escape, Came, Outcomes
  <2>2. ~Passed'
    BY <1>13 DEF Escape, Withhold, Passed, vars
  <2>. QED BY <2>1, <2>2 DEF OutcomeInv, EndOf
<1>14. CASE SolveAgain \/ NextRound
  BY <1>14 DEF SolveAgain, NextRound, OutcomeInv, Open
<1>15. CASE Tell
  <2>1. /\ stage \in Ended /\ stage' \in Ended /\ UNCHANGED <<outcome, verdict, count>>
    BY <1>15 DEF Tell, vars
  <2>. QED BY <2>1 DEF OutcomeInv, EndOf, Passed, Solving
<1>16. CASE UNCHANGED all
  BY <1>16 DEF all, reports, vars, OutcomeInv, EndOf, Passed, Solving
<1>. QED BY <1>4, <1>5, <1>6, <1>7, <1>8, <1>9, <1>10, <1>11, <1>12, <1>13, <1>14, <1>15, <1>16 DEF RunNext

LEMMA ToldStep == ReportInv /\ ReportsOK /\ [RunNext]_all => ToldInv'
<1>. SUFFICES ASSUME ReportInv, ReportsOK, [RunNext]_all PROVE ToldInv'
  OBVIOUS
<1>1. CASE Tell
  <2>1. stage' = "told" /\ UNCHANGED <<outcome, count>>
    BY <1>1 DEF Tell, vars
  <2>2. CASE Solving
    <3>1. PICK said \in {Headline(outcome), "none"} :
             report' = [scored |-> Scored(outcome), repair |-> RepairRow(outcome), said |-> said,
                        detail |-> IF said = "none" THEN {} ELSE BailDetail(outcome)]
      BY <1>1, <2>2 DEF Tell
    <3>. QED BY <2>1, <2>2, <3>1 DEF ToldInv, Solving
  <2>3. CASE ~Solving
    <3>1. PICK row \in {RepairRow(outcome), "none"} : report' = [Unsaid EXCEPT !.repair = row]
      BY <1>1, <2>3 DEF Tell
    <3>2. report'.said = "none" /\ report'.scored = FALSE /\ report'.repair = row /\ ~Solving'
      BY <2>1, <2>3, <3>1 DEF Unsaid, Solving
    <3>. QED BY <2>1, <3>1, <3>2 DEF ToldInv
  <2>. QED BY <2>2, <2>3
<1>2. CASE UNCHANGED all
  BY <1>2 DEF all, reports, vars, ReportInv, ToldInv, Solving
<1>3. CASE Begin \/ Recon \/ Fix \/ Simplify \/ Review
  <2>1. stage' # "told"
    BY <1>3 DEF Begin, Recon, Fix, Simplify, Review, Gone, Came
  <2>. QED BY <2>1 DEF ToldInv
<1>4. CASE Write \/ Judging
  <2>1. stage' # "told"
    BY <1>4 DEF Write, Judging, reports
  <2>. QED BY <2>1 DEF ToldInv
<1>5. CASE Mended \/ RepairPass \/ Conclude \/ Escape \/ SolveAgain \/ NextRound
  <2>1. stage' # "told"
    BY <1>5 DEF Mended, RepairPass, Conclude, Escape, Came, SolveAgain, NextRound
  <2>. QED BY <2>1 DEF ToldInv
<1>. QED BY <1>1, <1>2, <1>3, <1>4, <1>5 DEF RunNext

LEMMA ReportInit == RunInit => ReportsOK /\ ReportInv
<1>. SUFFICES ASSUME RunInit PROVE ReportsOK /\ ReportInv
  OBVIOUS
<1>1. stage = "start" /\ pc = "edit" /\ count.rounds = 0 /\ count.repairs = 0 /\ outcome = Open
      /\ attempt = 1 /\ report = Unsaid
  BY DEF RunInit, Init
<1>2. ReportsOK
  BY <1>1 DEF ReportsOK, Stages, Open, Unsaid, Kind, Cause, Mend
<1>3. ReportInv
  BY <1>1 DEF ReportInv, StageInv, OutcomeInv, ToldInv, Ended, Solving, Open
<1>. QED BY <1>2, <1>3

LEMMA ReportInvariant == RunSpec => [](TypeOK /\ RoundInv /\ ReportsOK /\ ReportInv)
<1>. DEFINE Inv == TypeOK /\ RoundInv /\ ReportsOK /\ ReportInv
<1>1. RunInit => Inv
  BY TypeInit, RoundInit, ReportInit DEF RunInit
<1>2. Inv /\ [RunNext]_all => Inv'
  <2>. SUFFICES ASSUME Inv, [RunNext]_all PROVE Inv'
    OBVIOUS
  <2>1. TypeOK' /\ RoundInv'
    BY RunStepIsStep, TypeStep, RoundStep
  <2>2. ReportsOK'
    BY ReportTypesStep
  <2>3. ReportInv'
    BY StageStep, OutcomeStep, ToldStep DEF ReportInv
  <2>. QED BY <2>1, <2>2, <2>3
<1>. QED BY <1>1, <1>2, PTL DEF RunSpec

(* The types of a run: its round's, and what is said of it.                *)
THEOREM RunTypesCorrect == RunSpec => [](TypeOK /\ ReportsOK)
BY ReportInvariant, PTL

(* The comment on the ticket says what happened, whichever way the run     *)
(* ended and however often its solve was started over (reportOutcome).     *)
THEOREM CommentTellsTruth == RunSpec => []CommentIsTrue
<1>1. TypeOK /\ ReportsOK /\ ReportInv => CommentIsTrue
  <2>. SUFFICES ASSUME TypeOK, ReportsOK, ReportInv, stage = "told", report.said # "none"
                PROVE  /\ ~Passed
                       /\ report.said = "refused" => verdict = "refused" /\ count.repairs = 0
                       /\ report.said = "failed" => verdict = "failed" \/ count.repairs = 1
                       /\ report.said \in {"judgement", "environment"} => report.said = outcome.cause
                       /\ report.said = "bailed" => report.detail = {"plan"} \/ report.detail = {"blockers", "remedy"}
    BY DEF CommentIsTrue
  <2>1. /\ Solving /\ report.said = Headline(outcome) /\ report.detail = BailDetail(outcome)
        /\ EndOf(outcome)
    BY DEF ReportInv, ToldInv, OutcomeInv, Ended
  <2>2. outcome.kind # "verified" /\ outcome.kind \in Kind /\ outcome.cause \in Cause
    BY <2>1 DEF Headline, ReportsOK
  <2>3. ~Passed
    BY <2>1, <2>2 DEF EndOf
  <2>4. CASE outcome.kind = "abandoned"
    <3>1. report.said = outcome.cause /\ report.said \in {"judgement", "environment"}
      BY <2>1, <2>2, <2>4 DEF Headline, EndOf, Cause
    <3>. QED BY <2>3, <3>1
  <2>5. CASE outcome.kind # "abandoned"
    <3>1. report.said = outcome.kind
      BY <2>1, <2>2, <2>5 DEF Headline
    <3>2. report.said \notin {"judgement", "environment"}
      BY <2>2, <3>1 DEF Kind
    <3>. QED BY <2>1, <2>3, <3>1, <3>2 DEF EndOf, BailDetail
  <2>. QED BY <2>4, <2>5
<1>. QED BY <1>1, ReportInvariant, PTL

(* The pages score what happened, and a solve's repair has its row         *)
(* (feedback.ts, repair-ledger.ts).                                        *)
THEOREM PagesScoreFairly == RunSpec => []PagesAreFair
<1>1. TypeOK /\ ReportsOK /\ ReportInv => PagesAreFair
  <2>. SUFFICES ASSUME TypeOK, ReportsOK, ReportInv, stage = "told"
                PROVE  /\ report.scored => outcome.read /\ outcome.kind \notin {"crashed", "escaped"}
                       /\ Solving /\ outcome.kind # "escaped" => (report.repair # "none") = (count.repairs = 1)
                       /\ report.repair # "none" => (report.repair = "unread") = (outcome.mend = "verified")
                       /\ count.repairs = 1 /\ Passed => outcome.mend = "verified"
    BY DEF PagesAreFair
  <2>1. EndOf(outcome) /\ count.repairs \in 0..1
    BY CountTypes DEF ReportInv, OutcomeInv, Ended
  <2>2. /\ report.scored => Scored(outcome)
        /\ report.repair \in {"none", RepairRow(outcome)}
        /\ Solving => report.repair = RepairRow(outcome)
    BY DEF ReportInv, ToldInv
  <2>3. report.scored => outcome.read /\ outcome.kind \notin {"crashed", "escaped"}
    BY <2>2 DEF Scored
  <2>4. report.repair # "none" => (report.repair = "unread") = (outcome.mend = "verified")
    BY <2>2 DEF RepairRow
  <2>5. outcome.kind # "escaped" => (RepairRow(outcome) # "none") = (count.repairs = 1)
    BY <2>1 DEF EndOf, RepairRow
  <2>6. count.repairs = 1 /\ Passed => outcome.mend = "verified"
    BY <2>1 DEF EndOf
  <2>. QED BY <2>2, <2>3, <2>4, <2>5, <2>6
<1>. QED BY <1>1, ReportInvariant, PTL
=============================================================================
