---------------------------- MODULE MCSolveGates ----------------------------
(* A small instance of SolveReports: a dependency's version, a plugin's      *)
(* setting and one property, from bases that use it in different spellings. *)
EXTENDS SolveReports

MCElements == {"dep", "skip", "prop"}
MCPlace == [e \in MCElements |->
    CASE e = "dep" -> "dependency" [] e = "skip" -> "other" [] e = "prop" -> "property"]
MCValues == {"1", "2", "2-SNAPSHOT", "true"}
MCVersions == MCValues \ {"true"}
MCMutable == {"2-SNAPSHOT"}

Is(v) == [form |-> "value", of |-> v]
Uses(f) == [form |-> f, of |-> "prop"]
APom(dep, skip) ==
    [text |-> [e \in MCElements |->
                 CASE e = "dep" -> dep [] e = "skip" -> skip [] e = "prop" -> Is("1")],
     gone |-> {}, said |-> {},
     rest |-> [there |-> TRUE, plain |-> TRUE, id |-> FALSE, outside |-> FALSE, lines |-> 1]]
Files(manifest) == [p \in Paths |-> IF p = "manifest" /\ ~manifest THEN "absent" ELSE "old"]
ABase(pom) == [tree |-> [pom |-> pom, files |-> Files(FALSE)], others |-> FALSE, bumps |-> TRUE]

(* One property, used as a dependency's version and by a plugin.          *)
Poms == {APom(Uses("whole"), skip) : skip \in {Is("true"), Uses("joined"), Uses("char")}}
          \cup {APom(Uses("noted"), Is("true"))}
Plain == ABase(APom(Uses("whole"), Is("true")))
MCBases ==
    {ABase(pom) : pom \in Poms}
      \cup {[Plain EXCEPT !.others = TRUE], [Plain EXCEPT !.bumps = FALSE],
            [Plain EXCEPT !.tree.files = Files(TRUE), !.tree.pom.rest.there = FALSE]}
=============================================================================
