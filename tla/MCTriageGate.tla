---------------------------- MODULE MCTriageGate ----------------------------
(* Answers of two families: any two lines of a report under one banner,    *)
(* with each footer and each call of fitness; and one body under many      *)
(* labels and deltas, some of them adding and removing one label.          *)
EXTENDS TriageGate, SequencesExt

Base == [verdict |-> "send-back", labels |-> {}, rows |-> {}, body |-> <<"banner", "text", "footer">>,
         keyed |-> TRUE, add |-> {}, remove |-> {}, component |-> "", create |-> TRUE,
         solvable |-> FALSE, plausible |-> FALSE, blockers |-> FALSE, repo |-> TRUE]
Ready == [Base EXCEPT !.verdict = "ready-ish", !.blockers = TRUE]
Solvable == [Base EXCEPT !.verdict = "ready-ish", !.solvable = TRUE]
Watched == [Base EXCEPT !.plausible = TRUE, !.blockers = TRUE]
Labelled(p, ls) == [p EXCEPT !.labels = ls, !.add = ls]
Calls == {Base, Ready, Labelled(Solvable, {"agent:solvable"}), Labelled(Watched, {"agent:watching"})}

Inner == SeqOf({"text", "sep", "legend", "yes", "watch"}, 2)
Bodies ==
    {<<"banner">> \o s \o <<"footer">> : s \in Inner}
    \cup {<<"banner">> \o s \o <<"tailfooter">> : s \in SeqOf({"text", "sep", "yes"}, 2)}
    \cup {<<"banner">> \o s \o <<"footer", "legend">> : s \in SeqOf({"legend", "no", "sep"}, 2)}
    \cup {<<>>, <<"text", "footer">>, <<"banner", "text">>, <<"banner", "footer", "text">>,
          <<"banner", "sep", "yes", "sep", "no", "legend", "footer">>, <<"yes", "banner", "text", "footer">>}
Reports == {[p EXCEPT !.body = b] : p \in Calls, b \in Bodies}

Deltas ==
    {<<a, r>> \in (SUBSET {"agent:solvable", "agent:watching", "dor:pass", "team:a"})
                  \X {{}, {"team:a"}, {"team:b"}, {"human"}, {"agent:watching"}} :
        Cardinality(a) <= 2}
Boards ==
    {[p EXCEPT !.labels = d[1], !.add = d[1], !.remove = d[2]] :
        p \in {Base, Ready, Solvable, Watched, [Base EXCEPT !.rows = {2}]}, d \in Deltas}
    \cup {[p EXCEPT !.labels = d[1] \cup {"agent:solvable"}, !.add = d[1], !.remove = d[2], !.create = c] :
        p \in {Base, Solvable}, d \in Deltas, c \in BOOLEAN}
Strays ==
    {[Base EXCEPT !.keyed = FALSE], [Base EXCEPT !.component = "other"], [Base EXCEPT !.component = "stream"],
     [Base EXCEPT !.add = {"dor:pass"}], [Base EXCEPT !.remove = {"agent:solving"}],
     [Base EXCEPT !.solvable = TRUE], [Base EXCEPT !.rows = {9}], [Ready EXCEPT !.rows = {11}],
     Labelled(Base, {"agent:start"}),
     [Labelled(Solvable, {"agent:solvable"}) EXCEPT !.repo = FALSE],
     [Labelled(Solvable, {"agent:solvable"}) EXCEPT !.rows = {2}],
     [Labelled(Solvable, {"agent:solvable"}) EXCEPT !.blockers = TRUE]}

MCPayloads == Reports \cup Boards \cup Strays
=============================================================================
