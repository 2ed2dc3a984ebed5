----------------------------- MODULE PullRequest -----------------------------
(***************************************************************************)
(* What the git side of a ticket promises to those who read its pull       *)
(* request: its branch only grows, by what they push, what the base has, a *)
(* merge of the two, and changes by passes in a push of exactly what was   *)
(* judged; and it opens on exactly what was judged.  What a pass gave up,  *)
(* left in a checkout or had refused has no way onto it.                   *)
(* SolvePipeline implements it (PullRequestKept there).                    *)
(***************************************************************************)

CONSTANT Changes

VARIABLES
    main,      \* the base branch
    shown,     \* the pull request's branch on origin
    opened,    \* the pull request exists
    standing,  \* changes by passes that nothing has given up
    judged     \* what the gate and verify last let through

promised == <<main, shown, opened, standing, judged>>

PullRequestInit ==
    /\ main # {} /\ main \subseteq Changes
    /\ shown = {} /\ opened = FALSE /\ standing = {} /\ judged = {}

Unseen(w) == w \in Changes /\ w \notin main \cup shown \cup standing

MainMoves ==
    /\ \E w \in Changes : Unseen(w) /\ main' = main \cup {w}
    /\ UNCHANGED <<shown, opened, standing, judged>>

PersonAdds ==
    /\ opened
    /\ \E w \in Changes : Unseen(w) /\ shown' \in {shown \cup {w}, shown \cup main \cup {w}}
    /\ UNCHANGED <<main, opened, standing, judged>>

PassWrites ==
    /\ \E w \in Changes : Unseen(w) /\ standing' = standing \cup {w}
    /\ UNCHANGED <<main, shown, opened, judged>>

GiveUp == standing' \subseteq standing /\ UNCHANGED <<main, shown, opened, judged>>

JudgeIt == judged' \subseteq Changes /\ UNCHANGED <<main, shown, opened, standing>>

(* What is new on the branch is the base's, a pass's, or one merge commit. *)
Publish ==
    /\ shown \subseteq shown'
    /\ \E m \in Changes : shown' \subseteq shown \cup main \cup standing \cup {m}
    /\ (shown' \ shown) \cap standing # {} => shown' = judged
    /\ UNCHANGED <<main, opened, standing, judged>>

OpenIt ==
    /\ ~opened /\ shown = judged /\ shown \cap standing # {}
    /\ opened' = TRUE /\ UNCHANGED <<main, shown, standing, judged>>

PullRequestNext ==
    MainMoves \/ PersonAdds \/ PassWrites \/ GiveUp \/ JudgeIt \/ Publish \/ OpenIt

PullRequestSpec == PullRequestInit /\ [][PullRequestNext]_promised
=============================================================================
