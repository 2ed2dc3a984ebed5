---------------------------- MODULE AgentLabels ----------------------------
(***************************************************************************)
(* The `agent:` label state machine as pure operators over a ticket's      *)
(* label set (src/src/solve/labels.ts), and the two helpers claim.ts       *)
(* builds on it.  A label is the string after `agent:`; "next" stands for  *)
(* a label outside that namespace, which updateLabels refuses to write.    *)
(***************************************************************************)

AgentLabel == {"solvable", "start", "solving", "reviewing", "review-done",
               "done", "closed", "failed", "watching"}
Label == AgentLabel \cup {"next"}

(* SOLVE_QUEUE_EXCLUDED_LABELS: out of the queue query, and unclaimable.   *)
QueueExcluded == {"solving", "reviewing", "review-done", "done", "closed", "failed"}
UnderReview   == {"reviewing", "review-done"}
Terminal      == {"done", "closed", "failed"}

(* Labels that no step of the solve pipeline owns: a person's, or triage's. *)
Bystander == {"watching", "next"}

ClaimAuthority == {"manual", "auto", "named"}
SelfAuthorising == {"auto", "named"}

LabelEdit == [add : SUBSET Label, remove : SUBSET Label]
Edit(a, r) == [add |-> a, remove |-> r]
NoEdit == Edit({}, {})

ApplyEdit(ls, e) == (ls \ e.remove) \cup e.add

(* eligibility(): asked by the queue, again by the claim, and by a start   *)
(* from Slack.                                                             *)
Eligible(ls, authority) ==
    /\ "solvable" \in ls
    /\ authority \in SelfAuthorising \/ "start" \in ls
    /\ ls \cap QueueExcluded = {}

(* claimTransition(): the claim on and the go-ahead off, in one edit.      *)
ClaimEditKeepsStart(ls) == Edit({"solving"}, {})
ClaimEdit(ls) == Edit({"solving"}, ls \cap {"start"})

(* Where a move of the labels is headed.  "review" is reviewTransition,    *)
(* "reviewing" and "review-done" are reviewStageTransition, and the three  *)
(* terminals are completionTransition.                                     *)
Goal == {"review", "reviewing", "review-done", "done", "closed", "failed"}

(* LabelStateError, and for an ended pull request the caller's isTerminal  *)
(* test: the board has moved and the labels are left alone.                *)
MoveRefused(goal, ls) ==
    \/ goal = "review" /\ "solving" \notin ls
    \/ goal \in UnderReview /\ ls \cap UnderReview = {}
    \/ goal \in {"done", "closed"} /\ ls \cap Terminal # {}

MoveEdit(goal, ls) ==
    CASE goal = "review"      -> Edit({"reviewing"}, {"solving"})
      [] goal \in UnderReview -> Edit({goal} \ ls, ls \cap (UnderReview \ {goal}))
      [] OTHER                -> Edit({goal}, ls \cap ({"solving"} \cup UnderReview))

(* diffEdit() agreeing: the delta took, whatever else is on the ticket.    *)
Took(e, ls) == e.add \subseteq ls /\ e.remove \cap ls = {}

(* releaseClaim()'s delta, derived from the receipt: the set read before   *)
(* the claim write and the set read back after it.                         *)
ReleaseEditOnlyRemoves(before, after) == Edit({}, after \ before)
ReleaseEdit(before, after) == Edit(before \ after, after \ before)

(* assertOwnedLabel over an edit: updateLabels throws, sending nothing.    *)
Writable(e) == e.add \cup e.remove \subseteq AgentLabel
=============================================================================
