-------------------------- MODULE TicketLifecycle --------------------------
(***************************************************************************)
(* What the solve side promises a reader of the board, one ticket at a     *)
(* time: a ticket is claimed within the concurrency limit, and a claim     *)
(* ends as a pull request under review, as a verdict, or as if it had not  *)
(* been made.  A ticket with an open pull request is claimed or under      *)
(* review, and leaves review only as what became of that pull request.     *)
(* SolveQueue implements it (LifecycleImplemented there).                  *)
(***************************************************************************)
EXTENDS Naturals, FiniteSets

CONSTANTS Tickets, MaxClaimed

VARIABLES stage, pr
lifecycle == <<stage, pr>>

Stage == {"open", "claimed", "review", "failed", "merged", "closed"}

TypeInv ==
    /\ stage \in [Tickets -> Stage]
    /\ pr \in [Tickets -> {"none", "open", "merged", "closed"}]

LifecycleInit ==
    /\ stage = [t \in Tickets |-> "open"]
    /\ pr = [t \in Tickets |-> "none"]

Move(t, from, to) == stage[t] = from /\ stage' = [stage EXCEPT ![t] = to]

Claim(t) ==
    /\ pr[t] # "open"
    /\ Cardinality({u \in Tickets : stage[u] = "claimed"}) < MaxClaimed
    /\ Move(t, "open", "claimed") /\ UNCHANGED pr

OpenPr(t) ==
    /\ stage[t] = "claimed" /\ pr[t] # "open"
    /\ pr' = [pr EXCEPT ![t] = "open"] /\ UNCHANGED stage

EndPr(t, s) ==
    /\ pr[t] = "open"
    /\ pr' = [pr EXCEPT ![t] = s] /\ UNCHANGED stage

HandOn(t)   == pr[t] # "none" /\ Move(t, "claimed", "review") /\ UNCHANGED pr
Decide(t)   == pr[t] # "open" /\ Move(t, "claimed", "failed") /\ UNCHANGED pr
GiveBack(t) == pr[t] # "open" /\ Move(t, "claimed", "open") /\ UNCHANGED pr
Record(t)   == pr[t] \in {"merged", "closed"} /\ Move(t, "review", pr[t]) /\ UNCHANGED pr
Clear(t)    == /\ \E s \in {"failed", "merged", "closed"} : Move(t, s, "open")
               /\ UNCHANGED pr

LifecycleNext ==
    \E t \in Tickets :
        \/ Claim(t) \/ OpenPr(t) \/ HandOn(t) \/ Decide(t) \/ GiveBack(t)
        \/ Record(t) \/ Clear(t)
        \/ \E s \in {"merged", "closed"} : EndPr(t, s)

LifecycleSpec == LifecycleInit /\ [][LifecycleNext]_lifecycle
=============================================================================
