------------------------- MODULE SolvePipelineProofs -------------------------
(* The types of SolvePipeline, where its checkout is at each step, what a pass *)
(* starts from, what reaches origin, what is never lost, and that what readers *)
(* of a pull request see of it is what PullRequest promises.                   *)
EXTENDS SolvePipeline, TLAPS


AtCheckout ==
    {"base", "recon", "fix", "simplify",
     "sync", "syncAbort", "syncQuit", "syncPush", "syncUndo", "reserve",
     "mergeReserve", "mergeBegin", "resolve", "accept", "mergeVerify", "mergeCommit",
     "mergePush", "mergeUndo", "mergeAbort",
     "review", "gate", "dropEdits", "verify", "boundary", "repair", "commit", "push",
     "remove", "retryRemove"}

(* What is cut, attached or undone to is a branch that has been written.       *)
Written ==
    /\ base # {} /\ seenBase # {}
    /\ open \/ pc = "open" => remote # {}
    /\ run = "round" => open
    /\ run = "round" /\ pc \notin {"idle", "fetch", "refused"} => seen # {}
    /\ pc \in {"syncPush", "syncUndo", "resolve", "accept", "mergeVerify", "mergeCommit",
              "mergePush", "mergeUndo"} => orig # {}
    /\ pc # "idle" => run # "none"

(* The steps of a run stand in the checkout, and a branch goes after it.       *)
Placed ==
    /\ pc \in AtCheckout => tree.at = "branch"
    /\ pc \in {"drop", "add", "delete", "retryDelete"} => tree = NoTree
    /\ pc = "move" => tree.at = "detached"
    /\ pc = "moveHeld" => tree.at = "detached" /\ tree.head = branch

(* The Booleans, apart from the rest: the solver that does sets does not   *)
(* do these.                                                               *)
Flags == open \in BOOLEAN /\ hurt \in BOOLEAN

Types ==
    /\ base \in Histories /\ remote \in Histories /\ seenBase \in Histories
    /\ seen \in Histories /\ branch \in Histories /\ orig \in Histories
    /\ aside \in Histories /\ works \in Histories /\ gated \in Histories /\ checked \in Histories
    /\ tree \in Tree /\ (tree.at = "none" => tree = NoTree) /\ (tree.at = "branch" => branch # {})
    /\ pc \in Pc /\ run \in {"none", "solve", "round"} /\ attempt \in {1, 2}
    /\ mend \in {"no", "apart", "blended"}
    /\ edits \in 0..MaxEdits /\ faults \in 0..MaxFaults

(* The inductive invariant: the types hold only because a branch that is   *)
(* attached, cut from or undone to has been written, and each step is      *)
(* where its checkout is.                                                  *)
TypeInv == Flags /\ Types /\ Written /\ Placed

(* What the gate sees is a history.                                        *)
LEMMA ContentType == ASSUME Types PROVE Content \in Histories /\ Tip \subseteq Content
                     /\ Tip \in Histories /\ tree.dirt \in Histories /\ tree.incoming \in Histories
  BY DEF Types, Content, Tip, Tree, Histories

(* A new name is one nothing holds.                                        *)
LEMMA NewName == ASSUME NEW w, New(w) PROVE w \in Changes /\ w \notin Used
  BY DEF New

(* A pass edits a checkout without moving it, and what it adds is new and  *)
(* in the checkout.                                                        *)
LEMMA EditsKeep ==
    ASSUME Types, Edits
    PROVE  /\ tree' \in Tree /\ works' \in Histories /\ edits' \in 0..MaxEdits
           /\ tree'.at = tree.at /\ tree'.head = tree.head
           /\ tree'.merge = tree.merge /\ tree'.incoming = tree.incoming
           /\ works \subseteq works' /\ (works' \ works) \cap Used = {}
           /\ works' \ works \subseteq tree'.dirt /\ tree.dirt \subseteq tree'.dirt
  <1>1. CASE UNCHANGED <<tree, works, edits>>
    BY <1>1 DEF Types
  <1>2. ASSUME NEW w \in Changes, edits < MaxEdits, edits' = edits + 1,
               tree' = [tree EXCEPT !.dirt = @ \cup {w}], works' = works \cup {w}
        PROVE  /\ tree' \in Tree /\ works' \in Histories /\ edits' \in 0..MaxEdits
               /\ tree'.at = tree.at /\ tree'.head = tree.head
               /\ tree'.merge = tree.merge /\ tree'.incoming = tree.incoming
               /\ tree'.dirt = tree.dirt \cup {w}
    BY <1>2, BoundsAssumption DEF Types, Tree, Histories
  <1> QED
    BY <1>1, <1>2 DEF Edits, New

(* A commit takes the edits into the branch.                               *)
LEMMA CommittedKeeps ==
    ASSUME Types, Committed
    PROVE  /\ tree' \in Tree /\ branch' \in Histories /\ branch' = branch \cup tree.dirt
           /\ tree'.at = tree.at /\ tree'.head = tree.head /\ tree'.dirt = {}
           /\ tree'.merge = tree.merge /\ tree'.incoming = tree.incoming
  BY DEF Types, Committed, Tree, Histories

(* A merge that goes through is on the branch alone.                       *)
LEMMA MergedKeeps ==
    ASSUME Types, NEW w \in Changes, Merged(w)
    PROVE  /\ branch' \in Histories /\ branch' # {} /\ branch' = branch \cup seenBase \cup {w}
           /\ orig' = branch /\ tree' = tree
  BY DEF Types, Merged, Histories

(* A merge that conflicts is in the checkout alone.                        *)
LEMMA ConflictsKeeps ==
    ASSUME Types, NEW w \in Changes, Conflicts(w)
    PROVE  /\ tree' \in Tree /\ branch' = branch /\ orig' = branch
           /\ tree'.at = tree.at /\ tree'.head = tree.head /\ tree'.dirt = tree.dirt
           /\ tree'.incoming = seenBase \cup {w} /\ tree'.merge = "unmerged"
  BY DEF Types, Conflicts, Histories, Tree

(* Aborting it leaves the checkout where it was.                           *)
LEMMA AbortedKeeps ==
    ASSUME Types, NEW d \in {{}, tree.dirt}, Aborted(d)
    PROVE  /\ tree' \in Tree /\ works' \in Histories /\ works' = works \ (tree.dirt \ d)
           /\ tree'.at = tree.at /\ tree'.head = tree.head /\ tree'.dirt = d
           /\ tree'.merge = "no" /\ tree'.incoming = {}
  BY DEF Types, Aborted, Histories, Tree

(* A detached checkout keeps what the branch and the edits held.           *)
LEMMA DetachedKeeps ==
    ASSUME Types
    PROVE  /\ Detached \in Tree /\ Detached.at = "detached" /\ Detached.head = branch
           /\ Detached.dirt = tree.dirt /\ Detached.merge = "no" /\ Detached.incoming = {}
  BY DEF Types, Detached, Histories, Tree

(* The two checkouts that hold nothing.                                    *)
LEMMA Places ==
    /\ NoTree \in Tree /\ NoTree.at = "none" /\ NoTree.head = {} /\ NoTree.dirt = {}
    /\ Fresh \in Tree /\ Fresh.at = "branch" /\ Fresh.head = {} /\ Fresh.dirt = {}
    /\ NoTree.merge = "no" /\ Fresh.merge = "no" /\ NoTree.incoming = {} /\ Fresh.incoming = {}
  BY DEF NoTree, Fresh, Tree, Histories

(* Histories are closed under union and difference.                        *)
LEMMA HistoryOps ==
    /\ {} \in Histories
    /\ \A g, h \in Histories : g \cup h \in Histories /\ g \ h \in Histories
    /\ \A w \in Changes : {w} \in Histories
  BY DEF Histories

(* Staging a resolution changes only that the merge is resolved.           *)
LEMMA AcceptedKeeps ==
    ASSUME Types
    PROVE  LET t == [tree EXCEPT !.merge = "resolved"] IN
           /\ t \in Tree /\ t.at = tree.at /\ t.head = tree.head /\ t.dirt = tree.dirt
           /\ t.incoming = tree.incoming /\ t.merge = "resolved"
  BY DEF Types, Tree

(* Rolling edits back changes only the edits.                              *)
LEMMA DroppedKeeps ==
    ASSUME Types
    PROVE  LET t == [tree EXCEPT !.dirt = {}] IN
           /\ t \in Tree /\ t.at = tree.at /\ t.head = tree.head /\ t.dirt = {}
           /\ t.incoming = tree.incoming /\ t.merge = tree.merge
  BY DEF Types, Tree, Histories

(* Every step keeps the Booleans.                                          *)
LEMMA FlagsStep == TypeInv /\ [Next]_vars => Flags'
<1> SUFFICES ASSUME TypeInv, [Next]_vars
             PROVE  Flags'
  OBVIOUS
<1> USE DEF TypeInv, Flags, Fine, Fail, luck, origin
<1>1. CASE People
  BY <1>1, Zenon DEF People, PersonPushes, BaseMoves
<1>2. CASE Attach
  BY <1>2, Zenon DEF Attach, Fetch, Cut, Detach, Move, DropBranch, Add, Refused
<1>3. CASE Passed
  BY <1>3, Zenon DEF Passed, VerifyBase, Recon, Fix, Simplify, ReviewPass, RepairPass
<1>4. CASE Judge
  BY <1>4, Zenon DEF Judge, Gate, DropEdits, Verify, Boundary
<1>5. CASE Land
  BY <1>5, Zenon DEF Land, Commit, Push, OpenPr, PushFails
<1>6. CASE Merge
  BY <1>6, Zenon DEF Merge, Sync, ReserveRound, MergeBegin, Resolve, AcceptResolution,
     MergeVerify, MergeCommit, MergePush, PushFails, MergeUndo, AbortMerge
<1>7. CASE Start \/ Remove \/ Delete \/ Crash
  BY <1>7, Zenon DEF Start, Remove, Delete, Crash
<1>8. CASE UNCHANGED vars
  BY <1>8, Zenon DEF vars
<1> QED
  BY <1>1, <1>2, <1>3, <1>4, <1>5, <1>6, <1>7, <1>8 DEF Next

(* Every step keeps the other types, and the facts they rest on.           *)
LEMMA TypesStep == TypeInv /\ [Next]_vars => Types' /\ Written' /\ Placed'
<1> SUFFICES ASSUME TypeInv, [Next]_vars
             PROVE  Types' /\ Written' /\ Placed'
  OBVIOUS
<1> USE ChangesAssumption, BoundsAssumption, Places, HistoryOps
<1> USE DEF TypeInv, Types, Written, Placed, AtCheckout, Pc, Goto, Rest, Fine, Fail,
            origin, refs, disk, control, ghosts, luck
<1>1. CASE PersonPushes
  <2>1. remote' \in Histories /\ remote' # {}
    BY <1>1, NewName DEF PersonPushes, Histories
  <2>2. /\ edits' \in 0..MaxEdits
        /\ UNCHANGED <<base, open, refs, disk, pc, control, works, gated, checked, luck>>
    BY <1>1 DEF PersonPushes
  <2> QED
    BY <2>1, <2>2
<1>2. CASE BaseMoves
  <2>1. base' \in Histories /\ base' # {}
    BY <1>2, NewName DEF BaseMoves, Histories
  <2>2. /\ edits' \in 0..MaxEdits
        /\ UNCHANGED <<remote, open, refs, disk, pc, control, works, gated, checked, luck>>
    BY <1>2 DEF BaseMoves
  <2> QED
    BY <2>1, <2>2
<1>3. CASE Start
  BY <1>3 DEF Start
<1>4. CASE Fetch
  BY <1>4 DEF Fetch
<1>5. CASE Cut
  BY <1>5 DEF Cut, Reusable
<1>6. CASE Detach
  BY <1>6, DetachedKeeps DEF Detach
<1>7. CASE Move
  <2>1. tree' \in {tree, NoTree} /\ orig' \in Histories /\ aside' \in Histories
    BY <1>7, ContentType DEF Move, Histories
  <2>2. /\ pc \in {"move", "moveHeld"}
        /\ pc' = "refused" \/ (tree' = NoTree /\ pc' \in {"drop", "add"})
        /\ faults' \in 0..MaxFaults /\ UNCHANGED <<origin, refs, control, ghosts>>
    BY <1>7 DEF Move
  <2>3. Types'
    BY <2>1, <2>2
  <2> QED
    BY <2>1, <2>2, <2>3
<1>8. CASE DropBranch
  BY <1>8 DEF DropBranch
<1>9. CASE Add
  BY <1>9 DEF Add, Source
<1>10. CASE Refused
  BY <1>10 DEF Refused
<1>11. CASE VerifyBase
  BY <1>11 DEF VerifyBase
<1>12. CASE Recon
  BY <1>12 DEF Recon
<1>13. CASE Fix
  BY <1>13, EditsKeep DEF Fix
<1>14. CASE Simplify
  BY <1>14, EditsKeep DEF Simplify
<1>15. CASE ReviewPass
  BY <1>15, EditsKeep DEF ReviewPass
<1>16. CASE RepairPass
  BY <1>16, EditsKeep DEF RepairPass
<1>17. CASE Gate
  BY <1>17, ContentType DEF Gate
<1>18. CASE DropEdits
  <2>1. /\ tree' \in Tree /\ tree'.at = tree.at /\ tree'.at = "branch"
        /\ works' \in Histories /\ gated' \in Histories
    BY <1>18, DroppedKeeps, ContentType DEF DropEdits, Histories
  <2>2. /\ pc = "dropEdits"
        /\ Rest \/ Goto("verify")
        /\ faults' \in 0..MaxFaults /\ UNCHANGED <<origin, refs, orig, aside, checked, edits>>
    BY <1>18 DEF DropEdits
  <2>3. Types'
    BY <2>1, <2>2
  <2> QED
    BY <2>1, <2>2, <2>3
<1>19. CASE Verify
  BY <1>19, ContentType DEF Verify, Passes
<1>20. CASE Boundary
  BY <1>20, CommittedKeeps DEF Boundary, Uncommitted
<1>21. CASE Commit
  BY <1>21, CommittedKeeps DEF Commit, Uncommitted, End
<1>22. CASE Push
  BY <1>22 DEF Push, Pushed, PushFails, Accepted, End
<1>23. CASE OpenPr
  <2>1. UNCHANGED <<faults, hurt>> \/ (faults < MaxFaults /\ faults' = faults + 1)
    BY <1>23, Zenon DEF OpenPr
  <2>2. faults' \in 0..MaxFaults
    BY <2>1
  <2>3. Rest /\ UNCHANGED <<base, remote, refs, disk, ghosts>>
    BY <1>23 DEF OpenPr
  <2>4. Types'
    BY <2>2, <2>3
  <2>5. Written' /\ Placed'
    BY <1>23 DEF OpenPr
  <2> QED
    BY <2>4, <2>5
<1>24. CASE Sync
  BY <1>24, MergedKeeps, ConflictsKeeps DEF Sync, NotMerged
<1>25. CASE ReserveRound
  BY <1>25 DEF ReserveRound
<1>26. CASE MergeBegin
  BY <1>26, MergedKeeps, ConflictsKeeps DEF MergeBegin, NotMerged
<1>27. CASE Resolve
  BY <1>27, EditsKeep DEF Resolve
<1>28. CASE AcceptResolution
  BY <1>28, ContentType, AcceptedKeeps DEF AcceptResolution
<1>29. CASE MergeVerify
  BY <1>29, ContentType DEF MergeVerify, Passes
<1>30. CASE MergeCommit
  <2>1. /\ branch' \in {branch, Content} /\ tree' \in {tree, Fresh}
        /\ pc' \in {"mergePush", "mergeAbort"} /\ UNCHANGED control
        /\ faults' \in 0..MaxFaults /\ UNCHANGED <<origin, seenBase, seen, orig, aside, ghosts>>
    BY <1>30 DEF MergeCommit, Uncommitted
  <2>2. branch' \in Histories /\ branch' # {}
    BY <1>30, <2>1, ContentType DEF MergeCommit, Tip
  <2> QED
    BY <1>30, <2>1, <2>2 DEF MergeCommit
<1>31. CASE MergePush
  BY <1>31 DEF MergePush, Pushed, PushFails, Accepted
<1>32. CASE MergeUndo
  <2>1. branch' \in Histories /\ branch' # {} /\ works' \in Histories
    BY <1>32 DEF MergeUndo, Histories
  <2>2. /\ pc' \in {"unsynced", "remove"} /\ UNCHANGED control /\ faults' \in 0..MaxFaults
        /\ UNCHANGED <<origin, seenBase, seen, disk, gated, checked, edits>>
    BY <1>32 DEF MergeUndo
  <2> QED
    BY <1>32, <2>1, <2>2 DEF MergeUndo
<1>33. CASE AbortMerge
  BY <1>33, AbortedKeeps DEF AbortMerge, AfterAbort
<1>34. CASE Remove
  BY <1>34 DEF Remove
<1>35. CASE Delete
  BY <1>35 DEF Delete
<1>36. CASE Crash
  BY <1>36 DEF Crash
<1>37. CASE UNCHANGED vars
  BY <1>37 DEF vars
<1> QED
    BY <1>1, <1>2, <1>3, <1>4, <1>5, <1>6, <1>7, <1>8, <1>9, <1>10, <1>11, <1>12, <1>13,
     <1>14, <1>15, <1>16, <1>17, <1>18, <1>19, <1>20, <1>21, <1>22, <1>23, <1>24, <1>25,
     <1>26, <1>27, <1>28, <1>29, <1>30, <1>31, <1>32, <1>33, <1>34, <1>35, <1>36, <1>37
     DEF Next, People, Attach, Passed, Judge, Land, Merge

(* The initial state has the types.                                        *)
LEMMA TypeInit == Init => TypeInv
<1> SUFFICES ASSUME Init
             PROVE  TypeInv
  OBVIOUS
<1>1. base \in Histories /\ base # {}
  BY DEF Init, Histories
<1>2. Flags
  BY Zenon DEF Init, Flags
<1>3. Types
  BY <1>1, HistoryOps, Places, BoundsAssumption DEF Init, Types, Pc
<1>4. Written /\ Placed
  BY <1>1, Places DEF Init, Written, Placed, AtCheckout
<1> QED
  BY <1>2, <1>3, <1>4 DEF TypeInv

(* The types of every variable, and with them where the checkout is.       *)
THEOREM TypeInvariant == Spec => []TypeInv
<1>1. TypeInv /\ [Next]_vars => TypeInv'
  BY FlagsStep, TypesStep DEF TypeInv
<1> QED
  BY <1>1, TypeInit, PTL DEF Spec

(* The type invariant of the solve pipeline: a checkout's record is whole, *)
(* a checkout on a branch has one, and the bounds are kept.                *)
THEOREM PipelineTypeCorrect == Spec => []TypeOK
<1>1. TypeInv => TypeOK
  <2> SUFFICES ASSUME TypeInv
               PROVE  TypeOK
    OBVIOUS
  <2>1. open \in BOOLEAN /\ hurt \in BOOLEAN
    BY Zenon DEF TypeInv, Flags
  <2> QED
    BY <2>1, Zenon DEF TypeInv, Types, TypeOK
<1> QED
  BY <1>1, TypeInvariant, PTL

---------------------------------------------------------------------------
(* Nothing a pass wrote is in the base, nor in what a merge brings in.         *)
Apart ==
    /\ base \cap works = {} /\ seenBase \subseteq base
    /\ tree.incoming \cap works = {} /\ (tree.merge = "no" => tree.incoming = {})

Tracked == seen \subseteq remote

(* A run begins on what it fetched.                                            *)
Starts ==
    /\ pc \in {"base", "recon", "fix"} => Clean /\ branch = seenBase /\ run = "solve"
    /\ pc \in {"sync", "reserve", "review"} => Clean /\ branch = seen
    /\ pc = "syncPush" => Clean /\ branch \cap works \subseteq seen
    /\ pc \in {"syncAbort", "mergeReserve", "mergeBegin", "resolve"} =>
           branch = seen /\ tree.dirt = {}

(* What the gate and verify judged is still what the checkout holds.           *)
Judged ==
    /\ pc \in {"simplify", "gate", "dropEdits", "verify", "boundary", "repair", "commit"} =>
           tree.merge = "no"
    /\ pc \in {"verify", "mergeVerify"} => gated = Content
    /\ pc \in {"commit", "mergeCommit"} => checked = Content
    /\ pc = "push" => branch = checked
    /\ pc = "mergePush" => branch = checked \/ branch \cap works \subseteq seen

(* A branch is dropped when what it held is in a checkout moved aside.         *)
Held == NothingLost /\ (pc = "drop" => branch \subseteq aside)

(* The inductive invariant of what follows.                                *)
SafeInv == Apart /\ Tracked /\ Starts /\ Judged /\ Held

(* Every step keeps it.                                                    *)
LEMMA SafeStep == TypeInv /\ SafeInv /\ [Next]_vars => SafeInv'
<1> SUFFICES ASSUME TypeInv, SafeInv, [Next]_vars
             PROVE  SafeInv'
  OBVIOUS
<1> USE Places
<1> USE DEF TypeInv, Types, Placed, AtCheckout, SafeInv, Apart, Tracked, Starts, Judged, Held,
            NothingLost, Content, Tip, Clean,
            Goto, Rest, Fine, Fail, origin, refs, disk, control, ghosts, luck
<1>1. CASE PersonPushes
  BY <1>1 DEF PersonPushes, New, Used
<1>2. CASE BaseMoves
  BY <1>2 DEF BaseMoves, New, Used
<1>3. CASE Start
  BY <1>3 DEF Start
<1>4. CASE Fetch
  BY <1>4 DEF Fetch
<1>5. CASE Cut
  BY <1>5 DEF Cut, Reusable, Clean
<1>6. CASE Detach
  BY <1>6, DetachedKeeps DEF Detach
<1>7. CASE Move
  BY <1>7 DEF Move
<1>8. CASE DropBranch
  BY <1>8 DEF DropBranch
<1>9. CASE Add
  BY <1>9 DEF Add, Source, Clean
<1>10. CASE Refused
  BY <1>10 DEF Refused
<1>11. CASE VerifyBase
  BY <1>11 DEF VerifyBase
<1>12. CASE Recon
  BY <1>12 DEF Recon
<1>13. CASE Fix
  BY <1>13, EditsKeep DEF Fix, Used, Clean
<1>14. CASE Simplify
  BY <1>14, EditsKeep DEF Simplify, Used, Clean
<1>15. CASE ReviewPass
  BY <1>15, EditsKeep DEF ReviewPass, Used, Clean
<1>16. CASE RepairPass
  BY <1>16, EditsKeep DEF RepairPass, Used, Clean
<1>17. CASE Gate
  BY <1>17 DEF Gate
<1>18. CASE DropEdits
  BY <1>18, DroppedKeeps DEF DropEdits
<1>19. CASE Verify
  BY <1>19 DEF Verify, Passes
<1>20. CASE Boundary
  BY <1>20, CommittedKeeps DEF Boundary, Uncommitted
<1>21. CASE Commit
  BY <1>21, CommittedKeeps DEF Commit, Uncommitted, End
<1>22. CASE Push
  BY <1>22 DEF Push, Pushed, PushFails, Accepted, End
<1>23. CASE OpenPr
  BY <1>23 DEF OpenPr
<1>24. CASE Sync
  BY <1>24, MergedKeeps, ConflictsKeeps DEF Sync, NotMerged, New, Used, Clean
<1>25. CASE ReserveRound
  BY <1>25 DEF ReserveRound
<1>26. CASE MergeBegin
  BY <1>26, MergedKeeps, ConflictsKeeps DEF MergeBegin, NotMerged, New, Used, Clean
<1>27. CASE Resolve
  BY <1>27, EditsKeep DEF Resolve, Used, Clean
<1>28. CASE AcceptResolution
  BY <1>28, AcceptedKeeps DEF AcceptResolution
<1>29. CASE MergeVerify
  BY <1>29 DEF MergeVerify, Passes
<1>30. CASE MergeCommit
  BY <1>30 DEF MergeCommit, Uncommitted
<1>31. CASE MergePush
  BY <1>31 DEF MergePush, Pushed, PushFails, Accepted, Clean
<1>32. CASE MergeUndo
  BY <1>32 DEF MergeUndo
<1>33. CASE AbortMerge
  BY <1>33, AbortedKeeps DEF AbortMerge, AfterAbort, Clean
<1>34. CASE Remove
  BY <1>34 DEF Remove, Removable, Clean
<1>35. CASE Delete
  BY <1>35 DEF Delete, Deletable, Source
<1>36. CASE Crash
  BY <1>36 DEF Crash
<1>37. CASE UNCHANGED vars
  BY <1>37 DEF vars
<1> QED
    BY <1>1, <1>2, <1>3, <1>4, <1>5, <1>6, <1>7, <1>8, <1>9, <1>10, <1>11, <1>12, <1>13,
     <1>14, <1>15, <1>16, <1>17, <1>18, <1>19, <1>20, <1>21, <1>22, <1>23, <1>24, <1>25,
     <1>26, <1>27, <1>28, <1>29, <1>30, <1>31, <1>32, <1>33, <1>34, <1>35, <1>36, <1>37
     DEF Next, People, Attach, Passed, Judge, Land, Merge

(* It holds at first.                                                      *)
LEMMA SafeInit == Init => SafeInv
<1> SUFFICES ASSUME Init
             PROVE  SafeInv
  OBVIOUS
<1> QED
  BY Places DEF Init, SafeInv, Apart, Tracked, Starts, Judged, Held, NothingLost,
     Content, Tip

(* It holds throughout, with the types.                                    *)
THEOREM SafetyInvariant == Spec => [](TypeInv /\ SafeInv)
<1>1. SafeInv /\ TypeInv /\ [Next]_vars => SafeInv'
  BY SafeStep
<1> QED
  BY <1>1, SafeInit, TypeInvariant, PTL DEF Spec

(* What a pass wrote and no step gave up is on origin, on the branch, in   *)
(* the checkout or in one moved aside, whatever fails and wherever the     *)
(* process dies.                                                           *)
THEOREM NothingIsLost == Spec => []NothingLost
<1>1. SafeInv => NothingLost
  BY DEF SafeInv, Held
<1> QED
  BY <1>1, SafetyInvariant, PTL

(* Whatever checkout and branch the runs before it left behind, a pass     *)
(* starts from origin's branch and nothing else.                           *)
THEOREM PassesStartFromOrigin == Spec => []StartsFromOrigin
<1>1. SafeInv => StartsFromOrigin
  BY DEF SafeInv, Starts, StartsFromOrigin, Clean
<1> QED
  BY <1>1, SafetyInvariant, PTL

(* Only a push writes to the pull request's branch, or a person.           *)
LEMMA WhoPublishes ==
    ASSUME Next, remote' # remote
    PROVE  PersonPushes \/ Push \/ MergePush
<1> USE DEF origin, refs, disk, control, ghosts
<1>1. ~BaseMoves /\ ~Start /\ ~Remove /\ ~Delete /\ ~Crash
  BY DEF BaseMoves, Start, Remove, Delete, Crash
<1>2. ~Attach
  BY DEF Attach, Fetch, Cut, Detach, Move, DropBranch, Add, Refused
<1>3. ~Passed
  BY DEF Passed, VerifyBase, Recon, Fix, Simplify, ReviewPass, RepairPass
<1>4. ~Judge
  BY DEF Judge, Gate, DropEdits, Verify, Boundary
<1>5. Land => Push
  BY DEF Land, Commit, OpenPr
<1>6. Merge => MergePush
  BY DEF Merge, Sync, ReserveRound, MergeBegin, Resolve, AcceptResolution, MergeVerify,
         MergeCommit, MergeUndo, AbortMerge
<1> QED
  BY <1>1, <1>2, <1>3, <1>4, <1>5, <1>6 DEF Next, People

(* A push is not forced, so the pull request's branch only grows.          *)
THEOREM RemoteGrows == Spec => RemoteOnlyGrows
<1>1. ASSUME [Next]_vars
      PROVE  [remote \subseteq remote']_vars
  <2>1. CASE PersonPushes
    BY <2>1 DEF PersonPushes
  <2>2. CASE Push \/ MergePush
    BY <2>2 DEF Push, MergePush, Pushed, PushFails, Accepted
  <2>3. CASE remote' = remote \/ UNCHANGED vars
    BY <2>3
  <2> QED
    BY <1>1, <2>1, <2>2, <2>3, WhoPublishes
<1> QED
  BY <1>1, PTL DEF Spec, RemoteOnlyGrows

(* What a pass wrote reaches origin only in a push of exactly what the     *)
(* gate let through and verify then passed.                                *)
THEOREM OnlyVerifiedIsPublished == Spec => PublishedWasVerified
<1>1. ASSUME TypeInv, SafeInv, [Next]_vars
      PROVE  [(remote' \ remote) \cap works # {} => remote' = checked]_vars
  <2> USE <1>1 DEF SafeInv, Apart, Tracked, Starts, Judged
  <2>1. CASE PersonPushes
    BY <2>1 DEF PersonPushes, New, Used
  <2>2. CASE Push
    BY <2>2 DEF Push, Pushed, PushFails
  <2>3. CASE MergePush
    BY <2>3 DEF MergePush, Pushed, PushFails
  <2>4. CASE remote' = remote \/ UNCHANGED vars
    BY <2>4
  <2> QED
    BY <1>1, <2>1, <2>2, <2>3, <2>4, WhoPublishes
<1> QED
  BY <1>1, SafetyInvariant, PTL DEF Spec, PublishedWasVerified
---------------------------------------------------------------------------
(* What the branch is built of, from the first pass to the push: what was  *)
(* on origin, the changes of passes that stand, and at most one merge.     *)
InHand == {"fix", "simplify", "review", "gate", "dropEdits", "verify", "boundary", "repair", "commit"}
OfPasses == branch \subseteq seen \cup seenBase \cup works
Built ==
    /\ run = "solve" => ~open
    /\ pc \in InHand => tree.dirt \subseteq works /\ branch \cap tree.dirt = {} /\ OfPasses
    /\ pc = "push" => OfPasses /\ branch \cap works # {}
    /\ pc \in {"resolve", "accept", "mergeVerify", "mergeCommit"} =>
           /\ tree.dirt \subseteq works /\ branch \subseteq seen
           /\ \E m \in Changes : tree.incoming \subseteq seenBase \cup {m}
    /\ pc \in {"syncPush", "mergePush"} =>
           \E m \in Changes : branch \subseteq seen \cup seenBase \cup works \cup {m}
    /\ pc = "open" => run = "solve" /\ remote = checked /\ remote \cap works # {}

(* What a pass adds to the checkout is a change of its own.                    *)
LEMMA EditsAreWorks ==
    ASSUME Types, Edits
    PROVE  /\ tree'.dirt = tree.dirt \cup (works' \ works)
           /\ (works' \ works) \cap branch = {} /\ works \subseteq works'
           /\ tree' = [tree EXCEPT !.dirt = tree'.dirt]
  <1>1. CASE UNCHANGED <<tree, works, edits>>
    BY <1>1 DEF Types, Tree
  <1>2. ASSUME NEW w \in Changes, New(w),
               tree' = [tree EXCEPT !.dirt = @ \cup {w}], works' = works \cup {w}
        PROVE  /\ tree'.dirt = tree.dirt \cup {w} /\ works' \ works = {w} /\ w \notin branch
               /\ tree' = [tree EXCEPT !.dirt = tree'.dirt]
    BY <1>2 DEF Types, Tree, New, Used
  <1> QED
    BY <1>1, <1>2 DEF Edits

LEMMA BuiltStep == TypeInv /\ SafeInv /\ Built /\ [Next]_vars => Built'
<1> SUFFICES ASSUME TypeInv, SafeInv, Built, [Next]_vars
             PROVE  Built'
  OBVIOUS
<1> USE Places
<1> USE DEF TypeInv, Types, Placed, AtCheckout, SafeInv, Starts, Judged, Built, InHand, OfPasses,
            Content, Tip, Clean,
            Goto, Rest, Fine, Fail, origin, refs, disk, control, ghosts, luck
<1>1. CASE PersonPushes
  BY <1>1 DEF PersonPushes
<1>2. CASE BaseMoves
  BY <1>2 DEF BaseMoves
<1>3. CASE Start
  BY <1>3 DEF Start
<1>4. CASE Fetch
  BY <1>4 DEF Fetch
<1>5. CASE Cut
  BY <1>5 DEF Cut, Reusable
<1>6. CASE Detach
  BY <1>6 DEF Detach
<1>7. CASE Move
  BY <1>7 DEF Move
<1>8. CASE DropBranch
  BY <1>8 DEF DropBranch
<1>9. CASE Add
  BY <1>9 DEF Add, Source
<1>10. CASE Refused
  BY <1>10 DEF Refused
<1>11. CASE VerifyBase
  BY <1>11 DEF VerifyBase
<1>12. CASE Recon
  BY <1>12 DEF Recon
<1>13. CASE Fix
  BY <1>13, EditsKeep, EditsAreWorks DEF Fix
<1>14. CASE Simplify
  BY <1>14, EditsKeep, EditsAreWorks DEF Simplify
<1>15. CASE ReviewPass
  BY <1>15, EditsKeep, EditsAreWorks DEF ReviewPass
<1>16. CASE RepairPass
  BY <1>16, EditsKeep, EditsAreWorks DEF RepairPass
<1>17. CASE Gate
  BY <1>17 DEF Gate
<1>18. CASE DropEdits
  BY <1>18, DroppedKeeps DEF DropEdits
<1>19. CASE Verify
  BY <1>19 DEF Verify
<1>20. CASE Boundary
  BY <1>20, CommittedKeeps DEF Boundary, Uncommitted
<1>21. CASE Commit
  BY <1>21, CommittedKeeps DEF Commit, Uncommitted, End
<1>22. CASE Push
  BY <1>22 DEF Push, Pushed, PushFails, Accepted, End
<1>23. CASE OpenPr
  BY <1>23 DEF OpenPr
<1>24. CASE Sync
  BY <1>24, MergedKeeps, ConflictsKeeps DEF Sync, NotMerged
<1>25. CASE ReserveRound
  BY <1>25 DEF ReserveRound
<1>26. CASE MergeBegin
  BY <1>26, MergedKeeps, ConflictsKeeps DEF MergeBegin, NotMerged
<1>27. CASE Resolve
  BY <1>27, EditsKeep, EditsAreWorks DEF Resolve
<1>28. CASE AcceptResolution
  BY <1>28, AcceptedKeeps DEF AcceptResolution
<1>29. CASE MergeVerify
  BY <1>29 DEF MergeVerify
<1>30. CASE MergeCommit
  BY <1>30 DEF MergeCommit, Uncommitted
<1>31. CASE MergePush
  BY <1>31 DEF MergePush, Pushed, PushFails, Accepted
<1>32. CASE MergeUndo
  BY <1>32 DEF MergeUndo
<1>33. CASE AbortMerge
  BY <1>33, AbortedKeeps DEF AbortMerge, AfterAbort
<1>34. CASE Remove
  BY <1>34 DEF Remove
<1>35. CASE Delete
  BY <1>35 DEF Delete
<1>36. CASE Crash
  BY <1>36 DEF Crash
<1>37. CASE UNCHANGED vars
  BY <1>37 DEF vars
<1> QED
    BY <1>1, <1>2, <1>3, <1>4, <1>5, <1>6, <1>7, <1>8, <1>9, <1>10, <1>11, <1>12, <1>13,
     <1>14, <1>15, <1>16, <1>17, <1>18, <1>19, <1>20, <1>21, <1>22, <1>23, <1>24, <1>25,
     <1>26, <1>27, <1>28, <1>29, <1>30, <1>31, <1>32, <1>33, <1>34, <1>35, <1>36, <1>37
     DEF Next, People, Attach, Passed, Judge, Land, Merge

(* Nothing is built at first.                                              *)
LEMMA BuiltInit == Init => Built
  BY Zenon DEF Init, Built, InHand

(* It holds throughout, with the types and what is safe.                   *)
THEOREM BuildInvariant == Spec => [](TypeInv /\ SafeInv /\ Built)
<1>1. TypeInv /\ SafeInv /\ Built /\ [Next]_vars => Built'
  BY BuiltStep
<1> QED
  BY <1>1, BuiltInit, SafetyInvariant, PTL DEF Spec

Told == [Promise!PullRequestNext]_(Promise!promised)

(* What readers see stays, or changes as they were promised.               *)
LEMMA ToldSame ==
    ASSUME UNCHANGED <<base, remote, open, works, checked>> PROVE Told
  BY DEF Told, Promise!promised

(* A pass writes one change, or none.                                      *)
LEMMA EditsTold ==
    ASSUME Types, Edits, UNCHANGED <<base, remote, open, checked>> PROVE Told
<1>1. CASE UNCHANGED <<tree, works, edits>>
  BY <1>1, ToldSame
<1>2. ASSUME NEW w \in Changes, New(w), works' = works \cup {w}
      PROVE  Told
  <2>1. Promise!Unseen(w)
    BY <1>2, NewName DEF Promise!Unseen, Used
  <2>2. Promise!PassWrites
    BY <1>2, <2>1 DEF Promise!PassWrites
  <2> QED
    BY <2>2 DEF Told, Promise!PullRequestNext
<1> QED
  BY <1>1, <1>2 DEF Edits

(* What is given up is what stood.                                         *)
LEMMA GiveUpTold ==
    ASSUME works' \subseteq works, UNCHANGED <<base, remote, open, checked>> PROVE Told
  BY DEF Told, Promise!PullRequestNext, Promise!GiveUp

(* A verdict shows nothing.                                                *)
LEMMA JudgeTold ==
    ASSUME checked' \in Histories, UNCHANGED <<base, remote, open, works>> PROVE Told
  BY DEF Told, Promise!PullRequestNext, Promise!JudgeIt, Histories

(* A push that is taken shows the branch.                                  *)
LEMMA PushTold ==
    ASSUME TypeInv, SafeInv, NEW m \in Changes,
           branch \subseteq seen \cup seenBase \cup works \cup {m},
           branch = checked \/ branch \cap works \subseteq seen,
           remote \subseteq branch, remote' \in {remote, branch},
           UNCHANGED <<base, open, works, checked>>
    PROVE  Told
<1> USE DEF SafeInv, Apart, Tracked
<1>1. remote \subseteq remote' /\ remote' \subseteq remote \cup base \cup works \cup {m}
  OBVIOUS
<1>2. (remote' \ remote) \cap works # {} => remote' = checked
  OBVIOUS
<1>3. Promise!Publish
  BY <1>1, <1>2 DEF Promise!Publish
<1> QED
  BY <1>3 DEF Told, Promise!PullRequestNext

(* Every step is told, or shows nothing.                                   *)
LEMMA StepTold == TypeInv /\ TypeInv' /\ SafeInv /\ Built /\ [Next]_vars => Told
<1> SUFFICES ASSUME TypeInv, TypeInv', SafeInv, Built, [Next]_vars
             PROVE  Told
  OBVIOUS
<1> USE DEF origin, ghosts
<1>0. Types /\ checked' \in Histories
  BY DEF TypeInv, Types
<1>1. CASE PersonPushes
  <2>1. PICK w \in Changes : /\ New(w)
                             /\ remote' = remote \cup {w} \/ remote' = remote \cup base \cup {w}
    BY <1>1, NewName DEF PersonPushes
  <2>2. Promise!Unseen(w)
    BY <2>1, NewName DEF Promise!Unseen, Used
  <2>3. Promise!PersonAdds
    BY <1>1, <2>1, <2>2 DEF PersonPushes, Promise!PersonAdds
  <2> QED
    BY <2>3 DEF Told, Promise!PullRequestNext
<1>2. CASE BaseMoves
  <2>1. PICK w \in Changes : New(w) /\ base' = base \cup {w}
    BY <1>2 DEF BaseMoves
  <2>2. Promise!Unseen(w)
    BY <2>1, NewName DEF Promise!Unseen, Used
  <2>3. Promise!MainMoves
    BY <1>2, <2>1, <2>2 DEF BaseMoves, Promise!MainMoves
  <2> QED
    BY <2>3 DEF Told, Promise!PullRequestNext
<1>3. CASE Start \/ Verify \/ MergeVerify
  BY <1>3, <1>0, JudgeTold DEF Start, Verify, MergeVerify
<1>4. CASE Attach
  BY <1>4, ToldSame DEF Attach, Fetch, Cut, Detach, Move, DropBranch, Add, Refused
<1>5. CASE VerifyBase \/ Recon \/ Gate \/ Boundary \/ Commit
  BY <1>5, ToldSame DEF VerifyBase, Recon, Gate, Boundary, Commit
<1>6. CASE Fix \/ Simplify \/ ReviewPass \/ RepairPass \/ Resolve
  BY <1>6, <1>0, EditsTold DEF Fix, Simplify, ReviewPass, RepairPass, Resolve
<1>7. CASE DropEdits
  BY <1>7, GiveUpTold DEF DropEdits
<1>8. CASE MergeUndo
  BY <1>8, GiveUpTold DEF MergeUndo
<1>9. CASE AbortMerge
  BY <1>9, GiveUpTold DEF AbortMerge, Aborted
<1>10. CASE Sync \/ ReserveRound \/ MergeBegin \/ AcceptResolution \/ MergeCommit
  BY <1>10, ToldSame DEF Sync, ReserveRound, MergeBegin, AcceptResolution, MergeCommit
<1>11. CASE Push
  <2>1. /\ branch \subseteq seen \cup seenBase \cup works /\ branch = checked
        /\ \E m \in Changes : m \in branch
    BY <1>11, <1>0 DEF Push, Built, OfPasses, SafeInv, Judged, Types, Histories
  <2>2. PICK m \in Changes : branch \subseteq seen \cup seenBase \cup works \cup {m}
    BY <2>1
  <2>3. CASE remote' = remote
    BY <1>11, <2>3, ToldSame DEF Push
  <2>4. CASE remote \subseteq branch /\ remote' = branch
    BY <1>11, <2>1, <2>2, <2>4, PushTold DEF Push
  <2> QED
    BY <1>11, <2>3, <2>4 DEF Push, Pushed, PushFails, Accepted
<1>12. CASE MergePush
  <2>1. PICK m \in Changes : branch \subseteq seen \cup seenBase \cup works \cup {m}
    BY <1>12 DEF MergePush, Built
  <2>2. branch = checked \/ branch \cap works \subseteq seen
    BY <1>12 DEF MergePush, SafeInv, Starts, Judged
  <2>3. CASE remote' = remote
    BY <1>12, <2>3, ToldSame DEF MergePush
  <2>4. CASE remote \subseteq branch /\ remote' = branch
    BY <1>12, <2>1, <2>2, <2>4, PushTold DEF MergePush
  <2> QED
    BY <1>12, <2>3, <2>4 DEF MergePush, Pushed, PushFails, Accepted
<1>13. CASE OpenPr
  <2>1. open' = open \/ open' = TRUE
    BY <1>13, Zenon DEF OpenPr
  <2>2. UNCHANGED <<base, remote, works, checked>>
    BY <1>13 DEF OpenPr
  <2>3. ~open /\ remote = checked /\ remote \cap works # {}
    BY <1>13 DEF OpenPr, Built
  <2>4. CASE open' = open
    BY <2>2, <2>4, ToldSame
  <2>5. CASE open' = TRUE
    <3>1. Promise!OpenIt
      BY <2>2, <2>3, <2>5, Zenon DEF Promise!OpenIt
    <3> QED
      BY <3>1 DEF Told, Promise!PullRequestNext
  <2> QED
    BY <2>1, <2>4, <2>5
<1>14. CASE Remove \/ Delete \/ Crash
  BY <1>14, ToldSame DEF Remove, Delete, Crash
<1>15. CASE UNCHANGED vars
  BY <1>15, ToldSame DEF vars
<1> QED
  BY <1>1, <1>2, <1>3, <1>4, <1>5, <1>6, <1>7, <1>8, <1>9, <1>10, <1>11, <1>12, <1>13, <1>14,
     <1>15 DEF Next, People, Passed, Judge, Land, Merge

(* At first the base has its first change, and there is nothing to read.   *)
LEMMA InitTold == Init => Promise!PullRequestInit
<1> SUFFICES ASSUME Init PROVE Promise!PullRequestInit
  OBVIOUS
<1>1. base # {} /\ base \subseteq Changes
  BY DEF Init
<1>2. remote = {} /\ open = FALSE /\ works = {} /\ checked = {}
  BY Zenon DEF Init
<1> QED
  BY <1>1, <1>2, Zenon DEF Promise!PullRequestInit

(* What readers of the pull request are promised is kept: nothing reaches  *)
(* its branch but what people push, what the base has, one merge at a time *)
(* and what was judged, and it opens on what was judged.                   *)
THEOREM ImplementsPullRequest == Spec => PullRequestKept
<1>1. (TypeInv /\ SafeInv /\ Built) /\ (TypeInv /\ SafeInv /\ Built)' /\ [Next]_vars => Told
  BY StepTold
<1> QED
  BY <1>1, InitTold, BuildInvariant, PTL
     DEF Spec, Told, PullRequestKept, Promise!PullRequestSpec
=============================================================================
