--------------------------- MODULE MCDraftFiling ---------------------------
(***************************************************************************)
(* One listener, the asker of a draft and another person on the list.      *)
(***************************************************************************)
EXTENDS DraftFiling

CONSTANTS d1, d2, asker, other, l1

OneDraft  == {d1}
TwoDrafts == {d1, d2}
People    == {asker, other}
Asker     == {asker}
Listener  == {l1}
=============================================================================
