----------------------------- MODULE MCContext -----------------------------
(***************************************************************************)
(* Context for TLC: two promises, so that one can be awaited in vain       *)
(* before the other or be its value; one closure; two engine contexts, so  *)
(* that one reset succeeds and one fails; a few calls.                     *)
(***************************************************************************)
EXTENDS Context
=============================================================================
