---------------------------- MODULE MCSharedChat ----------------------------
(***************************************************************************)
(* SharedChat for TLC: the pages are alike, and so are the users.          *)
(***************************************************************************)
EXTENDS SharedChat

Symmetry == Permutations(Pages) \cup Permutations(Users)
=============================================================================
