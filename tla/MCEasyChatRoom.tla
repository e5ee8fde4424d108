--------------------------- MODULE MCEasyChatRoom ---------------------------
(***************************************************************************)
(* EasyChatRoom for TLC: the sessions are alike, and so are the names.     *)
(***************************************************************************)
EXTENDS EasyChatRoom, TLC

Symmetry == Permutations(Sessions) \cup Permutations(Names)
=============================================================================
