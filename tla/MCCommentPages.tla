--------------------------- MODULE MCCommentPages ---------------------------
(***************************************************************************)
(* Instances of CommentPages for TLC.                                      *)
(***************************************************************************)
EXTENDS CommentPages, TLC

Symmetry == Permutations(Comment)
=============================================================================
