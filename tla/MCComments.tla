----------------------------- MODULE MCComments -----------------------------
(***************************************************************************)
(* Instances of Comments for TLC.                                          *)
(***************************************************************************)
EXTENDS Comments, TLC

\* A text that only create accepts, all tags, so that clean leaves nothing of
\* it (an empty text, which neither DTO accepts), and one that only update accepts.
Texts  == {"tags", "note", "empty"}
Length == [t \in Texts |-> CASE t = "tags" -> 2001 [] t = "note" -> 4 [] t = "empty" -> 0]
Clean  == [t \in Texts |-> IF t = "tags" THEN "empty" ELSE t]

Symmetry == Permutations(Comment) \union Permutations(Handler) \union Permutations(Video)
=============================================================================
