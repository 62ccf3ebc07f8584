--------------------------- MODULE MCReviewWorkflow ---------------------------
(* Small instances of ReviewWorkflow: drafts are published through review.  *)
EXTENDS ReviewWorkflow, TLC

CONSTANTS t1, t2, s1, s2, c1, c2

Publish == {[from |-> "draft", to |-> "published"]}
TaskSymmetry == Permutations(Tasks) \cup Permutations(Contents)
Symmetry == TaskSymmetry \cup Permutations(Sessions)
===============================================================================
