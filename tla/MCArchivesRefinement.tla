------------------------- MODULE MCArchivesRefinement -------------------------
(* A small instance for the refinement of FormalVersions by the archives:   *)
(* two products, one of which may name the other in its formula.            *)
EXTENDS ArchivesRefinement, TLC

CONSTANTS u1, u2

MCPermissions ==
  u1 :> {"submit-new", "submit-change", "delete"} @@
  u2 :> ApprovalAction \cup {"submit-change"}

MCSymmetry == Permutations(SubmissionIds) \cup Permutations(IdempotencyKeys)
                \cup Permutations(Subjects)
===============================================================================
