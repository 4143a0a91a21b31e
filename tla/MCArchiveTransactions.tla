------------------------- MODULE MCArchiveTransactions ------------------------
(* Two concurrent transactions over two subjects; one account submits, the  *)
(* other reviews.                                                           *)
EXTENDS ArchiveTransactions, TLC

CONSTANTS u1, u2, s1, s2

MCPermissions ==
  u1 :> {"submit-new", "submit-change", "delete"} @@ u2 :> ApprovalAction

MCId == s1 :> 1 @@ s2 :> 2

(* What a key was used for, and which code a subject got, changes nothing   *)
(* that happens later: only that it was used, and that there is a code.     *)
MCView ==
  <<[s \in Subjects |-> code[s] # 0], enabled, objectRevision, entry, header,
    [k \in IdempotencyKeys |-> response[k] # NoResponse], txVars>>

MCSymmetry == Permutations(SubmissionIds) \cup Permutations(IdempotencyKeys)
                \cup Permutations(Txs)
===============================================================================
