------------------------ MODULE MCApprovalPersistence -------------------------
(* Two transactions over one submission id, three accounts: one that only   *)
(* submits and deletes, one that reviews too, and a trusted system actor.   *)
EXTENDS ApprovalPersistence, TLC

CONSTANTS u1, u2, sys

MCPermissions ==
  u1 :> {"submit-new", "delete", "approve"} @@
  u2 :> {"submit-new", "delete", "reject", "approve", "unreject", "unapprove"} @@
  sys :> {}

MCTxSymmetry == Permutations(Txs)
===============================================================================
