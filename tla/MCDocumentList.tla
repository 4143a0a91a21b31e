---------------------------- MODULE MCDocumentList ----------------------------
(* Two documents, one submitted by this account and one by another.         *)
EXTENDS DocumentList, TLC

CONSTANTS me, other, d1, d2

MCPermissions ==
  me :> {"unapprove", "delete"} @@ other :> {"approve"}

MCSubmittedBy == d1 :> me @@ d2 :> other
===============================================================================
