------------------------------- MODULE Approval -------------------------------
(***************************************************************************)
(* The decision rules of packages/model/src/approval.ts: the pure model     *)
(* that every approval transition in DCL, WFL and VOU goes through.  An     *)
(* entry is the row of approval_entries without its identity columns; the   *)
(* caller owns those.  Times and reason texts are left out, but whether a   *)
(* reason was given, was blank or was absent is kept.                       *)
(***************************************************************************)
EXTENDS Naturals

CONSTANTS
  Users,        \* accounts that can act
  NoUser,       \* "null" in approved_by / rejected_by
  Trusted,      \* actors built with trusted = true
  Permissions   \* Permissions[u]: the exact actions u may call on this entity

ApprovalStatus == {"PENDING", "APPROVED", "REJECTED"}
ApprovalAction == {"reject", "approve", "unreject", "unapprove"}
ResourceAction == {"submit-new", "submit-change", "delete"}
Reason         == {"absent", "blank", "text"}

ASSUME ApprovalAssumption ==
  /\ NoUser \notin Users
  /\ Trusted \subseteq Users
  /\ Permissions \in [Users -> SUBSET (ApprovalAction \cup ResourceAction)]

(* A persisted entry; the absent row stands for "no row with this id".      *)
Entry == [status      : ApprovalStatus,
          revision    : Nat \ {0},
          submittedBy : Users,
          approvedBy  : Users \cup {NoUser},
          rejectedBy  : Users \cup {NoUser}]

AbsentEntry == [status      |-> "ABSENT",
                revision    |-> 0,
                submittedBy |-> NoUser,
                approvedBy  |-> NoUser,
                rejectedBy  |-> NoUser]

Row == Entry \cup {AbsentEntry}

Present(e) == e.status # "ABSENT"
IsOpen(e)  == e.status \in {"PENDING", "REJECTED"}

(* What if create forgot the first revision?                                *)
NewEntryUnnumbered(actor) == [AbsentEntry EXCEPT !.status = "PENDING",
                                                 !.submittedBy = actor]

NewEntry(actor) == [status      |-> "PENDING",
                    revision    |-> 1,
                    submittedBy |-> actor,
                    approvedBy  |-> NoUser,
                    rejectedBy  |-> NoUser]

ValidMetadata(e) ==
  /\ (e.approvedBy # NoUser) <=> (e.status = "APPROVED")
  /\ (e.rejectedBy # NoUser) <=> (e.status = "REJECTED")

HasPermission(actor, action) ==
  actor \in Trusted \/ action \in Permissions[actor]

ActionIsValidForStatus(action, status) ==
  \/ status = "PENDING"  /\ action \in {"reject", "approve"}
  \/ status = "REJECTED" /\ action = "unreject"
  \/ status = "APPROVED" /\ action = "unapprove"

ActionRequiresIndependentReviewer(action) ==
  action \in {"reject", "approve", "unreject"}

ReasonFits(action, reason) ==
  IF action \in {"reject", "unapprove"} THEN reason = "text"
                                        ELSE reason = "absent"

TargetStatus(action) ==
  CASE action = "reject"  -> "REJECTED"
    [] action = "approve" -> "APPROVED"
    [] OTHER              -> "PENDING"

(* What if a reversal kept the review, or the old revision?                 *)
NextEntryKeepingReview(e, action, actor) ==
  [e EXCEPT !.status = TargetStatus(action), !.revision = @ + 1,
            !.approvedBy = IF action = "approve" THEN actor ELSE @,
            !.rejectedBy = IF action = "reject"  THEN actor ELSE @]
NextEntryKeepingRevision(e, action, actor) ==
  [NextEntryKeepingReview(e, action, actor) EXCEPT
     !.revision = IF action = "unreject" THEN e.revision ELSE @]

(* nextMetadata: approve and reject record the actor, the two reversals     *)
(* leave only the submission.                                               *)
NextEntry(e, action, actor) ==
  [status      |-> TargetStatus(action),
   revision    |-> e.revision + 1,
   submittedBy |-> e.submittedBy,
   approvedBy  |-> IF action = "approve" THEN actor ELSE NoUser,
   rejectedBy  |-> IF action = "reject"  THEN actor ELSE NoUser]

DecideApproval(e, action, actor, expectedRevision, reason) ==
  /\ ValidMetadata(e)
  /\ expectedRevision = e.revision
  /\ ActionIsValidForStatus(action, e.status)
  /\ ActionRequiresIndependentReviewer(action) => actor # e.submittedBy
  /\ HasPermission(actor, action)
  /\ ReasonFits(action, reason)

(* ApprovalPersistence.delete, its checks before the row is removed.        *)
DeleteAllowed(e, actor, expectedRevision) ==
  /\ expectedRevision = e.revision
  /\ IsOpen(e)
  /\ actor \in Trusted \/ actor = e.submittedBy
  /\ HasPermission(actor, "delete")

===============================================================================
