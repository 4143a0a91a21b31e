------------------------- MODULE ApprovalPersistence --------------------------
(***************************************************************************)
(* ApprovalPersistence (apps/api/src/platform/approval.ts) as its callers   *)
(* use it: rows of approval_entries, the append-only approval_events, and   *)
(* the transactions of concurrent requests.  A transaction first reads the  *)
(* row with SELECT ... FOR UPDATE, decides on the copy it read, and then    *)
(* writes with a compare-and-set on the revision, appends the event and     *)
(* commits; in between other requests run.  A rolled back transaction       *)
(* leaves nothing behind.                                                   *)
(***************************************************************************)
EXTENDS Approval, Sequences

CONSTANTS
  EntryIds,     \* submission ids, chosen by the client
  Txs,          \* transactions in flight at the same time
  NoTx,
  MaxEvents     \* bound: length of one entry's audit trail

ASSUME PersistenceAssumption == NoTx \notin Txs /\ MaxEvents \in Nat

VARIABLES
  entry,        \* entry[i]: the committed row, or AbsentEntry
  events,       \* events[i]: committed audit events of id i, oldest first
  held,         \* held[t]: the row t has read, or AbsentEntry
  target,       \* target[t]: the id t works on
  rowLock       \* rowLock[i]: the transaction that holds the row lock of i

vars == <<entry, events, held, target, rowLock>>

Statuses == ApprovalStatus \cup {"ABSENT"}
EventActions == {"SUBMITTED", "REJECTED", "UNREJECTED", "APPROVED",
                 "UNAPPROVED", "DELETED"}
Event == [action : EventActions, from : Statuses, to : Statuses,
          fromRevision : Nat, toRevision : Nat, actor : Users]

TypeOK ==
  /\ entry \in [EntryIds -> Row]
  /\ events \in [EntryIds -> Seq(Event)]
  /\ held \in [Txs -> Row]
  /\ target \in [Txs -> EntryIds]
  /\ rowLock \in [EntryIds -> Txs \cup {NoTx}]

Init ==
  /\ entry = [i \in EntryIds |-> AbsentEntry]
  /\ events = [i \in EntryIds |-> <<>>]
  /\ held = [t \in Txs |-> AbsentEntry]
  /\ target \in [Txs -> EntryIds]
  /\ rowLock = [i \in EntryIds |-> NoTx]

-------------------------------------------------------------------------------
EventAction(action) ==
  CASE action = "reject"   -> "REJECTED"
    [] action = "approve"  -> "APPROVED"
    [] action = "unreject" -> "UNREJECTED"
    [] OTHER               -> "UNAPPROVED"

Idle(t) == held[t] = AbsentEntry

(* The event that takes a row from one state to another.                    *)
Step(action, from, to, actor) ==
  [action |-> action, from |-> from.status, to |-> to.status,
   fromRevision |-> from.revision, toRevision |-> to.revision,
   actor |-> actor]

(* One committed write of row i together with its audit event; both are     *)
(* computed from the copy that was read, and the statement does not set the *)
(* submitter of a row that exists.                                          *)
Updated(i, to) ==
  IF Present(to) /\ Present(entry[i])
    THEN [to EXCEPT !.submittedBy = entry[i].submittedBy] ELSE to

Commit(i, action, from, to, actor) ==
  /\ Len(events[i]) < MaxEvents
  /\ entry' = [entry EXCEPT ![i] = Updated(i, to)]
  /\ events' = [events EXCEPT ![i] = Append(@, Step(action, from, to, actor))]

(* The end of a transaction: the copy and the row lock go away.             *)
Release(t) ==
  /\ held' = [held EXCEPT ![t] = AbsentEntry]
  /\ rowLock' = [rowLock EXCEPT ![target[t]] = NoTx]
  /\ UNCHANGED target

(* create: insert the row at revision 1; the primary key refuses an id that *)
(* is in use.                                                               *)
Create(i, actor) ==
  /\ entry[i] = AbsentEntry
  /\ Commit(i, "SUBMITTED", AbsentEntry, NewEntry(actor), actor)
  /\ UNCHANGED <<held, target, rowLock>>

(* What if a caller loaded the row without lock = true?                     *)
LoadUnlocked(t, i) ==
  /\ Idle(t)
  /\ Present(entry[i])
  /\ held' = [held EXCEPT ![t] = entry[i]]
  /\ target' = [target EXCEPT ![t] = i]
  /\ UNCHANGED <<entry, events, rowLock>>

(* load(..., lock = true): waits for the row lock, then reads the row.      *)
Load(t, i) ==
  /\ Idle(t)
  /\ Present(entry[i])
  /\ rowLock[i] = NoTx
  /\ held' = [held EXCEPT ![t] = entry[i]]
  /\ target' = [target EXCEPT ![t] = i]
  /\ rowLock' = [rowLock EXCEPT ![i] = t]
  /\ UNCHANGED <<entry, events>>

(* transition: decide on the copy, UPDATE ... WHERE id AND revision, event. *)
Transition(t, action, actor, expectedRevision, reason) ==
  LET i == target[t] IN
  /\ ~Idle(t)
  /\ DecideApproval(held[t], action, actor, expectedRevision, reason)
  /\ entry[i].revision = held[t].revision
  /\ Commit(i, EventAction(action), held[t],
            NextEntry(held[t], action, actor), actor)
  /\ Release(t)

(* delete: the submitter's (or a trusted actor's) removal of an open row.   *)
Delete(t, actor, expectedRevision) ==
  LET i == target[t] IN
  /\ ~Idle(t)
  /\ DeleteAllowed(held[t], actor, expectedRevision)
  /\ entry[i].revision = held[t].revision
  /\ Commit(i, "DELETED", held[t], AbsentEntry, actor)
  /\ Release(t)

(* Any failed check or blocker of the caller rolls the transaction back.    *)
Rollback(t) ==
  /\ ~Idle(t)
  /\ Release(t)
  /\ UNCHANGED <<entry, events>>

Next ==
  \/ \E i \in EntryIds, u \in Users : Create(i, u)
  \/ \E t \in Txs :
       \/ \E i \in EntryIds : Load(t, i)
       \/ \E action \in ApprovalAction, u \in Users,
             revision \in 1..MaxEvents, reason \in Reason :
            Transition(t, action, u, revision, reason)
       \/ \E u \in Users, revision \in 1..MaxEvents : Delete(t, u, revision)
       \/ Rollback(t)

Spec == Init /\ [][Next]_vars

-------------------------------------------------------------------------------
(* What a transaction has read is what it still writes over: a row lock     *)
(* names the one transaction that holds a copy of the committed row.        *)
HeldIsCurrent ==
  /\ \A t \in Txs : ~Idle(t) => /\ held[t] = entry[target[t]]
                                /\ rowLock[target[t]] = t
  /\ \A i \in EntryIds : rowLock[i] # NoTx =>
       ~Idle(rowLock[i]) /\ target[rowLock[i]] = i

(* Separation of duties (approval.md 3): whoever approved or rejected the   *)
(* content of an entry is not the account that submitted it, although the   *)
(* id may have been deleted and submitted again by somebody else while the  *)
(* reviewer's transaction was running.                                      *)
FourEyes ==
  \A i \in EntryIds :
    /\ entry[i].status = "APPROVED" => entry[i].approvedBy # entry[i].submittedBy
    /\ entry[i].status = "REJECTED" => entry[i].rejectedBy # entry[i].submittedBy

(* approval.md 3: the metadata columns correspond exactly to the status.    *)
MetadataMatchesStatus == \A i \in EntryIds : ValidMetadata(entry[i])

(* approval_events is a faithful log: an entry's trail is one unbroken      *)
(* chain of states and revisions from "no row" to the row as it is now, and *)
(* each lifetime of the id starts again at revision 1.                      *)
TrailMatchesEntry ==
  \A i \in EntryIds :
    LET trail == events[i] n == Len(trail) IN
    /\ n = 0 => entry[i] = AbsentEntry
    /\ n > 0 => /\ trail[n].to = entry[i].status
                /\ trail[n].toRevision = entry[i].revision
                /\ trail[1].from = "ABSENT"
    /\ \A k \in 2..n : /\ trail[k].from = trail[k-1].to
                       /\ trail[k].fromRevision = trail[k-1].toRevision
    /\ \A k \in 1..n : trail[k].to # "ABSENT" =>
                         trail[k].toRevision = trail[k].fromRevision + 1
===============================================================================
