-------------------------- MODULE ArchiveTransactions -------------------------
(***************************************************************************)
(* The same archives, with the transactions of concurrent requests and the  *)
(* locks they take (READ COMMITTED: every statement sees what is committed  *)
(* when it runs).  A transaction takes its locks one by one, reads between  *)
(* them, and in the end writes and commits; a lock is kept until then.      *)
(*                                                                         *)
(*   submit    idempotency key, subject, product rows; reads history,       *)
(*             material, duplicates (under the business key's lock)         *)
(*   review    subject, product rows; the same reads where the action has   *)
(*             them                                                         *)
(*   delete    subject                                                      *)
(*   enable    subject, product row                                         *)
(*                                                                         *)
(* Every commit must be a step of Archives on the state at that moment.     *)
(* Row locks on approval_entries are left out: whoever takes one holds the  *)
(* subject's lock already (ApprovalPersistence is about callers in general). *)
(***************************************************************************)
EXTENDS Archives, FiniteSets

CONSTANTS
  Txs,
  Id      \* the id of a subject, by which rows are ordered

ASSUME TransactionsAssumption ==
  /\ IsFiniteSet(Subjects)
  /\ Id \in [Subjects -> Nat]
  /\ \A s, x \in Subjects : Id[s] = Id[x] => s = x

VARIABLES
  job,      \* job[t]: the request that t executes, or NoJob
  stage,    \* stage[t]: the statement t executes next
  rows,     \* rows[t]: the product rows t still has to lock
  locks     \* the pairs <<t, lock>> of locks held

txVars == <<job, stage, rows, locks>>
allVars == <<vars, txVars>>

NoJob == [action |-> "none"]
Submits(t) == job[t].action \in SubmitAction

TxInit ==
  /\ Init
  /\ job = [t \in Txs |-> NoJob]
  /\ stage = [t \in Txs |-> "idle"]
  /\ rows = [t \in Txs |-> {}]
  /\ locks = {}

-------------------------------------------------------------------------------
Available(t, lock) == \A p \in locks : p[2] = lock => p[1] = t
Take(t, lock) == Available(t, lock) /\ locks' = locks \cup {<<t, lock>>}
Goto(t, to) == stage' = [stage EXCEPT ![t] = to]

(* What if only the subject's own row were locked?                          *)
OwnProductRow(s, m) ==
  IF FormulaPins THEN {x \in Subjects : x = s /\ code[x] # 0} ELSE {}

(* lockProductSubjects: SELECT ... WHERE id IN (s, m) ORDER BY id FOR       *)
(* UPDATE.  Only products have rows to lock; a row that does not exist yet  *)
(* is no row to wait for.                                                   *)
ProductRows(s, m) ==
  IF FormulaPins THEN {x \in Subjects : x \in {s, m} /\ code[x] # 0} ELSE {}

(* What if rows were locked in the order in which the formula is read?      *)
NextRowAsRead(t) ==
  IF job[t].subject \in rows[t] THEN job[t].subject ELSE CHOOSE x \in rows[t] : TRUE
NextRow(t) == CHOOSE x \in rows[t] : \A y \in rows[t] : Id[x] <= Id[y]

(* submit: the idempotency lock, and the response stored under its key.     *)
BeginSubmit(t, k, r, u) ==
  /\ stage[t] = "idle"
  /\ HasPermission(u, r.action)
  /\ Take(t, <<"idempotency", k>>)
  /\ response[k] = NoResponse
  /\ job' = [job EXCEPT ![t] =
               [action |-> r.action, idempotencyKey |-> k, request |-> r,
                subject |-> r.subject, actor |-> u, number |-> 1]]
  /\ Goto(t, "subject")
  /\ UNCHANGED <<vars, rows>>

(* ... then the subject's lock.                                             *)
LockSubject(t) ==
  /\ stage[t] = "subject"
  /\ Take(t, <<"subject", job[t].subject>>)
  /\ rows' = [rows EXCEPT ![t] =
                ProductRows(job[t].subject, job[t].request.materialOf)]
  /\ Goto(t, "rows")
  /\ UNCHANGED <<vars, job>>

(* review and delete: the subject's lock, and for a review the entry's      *)
(* header, which names the rows to lock.                                    *)
BeginReview(t, action, i, u, revision, reason) ==
  LET s == header[i].subject IN
  /\ stage[t] = "idle"
  /\ Present(entry[i])
  /\ HasPermission(u, action)
  /\ Take(t, <<"subject", s>>)
  /\ job' = [job EXCEPT ![t] =
               [action |-> action, submission |-> i, subject |-> s,
                actor |-> u, revision |-> revision, reason |-> reason]]
  /\ rows' = [rows EXCEPT ![t] = IF action = "delete" THEN {}
                                 ELSE ProductRows(s, header[i].materialOf)]
  /\ Goto(t, IF action = "delete" THEN "commit" ELSE "rows")
  /\ UNCHANGED vars

BeginSetEnabled(t, s, value, revision) ==
  /\ stage[t] = "idle"
  /\ code[s] # 0
  /\ Take(t, <<"subject", s>>)
  /\ job' = [job EXCEPT ![t] = [action |-> "set-enabled", subject |-> s,
                                value |-> value, revision |-> revision]]
  /\ rows' = [rows EXCEPT ![t] = ProductRows(s, s)]
  /\ Goto(t, "rows")
  /\ UNCHANGED vars

LockRow(t) ==
  /\ stage[t] = "rows"
  /\ IF rows[t] = {}
       THEN /\ Goto(t, IF job[t].action \in {"reject", "unreject", "set-enabled"}
                         THEN "commit" ELSE "history")
            /\ UNCHANGED <<rows, locks>>
       ELSE /\ Take(t, <<"row", NextRow(t)>>)
            /\ rows' = [rows EXCEPT ![t] = @ \ {NextRow(t)}]
            /\ UNCHANGED stage
  /\ UNCHANGED <<vars, job>>

-------------------------------------------------------------------------------
(* The subject's versions: history, latestApproved and open.                *)
ReadHistory(t) ==
  LET j == job[t] IN
  /\ stage[t] = "history"
  /\ \/ /\ j.action = "submit-new" /\ FirstVersion(j.request)
        /\ UNCHANGED job
     \/ /\ j.action = "submit-change" /\ NextVersion(j.request)
        /\ job' = [job EXCEPT ![t].number =
                     header[j.request.expectedId].versionNo + 1]
     \/ /\ j.action = "approve" /\ StillNext(j.submission)
        /\ UNCHANGED job
     \/ /\ j.action = "unapprove"
        /\ LatestApproved(j.subject, j.submission) /\ NoOpenVersion(j.subject)
        /\ UNCHANGED job
  /\ Goto(t, IF j.action = "unapprove" THEN "duplicates" ELSE "material")
  /\ UNCHANGED <<vars, rows, locks>>

ReadMaterial(t) ==
  LET j == job[t] IN
  /\ stage[t] = "material"
  /\ IF Submits(t)
       THEN MaterialAvailable(j.subject, j.request.materialOf, j.request.material)
       ELSE MaterialStillAvailable(j.submission)
  /\ Goto(t, "duplicates")
  /\ UNCHANGED <<vars, job, rows, locks>>

(* The business key that the transaction is about to make reserved.         *)
KeyAtStake(t) ==
  LET j == job[t] IN
  IF Submits(t) THEN {j.request.key}
  ELSE IF j.action = "approve" THEN {header[j.submission].key}
  ELSE { header[p].key : p \in { p \in SubmissionIds : /\ KeyScope = "latest"
                                                      /\ Previous(j.submission, p) } }

(* What if the query runs without the key's lock?                           *)
ReadDuplicatesUnlocked(t) ==
  LET keys == KeyAtStake(t) \cap (IF KeyScope = "none" THEN {} ELSE BusinessKeys) IN
  /\ stage[t] = "duplicates"
  /\ \A key \in keys : ~DuplicateBusinessKey(job[t].subject, key)
  /\ Goto(t, IF job[t].action = "unapprove" THEN "references" ELSE "commit")
  /\ UNCHANGED <<vars, job, rows, locks>>

(* ensureNoDuplicateBusinessKey: the key's lock, then the query.            *)
ReadDuplicates(t) ==
  LET keys == KeyAtStake(t) \cap (IF KeyScope = "none" THEN {} ELSE BusinessKeys) IN
  /\ stage[t] = "duplicates"
  /\ IF keys = {} THEN UNCHANGED locks
                  ELSE \E key \in keys : Take(t, <<"key", key>>)
  /\ \A key \in keys : ~DuplicateBusinessKey(job[t].subject, key)
  /\ Goto(t, IF job[t].action = "unapprove" THEN "references" ELSE "commit")
  /\ UNCHANGED <<vars, job, rows>>

(* exactReferenceBlockers: approved formulas that name the version.         *)
ReadReferences(t) ==
  /\ stage[t] = "references"
  /\ Unreferenced(job[t].submission)
  /\ Goto(t, "commit")
  /\ UNCHANGED <<vars, job, rows, locks>>

-------------------------------------------------------------------------------
Finish(t) ==
  /\ job' = [job EXCEPT ![t] = NoJob]
  /\ stage' = [stage EXCEPT ![t] = "idle"]
  /\ rows' = [rows EXCEPT ![t] = {}]
  /\ locks' = { p \in locks : p[1] # t }

(* UNIQUE (domain, entity, subject_id, version_no), the partial index on    *)
(* the open version, and the primary key of archive_idempotency.            *)
FitsIndexes(k, s, n) ==
  /\ NoOpenVersion(s) /\ \A i \in Versions(s) : header[i].versionNo # n
  /\ response[k] = NoResponse

(* The writes of each operation, with the checks that the statements make   *)
(* themselves: primary keys, indexes, and the revision compare-and-set.     *)
Commit(t) ==
  LET j == job[t] IN
  /\ stage[t] = "commit"
  /\ \/ /\ j.action = "submit-new"
        /\ code[j.subject] = 0 /\ FitsIndexes(j.idempotencyKey, j.subject, 1)
        /\ CreateSubject(j.subject)
        /\ InsertVersion(j.idempotencyKey, j.request, 1, j.actor)
     \/ /\ j.action = "submit-change"
        /\ FitsIndexes(j.idempotencyKey, j.subject, j.number)
        /\ InsertVersion(j.idempotencyKey, j.request, j.number, j.actor)
        /\ UNCHANGED subjectVars
     \/ /\ j.action \in ApprovalAction
        /\ DecideApproval(entry[j.submission], j.action, j.actor, j.revision,
                          j.reason)
        /\ j.action = "unapprove" => NoOpenVersion(j.subject)
        /\ Write(j.submission, j.action, j.actor)
     \/ /\ j.action = "delete"
        /\ DeleteAllowed(entry[j.submission], j.actor, j.revision)
        /\ RemoveVersion(j.submission)
     \/ /\ j.action = "set-enabled"
        /\ EnablementAllowed(j.subject, j.value, j.revision)
        /\ WriteEnablement(j.subject, j.value)
  /\ Finish(t)

(* A refused check, a lost connection or the database's deadlock detector.  *)
Rollback(t) ==
  /\ stage[t] # "idle"
  /\ Finish(t)
  /\ UNCHANGED vars

(* A client sends the revisions and versions it reads right now.  Requests   *)
(* that only a bound would refuse in the end are not begun.                 *)
Begin(t) ==
  /\ stage[t] = "idle"
  /\ \/ \E k \in IdempotencyKeys, u \in Users :
          /\ response[k] = NoResponse /\ HasPermission(u, "submit-new")
          /\ \E s \in Subjects, i \in SubmissionIds,
                key \in BusinessKeys \cup {NoKey},
                m \in (IF FormulaPins THEN SubmissionIds ELSE {}) \cup {NoSubmission} :
               \/ BeginSubmit(t, k, Requested("submit-new", s, i, key, m,
                                              NoSubmission, 0), u)
               \/ \E x \in Versions(s) :
                    /\ IsApproved(x)
                    /\ BeginSubmit(t, k, Requested("submit-change", s, i, key, m,
                                                   x, entry[x].revision), u)
     \/ \E i \in SubmissionIds, u \in Users :
          \/ \E action \in ApprovalAction :
               /\ entry[i].revision < MaxRevision
               /\ ActionIsValidForStatus(action, entry[i].status)
               /\ BeginReview(t, action, i, u, entry[i].revision,
                    IF action \in {"reject", "unapprove"} THEN "text" ELSE "absent")
          \/ BeginReview(t, "delete", i, u, entry[i].revision, "absent")
     \/ \E s \in Subjects, value \in BOOLEAN :
          /\ objectRevision[s] < MaxObjectRevision
          /\ BeginSetEnabled(t, s, value, objectRevision[s])

TxNext ==
  \E t \in Txs :
    \/ Begin(t)
    \/ LockSubject(t) \/ LockRow(t)
    \/ ReadHistory(t) \/ ReadMaterial(t) \/ ReadDuplicates(t) \/ ReadReferences(t)
    \/ Commit(t) \/ Rollback(t)

TxSpec == TxInit /\ [][TxNext]_allVars
-------------------------------------------------------------------------------
(* The operation of Archives that a request asks for.                       *)
Executes(j) ==
  \/ j.action = "submit-new"    /\ SubmitNew(j.idempotencyKey, j.request, j.actor)
  \/ j.action = "submit-change" /\ SubmitChange(j.idempotencyKey, j.request, j.actor)
  \/ j.action = "approve"     /\ Approve(j.submission, j.actor, j.revision)
  \/ j.action = "unreject"    /\ Unreject(j.submission, j.actor, j.revision)
  \/ j.action = "reject"      /\ Reject(j.submission, j.actor, j.revision, j.reason)
  \/ j.action = "unapprove"   /\ Unapprove(j.submission, j.actor, j.revision, j.reason)
  \/ j.action = "delete"      /\ Delete(j.submission, j.actor, j.revision)
  \/ j.action = "set-enabled" /\ SetEnabled(j.subject, j.value, j.revision)

(* bob.md 7.2: the locks make every interleaving of requests look like one  *)
(* whole operation after the other.  What a transaction commits is what     *)
(* Archives would do for its request in that very state, although each of   *)
(* its checks was made some statements, and other commits, earlier.         *)
CommitsAreSerial ==
  [][vars' # vars => \E t \in Txs : job'[t] = NoJob /\ Executes(job[t])]_allVars

(* The lock that a transaction needs next.                                  *)
Wants(t) ==
  CASE stage[t] = "subject" -> {<<"subject", job[t].subject>>}
    [] stage[t] = "rows" /\ rows[t] # {} -> {<<"row", NextRow(t)>>}
    [] stage[t] = "duplicates" -> {"key"} \X (KeyAtStake(t) \cap BusinessKeys)
    [] OTHER -> {}

(* The fixed lock order (idempotency, subject, rows by id, business key)    *)
(* never lets running transactions wait for each other in a circle.         *)
NoLockCycle ==
  (\E t \in Txs : stage[t] # "idle") =>
    \E t \in Txs : /\ stage[t] # "idle"
                   /\ \A lock \in Wants(t) : Available(t, lock)
===============================================================================
