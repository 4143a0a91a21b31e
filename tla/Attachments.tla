------------------------------ MODULE Attachments ------------------------------
(***************************************************************************)
(* The attachment files of one archive subject and the rows that name them: *)
(* apps/api/src/dcl/archives.ts with platform/attachment-store.ts and       *)
(* platform/attachment-deletion.ts.  Rows change in database transactions,  *)
(* files change at once, so every step between the two is an action here,   *)
(* and the process may die or a file be touched by another request between  *)
(* any two of them.                                                         *)
(*                                                                         *)
(* An intent is what one editing form of the client sends: one staging id,  *)
(* one submission id and one idempotency key, all fixed when the form is    *)
(* opened, so that a retry repeats them.  Each intent carries one new file  *)
(* and may keep the files of the version before it.  Contents, digests and  *)
(* owners are left out: a fixed staging id never changes them.              *)
(***************************************************************************)
EXTENDS Sequences, FiniteSets, Naturals

CONSTANTS
  Intents,
  Tasks,          \* requests that the server works on at the same time
  NoIntent,
  Retries,        \* may a client send an intent again before it is answered?
  LostCommits,    \* may a commit succeed and its answer be lost?
  MaxFaults       \* bound: deaths of the process, and files that failed clean-ups
                  \* leave at a time, taken together

ASSUME AttachmentsAssumption ==
  /\ NoIntent \notin Intents
  /\ Retries \in BOOLEAN /\ LostCommits \in BOOLEAN
  /\ MaxFaults \in Nat

StagingKey(s)   == <<"staging", s>>
PermanentKey(s) == <<"permanent", s>>
Keys == {"staging", "permanent"} \X Intents

VARIABLES
  staging,    \* staging[s]: the row of dcl_archive_attachment_staging
  versions,   \* the subject's submissions, oldest first
  open,       \* is the newest one still open?
  adopted,    \* adopted[s]: keys in dcl_archive_attachments of submission s
  spent,      \* intents whose idempotency key has a stored response
  jobs,       \* keys in attachment_deletion_jobs
  files,      \* keys that name a file on disk
  task,       \* task[r]: what r does and what it does next
  crashes,
  abandoned,  \* history: files whose clean-up failed, and no other has done it since
  unanswered  \* intents that were adopted while the server believes they failed

vars == <<staging, versions, open, adopted, spent, jobs, files, task, crashes,
          unanswered, abandoned>>
rowVars == <<staging, versions, open, adopted, spent, jobs>>

Idle == [step |-> "idle", intent |-> NoIntent]
Steps == {"stage-read", "stage-write", "stage-commit", "stage-undo",
          "promote", "commit", "discard", "finalize"}
DrainSteps == {"remove", "erase"}
Task == {Idle}
          \cup [step : Steps, intent : Intents, kept : SUBSET Keys,
                created : BOOLEAN, seen : {"none", "live", "expired"}]
          \cup [step : DrainSteps, intent : {NoIntent}, key : Keys]

TypeOK ==
  /\ staging \in [Intents -> {"none", "live", "expired"}]
  /\ versions \in Seq(Intents)
  /\ open \in BOOLEAN
  /\ adopted \in [Intents -> SUBSET Keys]
  /\ spent \subseteq Intents
  /\ jobs \subseteq Keys
  /\ files \subseteq Keys
  /\ task \in [Tasks -> Task]
  /\ crashes \in Nat
  /\ unanswered \subseteq Intents
  /\ abandoned \subseteq Keys

Init ==
  /\ staging = [s \in Intents |-> "none"]
  /\ versions = <<>>
  /\ open = FALSE
  /\ adopted = [s \in Intents |-> {}]
  /\ spent = {}
  /\ jobs = {}
  /\ files = {}
  /\ task = [r \in Tasks |-> Idle]
  /\ crashes = 0
  /\ unanswered = {}
  /\ abandoned = {}

-------------------------------------------------------------------------------
At(r, step) == task[r].step = step
Goto(r, step) == task' = [task EXCEPT ![r].step = step]

(* To the last step, which asks for no more than what the request created.  *)
GoLast(r, step, created) ==
  task' = [task EXCEPT ![r] = [step |-> step, intent |-> task[r].intent,
                               kept |-> {}, created |-> created, seen |-> "none"]]

(* What if a request that ended still named its intent?                     *)
FinishKeepingIntent(r) == task' = [task EXCEPT ![r].step = "idle"]

Finish(r) == task' = [task EXCEPT ![r] = Idle]

Start(r, step, s, kept) ==
  task' = [task EXCEPT ![r] =
             [step |-> step, intent |-> s, kept |-> kept, created |-> FALSE,
              seen |-> IF step = "stage-write" THEN staging[s] ELSE "none"]]

(* A client that waits for its answers has one request under way per intent. *)
MaySend(s) == Retries \/ \A r \in Tasks : task[r].intent # s

(* The advisory locks: of a staging or permanent key (stage and drain), and *)
(* of the idempotency key and the subject (submit, review, delete).         *)
Locked(key) ==
  \E r \in Tasks : \/ /\ task[r].step \in {"stage-write", "stage-commit"}
                      /\ key = StagingKey(task[r].intent)
                   \/ task[r].step \in DrainSteps /\ key = task[r].key
SubjectLocked == \E r \in Tasks : task[r].step \in {"promote", "commit"}

Referenced(key) ==
  \/ \E s \in Intents : staging[s] # "none" /\ key = StagingKey(s)
  \/ \E s \in Intents : key \in adopted[s]

-------------------------------------------------------------------------------
(* stageArchiveAttachment: under the key's lock read the row, write the     *)
(* file unless it is there, then insert or renew the row and call off a     *)
(* deletion of the key.                                                     *)
StageRead(r, s) ==
  /\ task[r] = Idle /\ MaySend(s)
  /\ ~Locked(StagingKey(s))
  /\ Start(r, "stage-write", s, {})
  /\ UNCHANGED <<rowVars, files, crashes, unanswered, abandoned>>

StageWrite(r) ==
  /\ At(r, "stage-write")
  /\ files' = files \cup {StagingKey(task[r].intent)}
  /\ Goto(r, "stage-commit")
  /\ UNCHANGED <<rowVars, crashes, unanswered, abandoned>>

(* The row lock of a submit that is adopting the row.                       *)
RowLocked(s) == \E r \in Tasks : At(r, "commit") /\ task[r].intent = s

(* The rows of an upload.                                                   *)
StageRows(r) ==
  LET s == task[r].intent IN
  /\ At(r, "stage-commit")
  /\ \/ /\ task[r].seen = "none"
        /\ staging' = [staging EXCEPT ![s] = "live"]
     \/ /\ task[r].seen = "live"
        /\ UNCHANGED staging
     \/ /\ task[r].seen = "expired" /\ ~RowLocked(s)
        /\ staging' = [staging EXCEPT ![s] = IF @ = "none" THEN @ ELSE "live"]
  /\ jobs' = jobs \ {StagingKey(s)}
  /\ abandoned' = abandoned \ {StagingKey(s)}
  /\ UNCHANGED <<versions, open, adopted, spent, files, crashes, unanswered>>

StageCommit(r) == StageRows(r) /\ Finish(r)

(* The commit reached the database, the answer did not reach the server.    *)
StageCommitLost(r) ==
  LostCommits /\ StageRows(r) /\ GoLast(r, "stage-undo", FALSE)

(* What if a failed upload does not register the file it may have written?  *)
StageUndoNothing(r) ==
  /\ At(r, "stage-undo")
  /\ Finish(r)
  /\ UNCHANGED <<rowVars, files, crashes, unanswered, abandoned>>

(* A failure rolls back, and a transaction of its own has the file removed, *)
(* unless that one fails as well.                                           *)
StageFail(r) ==
  /\ task[r].step \in {"stage-write", "stage-commit"}
  /\ GoLast(r, "stage-undo", FALSE)
  /\ UNCHANGED <<rowVars, files, crashes, unanswered, abandoned>>

StageUndo(r) ==
  /\ At(r, "stage-undo")
  /\ jobs' = jobs \cup {StagingKey(task[r].intent)}
  /\ abandoned' = abandoned \ {StagingKey(task[r].intent)}
  /\ Finish(r)
  /\ UNCHANGED <<staging, versions, open, adopted, spent, files,
                 crashes, unanswered>>

(* A clean-up fails, and the file, if there is one, is left as it is.       *)
Abandon(key) ==
  /\ crashes + Cardinality(abandoned) < MaxFaults
  /\ abandoned' = abandoned \cup ({key} \cap files)

StageUndoFail(r) ==
  /\ At(r, "stage-undo")
  /\ Abandon(StagingKey(task[r].intent))
  /\ Finish(r)
  /\ UNCHANGED <<rowVars, files, crashes, unanswered>>

-------------------------------------------------------------------------------
(* submit: under the idempotency and subject locks.  A key that was used    *)
(* answers with the stored response, and the staged file is finalized       *)
(* again.  A subject whose versions are all gone takes no more submissions. *)
SubmitAgain(r, s) ==
  /\ task[r] = Idle /\ MaySend(s)
  /\ s \in spent
  /\ Start(r, "finalize", s, {})
  /\ UNCHANGED <<rowVars, files, crashes, unanswered, abandoned>>

SubmitBegin(r, s) ==
  /\ task[r] = Idle /\ MaySend(s)
  /\ ~SubjectLocked
  /\ s \notin spent
  /\ IF spent = {} THEN versions = <<>> ELSE versions # <<>> /\ ~open
  /\ \E kept \in {{}} \cup (IF versions = <<>> THEN {}
                             ELSE {adopted[versions[Len(versions)]]}) :
       Start(r, "promote", s, kept)
  /\ UNCHANGED <<rowVars, files, crashes, unanswered, abandoned>>

(* What if promote moved the file instead of copying it?                    *)
PromoteByMove(r) ==
  LET s == task[r].intent IN
  /\ At(r, "promote")
  /\ staging[s] = "live" /\ StagingKey(s) \in files
  /\ files' = (files \cup {PermanentKey(s)}) \ {StagingKey(s)}
  /\ task' = [task EXCEPT ![r].step = "commit",
                          ![r].created = PermanentKey(s) \notin files]
  /\ UNCHANGED <<rowVars, crashes, unanswered, abandoned>>

(* promoteArchiveAttachments: lock and check the staging row, then copy the *)
(* file to its permanent key, or find that it is there already.             *)
Promote(r) ==
  LET s == task[r].intent IN
  /\ At(r, "promote")
  /\ staging[s] = "live" /\ StagingKey(s) \in files
  /\ files' = files \cup {PermanentKey(s)}
  /\ task' = [task EXCEPT ![r].step = "commit",
                          ![r].created = PermanentKey(s) \notin files]
  /\ UNCHANGED <<rowVars, crashes, unanswered, abandoned>>

(* The rows of the new version.                                             *)
SubmitRows(r) ==
  LET s == task[r].intent IN
  /\ At(r, "commit")
  /\ staging' = [staging EXCEPT ![s] = "none"]
  /\ versions' = Append(versions, s)
  /\ open' = TRUE
  /\ adopted' = [adopted EXCEPT ![s] = {PermanentKey(s)} \cup task[r].kept]
  /\ spent' = spent \cup {s}
  /\ abandoned' = abandoned \ {PermanentKey(s)}
  /\ UNCHANGED <<jobs, files, crashes>>

SubmitCommit(r) ==
  SubmitRows(r) /\ GoLast(r, "finalize", FALSE) /\ UNCHANGED unanswered

(* The commit reached the database, the answer did not reach the server.    *)
SubmitCommitLost(r) ==
  /\ LostCommits
  /\ SubmitRows(r) /\ GoLast(r, "discard", task[r].created)
  /\ unanswered' = unanswered \cup {task[r].intent}

SubmitFail(r) ==
  /\ task[r].step \in {"promote", "commit"}
  /\ GoLast(r, "discard", task[r].created)
  /\ UNCHANGED <<rowVars, files, crashes, unanswered, abandoned>>

(* discardPreparedArchiveAttachments: after a failed transaction, the file  *)
(* that this request has created.  A failing removal is passed over.        *)
Discard(r) ==
  /\ At(r, "discard")
  /\ files' = IF task[r].created THEN files \ {PermanentKey(task[r].intent)}
                                 ELSE files
  /\ Finish(r)
  /\ UNCHANGED <<rowVars, crashes, unanswered, abandoned>>

DiscardFail(r) ==
  /\ At(r, "discard") /\ task[r].created
  /\ Abandon(PermanentKey(task[r].intent))
  /\ Finish(r)
  /\ UNCHANGED <<rowVars, files, crashes, unanswered>>

(* finalizeArchiveAttachments: after the commit, the staged file.  A        *)
(* failing removal is passed over here, too.                                *)
Finalize(r) ==
  /\ At(r, "finalize")
  /\ files' = files \ {StagingKey(task[r].intent)}
  /\ abandoned' = abandoned \ {StagingKey(task[r].intent)}
  /\ Finish(r)
  /\ UNCHANGED <<rowVars, crashes, unanswered>>

FinalizeFail(r) ==
  /\ At(r, "finalize")
  /\ Abandon(StagingKey(task[r].intent))
  /\ Finish(r)
  /\ UNCHANGED <<rowVars, files, crashes, unanswered>>

-------------------------------------------------------------------------------
(* Review moves the newest version between open and approved.               *)
Review ==
  /\ ~SubjectLocked /\ versions # <<>>
  /\ open' = ~open
  /\ UNCHANGED <<staging, versions, adopted, spent, jobs, files, task,
                 crashes, unanswered, abandoned>>

(* What if a deletion removes its version's files itself?                   *)
DeleteWithFiles ==
  LET s == versions[Len(versions)] IN
  /\ ~SubjectLocked /\ versions # <<>> /\ open
  /\ versions' = SubSeq(versions, 1, Len(versions) - 1)
  /\ open' = FALSE
  /\ adopted' = [adopted EXCEPT ![s] = {}]
  /\ files' = files \ adopted[s]
  /\ UNCHANGED <<staging, spent, jobs, task, crashes, unanswered, abandoned>>

(* delete: the open version and its rows; keys that no other version names  *)
(* become deletion jobs in the same transaction.                            *)
Delete ==
  LET s == versions[Len(versions)] IN
  /\ ~SubjectLocked /\ versions # <<>> /\ open
  /\ versions' = SubSeq(versions, 1, Len(versions) - 1)
  /\ open' = FALSE
  /\ adopted' = [adopted EXCEPT ![s] = {}]
  /\ jobs' = jobs \cup { key \in adopted[s] :
                           \A p \in Intents \ {s} : key \notin adopted[p] }
  /\ UNCHANGED <<staging, spent, files, task, crashes, unanswered, abandoned>>

(* 24 hours pass.                                                           *)
Expire(s) ==
  /\ staging[s] = "live"
  /\ staging' = [staging EXCEPT ![s] = "expired"]
  /\ UNCHANGED <<versions, open, adopted, spent, jobs, files, task,
                 crashes, unanswered, abandoned>>

(* cleanupArchiveAttachments, for one expired row.                          *)
Cleanup(s) ==
  /\ staging[s] = "expired"
  /\ ~RowLocked(s) /\ ~Locked(StagingKey(s))
  /\ staging' = [staging EXCEPT ![s] = "none"]
  /\ jobs' = jobs \cup {StagingKey(s)}
  /\ UNCHANGED <<versions, open, adopted, spent, files, task,
                 crashes, unanswered, abandoned>>

-------------------------------------------------------------------------------
(* drainAttachmentDeletions, for one job: under the key's lock, call the    *)
(* job off if a row names the key; else remove the file, then the job.      *)
DrainBegin(r, key) ==
  /\ task[r] = Idle
  /\ key \in jobs /\ ~Locked(key)
  /\ IF Referenced(key)
       THEN /\ jobs' = jobs \ {key}
            /\ UNCHANGED task
       ELSE /\ task' = [task EXCEPT ![r] = [step |-> "remove",
                                            intent |-> NoIntent, key |-> key]]
            /\ UNCHANGED jobs
  /\ UNCHANGED <<staging, versions, open, adopted, spent, files,
                 crashes, unanswered, abandoned>>

DrainRemove(r) ==
  /\ At(r, "remove")
  /\ files' = files \ {task[r].key}
  /\ Goto(r, "erase")
  /\ UNCHANGED <<rowVars, crashes, unanswered, abandoned>>

DrainCommit(r) ==
  /\ At(r, "erase")
  /\ jobs' = jobs \ {task[r].key}
  /\ Finish(r)
  /\ UNCHANGED <<staging, versions, open, adopted, spent, files,
                 crashes, unanswered, abandoned>>

DrainFail(r) ==
  /\ task[r].step \in DrainSteps
  /\ Finish(r)
  /\ UNCHANGED <<rowVars, files, crashes, unanswered, abandoned>>

(* The process dies: transactions roll back, files stay as they are.        *)
Crash ==
  /\ crashes + Cardinality(abandoned) < MaxFaults
  /\ crashes' = crashes + 1
  /\ task' = [r \in Tasks |-> Idle]
  /\ UNCHANGED <<rowVars, files, unanswered, abandoned>>

Next ==
  \/ \E r \in Tasks :
       \/ \E s \in Intents : StageRead(r, s) \/ SubmitAgain(r, s) \/ SubmitBegin(r, s)
       \/ StageWrite(r) \/ StageCommit(r) \/ StageCommitLost(r)
       \/ StageFail(r) \/ StageUndo(r) \/ StageUndoFail(r)
       \/ Promote(r) \/ SubmitCommit(r) \/ SubmitCommitLost(r) \/ SubmitFail(r)
       \/ Discard(r) \/ DiscardFail(r) \/ Finalize(r) \/ FinalizeFail(r)
       \/ \E key \in Keys : DrainBegin(r, key)
       \/ DrainRemove(r) \/ DrainCommit(r) \/ DrainFail(r)
  \/ \E s \in Intents : Expire(s) \/ Cleanup(s)
  \/ Review \/ Delete \/ Crash

Spec == Init /\ [][Next]_vars
-------------------------------------------------------------------------------
(* The files of a submission that is in force although the server took it   *)
(* for failed: its new file has been discarded, its staged file stays.      *)
Doubtful(key) == \E s \in unanswered : key \in {StagingKey(s), PermanentKey(s)}

(* dcl.md 3: attachments are adopted atomically with their submission and   *)
(* keep their storage key: every adopted row names a file that exists,      *)
(* through failed requests, deletions, drains and crashes.  A commit whose  *)
(* answer is lost costs no file but the one it adopted itself.              *)
AdoptedFilesExist ==
  \A s \in Intents : \A key \in adopted[s] : key \in files \/ Doubtful(key)

(* attachment-store.ts 109: a failed submission stays retryable.  As long   *)
(* as an intent has not been adopted, its staging row names a file.         *)
UnadoptedFilesStay ==
  \A s \in Intents : staging[s] # "none" /\ s \notin spent => StagingKey(s) \in files

(* vou.md 5: what rows no longer name is registered for deletion.  When     *)
(* nothing is under way and the process has not died, a file that no row    *)
(* and no deletion job names is the one of a commit that was not answered,  *)
(* or its clean-up has failed: the removal in finalize or discard, or the   *)
(* registration after a failed upload.                                      *)
NothingLeaks ==
  (\A r \in Tasks : task[r] = Idle) /\ crashes = 0 =>
    \A key \in files :
      Referenced(key) \/ key \in jobs \/ Doubtful(key) \/ key \in abandoned
===============================================================================
