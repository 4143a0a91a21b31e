--------------------------- MODULE AttachmentsProofs ---------------------------
(***************************************************************************)
(* A failed submission stays retryable, for any number of intents, requests *)
(* and crashes, with retries under way and commits whose answer is lost:    *)
(* the staged file of an intent that was not adopted is never removed.      *)
(*                                                                         *)
(* The invariant says why.  The key's lock keeps a request that stages a    *)
(* file and one that drains the same key apart; a drain that went past its  *)
(* check has seen no row, and none can come back while it holds the lock;   *)
(* and only an intent that was adopted is finalized.                        *)
(*                                                                         *)
(* For clients that wait for their answers, two more invariants follow: no  *)
(* adopted file is lost, and no file is left that nothing names.            *)
(***************************************************************************)
EXTENDS Attachments, TLAPS

Stages(r, s) == /\ task[r].step \in {"stage-write", "stage-commit"}
                /\ task[r].intent = s
Drains(r, s) == task[r].step \in DrainSteps /\ task[r].key = StagingKey(s)
Holds(r, s)  == Stages(r, s) \/ Drains(r, s)

(* At most one request stages or drains a key.                              *)
KeyLockHeld ==
  \A s \in Intents : \A r, x \in Tasks : Holds(r, s) /\ Holds(x, s) => r = x

(* The file is there, or nobody will ask for it again.                      *)
StillThere(s) == s \in spent \/ StagingKey(s) \in files

(* What one request knows about the staging key of s.                       *)
Knows(r, s) ==
  /\ task[r].step = "stage-commit" /\ task[r].intent = s => StillThere(s)
  /\ task[r].step = "finalize" /\ task[r].intent = s => s \in spent
  /\ Drains(r, s) => staging[s] = "none"

StagingInv ==
  /\ KeyLockHeld
  /\ \A r \in Tasks, s \in Intents : Knows(r, s)
  /\ UnadoptedFilesStay

-------------------------------------------------------------------------------
(* A request that moves on keeps what it is about.                          *)
LEMMA Moves ==
  ASSUME NEW t \in Task, t # Idle, NEW step
  PROVE  /\ t.step \in Steps /\ step \in Steps => [t EXCEPT !.step = step] \in Task
         /\ t.step \in DrainSteps /\ step \in DrainSteps
              => [t EXCEPT !.step = step] \in Task
<1>1. ASSUME t.step \in Steps, step \in Steps
      PROVE  [t EXCEPT !.step = step] \in Task
  BY <1>1 DEF Task, Steps, DrainSteps
<1>2. ASSUME t.step \in DrainSteps, step \in DrainSteps
      PROVE  [t EXCEPT !.step = step] \in Task
  BY <1>2 DEF Task, Steps, DrainSteps
<1> QED BY <1>1, <1>2

LEMMA Typed == Init => TypeOK
<1> SUFFICES ASSUME Init PROVE TypeOK
  OBVIOUS
<1>1. task \in [Tasks -> Task]
  BY DEF Init, Task
<1>2. crashes \in Nat /\ unanswered \subseteq Intents
  BY AttachmentsAssumption DEF AttachmentsAssumption, Init
<1>3. versions \in Seq(Intents)
  BY DEF Init
<1> QED BY <1>1, <1>2, <1>3 DEF Init, TypeOK

LEMMA KeysTyped == \A s \in Intents : StagingKey(s) \in Keys /\ PermanentKey(s) \in Keys
BY DEF StagingKey, PermanentKey, Keys

(* The two ways in which a request under way gets its next step.            *)
LEMMA GoesOn ==
  ASSUME TypeOK, NEW r \in Tasks, NEW step,
         \/ task[r].step \in Steps /\ step \in Steps
         \/ task[r].step \in DrainSteps /\ step \in DrainSteps,
         Goto(r, step)
  PROVE  task' \in [Tasks -> Task]
<1>1. task[r] \in Task /\ task[r] # Idle
  BY DEF TypeOK, Idle, Steps, DrainSteps
<1>2. [task[r] EXCEPT !.step = step] \in Task
  BY <1>1, Moves
<1> QED BY <1>2 DEF TypeOK, Goto

LEMMA Ends ==
  ASSUME TypeOK, NEW r \in Tasks, Finish(r)
  PROVE  task' \in [Tasks -> Task]
BY DEF TypeOK, Finish, Task

LEMMA Begins ==
  ASSUME TypeOK, NEW r \in Tasks, NEW s \in Intents, NEW step \in Steps,
         NEW kept \in SUBSET Keys, Start(r, step, s, kept)
  PROVE  task' \in [Tasks -> Task]
<1> DEFINE seen == IF step = "stage-write" THEN staging[s] ELSE "none"
           begun == [step |-> step, intent |-> s, kept |-> kept,
                     created |-> FALSE, seen |-> seen]
<1>1. seen \in {"none", "live", "expired"}
  BY DEF TypeOK
<1>2. begun \in Task
  BY <1>1 DEF Task
<1>3. task' = [task EXCEPT ![r] = begun]
  BY DEF Start
<1> QED BY <1>2, <1>3 DEF TypeOK

(* The way to a last step.                                                  *)
LEMMA GoesLast ==
  ASSUME TypeOK, NEW r \in Tasks, task[r].step \in Steps,
         NEW step \in Steps, NEW created \in BOOLEAN, GoLast(r, step, created)
  PROVE  /\ task' \in [Tasks -> Task]
         /\ task'[r].step = step /\ task'[r].intent = task[r].intent
         /\ task'[r].created = created
         /\ \A x \in Tasks \ {r} : task'[x] = task[x]
<1> DEFINE last == [step |-> step, intent |-> task[r].intent, kept |-> {},
                    created |-> created, seen |-> "none"]
<1>1. task[r].intent \in Intents
  BY DEF TypeOK, Task, Idle, Steps, DrainSteps
<1>2. last \in Task
  BY <1>1 DEF Task
<1>3. task' = [task EXCEPT ![r] = last]
  BY DEF GoLast
<1> QED BY <1>2, <1>3 DEF TypeOK

(* What a request under way is about.                                       *)
LEMMA About ==
  ASSUME TypeOK, NEW r \in Tasks
  PROVE  /\ task[r].step \in Steps => task[r] \in [step : Steps, intent : Intents,
              kept : SUBSET Keys, created : BOOLEAN, seen : {"none", "live", "expired"}]
         /\ task[r].step \in DrainSteps => task[r] \in
              [step : DrainSteps, intent : {NoIntent}, key : Keys]
         /\ task[r].step \notin Steps \cup DrainSteps => task[r] = Idle
BY DEF TypeOK, Task, Steps, DrainSteps, Idle

(* A clean-up that fails ends its request and leaves everything in place.   *)
CleanupFails(r) == StageUndoFail(r) \/ DiscardFail(r) \/ FinalizeFail(r)

LEMMA FailingEnds ==
  ASSUME TypeOK, NEW r \in Tasks, CleanupFails(r)
  PROVE  /\ Finish(r) /\ task[r].intent \in Intents
         /\ UNCHANGED <<rowVars, files, crashes, unanswered>>
         /\ abandoned \subseteq abandoned' /\ abandoned' \subseteq abandoned \cup files
<1>1. task[r].step \in Steps
  BY DEF CleanupFails, StageUndoFail, DiscardFail, FinalizeFail, At, Steps
<1> QED BY <1>1, About DEF CleanupFails, StageUndoFail, DiscardFail, FinalizeFail, Abandon

LEMMA TypeStep == ASSUME TypeOK, [Next]_vars PROVE TypeOK'
<1>1. ASSUME NEW r \in Tasks, NEW s \in Intents, StageRead(r, s)
      PROVE  TypeOK'
  <2>1. task' \in [Tasks -> Task]
    BY <1>1, Begins DEF StageRead, Steps
  <2> QED BY <1>1, <2>1 DEF StageRead, TypeOK, rowVars
<1>2. ASSUME NEW r \in Tasks, NEW s \in Intents, SubmitAgain(r, s)
      PROVE  TypeOK'
  <2>1. task' \in [Tasks -> Task]
    BY <1>2, Begins DEF SubmitAgain, Steps
  <2> QED BY <1>2, <2>1 DEF SubmitAgain, TypeOK, rowVars
<1>3. ASSUME NEW r \in Tasks, NEW s \in Intents, SubmitBegin(r, s)
      PROVE  TypeOK'
  <2>1. PICK kept \in {{}} \cup (IF versions = <<>> THEN {}
                             ELSE {adopted[versions[Len(versions)]]}) :
          Start(r, "promote", s, kept)
    BY <1>3 DEF SubmitBegin
  <2>2. CASE kept = {}
    <3>1. task' \in [Tasks -> Task]
      BY <2>1, <2>2, Begins DEF Steps
    <3> QED BY <1>3, <3>1 DEF SubmitBegin, TypeOK, rowVars
  <2>3. CASE versions # <<>> /\ kept = adopted[versions[Len(versions)]]
    <3>1. versions[Len(versions)] \in Intents
      BY <2>3 DEF TypeOK
    <3>2. kept \in SUBSET Keys
      BY <2>3, <3>1 DEF TypeOK
    <3>3. task' \in [Tasks -> Task]
      BY <2>1, <3>2, Begins DEF Steps
    <3> QED BY <1>3, <3>3 DEF SubmitBegin, TypeOK, rowVars
  <2> QED BY <2>1, <2>2, <2>3
<1>4. ASSUME NEW r \in Tasks, StageWrite(r)
      PROVE  TypeOK'
  <2>1. task' \in [Tasks -> Task]
    BY <1>4, GoesOn DEF StageWrite, At, Steps
  <2>2. task[r].intent \in Intents
    BY <1>4, About DEF StageWrite, At, Steps
  <2>3. files' \subseteq Keys
    BY <1>4, <2>2, KeysTyped DEF StageWrite, TypeOK
  <2> QED BY <1>4, <2>1, <2>3 DEF StageWrite, TypeOK, rowVars
<1>5. ASSUME NEW r \in Tasks, StageRows(r), Finish(r) \/ GoLast(r, "stage-undo", FALSE)
      PROVE  TypeOK'
  <2>1. task' \in [Tasks -> Task]
    BY <1>5, Ends, GoesLast DEF StageRows, At, Steps
  <2>2. staging' \in [Intents -> {"none", "live", "expired"}]
    BY <1>5 DEF StageRows, TypeOK
  <2> QED BY <1>5, <2>1, <2>2 DEF StageRows, TypeOK
<1>6. ASSUME NEW r \in Tasks, StageFail(r)
      PROVE  TypeOK'
  <2>1. task' \in [Tasks -> Task]
    BY <1>6, GoesLast DEF StageFail, Steps
  <2> QED BY <1>6, <2>1 DEF StageFail, TypeOK, rowVars
<1>7. ASSUME NEW r \in Tasks, StageUndo(r)
      PROVE  TypeOK'
  <2>1. task' \in [Tasks -> Task]
    BY <1>7, Ends DEF StageUndo
  <2>2. task[r].intent \in Intents
    BY <1>7, About DEF StageUndo, At, Steps
  <2>3. jobs' \subseteq Keys
    BY <1>7, <2>2, KeysTyped DEF StageUndo, TypeOK
  <2> QED BY <1>7, <2>1, <2>3 DEF StageUndo, TypeOK
<1>8. ASSUME NEW r \in Tasks, Promote(r)
      PROVE  TypeOK'
  <2> DEFINE s == task[r].intent
             found == PermanentKey(s) \notin files
  <2>1. task[r] \in [step : Steps, intent : Intents, kept : SUBSET Keys,
                     created : BOOLEAN, seen : {"none", "live", "expired"}]
    BY <1>8, About DEF Promote, At, Steps
  <2>2. [task[r] EXCEPT !.step = "commit", !.created = found] \in Task
    <3> HIDE DEF found
    <3>1. found \in BOOLEAN
      BY DEF found
    <3> QED BY <2>1, <3>1 DEF Task, Steps
  <2>3. task' \in [Tasks -> Task]
    BY <1>8, <2>2 DEF Promote, TypeOK
  <2>4. files' \subseteq Keys
    BY <1>8, <2>1, KeysTyped DEF Promote, TypeOK
  <2> QED BY <1>8, <2>3, <2>4 DEF Promote, TypeOK, rowVars
<1>9. ASSUME NEW r \in Tasks, SubmitRows(r),
             \/ GoLast(r, "finalize", FALSE)
             \/ GoLast(r, "discard", task[r].created),
             unanswered' \in {unanswered, unanswered \cup {task[r].intent}}
      PROVE  TypeOK'
  <2>1. task' \in [Tasks -> Task]
    BY <1>9, About, GoesLast DEF SubmitRows, At, Steps
  <2>2. task[r].intent \in Intents /\ task[r].kept \in SUBSET Keys
    BY <1>9, About DEF SubmitRows, At, Steps
  <2>3. adopted' \in [Intents -> SUBSET Keys]
    BY <1>9, <2>2, KeysTyped DEF SubmitRows, TypeOK
  <2>4. versions' \in Seq(Intents)
    BY <1>9, <2>2 DEF SubmitRows, TypeOK
  <2>5. spent' \subseteq Intents
    BY <1>9, <2>2 DEF SubmitRows, TypeOK
  <2>6. staging' \in [Intents -> {"none", "live", "expired"}]
    BY <1>9 DEF SubmitRows, TypeOK
  <2> QED BY <1>9, <2>1, <2>3, <2>4, <2>5, <2>6 DEF SubmitRows, TypeOK
<1>10. ASSUME NEW r \in Tasks, SubmitFail(r)
      PROVE  TypeOK'
  <2>1. task' \in [Tasks -> Task]
    BY <1>10, About, GoesLast DEF SubmitFail, Steps
  <2> QED BY <1>10, <2>1 DEF SubmitFail, TypeOK, rowVars
<1>11. ASSUME NEW r \in Tasks, Discard(r)
      PROVE  TypeOK'
  <2>1. task' \in [Tasks -> Task]
    BY <1>11, Ends DEF Discard
  <2> QED BY <1>11, <2>1 DEF Discard, TypeOK, rowVars
<1>12. ASSUME NEW r \in Tasks, Finalize(r)
      PROVE  TypeOK'
  <2>1. task' \in [Tasks -> Task]
    BY <1>12, Ends DEF Finalize
  <2> QED BY <1>12, <2>1 DEF Finalize, TypeOK, rowVars
<1>13. ASSUME NEW r \in Tasks, NEW key \in Keys, DrainBegin(r, key)
      PROVE  TypeOK'
  <2>1. task' \in [Tasks -> Task]
    <3>1. [step |-> "remove", intent |-> NoIntent, key |-> key] \in Task
      BY DEF Task, DrainSteps
    <3> QED BY <1>13, <3>1 DEF DrainBegin, TypeOK
  <2> QED BY <1>13, <2>1 DEF DrainBegin, TypeOK
<1>14. ASSUME NEW r \in Tasks, DrainRemove(r)
      PROVE  TypeOK'
  <2>1. task' \in [Tasks -> Task]
    BY <1>14, GoesOn DEF DrainRemove, At, DrainSteps
  <2> QED BY <1>14, <2>1 DEF DrainRemove, TypeOK, rowVars
<1>15. ASSUME NEW r \in Tasks, DrainCommit(r) \/ DrainFail(r)
      PROVE  TypeOK'
  <2>1. task' \in [Tasks -> Task]
    BY <1>15, Ends DEF DrainCommit, DrainFail
  <2> QED BY <1>15, <2>1 DEF DrainCommit, DrainFail, TypeOK, rowVars
<1>16. ASSUME NEW s \in Intents, Expire(s) \/ Cleanup(s)
       PROVE  TypeOK'
  BY <1>16, KeysTyped DEF Expire, Cleanup, TypeOK
<1>17. CASE Review
  BY <1>17 DEF Review, TypeOK
<1>18. CASE Delete
  <2>1. Len(versions) \in Nat \ {0} /\ versions[Len(versions)] \in Intents
    BY <1>18 DEF Delete, TypeOK
  <2>2. versions' \in Seq(Intents)
    BY <1>18, <2>1 DEF Delete, TypeOK
  <2>3. adopted' \in [Intents -> SUBSET Keys] /\ jobs' \subseteq Keys
    BY <1>18, <2>1 DEF Delete, TypeOK
  <2> QED BY <1>18, <2>2, <2>3 DEF Delete, TypeOK
<1>19. CASE Crash
  <2>1. task' \in [Tasks -> Task]
    BY <1>19 DEF Crash, Task
  <2>2. crashes' \in Nat /\ unanswered' \subseteq Intents
    BY <1>19, AttachmentsAssumption DEF AttachmentsAssumption, Crash, TypeOK
  <2> QED BY <1>19, <2>1, <2>2 DEF Crash, TypeOK, rowVars
<1>20. CASE UNCHANGED vars
  BY <1>20 DEF vars, TypeOK
<1>21. ASSUME NEW r \in Tasks, CleanupFails(r)
       PROVE  TypeOK'
  <2>1. task' \in [Tasks -> Task]
    BY <1>21, FailingEnds, Ends
  <2>2. abandoned' \subseteq Keys
    BY <1>21, FailingEnds DEF TypeOK
  <2> QED BY <1>21, <2>1, <2>2, FailingEnds DEF TypeOK, rowVars
<1> QED
  BY <1>1, <1>2, <1>3, <1>4, <1>5, <1>6, <1>7, <1>8, <1>9, <1>10, <1>11, <1>12,
     <1>13, <1>14, <1>15, <1>16, <1>17, <1>18, <1>19, <1>20, <1>21
     DEF Next, StageCommit, StageCommitLost, SubmitCommit, SubmitCommitLost, CleanupFails

(* What the server keeps about an archive's attachments is always well      *)
(* formed.                                                                  *)
THEOREM AttachmentsTypeCorrect == Spec => []TypeOK
<1>1. Init => TypeOK
  BY Typed
<1>2. TypeOK /\ [Next]_vars => TypeOK'
  BY TypeStep
<1> QED BY <1>1, <1>2, PTL DEF Spec

-------------------------------------------------------------------------------
(* The same moves, as the invariant sees them.                              *)
LEMMA GoesOnTo ==
  ASSUME TypeOK, NEW r \in Tasks, NEW step,
         \/ task[r].step \in Steps /\ step \in Steps
         \/ task[r].step \in DrainSteps /\ step \in DrainSteps,
         Goto(r, step)
  PROVE  /\ task'[r].step = step
         /\ task'[r].intent = task[r].intent
         /\ task[r].step \in DrainSteps => task'[r].key = task[r].key
         /\ \A x \in Tasks \ {r} : task'[x] = task[x]
<1>1. /\ task'[r] = [task[r] EXCEPT !.step = step]
      /\ \A x \in Tasks \ {r} : task'[x] = task[x]
  BY DEF TypeOK, Goto
<1>2. CASE task[r].step \in Steps
  <2>1. task[r].step \notin DrainSteps
    BY <1>2 DEF Steps, DrainSteps
  <2> QED BY <1>1, <1>2, <2>1, About
<1>3. CASE task[r].step \in DrainSteps
  BY <1>1, <1>3, About
<1> QED BY <1>1, <1>2, <1>3

LEMMA EndsIdle ==
  ASSUME TypeOK, NEW r \in Tasks, Finish(r)
  PROVE  /\ \A s \in Intents : ~Holds(r, s)' /\ Knows(r, s)'
         /\ \A x \in Tasks \ {r} : task'[x] = task[x]
BY DEF TypeOK, Finish, Idle, Holds, Stages, Drains, DrainSteps, Knows

LEMMA BeginsAt ==
  ASSUME TypeOK, NEW r \in Tasks, NEW s \in Intents, NEW step \in Steps,
         NEW kept, Start(r, step, s, kept)
  PROVE  /\ task'[r].step = step /\ task'[r].intent = s
         /\ \A x \in Tasks \ {r} : task'[x] = task[x]
BY DEF TypeOK, Start

(* A step that takes no key lock, removes no staged file that somebody may  *)
(* still ask for and revives no row keeps the invariant.                    *)
LEMMA Quiet ==
  ASSUME StagingInv,
         spent \subseteq spent',
         \A s \in Intents : StillThere(s) => StillThere(s)',
         \A s \in Intents : staging[s] = "none" => staging'[s] = "none",
         \A x \in Tasks : \/ task'[x] = task[x]
                          \/ \A s \in Intents : /\ Holds(x, s)' => Holds(x, s)
                                                /\ Knows(x, s)'
  PROVE  StagingInv'
<1>1. \A x \in Tasks, s \in Intents : Holds(x, s)' => Holds(x, s)
  BY DEF Holds, Stages, Drains
<1>2. KeyLockHeld'
  BY <1>1 DEF StagingInv, KeyLockHeld
<1>3. ASSUME NEW x \in Tasks, NEW s \in Intents
      PROVE  Knows(x, s)'
  <2>1. CASE task'[x] = task[x]
    <3>1. Knows(x, s)
      BY DEF StagingInv
    <3> QED BY <2>1, <3>1 DEF Knows, Drains
  <2> QED BY <2>1
<1>4. UnadoptedFilesStay'
  BY DEF StagingInv, UnadoptedFilesStay, StillThere
<1> QED BY <1>2, <1>3, <1>4 DEF StagingInv

LEMMA StagingKeysDiffer ==
  \A s, p \in Intents : /\ StagingKey(s) = StagingKey(p) => s = p
                        /\ StagingKey(s) # PermanentKey(p)
BY DEF StagingKey, PermanentKey

LEMMA StagingInit == Init => StagingInv
BY DEF Init, StagingInv, KeyLockHeld, Holds, Stages, Drains, Knows, Idle, DrainSteps,
       UnadoptedFilesStay

LEMMA StagingStep == ASSUME TypeOK, StagingInv, [Next]_vars PROVE StagingInv'
<1> USE DEF Holds, Stages, Drains, Steps, DrainSteps, At
<1>1. ASSUME NEW r \in Tasks, NEW s \in Intents, StageRead(r, s)
      PROVE  StagingInv'
  <2>1. /\ task'[r].step = "stage-write" /\ task'[r].intent = s
        /\ \A x \in Tasks \ {r} : task'[x] = task[x]
    BY <1>1, BeginsAt DEF StageRead
  <2>2. \A x \in Tasks : ~Holds(x, s)
    BY <1>1 DEF StageRead, Locked
  <2>3. KeyLockHeld'
    BY <2>1, <2>2 DEF StagingInv, KeyLockHeld
  <2>4. ASSUME NEW x \in Tasks, NEW p \in Intents
        PROVE  Knows(x, p)'
    <3>1. Knows(x, p)
      BY DEF StagingInv
    <3> QED BY <1>1, <2>1, <3>1 DEF StageRead, rowVars, Knows, StillThere
  <2>5. UnadoptedFilesStay'
    BY <1>1 DEF StageRead, rowVars, StagingInv, UnadoptedFilesStay
  <2> QED BY <2>3, <2>4, <2>5 DEF StagingInv
<1>2. ASSUME NEW r \in Tasks, NEW s \in Intents, SubmitAgain(r, s)
      PROVE  StagingInv'
  <2>1. /\ task'[r].step = "finalize" /\ task'[r].intent = s
        /\ \A x \in Tasks \ {r} : task'[x] = task[x]
    BY <1>2, BeginsAt DEF SubmitAgain
  <2> QED BY <1>2, <2>1, Quiet DEF SubmitAgain, rowVars, Knows, StillThere
<1>3. ASSUME NEW r \in Tasks, NEW s \in Intents, SubmitBegin(r, s)
      PROVE  StagingInv'
  <2>1. PICK kept : Start(r, "promote", s, kept)
    BY <1>3 DEF SubmitBegin
  <2>2. /\ task'[r].step = "promote" /\ task'[r].intent = s
        /\ \A x \in Tasks \ {r} : task'[x] = task[x]
    BY <2>1, BeginsAt
  <2> QED BY <1>3, <2>2, Quiet DEF SubmitBegin, rowVars, Knows, StillThere
<1>4. ASSUME NEW r \in Tasks, StageWrite(r)
      PROVE  StagingInv'
  <2>1. /\ task'[r].step = "stage-commit" /\ task'[r].intent = task[r].intent
        /\ \A x \in Tasks \ {r} : task'[x] = task[x]
    BY <1>4, GoesOnTo DEF StageWrite
  <2> QED BY <1>4, <2>1, Quiet DEF StageWrite, rowVars, Knows, StillThere
<1>5. ASSUME NEW r \in Tasks, StageRows(r), Finish(r) \/ GoLast(r, "stage-undo", FALSE)
      PROVE  StagingInv'
  <2> DEFINE s == task[r].intent
  <2>1. /\ \A p \in Intents : ~Holds(r, p)' /\ Knows(r, p)'
        /\ \A x \in Tasks \ {r} : task'[x] = task[x]
    <3>1. CASE Finish(r)
      BY <3>1, EndsIdle
    <3>2. CASE GoLast(r, "stage-undo", FALSE)
      <4>1. /\ task'[r].step = "stage-undo"
            /\ \A x \in Tasks \ {r} : task'[x] = task[x]
        BY <1>5, <3>2, GoesLast DEF StageRows
      <4> QED BY <4>1 DEF Knows
    <3> QED BY <1>5, <3>1, <3>2
  <2>2. s \in Intents /\ Holds(r, s)
    BY <1>5, About DEF StageRows
  <2>3. StillThere(s)
    BY <1>5, <2>2 DEF StageRows, StagingInv, Knows
  <2>4. \A p \in Intents \ {s} : staging'[p] = staging[p]
    BY <1>5 DEF StageRows, TypeOK
  <2>5. \A x \in Tasks \ {r} : ~Holds(x, s)
    BY <2>2 DEF StagingInv, KeyLockHeld
  <2>6. KeyLockHeld'
    BY <2>1 DEF StagingInv, KeyLockHeld
  <2>7. ASSUME NEW x \in Tasks \ {r}, NEW p \in Intents
        PROVE  Knows(x, p)'
    <3>1. Knows(x, p)
      BY DEF StagingInv
    <3>2. Drains(x, p) => staging'[p] = "none"
      BY <2>4, <2>5, <3>1 DEF Knows
    <3> QED BY <1>5, <2>1, <3>1, <3>2 DEF StageRows, Knows, StillThere
  <2>8. UnadoptedFilesStay'
    BY <1>5, <2>3, <2>4 DEF StageRows, StagingInv, UnadoptedFilesStay, StillThere
  <2> QED BY <2>1, <2>6, <2>7, <2>8 DEF StagingInv
<1>6. ASSUME NEW r \in Tasks, StageFail(r)
      PROVE  StagingInv'
  <2>1. /\ task'[r].step = "stage-undo"
        /\ \A x \in Tasks \ {r} : task'[x] = task[x]
    BY <1>6, GoesLast DEF StageFail
  <2> QED BY <1>6, <2>1, Quiet DEF StageFail, rowVars, Knows, StillThere
<1>7. ASSUME NEW r \in Tasks, StageUndo(r)
      PROVE  StagingInv'
  <2>1. /\ \A p \in Intents : ~Holds(r, p)' /\ Knows(r, p)'
        /\ \A x \in Tasks \ {r} : task'[x] = task[x]
    BY <1>7, EndsIdle DEF StageUndo
  <2> QED BY <1>7, <2>1, Quiet DEF StageUndo, StillThere
<1>8. ASSUME NEW r \in Tasks, Promote(r)
      PROVE  StagingInv'
  <2>1. /\ task'[r].step = "commit"
        /\ \A x \in Tasks \ {r} : task'[x] = task[x]
    <3>1. task[r] \in [step : Steps, intent : Intents, kept : SUBSET Keys,
                       created : BOOLEAN, seen : {"none", "live", "expired"}]
      BY <1>8, About DEF Promote
    <3> QED BY <1>8, <3>1 DEF Promote, TypeOK
  <2> QED BY <1>8, <2>1, Quiet DEF Promote, rowVars, Knows, StillThere
<1>9. ASSUME NEW r \in Tasks, SubmitRows(r),
             \/ GoLast(r, "finalize", FALSE)
             \/ GoLast(r, "discard", task[r].created)
      PROVE  StagingInv'
  <2> DEFINE s == task[r].intent
  <2>1. /\ task'[r].step \in {"finalize", "discard"} /\ task'[r].intent = s
        /\ \A x \in Tasks \ {r} : task'[x] = task[x]
    BY <1>9, About, GoesLast DEF SubmitRows
  <2>2. spent' = spent \cup {s} /\ files' = files
    BY <1>9 DEF SubmitRows
  <2>3. \A p \in Intents : staging[p] = "none" => staging'[p] = "none"
    BY <1>9 DEF SubmitRows, TypeOK
  <2>4. \A p \in Intents : Knows(r, p)' /\ (Holds(r, p)' => Holds(r, p))
    BY <2>1, <2>2 DEF Knows
  <2> QED BY <2>1, <2>2, <2>3, <2>4, Quiet DEF StillThere
<1>10. ASSUME NEW r \in Tasks, SubmitFail(r)
       PROVE  StagingInv'
  <2>1. /\ task'[r].step = "discard"
        /\ \A x \in Tasks \ {r} : task'[x] = task[x]
    BY <1>10, About, GoesLast DEF SubmitFail
  <2> QED BY <1>10, <2>1, Quiet DEF SubmitFail, rowVars, Knows, StillThere
<1>11. ASSUME NEW r \in Tasks, Discard(r)
       PROVE  StagingInv'
  <2>1. /\ \A p \in Intents : ~Holds(r, p)' /\ Knows(r, p)'
        /\ \A x \in Tasks \ {r} : task'[x] = task[x]
    BY <1>11, EndsIdle DEF Discard
  <2>2. task[r].intent \in Intents
    BY <1>11, About DEF Discard
  <2>3. \A p \in Intents : StillThere(p) => StillThere(p)'
    BY <1>11, <2>2, StagingKeysDiffer DEF Discard, rowVars, StillThere
  <2> QED BY <1>11, <2>1, <2>3, Quiet DEF Discard, rowVars
<1>12. ASSUME NEW r \in Tasks, Finalize(r)
       PROVE  StagingInv'
  <2> DEFINE s == task[r].intent
  <2>1. /\ \A p \in Intents : ~Holds(r, p)' /\ Knows(r, p)'
        /\ \A x \in Tasks \ {r} : task'[x] = task[x]
    BY <1>12, EndsIdle DEF Finalize
  <2>2. s \in Intents /\ s \in spent
    BY <1>12, About DEF Finalize, StagingInv, Knows
  <2>3. \A p \in Intents : StillThere(p) => StillThere(p)'
    BY <1>12, <2>2, StagingKeysDiffer DEF Finalize, rowVars, StillThere
  <2> QED BY <1>12, <2>1, <2>3, Quiet DEF Finalize, rowVars
<1>13. ASSUME NEW r \in Tasks, NEW key \in Keys, DrainBegin(r, key)
       PROVE  StagingInv'
  <2>1. CASE Referenced(key)
    BY <1>13, <2>1, Quiet DEF DrainBegin, StillThere
  <2>2. CASE ~Referenced(key)
    <3>1. /\ task'[r].step = "remove" /\ task'[r].key = key
          /\ \A x \in Tasks \ {r} : task'[x] = task[x]
      BY <1>13, <2>2 DEF DrainBegin, TypeOK
    <3>2. \A x \in Tasks, p \in Intents : Holds(x, p) => key # StagingKey(p)
      BY <1>13 DEF DrainBegin, Locked
    <3>3. KeyLockHeld'
      BY <3>1, <3>2 DEF StagingInv, KeyLockHeld
    <3>4. ASSUME NEW x \in Tasks, NEW p \in Intents
          PROVE  Knows(x, p)'
      <4>1. Knows(x, p)
        BY DEF StagingInv
      <4>2. key = StagingKey(p) => staging[p] = "none"
        BY <2>2 DEF Referenced, TypeOK
      <4> QED BY <1>13, <3>1, <4>1, <4>2 DEF DrainBegin, Knows, StillThere
    <3>5. UnadoptedFilesStay'
      BY <1>13 DEF DrainBegin, StagingInv, UnadoptedFilesStay
    <3> QED BY <3>3, <3>4, <3>5 DEF StagingInv
  <2> QED BY <2>1, <2>2
<1>14. ASSUME NEW r \in Tasks, DrainRemove(r)
       PROVE  StagingInv'
  <2>1. /\ task'[r].step = "erase" /\ task'[r].key = task[r].key
        /\ \A x \in Tasks \ {r} : task'[x] = task[x]
    BY <1>14, GoesOnTo DEF DrainRemove
  <2>2. \A x \in Tasks, p \in Intents : Holds(x, p)' => Holds(x, p)
    BY <1>14, <2>1 DEF DrainRemove
  <2>3. KeyLockHeld'
    BY <2>2 DEF StagingInv, KeyLockHeld
  <2>4. ASSUME NEW x \in Tasks, NEW p \in Intents
        PROVE  Knows(x, p)'
    <3>1. Knows(x, p)
      BY DEF StagingInv
    <3>2. CASE x = r
      BY <1>14, <2>1, <3>1, <3>2 DEF DrainRemove, rowVars, Knows
    <3>3. CASE x # r
      <4>1. Holds(x, p) => task[r].key # StagingKey(p)
        BY <1>14, <3>3 DEF DrainRemove, StagingInv, KeyLockHeld
      <4>2. Holds(x, p) /\ StillThere(p) => StillThere(p)'
        BY <1>14, <4>1 DEF DrainRemove, rowVars, StillThere
      <4> QED BY <1>14, <2>1, <3>1, <3>3, <4>2 DEF DrainRemove, rowVars, Knows
    <3> QED BY <3>2, <3>3
  <2>5. ASSUME NEW p \in Intents, staging[p] # "none", StillThere(p)
        PROVE  StillThere(p)'
    <3>1. task[r].key # StagingKey(p)
      BY <1>14, <2>5 DEF DrainRemove, StagingInv, Knows
    <3> QED BY <1>14, <2>5, <3>1 DEF DrainRemove, rowVars, StillThere
  <2>6. UnadoptedFilesStay'
    BY <1>14, <2>5 DEF DrainRemove, rowVars, StagingInv, UnadoptedFilesStay, StillThere
  <2> QED BY <2>3, <2>4, <2>6 DEF StagingInv
<1>15. ASSUME NEW r \in Tasks, DrainCommit(r) \/ DrainFail(r)
       PROVE  StagingInv'
  <2>1. /\ \A p \in Intents : ~Holds(r, p)' /\ Knows(r, p)'
        /\ \A x \in Tasks \ {r} : task'[x] = task[x]
    BY <1>15, EndsIdle DEF DrainCommit, DrainFail
  <2> QED BY <1>15, <2>1, Quiet DEF DrainCommit, DrainFail, rowVars, StillThere
<1>16. ASSUME NEW s \in Intents, Expire(s) \/ Cleanup(s)
       PROVE  StagingInv'
  <2>1. \A p \in Intents : staging[p] = "none" => staging'[p] = "none"
    BY <1>16 DEF Expire, Cleanup, TypeOK
  <2> QED BY <1>16, <2>1, Quiet DEF Expire, Cleanup, StillThere
<1>17. CASE Review \/ Delete
  BY <1>17, Quiet DEF Review, Delete, StillThere
<1>18. CASE Crash
  <2>1. \A x \in Tasks, p \in Intents : ~Holds(x, p)' /\ Knows(x, p)'
    BY <1>18 DEF Crash, Idle, Knows
  <2> QED BY <1>18, <2>1, Quiet DEF Crash, rowVars, StillThere
<1>19. CASE UNCHANGED vars
  BY <1>19, Quiet DEF vars, StillThere
<1>20. ASSUME NEW r \in Tasks, CleanupFails(r)
       PROVE  StagingInv'
  <2>1. /\ \A p \in Intents : ~Holds(r, p)' /\ Knows(r, p)'
        /\ \A x \in Tasks \ {r} : task'[x] = task[x]
    BY <1>20, FailingEnds, EndsIdle
  <2> QED BY <1>20, <2>1, FailingEnds, Quiet DEF rowVars, StillThere
<1> QED
  BY <1>1, <1>2, <1>3, <1>4, <1>5, <1>6, <1>7, <1>8, <1>9, <1>10, <1>11, <1>12,
     <1>13, <1>14, <1>15, <1>16, <1>17, <1>18, <1>19, <1>20
     DEF Next, StageCommit, StageCommitLost, SubmitCommit, SubmitCommitLost, CleanupFails

(* A failed submission stays retryable: as long as an intent has not been   *)
(* adopted, its staging row names a file (attachment-store.ts 109).         *)
THEOREM SubmissionsStayRetryable == Spec => []UnadoptedFilesStay
<1>1. Init => TypeOK /\ StagingInv
  BY Typed, StagingInit
<1>2. TypeOK /\ StagingInv /\ [Next]_vars => TypeOK' /\ StagingInv'
  BY TypeStep, StagingStep
<1>3. StagingInv => UnadoptedFilesStay
  BY DEF StagingInv
<1> QED BY <1>1, <1>2, <1>3, PTL DEF Spec

-------------------------------------------------------------------------------
(* Adopted files exist, if clients wait for their answers.  Then a request  *)
(* is alone with its intent, so what it has found out (not adopted yet, the *)
(* permanent file is there) stays true; and a permanent key is only removed *)
(* by a drain that saw it unadopted after its intent was spent, or by the   *)
(* discard of an intent that never was, or whose commit was not answered.   *)
IsAdopted(key) == \E p \in Intents : key \in adopted[p]
Serves(r, s)   == task[r].step \in Steps /\ task[r].intent = s
Submits(r)     == task[r].step \in {"promote", "commit"}

OneRequestPerIntent ==
  \A s \in Intents : \A r, x \in Tasks : Serves(r, s) /\ Serves(x, s) => r = x
OneSubmission == \A r, x \in Tasks : Submits(r) /\ Submits(x) => r = x

(* What a request relies on.                                                *)
Relies(r) ==
  /\ Submits(r) => /\ task[r].intent \notin spent
                   /\ \A key \in task[r].kept : IsAdopted(key)
  /\ task[r].step = "commit" => PermanentKey(task[r].intent) \in files
  /\ task[r].step = "discard" /\ task[r].intent \in spent =>
       task[r].intent \in unanswered
  /\ task[r].step \in DrainSteps =>
       /\ ~IsAdopted(task[r].key)
       /\ \A s \in Intents : task[r].key = PermanentKey(s) => s \in spent

KeysAccounted ==
  \A s \in Intents : /\ ~IsAdopted(StagingKey(s))
                     /\ IsAdopted(PermanentKey(s)) => s \in spent
                     /\ PermanentKey(s) \in jobs => s \in spent

SerialInv ==
  /\ OneRequestPerIntent
  /\ OneSubmission
  /\ \A r \in Tasks : Relies(r)
  /\ KeysAccounted
  /\ AdoptedFilesExist

LEMMA SerialInit == Init => SerialInv
BY DEF Init, Idle, SerialInv, OneRequestPerIntent, Serves, Steps, OneSubmission, Submits,
       Relies, DrainSteps, KeysAccounted, IsAdopted, AdoptedFilesExist

LEMMA EndsFree ==
  ASSUME TypeOK, NEW r \in Tasks, Finish(r)
  PROVE  /\ Relies(r)' /\ ~Submits(r)'
         /\ \A s \in Intents : ~Serves(r, s)'
         /\ \A x \in Tasks \ {r} : task'[x] = task[x]
BY DEF TypeOK, Finish, Idle, Relies, Submits, Serves, Steps, DrainSteps

(* A step that adopts nothing, deletes nothing adopted, starts no request   *)
(* and removes no file that is adopted or about to be keeps the invariant.  *)
LEMMA Calm ==
  ASSUME SerialInv,
         UNCHANGED <<adopted, spent, unanswered>>,
         \A s \in Intents : PermanentKey(s) \in jobs' => PermanentKey(s) \in jobs,
         \A s \in Intents : \A key \in adopted[s] : key \in files' \/ Doubtful(key),
         \A x \in Tasks :
           \/ /\ task'[x] = task[x]
              /\ task[x].step = "commit" => PermanentKey(task[x].intent) \in files'
           \/ /\ Relies(x)'
              /\ Submits(x)' => Submits(x)
              /\ \A s \in Intents : Serves(x, s)' => Serves(x, s)
  PROVE  SerialInv'
<1>1. \A x \in Tasks : /\ Submits(x)' => Submits(x)
                       /\ \A s \in Intents : Serves(x, s)' => Serves(x, s)
  BY DEF Submits, Serves
<1>2. OneRequestPerIntent' /\ OneSubmission'
  BY <1>1 DEF SerialInv, OneRequestPerIntent, OneSubmission
<1>3. ASSUME NEW x \in Tasks
      PROVE  Relies(x)'
  <2>1. CASE Relies(x)'
    BY <2>1
  <2>2. CASE /\ task'[x] = task[x]
             /\ task[x].step = "commit" => PermanentKey(task[x].intent) \in files'
    <3>1. Relies(x)
      BY DEF SerialInv
    <3> QED BY <2>2, <3>1 DEF Relies, Submits, IsAdopted
  <2> QED BY <2>1, <2>2
<1>4. KeysAccounted'
  BY DEF SerialInv, KeysAccounted, IsAdopted
<1>5. AdoptedFilesExist'
  BY DEF AdoptedFilesExist, Doubtful
<1> QED BY <1>2, <1>3, <1>4, <1>5 DEF SerialInv

LEMMA PermanentKeysDiffer ==
  \A s, p \in Intents : PermanentKey(s) = PermanentKey(p) => s = p
BY DEF PermanentKey

(* A request starts for an intent that no other request serves.             *)
LEMMA StartsAlone ==
  ASSUME TypeOK, SerialInv, NEW r \in Tasks, NEW s \in Intents, NEW step \in Steps,
         NEW kept, Start(r, step, s, kept),
         \A x \in Tasks : task[x].intent # s,
         step \in {"promote", "commit"} => \A x \in Tasks : ~Submits(x),
         Relies(r)',
         UNCHANGED rowVars, UNCHANGED files, UNCHANGED unanswered
  PROVE  SerialInv'
<1>1. /\ task'[r].step = step /\ task'[r].intent = s
      /\ \A x \in Tasks \ {r} : task'[x] = task[x]
  BY BeginsAt
<1>2. OneRequestPerIntent'
  BY <1>1 DEF SerialInv, OneRequestPerIntent, Serves
<1>3. OneSubmission'
  BY <1>1 DEF SerialInv, OneSubmission, Submits
<1>4. ASSUME NEW x \in Tasks \ {r}
      PROVE  Relies(x)'
  <2>1. Relies(x)
    BY DEF SerialInv
  <2> QED BY <1>1, <2>1 DEF Relies, Submits, IsAdopted, rowVars
<1>5. KeysAccounted' /\ AdoptedFilesExist'
  BY DEF SerialInv, KeysAccounted, IsAdopted, AdoptedFilesExist, Doubtful, rowVars
<1> QED BY <1>2, <1>3, <1>4, <1>5 DEF SerialInv

LEMMA SerialStep ==
  ASSUME TypeOK, SerialInv, [Next]_vars, Retries = FALSE
  PROVE  SerialInv'
<1> USE DEF Steps, DrainSteps, At
<1>1. ASSUME NEW r \in Tasks, NEW s \in Intents, StageRead(r, s)
      PROVE  SerialInv'
  <2>1. /\ task'[r].step = "stage-write" /\ task'[r].intent = s
        /\ \A x \in Tasks \ {r} : task'[x] = task[x]
    BY <1>1, BeginsAt DEF StageRead
  <2>2. Relies(r)'
    BY <2>1 DEF Relies, Submits
  <2> QED BY <1>1, <2>2, StartsAlone DEF StageRead, MaySend
<1>2. ASSUME NEW r \in Tasks, NEW s \in Intents, SubmitAgain(r, s)
      PROVE  SerialInv'
  <2>1. /\ task'[r].step = "finalize" /\ task'[r].intent = s
        /\ \A x \in Tasks \ {r} : task'[x] = task[x]
    BY <1>2, BeginsAt DEF SubmitAgain
  <2>2. Relies(r)'
    BY <2>1 DEF Relies, Submits
  <2> QED BY <1>2, <2>2, StartsAlone DEF SubmitAgain, MaySend
<1>3. ASSUME NEW r \in Tasks, NEW s \in Intents, SubmitBegin(r, s)
      PROVE  SerialInv'
  <2>1. PICK kept \in {{}} \cup (IF versions = <<>> THEN {}
                             ELSE {adopted[versions[Len(versions)]]}) :
          Start(r, "promote", s, kept)
    BY <1>3 DEF SubmitBegin
  <2>2. \A key \in kept : IsAdopted(key)
    <3>1. CASE kept = {}
      BY <3>1
    <3>2. CASE versions # <<>> /\ kept = adopted[versions[Len(versions)]]
      <4>1. versions[Len(versions)] \in Intents
        BY <3>2 DEF TypeOK
      <4> QED BY <3>2, <4>1 DEF IsAdopted
    <3> QED BY <2>1, <3>1, <3>2
  <2>3. task'[r].step = "promote" /\ task'[r].intent = s /\ task'[r].kept = kept
    BY <2>1 DEF Start, TypeOK
  <2>4. Relies(r)'
    BY <1>3, <2>2, <2>3 DEF Relies, Submits, SubmitBegin, IsAdopted, rowVars
  <2> QED BY <1>3, <2>1, <2>4, StartsAlone
          DEF SubmitBegin, MaySend, SubjectLocked, Submits
<1>4. ASSUME NEW r \in Tasks, StageWrite(r)
      PROVE  SerialInv'
  <2>1. /\ task'[r].step = "stage-commit" /\ task'[r].intent = task[r].intent
        /\ \A x \in Tasks \ {r} : task'[x] = task[x]
    BY <1>4, GoesOnTo DEF StageWrite
  <2>2. Relies(r)' /\ ~Submits(r)' /\ \A s \in Intents : Serves(r, s)' => Serves(r, s)
    BY <1>4, <2>1 DEF StageWrite, Relies, Submits, Serves
  <2>3. \A x \in Tasks : Relies(x)
    BY DEF SerialInv
  <2> QED BY <1>4, <2>1, <2>2, <2>3, Calm
          DEF StageWrite, rowVars, Relies, SerialInv, AdoptedFilesExist
<1>5. ASSUME NEW r \in Tasks, StageCommit(r) \/ StageCommitLost(r) \/ StageUndo(r)
      PROVE  SerialInv'
  <2>1. /\ Relies(r)' /\ ~Submits(r)' /\ \A s \in Intents : Serves(r, s)' => Serves(r, s)
        /\ \A x \in Tasks \ {r} : task'[x] = task[x]
    <3>1. CASE StageCommitLost(r)
      <4>1. /\ task'[r].step = "stage-undo" /\ task'[r].intent = task[r].intent
            /\ task[r].step = "stage-commit"
            /\ \A x \in Tasks \ {r} : task'[x] = task[x]
        BY <3>1, GoesLast DEF StageCommitLost, StageRows
      <4> QED BY <4>1 DEF Relies, Submits, Serves
    <3> QED BY <1>5, <3>1, EndsFree DEF StageCommit, StageUndo
  <2>2. task[r].intent \in Intents
    BY <1>5, About DEF StageCommit, StageCommitLost, StageRows, StageUndo
  <2>3. \A s \in Intents : PermanentKey(s) \in jobs' => PermanentKey(s) \in jobs
    BY <1>5, <2>2, StagingKeysDiffer DEF StageCommit, StageCommitLost, StageRows, StageUndo
  <2>4. \A x \in Tasks : Relies(x)
    BY DEF SerialInv
  <2> QED BY <1>5, <2>1, <2>3, <2>4, Calm
          DEF StageCommit, StageCommitLost, StageRows, StageUndo, Relies, SerialInv,
              AdoptedFilesExist
<1>6. ASSUME NEW r \in Tasks, StageFail(r) \/ SubmitFail(r)
      PROVE  SerialInv'
  <2>1. /\ task'[r].step \in {"stage-undo", "discard"}
        /\ task[r].step \in {"stage-write", "stage-commit"} <=> task'[r].step = "stage-undo"
        /\ task[r].step \in Steps
        /\ task'[r].intent = task[r].intent
        /\ \A x \in Tasks \ {r} : task'[x] = task[x]
    BY <1>6, About, GoesLast DEF StageFail, SubmitFail
  <2>2. \A x \in Tasks : Relies(x)
    BY DEF SerialInv
  <2>3. Relies(r)' /\ ~Submits(r)' /\ \A s \in Intents : Serves(r, s)' => Serves(r, s)
    BY <1>6, <2>1, <2>2 DEF StageFail, SubmitFail, Relies, Submits, Serves, rowVars
  <2> QED BY <1>6, <2>1, <2>2, <2>3, Calm
          DEF StageFail, SubmitFail, rowVars, Relies, SerialInv, AdoptedFilesExist
<1>7. ASSUME NEW r \in Tasks, Promote(r)
      PROVE  SerialInv'
  <2>1. /\ task'[r].step = "commit" /\ task'[r].intent = task[r].intent
        /\ task'[r].kept = task[r].kept
        /\ \A x \in Tasks \ {r} : task'[x] = task[x]
    <3>1. task[r] \in [step : Steps, intent : Intents, kept : SUBSET Keys,
                       created : BOOLEAN, seen : {"none", "live", "expired"}]
      BY <1>7, About DEF Promote
    <3> QED BY <1>7, <3>1 DEF Promote, TypeOK
  <2>2. \A x \in Tasks : Relies(x)
    BY DEF SerialInv
  <2>3. Submits(r) /\ \A s \in Intents : Serves(r, s)' => Serves(r, s)
    BY <1>7, <2>1 DEF Promote, Submits, Serves
  <2>4. /\ task[r].intent \notin spent
        /\ \A key \in task[r].kept : IsAdopted(key)
    BY <2>2, <2>3 DEF Relies
  <2>5. PermanentKey(task[r].intent) \in files'
    BY <1>7 DEF Promote
  <2>6. Relies(r)'
    <3>1. UNCHANGED <<adopted, spent>>
      BY <1>7 DEF Promote, rowVars
    <3> QED BY <2>1, <2>4, <2>5, <3>1 DEF Relies, Submits, IsAdopted
  <2> QED BY <1>7, <2>1, <2>2, <2>3, <2>6, Calm
          DEF Promote, rowVars, Relies, SerialInv, AdoptedFilesExist
<1>8. ASSUME NEW r \in Tasks, SubmitCommit(r) \/ SubmitCommitLost(r)
      PROVE  SerialInv'
  <2> DEFINE s == task[r].intent
  <2>1. /\ \/ task'[r].step = "finalize" /\ unanswered' = unanswered
           \/ task'[r].step = "discard" /\ unanswered' = unanswered \cup {s}
        /\ task'[r].intent = s
        /\ \A x \in Tasks \ {r} : task'[x] = task[x]
    BY <1>8, About, GoesLast DEF SubmitCommit, SubmitCommitLost, SubmitRows
  <2>2. s \in Intents /\ Submits(r) /\ Serves(r, s)
    BY <1>8, About DEF SubmitCommit, SubmitCommitLost, SubmitRows, Submits, Serves
  <2>3. \A x \in Tasks : Relies(x)
    BY DEF SerialInv
  <2>4. /\ s \notin spent /\ PermanentKey(s) \in files
        /\ \A key \in task[r].kept : IsAdopted(key)
    BY <1>8, <2>2, <2>3 DEF SubmitCommit, SubmitCommitLost, SubmitRows, Relies
  <2>5. /\ spent' = spent \cup {s} /\ files' = files /\ jobs' = jobs
        /\ adopted'[s] = {PermanentKey(s)} \cup task[r].kept
        /\ \A p \in Intents \ {s} : adopted'[p] = adopted[p]
    BY <1>8, <2>2 DEF SubmitCommit, SubmitCommitLost, SubmitRows, TypeOK
  <2>6. \A key : IsAdopted(key)' => IsAdopted(key) \/ key = PermanentKey(s)
    BY <2>2, <2>4, <2>5 DEF IsAdopted
  <2>7. OneRequestPerIntent' /\ OneSubmission'
    BY <2>1, <2>2 DEF SerialInv, OneRequestPerIntent, OneSubmission, Serves, Submits
  <2>8. ASSUME NEW x \in Tasks \ {r}
        PROVE  Relies(x)'
    <3>1. ~Submits(x) /\ ~Serves(x, s)
      BY <2>2 DEF SerialInv, OneSubmission, OneRequestPerIntent
    <3>2. Relies(x)
      BY DEF SerialInv
    <3>3. task[x].step = "discard" /\ task[x].intent \in spent' =>
            task[x].intent \in unanswered'
      BY <2>1, <2>5, <3>1, <3>2 DEF Relies, Serves
    <3>4. task[x].step \in DrainSteps => task[x].key # PermanentKey(s)
      BY <2>2, <2>4, <3>2 DEF Relies
    <3> QED BY <2>1, <2>5, <2>6, <3>1, <3>2, <3>3, <3>4 DEF Relies, Submits
  <2>9. Relies(r)'
    BY <2>1 DEF Relies, Submits
  <2>10. KeysAccounted'
    BY <2>2, <2>5, <2>6, StagingKeysDiffer, PermanentKeysDiffer
       DEF SerialInv, KeysAccounted
  <2>11. AdoptedFilesExist'
    BY <2>1, <2>2, <2>4, <2>5 DEF SerialInv, AdoptedFilesExist, IsAdopted, Doubtful
  <2> QED BY <2>7, <2>8, <2>9, <2>10, <2>11 DEF SerialInv
<1>9. ASSUME NEW r \in Tasks, Discard(r)
      PROVE  SerialInv'
  <2> DEFINE s == task[r].intent
  <2>1. /\ Relies(r)' /\ ~Submits(r)' /\ \A p \in Intents : ~Serves(r, p)'
        /\ \A x \in Tasks \ {r} : task'[x] = task[x]
    BY <1>9, EndsFree DEF Discard
  <2>2. s \in Intents /\ Serves(r, s)
    BY <1>9, About DEF Discard, Serves
  <2>3. \A x \in Tasks : Relies(x)
    BY DEF SerialInv
  <2>4. IsAdopted(PermanentKey(s)) => s \in unanswered
    BY <1>9, <2>2, <2>3 DEF Discard, Relies, SerialInv, KeysAccounted
  <2>5. \A p \in Intents : \A key \in adopted[p] : key \in files' \/ Doubtful(key)
    BY <1>9, <2>4 DEF Discard, IsAdopted, SerialInv, AdoptedFilesExist, Doubtful
  <2>6. ASSUME NEW x \in Tasks \ {r}, task[x].step = "commit"
        PROVE  PermanentKey(task[x].intent) \in files'
    <3>1. task[x].intent \in Intents /\ task[x].intent # s
      BY <2>2, <2>6, About DEF SerialInv, OneRequestPerIntent, Serves
    <3> QED BY <1>9, <2>2, <2>3, <2>6, <3>1, PermanentKeysDiffer DEF Discard, Relies
  <2> QED BY <1>9, <2>1, <2>5, <2>6, Calm DEF Discard, rowVars
<1>10. ASSUME NEW r \in Tasks, Finalize(r)
      PROVE  SerialInv'
  <2>1. /\ Relies(r)' /\ ~Submits(r)' /\ \A p \in Intents : ~Serves(r, p)'
        /\ \A x \in Tasks \ {r} : task'[x] = task[x]
    BY <1>10, EndsFree DEF Finalize
  <2>2. task[r].intent \in Intents
    BY <1>10, About DEF Finalize
  <2>3. \A p \in Intents : \A key \in adopted[p] : key \in files' \/ Doubtful(key)
    BY <1>10, <2>2 DEF Finalize, SerialInv, AdoptedFilesExist, KeysAccounted, IsAdopted
  <2>4. ASSUME NEW x \in Tasks \ {r}, task[x].step = "commit"
        PROVE  PermanentKey(task[x].intent) \in files'
    <3>1. task[x].intent \in Intents
      BY <2>4, About
    <3>2. Relies(x)
      BY DEF SerialInv
    <3> QED BY <1>10, <2>2, <2>4, <3>1, <3>2, StagingKeysDiffer DEF Finalize, Relies
  <2> QED BY <1>10, <2>1, <2>3, <2>4, Calm DEF Finalize, rowVars
<1>11. ASSUME NEW r \in Tasks, NEW key \in Keys, DrainBegin(r, key)
       PROVE  SerialInv'
  <2>1. CASE Referenced(key)
    <3>1. \A x \in Tasks : Relies(x)
      BY DEF SerialInv
    <3> QED BY <1>11, <2>1, <3>1, Calm
            DEF DrainBegin, Relies, SerialInv, AdoptedFilesExist
  <2>2. CASE ~Referenced(key)
    <3>1. /\ task'[r].step = "remove" /\ task'[r].key = key
          /\ \A x \in Tasks \ {r} : task'[x] = task[x]
      BY <1>11, <2>2 DEF DrainBegin, TypeOK
    <3>2. \A x \in Tasks : Relies(x)
      BY DEF SerialInv
    <3>3. ~IsAdopted(key) /\ \A s \in Intents : key = PermanentKey(s) => s \in spent
      BY <1>11, <2>2 DEF DrainBegin, Referenced, IsAdopted, SerialInv, KeysAccounted
    <3>4. Relies(r)' /\ ~Submits(r)' /\ \A s \in Intents : ~Serves(r, s)'
      BY <1>11, <3>1, <3>3 DEF DrainBegin, Relies, Submits, Serves, IsAdopted
    <3> QED BY <1>11, <2>2, <3>1, <3>2, <3>4, Calm
            DEF DrainBegin, Relies, SerialInv, AdoptedFilesExist
  <2> QED BY <2>1, <2>2
<1>12. ASSUME NEW r \in Tasks, DrainRemove(r)
       PROVE  SerialInv'
  <2>1. /\ task'[r].step = "erase" /\ task'[r].key = task[r].key
        /\ \A x \in Tasks \ {r} : task'[x] = task[x]
    BY <1>12, GoesOnTo DEF DrainRemove
  <2>2. \A x \in Tasks : Relies(x)
    BY DEF SerialInv
  <2>3. Relies(r)' /\ ~Submits(r)' /\ \A s \in Intents : ~Serves(r, s)'
    BY <1>12, <2>1, <2>2 DEF DrainRemove, Relies, Submits, Serves, IsAdopted, rowVars
  <2>4. \A p \in Intents : \A key \in adopted[p] : key \in files' \/ Doubtful(key)
    BY <1>12, <2>2 DEF DrainRemove, Relies, IsAdopted, SerialInv, AdoptedFilesExist
  <2>5. ASSUME NEW x \in Tasks \ {r}, task[x].step = "commit"
        PROVE  PermanentKey(task[x].intent) \in files'
    <3>1. task[x].intent \in Intents /\ task[x].intent \notin spent
      BY <2>2, <2>5, About DEF Relies, Submits
    <3>2. task[r].key # PermanentKey(task[x].intent)
      BY <1>12, <2>2, <3>1 DEF DrainRemove, Relies
    <3> QED BY <1>12, <2>2, <2>5, <3>2 DEF DrainRemove, Relies
  <2> QED BY <1>12, <2>1, <2>3, <2>4, <2>5, Calm DEF DrainRemove, rowVars
<1>13. ASSUME NEW r \in Tasks, DrainCommit(r) \/ DrainFail(r)
       PROVE  SerialInv'
  <2>1. /\ Relies(r)' /\ ~Submits(r)' /\ \A s \in Intents : ~Serves(r, s)'
        /\ \A x \in Tasks \ {r} : task'[x] = task[x]
    BY <1>13, EndsFree DEF DrainCommit, DrainFail
  <2>2. \A x \in Tasks : Relies(x)
    BY DEF SerialInv
  <2> QED BY <1>13, <2>1, <2>2, Calm
          DEF DrainCommit, DrainFail, rowVars, Relies, SerialInv, AdoptedFilesExist
<1>14. ASSUME NEW s \in Intents, Expire(s) \/ Cleanup(s)
       PROVE  SerialInv'
  <2>1. \A x \in Tasks : Relies(x)
    BY DEF SerialInv
  <2>2. \A p \in Intents : PermanentKey(p) \in jobs' => PermanentKey(p) \in jobs
    BY <1>14, StagingKeysDiffer DEF Expire, Cleanup
  <2> QED BY <1>14, <2>1, <2>2, Calm
          DEF Expire, Cleanup, Relies, SerialInv, AdoptedFilesExist
<1>15. CASE Review
  <2>1. \A x \in Tasks : Relies(x)
    BY DEF SerialInv
  <2> QED BY <1>15, <2>1, Calm DEF Review, Relies, SerialInv, AdoptedFilesExist
<1>16. CASE Delete
  <2> DEFINE s == versions[Len(versions)]
  <2>1. s \in Intents
    BY <1>16 DEF Delete, TypeOK
  <2>2. /\ adopted'[s] = {} /\ \A p \in Intents \ {s} : adopted'[p] = adopted[p]
        /\ jobs' \subseteq jobs \cup adopted[s]
        /\ UNCHANGED <<spent, files, task, unanswered>>
    BY <1>16, <2>1 DEF Delete, TypeOK
  <2>3. \A key : IsAdopted(key)' => IsAdopted(key)
    BY <2>1, <2>2 DEF IsAdopted
  <2>4. \A x \in Tasks : ~Submits(x)
    BY <1>16 DEF Delete, SubjectLocked, Submits
  <2>5. ASSUME NEW x \in Tasks
        PROVE  Relies(x)'
    <3>1. Relies(x)
      BY DEF SerialInv
    <3> QED BY <2>2, <2>3, <2>4, <3>1 DEF Relies, Submits
  <2>6. KeysAccounted'
    <3>1. \A key \in adopted[s] : IsAdopted(key)
      BY <2>1 DEF IsAdopted
    <3> QED BY <2>2, <2>3, <3>1 DEF SerialInv, KeysAccounted
  <2>7. OneRequestPerIntent' /\ OneSubmission'
    BY <2>2 DEF SerialInv, OneRequestPerIntent, OneSubmission, Serves, Submits
  <2>8. AdoptedFilesExist'
    BY <2>1, <2>2 DEF SerialInv, AdoptedFilesExist, Doubtful
  <2> QED BY <2>5, <2>6, <2>7, <2>8 DEF SerialInv
<1>17. CASE Crash
  <2>1. \A x \in Tasks : /\ Relies(x)' /\ ~Submits(x)'
                         /\ \A s \in Intents : ~Serves(x, s)'
    BY <1>17 DEF Crash, Idle, Relies, Submits, Serves
  <2> QED BY <1>17, <2>1, Calm DEF Crash, rowVars, SerialInv, AdoptedFilesExist
<1>18. CASE UNCHANGED vars
  <2>1. \A x \in Tasks : Relies(x)
    BY DEF SerialInv
  <2> QED BY <1>18, <2>1, Calm DEF vars, Relies, SerialInv, AdoptedFilesExist
<1>19. ASSUME NEW r \in Tasks, CleanupFails(r)
       PROVE  SerialInv'
  <2>1. /\ Relies(r)' /\ ~Submits(r)' /\ \A s \in Intents : ~Serves(r, s)'
        /\ \A x \in Tasks \ {r} : task'[x] = task[x]
    BY <1>19, FailingEnds, EndsFree
  <2>2. \A x \in Tasks : Relies(x)
    BY DEF SerialInv
  <2> QED BY <1>19, <2>1, <2>2, FailingEnds, Calm
          DEF rowVars, Relies, SerialInv, AdoptedFilesExist
<1> QED
  BY <1>1, <1>2, <1>3, <1>4, <1>5, <1>6, <1>7, <1>8, <1>9, <1>10, <1>11, <1>12,
     <1>13, <1>14, <1>15, <1>16, <1>17, <1>18, <1>19 DEF Next, CleanupFails

(* Attachments are adopted atomically with their submission and keep their  *)
(* storage key (dcl.md 3): every adopted row names a file that exists, as   *)
(* long as clients wait for their answers; a commit whose answer is lost    *)
(* costs no file but the one it adopted.                                    *)
THEOREM AdoptedFilesKept ==
  ASSUME Retries = FALSE
  PROVE  Spec => []AdoptedFilesExist
<1>1. Init => TypeOK /\ SerialInv
  BY Typed, SerialInit
<1>2. TypeOK /\ SerialInv /\ [Next]_vars => TypeOK' /\ SerialInv'
  BY TypeStep, SerialStep
<1>3. SerialInv => AdoptedFilesExist
  BY DEF SerialInv
<1> QED BY <1>1, <1>2, <1>3, PTL DEF Spec

-------------------------------------------------------------------------------
(* Nothing is forgotten, if clients wait for their answers.  While requests *)
(* are under way, a file that no row and no deletion job names is in the    *)
(* hands of one of them: it is about to write the row that names the file,  *)
(* to register its deletion or to remove it.                                *)
Covered(key) ==
  Referenced(key) \/ key \in jobs \/ Doubtful(key) \/ key \in abandoned

Tends(r, key) ==
  \E s \in Intents : Serves(r, s) /\
    \/ /\ key = StagingKey(s)
       /\ task[r].step \in {"stage-write", "stage-commit", "stage-undo", "finalize"}
    \/ /\ key = PermanentKey(s) /\ task[r].created
       /\ task[r].step \in {"commit", "discard"}

Cared(key) == Covered(key) \/ \E r \in Tasks : Tends(r, key)

(* A row that was found to be there is there when it is renewed, and a key  *)
(* whose job is about to be struck off has no file.                         *)
StillSo(r) ==
  /\ task[r].step \in {"stage-write", "stage-commit"} /\ task[r].seen # "none" =>
       staging[task[r].intent] # "none"
  /\ task[r].step = "erase" => task[r].key \notin files

LeakInv ==
  /\ crashes = 0 => \A key \in files : Cared(key)
  /\ \A r \in Tasks : StillSo(r)
  /\ \A s \in Intents : s \notin spent => adopted[s] = {}

LEMMA LeakInit == Init => LeakInv
BY DEF Init, LeakInv, StillSo, Idle

(* What a step of one request has to show.                                  *)
LEMMA LeakMoves ==
  ASSUME LeakInv, NEW r \in Tasks, \A x \in Tasks \ {r} : task'[x] = task[x],
         UNCHANGED crashes,
         \A key \in files' : key \in files \/ Covered(key)' \/ Tends(r, key)',
         \A key \in files' : Covered(key) \/ Tends(r, key) => Covered(key)' \/ Tends(r, key)',
         \A x \in Tasks : StillSo(x)',
         \A s \in Intents : s \notin spent' => adopted'[s] = {}
  PROVE  LeakInv'
<1>1. ASSUME crashes = 0, NEW key \in files' PROVE Cared(key)'
  <2>1. CASE Covered(key)' \/ Tends(r, key)'
    BY <2>1 DEF Cared
  <2>2. CASE \E x \in Tasks \ {r} : Tends(x, key)
    BY <2>2 DEF Cared, Tends, Serves
  <2>3. key \in files => Cared(key)
    BY <1>1 DEF LeakInv
  <2> QED BY <2>1, <2>2, <2>3 DEF Cared
<1> QED BY <1>1 DEF LeakInv

(* A step of which the other requests do not notice.                        *)
LEMMA OthersStillSo ==
  ASSUME TypeOK, LeakInv, NEW x \in Tasks, task'[x] = task[x],
         task[x].step = "erase" => task[x].key \notin files' \ files,
         \A s \in Intents : staging[s] # "none" =>
           staging'[s] # "none" \/ ~ Stages(x, s)
  PROVE  StillSo(x)'
<1>1. task[x].step \in {"stage-write", "stage-commit"} => task[x].intent \in Intents
  BY About DEF Steps
<1>2. StillSo(x)
  BY DEF LeakInv
<1> QED BY <1>1, <1>2 DEF StillSo, Stages

(* Rows and jobs as they were: what was covered is covered.                 *)
LEMMA CoverStays ==
  ASSUME UNCHANGED <<staging, adopted>>, jobs \subseteq jobs',
         unanswered \subseteq unanswered', abandoned \subseteq abandoned'
  PROVE  \A key : Covered(key) => Covered(key)'
BY DEF Covered, Referenced, Doubtful

LEMMA LeakStep ==
  ASSUME TypeOK, StagingInv, SerialInv, LeakInv, [Next]_vars, Retries = FALSE
  PROVE  LeakInv'
<1> USE DEF Steps, DrainSteps, At
<1>0. /\ \A x \in Tasks : StillSo(x) /\ Relies(x)
      /\ \A s \in Intents : s \notin spent => adopted[s] = {}
  BY DEF LeakInv, SerialInv
<1>1. ASSUME NEW r \in Tasks, NEW s \in Intents,
             StageRead(r, s) \/ SubmitAgain(r, s) \/ SubmitBegin(r, s)
      PROVE  LeakInv'
  <2>1. /\ task[r] = Idle /\ task'[r].intent = s
        /\ task'[r].step \in {"stage-write", "finalize", "promote"}
        /\ task'[r].step = "stage-write" => task'[r].seen = staging[s]
        /\ \A x \in Tasks \ {r} : task'[x] = task[x]
    BY <1>1 DEF StageRead, SubmitAgain, SubmitBegin, Start, TypeOK
  <2>2. UNCHANGED <<rowVars, files, crashes, unanswered, abandoned>>
    BY <1>1 DEF StageRead, SubmitAgain, SubmitBegin
  <2>3. \A key : ~ Tends(r, key)
    BY <2>1 DEF Tends, Serves, Idle
  <2>4. \A key : Covered(key) => Covered(key)'
    BY <2>2, CoverStays DEF rowVars
  <2>5. \A x \in Tasks \ {r} : StillSo(x)'
    BY <2>1, <2>2, OthersStillSo DEF rowVars
  <2>6. StillSo(r)'
    BY <2>1, <2>2 DEF StillSo, rowVars
  <2> QED BY <1>0, <2>1, <2>2, <2>3, <2>4, <2>5, <2>6, LeakMoves DEF rowVars
<1>2. ASSUME NEW r \in Tasks, StageWrite(r)
      PROVE  LeakInv'
  <2> DEFINE s == task[r].intent
  <2>1. /\ task'[r].step = "stage-commit" /\ task'[r].intent = s
        /\ \A x \in Tasks \ {r} : task'[x] = task[x]
    BY <1>2, GoesOnTo DEF StageWrite
  <2>2. s \in Intents /\ task'[r].seen = task[r].seen
    BY <1>2, About DEF StageWrite, Goto, TypeOK
  <2>3. UNCHANGED <<staging, adopted, jobs, unanswered, abandoned, spent, crashes>>
        /\ files' = files \cup {StagingKey(s)}
    BY <1>2 DEF StageWrite, rowVars
  <2>4. Tends(r, StagingKey(s))'
    BY <2>1, <2>2 DEF Tends, Serves
  <2>5. \A key : Tends(r, key) => key = StagingKey(s)
    BY <1>2 DEF StageWrite, Tends, Serves
  <2>6. \A key : Covered(key) => Covered(key)'
    BY <2>3, CoverStays
  <2>7. ASSUME NEW x \in Tasks \ {r} PROVE StillSo(x)'
    <3>1. task[x].step = "erase" => task[x].key # StagingKey(s)
      <4>1. Holds(r, s)
        BY <1>2 DEF StageWrite, Holds, Stages
      <4>2. ~ Holds(x, s)
        BY <2>2, <4>1 DEF StagingInv, KeyLockHeld
      <4> QED BY <4>2 DEF Holds, Drains
    <3> QED BY <2>1, <2>3, <3>1, OthersStillSo
  <2>8. StillSo(r)'
    BY <1>0, <1>2, <2>1, <2>2, <2>3 DEF StageWrite, StillSo
  <2> QED
    BY <1>0, <2>1, <2>3, <2>4, <2>5, <2>6, <2>7, <2>8, LeakMoves
<1>3. ASSUME NEW r \in Tasks, StageRows(r), Finish(r) \/ GoLast(r, "stage-undo", FALSE)
      PROVE  LeakInv'
  <2>1. PICK s \in Intents : task[r].intent = s
    BY <1>3, About DEF StageRows
  <2>2. /\ UNCHANGED <<adopted, spent, files, crashes, unanswered>>
        /\ jobs' = jobs \ {StagingKey(s)} /\ abandoned' = abandoned \ {StagingKey(s)}
    BY <1>3, <2>1 DEF StageRows
  <2>3. /\ staging'[s] # "none"
        /\ \A p \in Intents : staging[p] # "none" => staging'[p] # "none"
    <3>1. task[r].seen # "none" => staging[s] # "none"
      BY <1>0, <1>3, <2>1 DEF StageRows, StillSo
    <3> QED BY <1>3, <2>1, <3>1 DEF StageRows, TypeOK
  <2>4. Referenced(StagingKey(s))'
    BY <2>3 DEF Referenced
  <2>5. \A key : Covered(key) => Covered(key)'
    BY <2>2, <2>3, <2>4 DEF Covered, Referenced, Doubtful
  <2>6. \A key : Tends(r, key) => key = StagingKey(s)
    BY <1>3, <2>1 DEF StageRows, Tends, Serves
  <2>7. /\ task'[r].step \in {"idle", "stage-undo"}
        /\ \A x \in Tasks \ {r} : task'[x] = task[x]
    <3>1. CASE Finish(r)
      BY <3>1 DEF Finish, TypeOK, Idle
    <3>2. CASE GoLast(r, "stage-undo", FALSE)
      BY <1>3, <3>2, GoesLast DEF StageRows
    <3> QED BY <1>3, <3>1, <3>2
  <2>8. \A x \in Tasks \ {r} : StillSo(x)'
    BY <2>2, <2>3, <2>7, OthersStillSo
  <2>9. StillSo(r)'
    BY <2>7 DEF StillSo
  <2> QED BY <1>0, <2>2, <2>4, <2>5, <2>6, <2>7, <2>8, <2>9, LeakMoves DEF Covered
<1>4. ASSUME NEW r \in Tasks, StageFail(r)
      PROVE  LeakInv'
  <2>1. /\ task'[r].step = "stage-undo" /\ task'[r].intent = task[r].intent
        /\ \A x \in Tasks \ {r} : task'[x] = task[x]
        /\ UNCHANGED <<staging, adopted, jobs, unanswered, abandoned, spent, crashes, files>>
    BY <1>4, GoesLast DEF StageFail, rowVars
  <2>2. \A key : Tends(r, key) => Tends(r, key)'
    BY <1>4, <2>1 DEF StageFail, Tends, Serves
  <2>3. \A key : Covered(key) => Covered(key)'
    BY <2>1, CoverStays
  <2>4. \A x \in Tasks \ {r} : StillSo(x)'
    BY <2>1, OthersStillSo
  <2>5. StillSo(r)'
    BY <2>1 DEF StillSo
  <2> QED BY <1>0, <2>1, <2>2, <2>3, <2>4, <2>5, LeakMoves
<1>5. ASSUME NEW r \in Tasks, StageUndo(r)
      PROVE  LeakInv'
  <2>1. PICK s \in Intents : task[r].intent = s
    BY <1>5, About DEF StageUndo
  <2>2. /\ task'[r] = Idle /\ \A x \in Tasks \ {r} : task'[x] = task[x]
        /\ UNCHANGED <<staging, adopted, unanswered, spent, crashes, files>>
        /\ jobs' = jobs \cup {StagingKey(s)} /\ abandoned' = abandoned \ {StagingKey(s)}
    BY <1>5, <2>1 DEF StageUndo, Finish, TypeOK
  <2>3. \A key : Tends(r, key) => Covered(key)'
    BY <1>5, <2>1, <2>2 DEF StageUndo, Tends, Serves, Covered
  <2>4. \A key : Covered(key) => Covered(key)'
    BY <2>2 DEF Covered, Referenced, Doubtful
  <2>5. \A x \in Tasks \ {r} : StillSo(x)'
    BY <2>2, OthersStillSo
  <2>6. StillSo(r)'
    BY <2>2 DEF StillSo, Idle
  <2> QED BY <1>0, <2>2, <2>3, <2>4, <2>5, <2>6, LeakMoves
<1>6. ASSUME NEW r \in Tasks, Promote(r)
      PROVE  LeakInv'
  <2> DEFINE s == task[r].intent
  <2>1. /\ task'[r].step = "commit" /\ task'[r].intent = s
        /\ task'[r].created = (PermanentKey(s) \notin files)
        /\ \A x \in Tasks \ {r} : task'[x] = task[x]
        /\ UNCHANGED <<staging, adopted, jobs, unanswered, abandoned, spent, crashes>>
        /\ files' = files \cup {PermanentKey(s)}
    <3>1. task[r] \in [step : Steps, intent : Intents, kept : SUBSET Keys,
                       created : BOOLEAN, seen : {"none", "live", "expired"}]
      BY <1>6, About DEF Promote
    <3> QED BY <1>6, <3>1 DEF Promote, TypeOK, rowVars
  <2>2. s \in Intents /\ s \notin spent
    BY <1>0, <1>6, About DEF Promote, Relies, Submits
  <2>3. \A key : ~ Tends(r, key)
    BY <1>6 DEF Promote, Tends, Serves
  <2>4. PermanentKey(s) \notin files => Tends(r, PermanentKey(s))'
    BY <2>1, <2>2 DEF Tends, Serves
  <2>5. \A key : Covered(key) => Covered(key)'
    BY <2>1, CoverStays
  <2>6. \A x \in Tasks : task[x].step = "erase" => task[x].key # PermanentKey(s)
    BY <1>0, <2>2 DEF Relies
  <2>7. \A x \in Tasks \ {r} : StillSo(x)'
    BY <2>1, <2>6, OthersStillSo
  <2>8. StillSo(r)'
    BY <2>1 DEF StillSo
  <2> QED BY <1>0, <2>1, <2>3, <2>4, <2>5, <2>7, <2>8, LeakMoves
<1>7. ASSUME NEW r \in Tasks, SubmitCommit(r) \/ SubmitCommitLost(r)
      PROVE  LeakInv'
  <2> DEFINE s == task[r].intent
  <2>1. /\ \/ task'[r].step = "finalize" /\ unanswered' = unanswered
           \/ task'[r].step = "discard" /\ unanswered' = unanswered \cup {s}
        /\ task'[r].intent = s /\ task[r].step = "commit"
        /\ \A x \in Tasks \ {r} : task'[x] = task[x]
    BY <1>7, About, GoesLast DEF SubmitCommit, SubmitCommitLost, SubmitRows
  <2>2. s \in Intents /\ s \notin spent /\ Serves(r, s)
    BY <1>0, <1>7, About DEF SubmitCommit, SubmitCommitLost, SubmitRows, Relies, Submits, Serves
  <2>3. /\ spent' = spent \cup {s} /\ UNCHANGED <<files, jobs, crashes>>
        /\ abandoned' = abandoned \ {PermanentKey(s)}
        /\ staging' = [staging EXCEPT ![s] = "none"]
        /\ adopted' = [adopted EXCEPT ![s] = {PermanentKey(s)} \cup task[r].kept]
    BY <1>7 DEF SubmitCommit, SubmitCommitLost, SubmitRows
  <2>4. adopted[s] = {} /\ \A p \in Intents : adopted[p] \subseteq adopted'[p]
    BY <1>0, <2>2, <2>3 DEF TypeOK
  <2>5. PermanentKey(s) \in adopted'[s]
    BY <2>2, <2>3 DEF TypeOK
  <2>6. Covered(PermanentKey(s))'
    BY <2>1, <2>2, <2>5 DEF Covered, Referenced
  <2>7. Covered(StagingKey(s))' \/ Tends(r, StagingKey(s))'
    BY <2>1, <2>2 DEF Covered, Doubtful, Tends, Serves
  <2>8. \A key : Covered(key) /\ key # StagingKey(s) => Covered(key)'
    <3>1. unanswered \subseteq unanswered'
      BY <2>1
    <3>2. \A p \in Intents \ {s} : staging'[p] = staging[p]
      BY <2>3 DEF TypeOK
    <3>3. ASSUME NEW key, Covered(key), key # StagingKey(s), key # PermanentKey(s)
          PROVE  Covered(key)'
      BY <2>3, <2>4, <3>1, <3>2, <3>3 DEF Covered, Referenced, Doubtful
    <3>4. PermanentKey(s)' = PermanentKey(s)
      BY <2>1 DEF PermanentKey
    <3> QED BY <2>6, <3>3, <3>4
  <2>9. \A key : Tends(r, key) => key = PermanentKey(s)
    BY <2>1 DEF Tends, Serves
  <2>10. ASSUME NEW x \in Tasks \ {r} PROVE StillSo(x)'
    <3>1. ~ Stages(x, s)
      BY <2>2 DEF SerialInv, OneRequestPerIntent, Serves, Stages
    <3> QED BY <2>1, <2>3, <3>1, OthersStillSo DEF TypeOK
  <2>11. StillSo(r)'
    BY <2>1 DEF StillSo
  <2>12. \A p \in Intents : p \notin spent' => adopted'[p] = {}
    BY <1>0, <2>2, <2>3 DEF TypeOK
  <2> QED
    BY <2>1, <2>3, <2>6, <2>7, <2>8, <2>9, <2>10, <2>11, <2>12, LeakMoves
<1>8. ASSUME NEW r \in Tasks, SubmitFail(r)
      PROVE  LeakInv'
  <2>1. /\ task'[r].step = "discard" /\ task'[r].intent = task[r].intent
        /\ \A x \in Tasks \ {r} : task'[x] = task[x]
        /\ UNCHANGED <<staging, adopted, jobs, unanswered, abandoned, spent, crashes, files>>
    BY <1>8, About, GoesLast DEF SubmitFail, rowVars
  <2>2. task'[r].created = task[r].created
    BY <1>8, About, GoesLast DEF SubmitFail
  <2>3. \A key : Tends(r, key) => Tends(r, key)'
    BY <1>8, <2>1, <2>2 DEF SubmitFail, Tends, Serves
  <2>4. \A key : Covered(key) => Covered(key)'
    BY <2>1, CoverStays
  <2>5. \A x \in Tasks \ {r} : StillSo(x)'
    BY <2>1, OthersStillSo
  <2>6. StillSo(r)'
    BY <2>1 DEF StillSo
  <2> QED BY <1>0, <2>1, <2>3, <2>4, <2>5, <2>6, LeakMoves
<1>9. ASSUME NEW r \in Tasks, Discard(r) \/ Finalize(r)
      PROVE  LeakInv'
  <2>1. /\ task'[r] = Idle /\ \A x \in Tasks \ {r} : task'[x] = task[x]
        /\ UNCHANGED <<staging, adopted, jobs, unanswered, spent, crashes>>
        /\ files' \subseteq files /\ abandoned \cap files' \subseteq abandoned'
    BY <1>9 DEF Discard, Finalize, Finish, TypeOK, rowVars
  <2>2. \A key : Tends(r, key) => key \notin files'
    BY <1>9 DEF Discard, Finalize, Tends, Serves
  <2>3. \A key \in files' : Covered(key) => Covered(key)'
    BY <2>1 DEF Covered, Referenced, Doubtful
  <2>4. \A x \in Tasks \ {r} : StillSo(x)'
    BY <2>1, OthersStillSo
  <2>5. StillSo(r)'
    BY <2>1 DEF StillSo, Idle
  <2> QED BY <1>0, <2>1, <2>2, <2>3, <2>4, <2>5, LeakMoves
<1>10. ASSUME NEW r \in Tasks, NEW key \in Keys, DrainBegin(r, key)
       PROVE  LeakInv'
  <2>1. /\ task[r] = Idle
        /\ UNCHANGED <<staging, adopted, unanswered, abandoned, spent, crashes, files>>
        /\ \A x \in Tasks \ {r} : task'[x] = task[x]
        /\ jobs' = jobs \/ (jobs' = jobs \ {key} /\ Referenced(key))
        /\ task'[r] = Idle \/ task'[r].step = "remove"
    BY <1>10 DEF DrainBegin, TypeOK
  <2>2. \A k : Covered(k) => Covered(k)'
    BY <2>1 DEF Covered, Referenced, Doubtful
  <2>3. \A k : ~ Tends(r, k)
    BY <2>1 DEF Tends, Serves, Idle
  <2>4. \A x \in Tasks \ {r} : StillSo(x)'
    BY <2>1, OthersStillSo
  <2>5. StillSo(r)'
    BY <2>1 DEF StillSo, Idle
  <2> QED BY <1>0, <2>1, <2>2, <2>3, <2>4, <2>5, LeakMoves
<1>11. ASSUME NEW r \in Tasks, DrainRemove(r)
       PROVE  LeakInv'
  <2>1. /\ task'[r].step = "erase" /\ task'[r].key = task[r].key
        /\ \A x \in Tasks \ {r} : task'[x] = task[x]
        /\ UNCHANGED <<staging, adopted, jobs, unanswered, abandoned, spent, crashes>>
        /\ files' = files \ {task[r].key}
    BY <1>11, GoesOnTo DEF DrainRemove, rowVars
  <2>2. \A key : ~ Tends(r, key)
    BY <1>11 DEF DrainRemove, Tends, Serves
  <2>3. \A key : Covered(key) => Covered(key)'
    BY <2>1, CoverStays
  <2>4. \A x \in Tasks \ {r} : StillSo(x)'
    BY <2>1, OthersStillSo
  <2>5. StillSo(r)'
    BY <2>1 DEF StillSo
  <2> QED BY <1>0, <2>1, <2>2, <2>3, <2>4, <2>5, LeakMoves
<1>12. ASSUME NEW r \in Tasks, DrainCommit(r) \/ DrainFail(r)
       PROVE  LeakInv'
  <2>1. /\ task'[r] = Idle /\ \A x \in Tasks \ {r} : task'[x] = task[x]
        /\ UNCHANGED <<staging, adopted, unanswered, abandoned, spent, crashes, files>>
        /\ jobs' = jobs \/ (jobs' = jobs \ {task[r].key} /\ task[r].key \notin files)
    BY <1>0, <1>12 DEF DrainCommit, DrainFail, Finish, TypeOK, rowVars, StillSo
  <2>2. \A key : ~ Tends(r, key)
    BY <1>12 DEF DrainCommit, DrainFail, Tends, Serves
  <2>3. \A key \in files : Covered(key) => Covered(key)'
    BY <2>1 DEF Covered, Referenced, Doubtful
  <2>4. \A x \in Tasks \ {r} : StillSo(x)'
    BY <2>1, OthersStillSo
  <2>5. StillSo(r)'
    BY <2>1 DEF StillSo, Idle
  <2> QED BY <1>0, <2>1, <2>2, <2>3, <2>4, <2>5, LeakMoves
<1>13. ASSUME UNCHANGED <<files, task, crashes, unanswered, spent>>,
              \A key : Covered(key) => Covered(key)',
              \A s \in Intents : adopted'[s] \subseteq adopted[s],
              \A x \in Tasks, s \in Intents :
                staging[s] # "none" => staging'[s] # "none" \/ ~ Stages(x, s)
       PROVE  LeakInv'
  <2>1. \A x \in Tasks : StillSo(x)'
    BY <1>13, OthersStillSo
  <2>2. \A key : Cared(key) => Cared(key)'
    BY <1>13 DEF Cared, Tends, Serves
  <2>3. \A s \in Intents : s \notin spent' => adopted'[s] = {}
    BY <1>0, <1>13
  <2> QED BY <1>13, <2>1, <2>2, <2>3 DEF LeakInv
<1>14. ASSUME NEW s \in Intents, Expire(s)
       PROVE  LeakInv'
  <2>1. \A p \in Intents : staging'[p] = "none" <=> staging[p] = "none"
    BY <1>14 DEF Expire, TypeOK
  <2>2. \A key : Covered(key) => Covered(key)'
    BY <1>14, <2>1 DEF Expire, Covered, Referenced, Doubtful
  <2> QED BY <1>13, <1>14, <2>1, <2>2 DEF Expire
<1>15. ASSUME NEW s \in Intents, Cleanup(s)
       PROVE  LeakInv'
  <2>1. \A p \in Intents \ {s} : staging'[p] = staging[p]
    BY <1>15 DEF Cleanup, TypeOK
  <2>2. \A key : Covered(key) => Covered(key)'
    BY <1>15, <2>1 DEF Cleanup, Covered, Referenced, Doubtful
  <2>3. \A x \in Tasks : ~ Stages(x, s)
    BY <1>15 DEF Cleanup, Locked, Stages
  <2> QED BY <1>13, <1>15, <2>1, <2>2, <2>3 DEF Cleanup
<1>16. CASE Review
  BY <1>13, <1>16, CoverStays DEF Review
<1>17. CASE Delete
  <2> DEFINE s == versions[Len(versions)]
  <2>1. s \in Intents
    BY <1>17 DEF Delete, TypeOK
  <2>2. /\ adopted' = [adopted EXCEPT ![s] = {}]
        /\ jobs' = jobs \cup { key \in adopted[s] :
                                 \A p \in Intents \ {s} : key \notin adopted[p] }
        /\ UNCHANGED <<staging, spent, files, task, crashes, unanswered, abandoned>>
    BY <1>17 DEF Delete
  <2>3. adopted'[s] = {} /\ \A p \in Intents \ {s} : adopted'[p] = adopted[p]
    BY <2>1, <2>2 DEF TypeOK
  <2> HIDE DEF s
  <2>4. ASSUME NEW key, Covered(key) PROVE Covered(key)'
    <3>1. CASE key \in adopted[s]
      BY <2>1, <2>2, <2>3, <3>1 DEF Covered, Referenced
    <3>2. CASE key \notin adopted[s]
      BY <2>2, <2>3, <2>4, <3>2 DEF Covered, Referenced, Doubtful
    <3> QED BY <3>1, <3>2
  <2> QED BY <1>13, <2>2, <2>3, <2>4
<1>18. CASE Crash
  <2>1. crashes' # 0
    BY <1>18, AttachmentsAssumption DEF Crash, TypeOK
  <2>2. \A x \in Tasks : StillSo(x)'
    BY <1>18 DEF Crash, StillSo, Idle
  <2> QED BY <1>0, <1>18, <2>1, <2>2 DEF Crash, LeakInv, rowVars
<1>19. CASE UNCHANGED vars
  BY <1>13, <1>19, CoverStays DEF vars
<1>20. ASSUME NEW r \in Tasks, CleanupFails(r)
       PROVE  LeakInv'
  <2>1. /\ task'[r] = Idle /\ \A x \in Tasks \ {r} : task'[x] = task[x]
        /\ UNCHANGED <<staging, adopted, jobs, unanswered, spent, crashes, files>>
        /\ abandoned \subseteq abandoned'
    BY <1>20, FailingEnds DEF Finish, TypeOK, rowVars
  <2>2. \A key \in files : Tends(r, key) => Covered(key)'
    BY <1>20 DEF CleanupFails, StageUndoFail, DiscardFail, FinalizeFail, Abandon,
                 Tends, Serves, Covered
  <2>3. \A key : Covered(key) => Covered(key)'
    BY <2>1, CoverStays
  <2>4. \A x \in Tasks \ {r} : StillSo(x)'
    BY <2>1, OthersStillSo
  <2>5. StillSo(r)'
    BY <2>1 DEF StillSo, Idle
  <2> QED BY <1>0, <2>1, <2>2, <2>3, <2>4, <2>5, LeakMoves
<1> QED
  BY <1>1, <1>2, <1>3, <1>4, <1>5, <1>6, <1>7, <1>8, <1>9, <1>10, <1>11, <1>12,
     <1>14, <1>15, <1>16, <1>17, <1>18, <1>19, <1>20
     DEF Next, StageCommit, StageCommitLost, CleanupFails

(* What rows no longer name is registered for deletion (vou.md 5): when     *)
(* nothing is under way, and the process has not died in between, a file is *)
(* named by a row or by a deletion job, as long as clients wait for their   *)
(* answers; or it is that of a commit that was not answered, or a clean-up  *)
(* of it has failed (a removal in finalize or discard, or the registration  *)
(* after a failed upload) and no row has named it since.                    *)
THEOREM NothingIsForgotten ==
  ASSUME Retries = FALSE
  PROVE  Spec => []NothingLeaks
<1>1. Init => TypeOK /\ StagingInv /\ SerialInv /\ LeakInv
  BY Typed, StagingInit, SerialInit, LeakInit
<1>2. TypeOK /\ StagingInv /\ SerialInv /\ LeakInv /\ [Next]_vars
        => TypeOK' /\ StagingInv' /\ SerialInv' /\ LeakInv'
  BY TypeStep, StagingStep, SerialStep, LeakStep
<1>3. LeakInv => NothingLeaks
  BY DEF LeakInv, NothingLeaks, Cared, Covered, Tends, Serves, Steps, Idle
<1> QED BY <1>1, <1>2, <1>3, PTL DEF Spec
===============================================================================
