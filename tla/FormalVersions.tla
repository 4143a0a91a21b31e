---------------------------- MODULE FormalVersions ----------------------------
(***************************************************************************)
(* What versioned archives promise their readers, without rows, locks,      *)
(* reviewers or revisions: every subject has a numbered line of formal      *)
(* versions, of which the highest is the current one, and at most one       *)
(* candidate, which carries the next number.  The line grows by adopting    *)
(* the candidate and shrinks only at its end, by turning the current        *)
(* version into the candidate again.                                        *)
(***************************************************************************)
EXTENDS Naturals

CONSTANTS Subjects, SubmissionIds

VARIABLES
  formal,      \* formal[s]: set of <<number, submission>>
  candidate    \* candidate[s]: empty, or one <<number, submission>>

vars == <<formal, candidate>>

Top(s, p) == p \in formal[s] /\ \A q \in formal[s] : q[1] <= p[1]

(* One more than the current number.                                        *)
NextNumber(s, n) ==
  IF formal[s] = {} THEN n = 1
                    ELSE \E p \in formal[s] : Top(s, p) /\ n = p[1] + 1
Numbers(s) == {1} \cup { p[1] + 1 : p \in formal[s] }

Init ==
  /\ formal = [s \in Subjects |-> {}]
  /\ candidate = [s \in Subjects |-> {}]

(* A candidate is put up; it gets the next number.                          *)
Propose(s, i) ==
  /\ candidate[s] = {}
  /\ \E n \in Numbers(s) :
       /\ NextNumber(s, n)
       /\ candidate' = [candidate EXCEPT ![s] = {<<n, i>>}]
  /\ UNCHANGED formal

(* The candidate is taken back; its number is free again.                   *)
Withdraw(s) ==
  /\ candidate[s] # {}
  /\ candidate' = [candidate EXCEPT ![s] = {}]
  /\ UNCHANGED formal

(* The candidate becomes the current version.                               *)
Adopt(s) ==
  /\ candidate[s] # {}
  /\ formal' = [formal EXCEPT ![s] = @ \cup candidate[s]]
  /\ candidate' = [candidate EXCEPT ![s] = {}]

(* The current version becomes the candidate; the one before it is current. *)
FallBack(s) ==
  /\ candidate[s] = {}
  /\ \E p \in formal[s] :
       /\ Top(s, p)
       /\ formal' = [formal EXCEPT ![s] = @ \ {p}]
       /\ candidate' = [candidate EXCEPT ![s] = {p}]

Next ==
  \E s \in Subjects :
    \/ \E i \in SubmissionIds : Propose(s, i)
    \/ Withdraw(s)
    \/ Adopt(s)
    \/ FallBack(s)

Spec == Init /\ [][Next]_vars
===============================================================================
