-------------------------- MODULE ArchivesRefinement --------------------------
(***************************************************************************)
(* The archives implement FormalVersions: the approved rows of a subject    *)
(* are its line of formal versions, its open row is the candidate.          *)
(***************************************************************************)
EXTENDS Archives

ApprovedVersions(s) == { i \in Versions(s) : IsApproved(i) }
OpenVersions(s)     == { i \in Versions(s) : Open(i) }
Numbered(S)         == { <<header[i].versionNo, i>> : i \in S }

formalRows    == [s \in Subjects |-> Numbered(ApprovedVersions(s))]
candidateRows == [s \in Subjects |-> Numbered(OpenVersions(s))]

Abstract == INSTANCE FormalVersions
              WITH formal <- formalRows, candidate <- candidateRows

(* bob.md 4 and approval.md 6: every operation on the archives is, for a    *)
(* reader of formal versions, one step of FormalVersions or nothing.        *)
ImplementsFormalVersions == Abstract!Spec
===============================================================================
