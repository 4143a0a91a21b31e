----------------------------- MODULE MCAccounting -----------------------------
(* Two books, the second starting a month after the control book and not     *)
(* posting disposals; one document brings something in, the other takes      *)
(* something out.                                                            *)
EXTENDS Accounting, TLC

CONSTANTS control, branch, in, out

MCBooks   == {control, branch}
MCDocuments == {in, out}
MCStart   == [b \in MCBooks |-> IF b = control THEN 1 ELSE 2]
MCPosts   == (MCBooks \X Kinds) \ {<<branch, "dispose">>}
MCKindsOf == [d \in MCDocuments |-> IF d = in THEN {"receive", "acquire"} ELSE {"issue", "dispose"}]
MCOpeningStock == {-1, 0}
MCRequests == Permutations(Requests)
===============================================================================
