------------------------------ MODULE MCProcesses ------------------------------
(* A purchase order with two receipts, a sale order whose outbound may be   *)
(* delivered, and a reimbursement, whose payment does not look at it.       *)
EXTENDS Processes, TLC

MCEntities == {"purchase-order", "purchase-inbound", "purchase-return", "sale-order",
               "sale-outbound", "sale-delivery", "expense-reimbursement", "expense-payment"}

MCKeys == {"root", "first", "second"}

MCDefinitions ==
  {[entity |-> [k \in MCKeys |-> CASE k = "root"   -> "purchase-order"
                                   [] OTHER        -> "purchase-inbound"],
    root   |-> "root",
    edges  |-> {<<"root", "first">>, <<"root", "second">>}],
   [entity |-> [k \in MCKeys |-> CASE k = "root"   -> "sale-order"
                                   [] k = "first"  -> "sale-outbound"
                                   [] k = "second" -> "sale-delivery"],
    root   |-> "root",
    edges  |-> {<<"root", "first">>, <<"first", "second">>}],
   [entity |-> [k \in MCKeys |-> CASE k = "root"   -> "expense-reimbursement"
                                   [] OTHER        -> "expense-payment"],
    root   |-> "root",
    edges  |-> {<<"root", "first">>}]}

MCSymmetry == Permutations(Documents) \cup Permutations(RequestKeys)
===============================================================================
