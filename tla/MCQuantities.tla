----------------------------- MODULE MCQuantities -----------------------------
(* One order at a time, of a sale or a purchase; two pieces for 3.           *)
EXTENDS Quantities, TLC

MCEntities == {"sale-order", "sale-outbound", "sale-delivery", "sale-signoff",
               "sale-return", "sale-invoice",
               "purchase-order", "purchase-inbound", "purchase-return", "purchase-invoice"}

MCAmount(q) == (3 * q) \div 2

MCSymmetry == Permutations(Documents)
===============================================================================
