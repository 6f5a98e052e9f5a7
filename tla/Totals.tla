-------------------------------- MODULE Totals --------------------------------
(***************************************************************************)
(* How many coupons there are in several places at once.  Written as the   *)
(* size of a set, one element for each coupon, so that the facts about     *)
(* finite sets can be used of it in proofs.                                *)
(***************************************************************************)
EXTENDS Integers, FiniteSets

\* One element for each coupon at x, for every place x.
Units(amounts) == UNION {{x} \X (1 .. amounts[x]) : x \in DOMAIN amounts}

\* The sum of amounts[x].
Total(amounts) == Cardinality(Units(amounts))
=============================================================================
