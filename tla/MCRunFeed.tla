------------------------------ MODULE MCRunFeed ------------------------------
(* One item for a bin that is known and for one that is not. *)
EXTENDS RunFeed

CONSTANTS marker, binA, run_order

MCOrders == {[item |-> marker, bin |-> b] : b \in {binA, "unknown bin"}}
============================================================================
