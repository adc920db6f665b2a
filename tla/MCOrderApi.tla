----------------------------- MODULE MCOrderApi -----------------------------
(* Two connections, three requests, two taught items that are wanted in the *)
(* same bin.                                                                *)
EXTENDS OrderApi

MCOrders ==
  {[item |-> "marker", bin |-> "A"], [item |-> "mug", bin |-> "A"]}
============================================================================
