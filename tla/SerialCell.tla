----------------------------- MODULE SerialCell -----------------------------
(***************************************************************************)
(* What the webhook promises the warehouse: there is one arm, so the       *)
(* accepted orders are worked on one at a time; each is worked on at most  *)
(* once and has one fate; and while an order is worked on an item may be   *)
(* taken or dropped, but the only item that reaches a bin is the ordered   *)
(* one, in the ordered bin.  HTTP, threads and the lock are not visible.   *)
(***************************************************************************)
CONSTANTS Requests, Items, Bins, Orders, None

VARIABLES
  busy,    \* the request being worked on, or None
  want,    \* per client: its order, once there is one
  fate,    \* per client: "none", "working" or how it ended
  where    \* where each item is

cellVars == <<busy, want, fate, where>>

CellInit ==
  /\ busy = None
  /\ want = [r \in Requests |-> None]
  /\ fate = [r \in Requests |-> "none"]
  /\ where = [i \in Items |-> "spot"]

\* A client asks for an order, or for something that is none, once it knows
\* the fate of its last one.
Ask(r, o) ==
  /\ busy # r
  /\ want[r] = None \/ fate[r] # "none"
  /\ want' = [want EXCEPT ![r] = o]
  /\ fate' = [fate EXCEPT ![r] = "none"]
  /\ UNCHANGED <<busy, where>>

Begin(r) ==
  /\ busy = None
  /\ want[r] # None /\ fate[r] = "none"
  /\ busy' = r
  /\ fate' = [fate EXCEPT ![r] = "working"]
  /\ UNCHANGED <<want, where>>

Work ==
  /\ busy # None
  /\ where' \in [Items -> {"spot", "astray", "held"} \cup Bins]
  /\ \A i \in Items : where'[i] # where[i] =>
       \/ where'[i] \in {"astray", "held"}
       \/ i = want[busy].item /\ where'[i] = want[busy].bin
  /\ UNCHANGED <<busy, want, fate>>

End(r) ==
  /\ busy = r
  /\ busy' = None
  /\ \E f \in {"fulfilled", "failed"} : fate' = [fate EXCEPT ![r] = f]
  /\ UNCHANGED <<want, where>>

\* The order could not even be started.
Crash(r) ==
  /\ busy = None
  /\ want[r] # None /\ fate[r] = "none"
  /\ fate' = [fate EXCEPT ![r] = "crashed"]
  /\ UNCHANGED <<busy, want, where>>

CellNext ==
  \/ \E r \in Requests : \E o \in Orders \cup {None} : Ask(r, o)
  \/ \E r \in Requests : Begin(r) \/ End(r) \/ Crash(r)
  \/ Work

CellSpec == CellInit /\ [][CellNext]_cellVars
============================================================================
