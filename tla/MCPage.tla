------------------------------- MODULE MCPage -------------------------------
(* The idle table of one run, a run that raises an alert, an event more.    *)
EXTENDS Page

MCScript ==
  <<[frame |-> TRUE, kind |-> "reset"], [frame |-> TRUE, kind |-> "alert"],
    [frame |-> FALSE, kind |-> "other"]>>
============================================================================
