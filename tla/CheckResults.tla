---------------------------- MODULE CheckResults ----------------------------
(* The results of a behaviour, as History and Metrics tell them apart. *)
EXTENDS Integers, FiniteSets

CONSTANTS
    Results,   \* the results
    Name       \* the check name of each

Checks == {Name[i] : i \in Results}

VARIABLE infra   \* those of the results that are infrastructure errors
=============================================================================
