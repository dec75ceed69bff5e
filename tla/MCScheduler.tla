---------------------------- MODULE MCScheduler ----------------------------
(* Small instances of Scheduler for TLC. *)
EXTENDS Scheduler

CONSTANTS a, b, c

(* One retry for a, none for the others. *)
MCRetryCount == [x \in Checks |-> IF x = a THEN 1 ELSE 0]
=============================================================================
