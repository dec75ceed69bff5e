---------------------------- MODULE DurableStore ----------------------------
(***************************************************************************)
(* What the persistence of the status store promises: one value on disk    *)
(* that a save replaces in a single step, by what the store held when the  *)
(* save began; a save that reports success has replaced it; and a process  *)
(* that starts, after whatever end of the one before, continues from it.   *)
(* The store is its version, as in StatusFile.                             *)
(***************************************************************************)
EXTENDS Integers

VARIABLES
    up,       \* the process runs
    mem,      \* the store in memory
    stored,   \* what is on disk
    pending,  \* what the save under way is to store, if there is one
    acked     \* the latest version a save reported as stored

vars == <<up, mem, stored, pending, acked>>

Init == up = TRUE /\ mem = 0 /\ stored = 0 /\ pending = {} /\ acked = 0

Push ==
    /\ up
    /\ mem' = mem + 1
    /\ UNCHANGED <<up, stored, pending, acked>>

SaveBegins ==
    /\ up /\ pending = {}
    /\ pending' = {mem}
    /\ UNCHANGED <<up, mem, stored, acked>>

Commit ==
    /\ \E v \in pending : v >= stored /\ stored' = v
    /\ UNCHANGED <<up, mem, pending, acked>>

(* Success is reported only of what is on disk, by a save that put it      *)
(* there.                                                                  *)
SaveSucceeds ==
    /\ pending = {stored}
    /\ acked' = stored
    /\ pending' = {}
    /\ UNCHANGED <<up, mem, stored>>

SaveFails ==
    /\ pending # {}
    /\ pending' = {}
    /\ UNCHANGED <<up, mem, stored, acked>>

Crash ==
    /\ up
    /\ up' = FALSE
    /\ mem' = 0 /\ pending' = {}
    /\ UNCHANGED <<stored, acked>>

Start ==
    /\ ~up
    /\ up' = TRUE
    /\ mem' = stored
    /\ UNCHANGED <<stored, pending, acked>>

Next == Push \/ SaveBegins \/ Commit \/ SaveSucceeds \/ SaveFails \/ Crash \/ Start
Spec == Init /\ [][Next]_vars
=============================================================================
