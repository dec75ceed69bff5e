--------------------------- MODULE MCStatusStore ---------------------------
(* A small instance of StatusStore for TLC: two checks of different types  *)
(* that share a name.                                                      *)
EXTENDS StatusStore

CONSTANTS http, dns, n1

MCNameOf == [k \in Keys |-> n1]
MCActive == {Keys, {dns}}

(* A page: two violations, a recovery and two violations take five         *)
(* results.  A saver: three fill a ring and wrap it while a save holds its *)
(* array, or after the restart that reads it back.                         *)
MCScenarios == {{"page"}, {"save"}}
MCMaxResults == [s \in Scenarios |-> IF "page" \in s THEN 5 ELSE 3]
MCMaxRestarts == [s \in Scenarios |-> IF "page" \in s THEN 0 ELSE 1]

MCEntries == {"up", "down", "infra"}
=============================================================================
