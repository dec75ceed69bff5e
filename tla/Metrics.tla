------------------------------ MODULE Metrics ------------------------------
(***************************************************************************)
(* RecordResult (internal/metrics/prometheus.go): the gauges of a check    *)
(* and the guard that limits the number of check names.  The goroutines of *)
(* several checks record at the same time; only the guard has a lock.      *)
(***************************************************************************)
EXTENDS CheckResults

CONSTANT MaxCardinality   \* max_check_cardinality

ASSUME CardinalityPositive == MaxCardinality \in Nat \ {0}

VARIABLES
    recording,   \* where each result is: "due", "guard", "gauges", "recorded", "sent"
    seen,        \* seenCheckNames
    healthy,     \* the result that set technician_check_healthy last; {} without series
    broken       \* technician_check_infra_error: "none" without series, "0", "1"

metrics == <<infra, recording, seen, healthy, broken>>

MetricsInit ==
    /\ infra = {}
    /\ recording = [i \in Results |-> "due"]
    /\ seen = {}
    /\ healthy = [n \in Checks |-> {}]
    /\ broken = [n \in Checks |-> "none"]

(* A run has ended, with a verdict on the target or with an infrastructure *)
(* error.  The gauge for the latter comes before the guard: the limit does *)
(* not hold for its series.                                                *)
RecordInfra(i) ==
    /\ recording[i] = "due"
    /\ \/ /\ infra' = infra \cup {i}
          /\ broken' = [broken EXCEPT ![Name[i]] = "1"]
          /\ recording' = [recording EXCEPT ![i] = "recorded"]
       \/ /\ broken' = [broken EXCEPT ![Name[i]] = "0"]
          /\ recording' = [recording EXCEPT ![i] = "guard"]
          /\ UNCHANGED infra
    /\ UNCHANGED <<seen, healthy>>

Guard_OneMore(i) ==
    /\ recording[i] = "guard"
    /\ IF Name[i] \in seen \/ Cardinality(seen) <= MaxCardinality
         THEN /\ seen' = seen \cup {Name[i]}
              /\ recording' = [recording EXCEPT ![i] = "gauges"]
         ELSE recording' = [recording EXCEPT ![i] = "recorded"] /\ UNCHANGED seen
    /\ UNCHANGED <<infra, healthy, broken>>

Guard(i) ==
    /\ recording[i] = "guard"
    /\ IF Name[i] \in seen \/ Cardinality(seen) < MaxCardinality
         THEN /\ seen' = seen \cup {Name[i]}
              /\ recording' = [recording EXCEPT ![i] = "gauges"]
         ELSE recording' = [recording EXCEPT ![i] = "recorded"] /\ UNCHANGED seen
    /\ UNCHANGED <<infra, healthy, broken>>

(* check_healthy, the duration and the gauges of the type. *)
Gauges(i) ==
    /\ recording[i] = "gauges"
    /\ healthy' = [healthy EXCEPT ![Name[i]] = {i}]
    /\ recording' = [recording EXCEPT ![i] = "recorded"]
    /\ UNCHANGED <<infra, seen, broken>>

RecordResult(i) == RecordInfra(i) \/ Guard(i) \/ Gauges(i)
=============================================================================
