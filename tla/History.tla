------------------------------ MODULE History ------------------------------
(***************************************************************************)
(* The long-term history (internal/history/history.go): results go through *)
(* a bounded buffer to a writer goroutine, which inserts them in batches   *)
(* into SQLite.  The actions name only the variables of this module; the   *)
(* worker composes them with the rest.                                     *)
(*                                                                         *)
(* Buffer and batch are sets: in which order the rows arrive makes no      *)
(* difference to a table that is only counted.                             *)
(***************************************************************************)
EXTENDS CheckResults

CONSTANTS
    Expired,     \* results older than the retention when a prune comes
    BufferSize,
    BatchSize

ASSUME HistorySizes == BufferSize \in Nat \ {0} /\ BatchSize \in Nat \ {0}
ASSUME ExpiredResults == Expired \subseteq Results

VARIABLES
    buffer,   \* s.ch
    batch,    \* the writer's batch
    rows,     \* how often each result is in probe_results
    failed,   \* history: results of a batch whose transaction failed
    writer,   \* the writer: "select", "flush", "drain", "last", "stopped"
    closing,  \* s.done is closed
    db        \* "open", "closed"

history == <<buffer, batch, rows, failed, writer, closing, db>>

HistoryInit ==
    /\ buffer = {} /\ batch = {} /\ failed = {}
    /\ rows = [i \in Results |-> 0]
    /\ writer = "select" /\ closing = FALSE /\ db = "open"

(* Record never waits: an infrastructure error is skipped, and so is a     *)
(* result that finds the buffer full.                                      *)
Record(i) ==
    /\ buffer' = IF i \notin infra /\ Cardinality(buffer) < BufferSize
                   THEN buffer \cup {i} ELSE buffer
    /\ UNCHANGED <<batch, rows, failed, writer, closing, db>>

-----------------------------------------------------------------------------
(* The writer goroutine: run's select, one action per case *)

Receive ==
    /\ writer = "select"
    /\ \E i \in buffer :
          /\ buffer' = buffer \ {i}
          /\ batch' = batch \cup {i}
          /\ writer' = IF Cardinality(batch \cup {i}) >= BatchSize THEN "flush" ELSE "select"
    /\ UNCHANGED <<rows, failed, closing, db>>

FlushTick_Full ==
    /\ writer = "select" /\ Cardinality(batch) >= BatchSize
    /\ writer' = "flush"
    /\ UNCHANGED <<buffer, batch, rows, failed, closing, db>>

FlushTick ==
    /\ writer = "select" /\ batch # {}
    /\ writer' = "flush"
    /\ UNCHANGED <<buffer, batch, rows, failed, closing, db>>

Prune ==
    /\ writer = "select"
    /\ rows' = [i \in Results |-> IF i \in Expired THEN 0 ELSE rows[i]]
    /\ UNCHANGED <<buffer, batch, failed, writer, closing, db>>

Done_NoDrain ==
    /\ writer = "select" /\ closing
    /\ writer' = "last"
    /\ UNCHANGED <<buffer, batch, rows, failed, closing, db>>

Done ==
    /\ writer = "select" /\ closing
    /\ writer' = "drain"
    /\ UNCHANGED <<buffer, batch, rows, failed, closing, db>>

DrainBuffer_Waits ==
    /\ writer = "drain"
    /\ \E i \in buffer : buffer' = buffer \ {i} /\ batch' = batch \cup {i}
    /\ writer' = IF Cardinality(batch') >= BatchSize THEN "last" ELSE "drain"
    /\ UNCHANGED <<rows, failed, closing, db>>

(* The final drain takes what is buffered, then flushes once. *)
DrainBuffer ==
    /\ writer = "drain"
    /\ \/ \E i \in buffer : /\ buffer' = buffer \ {i} /\ batch' = batch \cup {i}
                            /\ UNCHANGED writer
       \/ buffer = {} /\ writer' = "last" /\ UNCHANGED <<buffer, batch>>
    /\ UNCHANGED <<rows, failed, closing, db>>

flush_KeepBatch ==
    /\ writer \in {"flush", "last"}
    /\ \/ rows' = [i \in Results |-> IF i \in batch THEN rows[i] + 1 ELSE rows[i]]
          /\ UNCHANGED failed
       \/ failed' = failed \cup batch /\ UNCHANGED rows
    /\ batch' = batch
    /\ writer' = IF writer = "last" THEN "stopped" ELSE "select"
    /\ UNCHANGED <<buffer, closing, db>>

(* One transaction for the batch.  It fails as a whole (and on a closed    *)
(* database), and the batch is gone either way.                            *)
flush ==
    /\ writer \in {"flush", "last"}
    /\ \/ /\ db = "open"
          /\ rows' = [i \in Results |-> IF i \in batch THEN rows[i] + 1 ELSE rows[i]]
          /\ UNCHANGED failed
       \/ failed' = failed \cup batch /\ UNCHANGED rows
    /\ batch' = {}
    /\ writer' = IF writer = "last" THEN "stopped" ELSE "select"
    /\ UNCHANGED <<buffer, closing, db>>

Writes == Receive \/ FlushTick \/ Done \/ DrainBuffer \/ flush

-----------------------------------------------------------------------------
(* Close: signal the writer, wait for it, close the database *)

CloseDone == ~closing /\ closing' = TRUE /\ UNCHANGED <<buffer, batch, rows, failed, writer, db>>

CloseDB ==
    /\ closing /\ writer = "stopped" /\ db = "open"
    /\ db' = "closed"
    /\ UNCHANGED <<buffer, batch, rows, failed, writer, closing>>
=============================================================================
