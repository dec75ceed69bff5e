------------------------------- MODULE Worker -------------------------------
(***************************************************************************)
(* The worker process (cmd/worker.go) around its parts: a check goroutine  *)
(* records its result as metrics and queues it, the drain goroutine takes  *)
(* it through history, status store, notifier and log, and the main        *)
(* goroutine shuts everything down after a signal.  Scheduler, Notify,     *)
(* StatusStore and StatusFile have the details of those parts.             *)
(***************************************************************************)
EXTENDS History, Metrics

CONSTANTS
    QueueSize,   \* capacity of the scheduler's results channel
    Origins      \* whether an origin is configured: a subset of BOOLEAN

ASSUME QueuePositive == QueueSize \in Nat \ {0}
ASSUME OriginsBoolean == Origins \subseteq BOOLEAN

VARIABLES
    origin,   \* ResolveOrigin found an origin
    queue,    \* the scheduler's results channel
    drain,    \* the drain goroutine: "idle", "notify"
    current,  \* the result it is at: a set of at most one
    pushed,   \* results in the status store
    sending,  \* results whose alarm is being sent (the notifier's WaitGroup)
    saved,    \* results in status.json
    ticking,  \* the image the save ticker is writing: a set of at most one
    main,     \* the main goroutine
    before,   \* history: results the drain was done with when the signal came
    alarmed,  \* history: alarms under way when it came and not yet at their end
    atClose,  \* history: what the history had accepted when Close began
    lostSave  \* history: the save at shutdown failed, or met one of the ticker

files == <<saved, ticking>>
stores == <<pushed, sending, files>>
process == <<queue, drain, current, stores, main>>
ghosts == <<before, alarmed, atClose, lostSave>>
vars == <<history, metrics, origin, process, ghosts>>

Ended == main \in {"exited", "crashed"}

Init ==
    /\ HistoryInit /\ MetricsInit
    /\ origin \in Origins
    /\ queue = {} /\ drain = "idle" /\ current = {}
    /\ pushed = {} /\ sending = {} /\ saved = {}
    /\ ticking = {} /\ main = "serving"
    /\ before = {} /\ alarmed = {} /\ atClose = {} /\ lostSave = FALSE

-----------------------------------------------------------------------------
(* The check goroutines *)

(* A run has ended; after cancel() no new one starts, but one may be ending. *)
Records(i) ==
    /\ ~Ended /\ RecordResult(i)
    /\ UNCHANGED <<history, origin, process, ghosts>>

Queue_Forced(i) ==
    /\ ~Ended /\ recording[i] = "recorded"
    /\ recording' = [recording EXCEPT ![i] = "sent"]
    /\ queue' = queue \cup {i}
    /\ UNCHANGED <<infra, seen, healthy, broken, history, origin, drain, current, stores,
                   main, ghosts>>

(* The send that never blocks. *)
Queue(i) ==
    /\ ~Ended /\ recording[i] = "recorded"
    /\ recording' = [recording EXCEPT ![i] = "sent"]
    /\ queue' = IF Cardinality(queue) < QueueSize THEN queue \cup {i} ELSE queue
    /\ UNCHANGED <<infra, seen, healthy, broken, history, origin, drain, current, stores,
                   main, ghosts>>

-----------------------------------------------------------------------------
(* The drain goroutine *)

(* The next result: Push hands it to the history, then to its ring. *)
DrainPush ==
    /\ ~Ended /\ drain = "idle"
    /\ \E i \in queue :
          /\ queue' = queue \ {i} /\ current' = {i}
          /\ Record(i)
          /\ pushed' = pushed \cup {i}
    /\ drain' = "notify"
    /\ UNCHANGED <<metrics, origin, sending, saved, ticking, main, ghosts>>

(* HandleResult, HandleCertResult and the budgets may start to send.  The  *)
(* log line then names origin.ID: without an origin the process panics.    *)
DrainNotify ==
    /\ ~Ended /\ drain = "notify"
    /\ sending' \in {sending, sending \cup current}
    /\ current' = {} /\ drain' = "idle"
    /\ main' = IF origin THEN main ELSE "crashed"
    /\ UNCHANGED <<history, metrics, origin, queue, pushed, files, ghosts>>

SendEnds(i) ==
    /\ ~Ended /\ i \in sending
    /\ sending' = sending \ {i} /\ alarmed' = alarmed \ {i}
    /\ UNCHANGED <<history, metrics, origin, queue, drain, current, pushed, files, main,
                   before, atClose, lostSave>>

-----------------------------------------------------------------------------
(* The save ticker, and the history's writer *)

(* A save by the ticker reads the store and later replaces the file.  The  *)
(* main goroutine does not wait for it, and a tick may still be taken just *)
(* after cancel().                                                         *)
TickerReads ==
    /\ ~Ended /\ ticking = {}
    /\ ticking' = {pushed}
    /\ UNCHANGED <<history, metrics, origin, queue, drain, current, pushed, sending, saved,
                   main, ghosts>>

TickerWrites ==
    /\ ~Ended /\ ticking # {}
    /\ saved' \in ticking \cup {saved}
    /\ ticking' = {}
    /\ UNCHANGED <<history, metrics, origin, queue, drain, current, pushed, sending, main,
                   ghosts>>

HistoryWrites ==
    /\ ~Ended /\ Writes
    /\ UNCHANGED <<metrics, origin, process, ghosts>>

HistoryPrunes ==
    /\ ~Ended /\ Prune
    /\ UNCHANGED <<metrics, origin, process, ghosts>>

-----------------------------------------------------------------------------
(* The main goroutine *)

Signal ==
    /\ main = "serving"
    /\ main' = "waiting"
    /\ before' = pushed \ current /\ alarmed' = sending
    /\ UNCHANGED <<history, metrics, origin, queue, drain, current, stores, atClose, lostSave>>

NotifierWaited_Not ==
    /\ main = "waiting"
    /\ main' = "saving"
    /\ UNCHANGED <<history, metrics, origin, queue, drain, current, stores, ghosts>>

(* notifier.Wait returns. *)
NotifierWaited ==
    /\ main = "waiting" /\ sending = {}
    /\ main' = "saving"
    /\ UNCHANGED <<history, metrics, origin, queue, drain, current, stores, ghosts>>

FinalSave_Skipped ==
    /\ main = "saving"
    /\ main' = "closing"
    /\ UNCHANGED <<history, metrics, origin, queue, drain, current, stores, ghosts>>

(* The last save, cancel() and the shutdown of the HTTP server. *)
FinalSave ==
    /\ main = "saving"
    /\ \/ saved' = pushed /\ lostSave' = (ticking # {})
       \/ lostSave' = TRUE /\ UNCHANGED saved
    /\ main' = "closing"
    /\ UNCHANGED <<history, metrics, origin, queue, drain, current, pushed, sending,
                   ticking, before, alarmed, atClose>>

(* The deferred hist.Close, in its two steps. *)
HistoryClose ==
    /\ main = "closing"
    /\ CloseDone
    /\ atClose' = buffer \cup batch
    /\ UNCHANGED <<metrics, origin, process, before, alarmed, lostSave>>

HistoryClosed ==
    /\ main = "closing"
    /\ CloseDB
    /\ main' = "exited"
    /\ UNCHANGED <<metrics, origin, queue, drain, current, stores, ghosts>>

Over == Ended /\ UNCHANGED vars

Next ==
    \/ \E i \in Results : Records(i) \/ Queue(i) \/ SendEnds(i)
    \/ DrainPush \/ DrainNotify
    \/ TickerReads \/ TickerWrites \/ HistoryWrites \/ HistoryPrunes
    \/ Signal \/ NotifierWaited \/ FinalSave \/ HistoryClose \/ HistoryClosed
    \/ Over

Spec == Init /\ [][Next]_vars

(* The goroutines of the process go on, sends end (Notify), and the main   *)
(* goroutine shuts down once it was told to.  Nobody has to send a signal. *)
FairSpec ==
    /\ Spec
    /\ WF_vars(HistoryWrites)
    /\ \A i \in Results : WF_vars(SendEnds(i))
    /\ SF_vars(NotifierWaited)
    /\ WF_vars(FinalSave) /\ WF_vars(HistoryClose) /\ WF_vars(HistoryClosed)

-----------------------------------------------------------------------------
(* Properties *)

TypeOK ==
    /\ infra \subseteq Results
    /\ buffer \subseteq Results /\ Cardinality(buffer) <= BufferSize
    /\ batch \subseteq Results /\ failed \subseteq Results
    /\ rows \in [Results -> Nat]
    /\ writer \in {"select", "flush", "drain", "last", "stopped"}
    /\ closing \in BOOLEAN /\ db \in {"open", "closed"}
    /\ recording \in [Results -> {"due", "guard", "gauges", "recorded", "sent"}]
    /\ seen \subseteq Checks
    /\ healthy \in [Checks -> SUBSET Results]
    /\ broken \in [Checks -> {"none", "0", "1"}]
    /\ origin \in BOOLEAN
    /\ queue \subseteq Results /\ Cardinality(queue) <= QueueSize
    /\ drain \in {"idle", "notify"}
    /\ current \subseteq Results
    /\ pushed \subseteq Results /\ sending \subseteq Results
    /\ saved \subseteq Results /\ ticking \subseteq SUBSET Results
    /\ main \in {"serving", "waiting", "saving", "closing", "exited", "crashed"}
    /\ before \subseteq Results /\ alarmed \subseteq Results /\ atClose \subseteq Results
    /\ lostSave \in BOOLEAN

(* However many goroutines record at once, the series of check_healthy are *)
(* at most max_check_cardinality names, each of them admitted              *)
(* (prometheus.go 364-379).                                                *)
SeriesBounded ==
    /\ Cardinality(seen) <= MaxCardinality
    /\ \A n \in Checks : healthy[n] # {} => n \in seen

(* The history holds no result twice, through partial batches, failed      *)
(* transactions, the final drain and a prune (history.go 97-161).          *)
StoredOnce == \A i \in Results : rows[i] <= 1

(* An infrastructure error is not a verdict on the target: it counts       *)
(* neither in the history's uptime nor in check_healthy (history.go 86-89, *)
(* prometheus.go 352-362).                                                 *)
InfraNotCounted ==
    \A i \in infra : rows[i] = 0 /\ \A n \in Checks : i \notin healthy[n]

(* What the history had accepted when Close began is in the database when  *)
(* the worker exits, unless the transaction failed; the writer is done     *)
(* with it when the database is closed (history.go 120-132, 186-190).      *)
CloseFlushes ==
    /\ db = "closed" => writer = "stopped" /\ batch = {}
    /\ main = "exited" => \A i \in atClose : rows[i] = 1 \/ i \in failed \cup Expired

(* A result drained before the signal is in the file the worker leaves     *)
(* behind, unless the disk fails or a save of the ticker is under way      *)
(* (worker.go 246-255); later ones may not be.                             *)
DrainedIsSaved == main \in {"closing", "exited"} /\ ~lostSave => before \subseteq saved

(* An alarm whose sending began before the signal is not cut off by the    *)
(* exit of the process (worker.go 251); later ones may be.                 *)
AlarmsFinish == main = "exited" => alarmed = {}

(* A result the history accepted is inserted, or lost to a failed          *)
(* transaction, without waiting for more results, unless the process ends. *)
FlushedInTime ==
    \A i \in Results : i \in buffer \cup batch ~> i \notin buffer \cup batch \/ Ended

(* A signal ends the worker (worker.go 246-259). *)
WorkerStops == main = "waiting" ~> Ended
=============================================================================
