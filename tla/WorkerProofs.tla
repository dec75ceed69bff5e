---------------------------- MODULE WorkerProofs ----------------------------
(***************************************************************************)
(* The worker stays within its capacities, stores no result twice, counts  *)
(* no infrastructure error, and leaves nothing behind at shutdown that it  *)
(* had accepted before, for any number of results and every capacity.      *)
(***************************************************************************)
EXTENDS Worker, FiniteSetTheorems, TLAPS

-----------------------------------------------------------------------------
(* Capacities *)

Bounded(S, n) == IsFiniteSet(S) /\ Cardinality(S) <= n

LEMMA AddBounded ==
    ASSUME NEW S, NEW x, NEW n \in Nat, IsFiniteSet(S), Cardinality(S) < n
    PROVE  Bounded(S \cup {x}, n)
<1>1. Cardinality(S) \in Nat BY FS_CardinalityType
<1>2. /\ IsFiniteSet(S \cup {x})
      /\ Cardinality(S \cup {x}) = IF x \in S THEN Cardinality(S) ELSE Cardinality(S) + 1
  BY FS_AddElement
<1> QED BY <1>1, <1>2 DEF Bounded

LEMMA RemoveBounded ==
    ASSUME NEW S, NEW x, NEW n \in Nat, Bounded(S, n)
    PROVE  Bounded(S \ {x}, n)
<1>1. Cardinality(S) \in Nat BY FS_CardinalityType DEF Bounded
<1>2. /\ IsFiniteSet(S \ {x})
      /\ Cardinality(S \ {x}) = IF x \in S THEN Cardinality(S) - 1 ELSE Cardinality(S)
  BY FS_RemoveElement DEF Bounded
<1> QED BY <1>1, <1>2 DEF Bounded

Capacities ==
    /\ Bounded(buffer, BufferSize)
    /\ Bounded(queue, QueueSize)
    /\ Bounded(seen, MaxCardinality)

LEMMA CapacitiesInit == Init => Capacities
<1>1. \A n \in Nat : Bounded({}, n) BY FS_EmptySet DEF Bounded
<1> QED BY <1>1, HistorySizes, QueuePositive, CardinalityPositive
        DEF Init, HistoryInit, MetricsInit, Capacities

LEMMA CapacitiesStep == Capacities /\ [Next]_vars => Capacities'
<1> SUFFICES ASSUME Capacities, [Next]_vars PROVE Capacities' OBVIOUS
<1>0. BufferSize \in Nat /\ QueueSize \in Nat /\ MaxCardinality \in Nat
  BY HistorySizes, QueuePositive, CardinalityPositive
<1>1. ASSUME NEW i \in Results, Records(i) PROVE Capacities'
  <2>1. UNCHANGED <<buffer, queue>> BY <1>1 DEF Records, history, process
  <2>2. \/ UNCHANGED seen
        \/ seen' = seen \cup {Name[i]}
           /\ (Name[i] \in seen \/ Cardinality(seen) < MaxCardinality)
    BY <1>1 DEF Records, RecordResult, RecordInfra, Guard, Gauges
  <2>3. CASE UNCHANGED seen BY <2>1, <2>3 DEF Capacities
  <2>4. CASE seen' = seen \cup {Name[i]} /\ Name[i] \in seen
    <3>1. seen' = seen BY <2>4
    <3> QED BY <2>1, <3>1 DEF Capacities
  <2>5. CASE seen' = seen \cup {Name[i]} /\ Cardinality(seen) < MaxCardinality
    <3>1. Bounded(seen \cup {Name[i]}, MaxCardinality)
      BY <1>0, <2>5, AddBounded DEF Capacities, Bounded
    <3> QED BY <2>1, <2>5, <3>1 DEF Capacities
  <2> QED BY <2>2, <2>3, <2>4, <2>5
<1>2. ASSUME NEW i \in Results, Queue(i) PROVE Capacities'
  <2>1. UNCHANGED <<buffer, seen>> BY <1>2 DEF Queue, history
  <2>2. CASE Cardinality(queue) < QueueSize
    <3>1. Bounded(queue \cup {i}, QueueSize)
      BY <1>0, <2>2, AddBounded DEF Capacities, Bounded
    <3>2. queue' = queue \cup {i} BY <1>2, <2>2 DEF Queue
    <3> QED BY <2>1, <3>1, <3>2 DEF Capacities
  <2>3. CASE ~(Cardinality(queue) < QueueSize)
    <3>1. queue' = queue BY <1>2, <2>3 DEF Queue
    <3> QED BY <2>1, <3>1 DEF Capacities
  <2> QED BY <2>2, <2>3
<1>3. CASE DrainPush
  <2>1. PICK i \in queue : queue' = queue \ {i} /\ Record(i) BY <1>3 DEF DrainPush
  <2>2. Bounded(queue', QueueSize) BY <1>0, <2>1, RemoveBounded DEF Capacities
  <2>3. seen' = seen BY <1>3 DEF DrainPush, metrics
  <2>4. Bounded(buffer', BufferSize)
    <3>1. CASE i \notin infra /\ Cardinality(buffer) < BufferSize
      <4>1. buffer' = buffer \cup {i} BY <2>1, <3>1 DEF Record
      <4> QED BY <1>0, <3>1, <4>1, AddBounded DEF Capacities, Bounded
    <3>2. CASE ~(i \notin infra /\ Cardinality(buffer) < BufferSize)
      <4>1. buffer' = buffer BY <2>1, <3>2 DEF Record
      <4> QED BY <4>1 DEF Capacities
    <3> QED BY <3>1, <3>2
  <2> QED BY <2>2, <2>3, <2>4 DEF Capacities
<1>4. CASE HistoryWrites
  <2>1. UNCHANGED <<queue, seen>> BY <1>4 DEF HistoryWrites, metrics, process
  <2>2. UNCHANGED buffer \/ \E i \in buffer : buffer' = buffer \ {i}
    BY <1>4 DEF HistoryWrites, Writes, Receive, FlushTick, Done, DrainBuffer, flush
  <2>3. Bounded(buffer', BufferSize) BY <1>0, <2>2, RemoveBounded DEF Capacities
  <2> QED BY <2>1, <2>3 DEF Capacities
<1>5. CASE UNCHANGED <<buffer, queue, seen>> BY <1>5 DEF Capacities
<1>6. \/ \E i \in Results : Records(i) \/ Queue(i)
      \/ DrainPush \/ HistoryWrites \/ UNCHANGED <<buffer, queue, seen>>
  BY DEF Next, SendEnds, DrainNotify, TickerReads, TickerWrites, HistoryPrunes, Prune, Signal,
         NotifierWaited, FinalSave, HistoryClose, CloseDone, HistoryClosed, CloseDB, Over,
         vars, history, metrics, process
<1> QED BY <1>1, <1>2, <1>3, <1>4, <1>5, <1>6

-----------------------------------------------------------------------------
(* Types *)

Types ==
    /\ infra \subseteq Results
    /\ buffer \subseteq Results /\ batch \subseteq Results /\ failed \subseteq Results
    /\ rows \in [Results -> Nat]
    /\ writer \in {"select", "flush", "drain", "last", "stopped"}
    /\ closing \in BOOLEAN /\ db \in {"open", "closed"}
    /\ recording \in [Results -> {"due", "guard", "gauges", "recorded", "sent"}]
    /\ seen \subseteq Checks
    /\ healthy \in [Checks -> SUBSET Results]
    /\ broken \in [Checks -> {"none", "0", "1"}]
    /\ origin \in BOOLEAN
    /\ queue \subseteq Results
    /\ drain \in {"idle", "notify"}
    /\ current \subseteq Results
    /\ pushed \subseteq Results /\ sending \subseteq Results
    /\ saved \subseteq Results /\ ticking \subseteq SUBSET Results
    /\ main \in {"serving", "waiting", "saving", "closing", "exited", "crashed"}
    /\ before \subseteq Results /\ alarmed \subseteq Results /\ atClose \subseteq Results
    /\ lostSave \in BOOLEAN

LEMMA TypesInit == Init => Types
<1> SUFFICES ASSUME Init PROVE Types OBVIOUS
<1>1. origin \in BOOLEAN BY OriginsBoolean DEF Init
<1>2. /\ rows \in [Results -> Nat]
      /\ recording \in [Results -> {"due", "guard", "gauges", "recorded", "sent"}]
      /\ healthy \in [Checks -> SUBSET Results]
      /\ broken \in [Checks -> {"none", "0", "1"}]
  BY DEF Init, HistoryInit, MetricsInit
<1> QED BY <1>1, <1>2 DEF Init, HistoryInit, MetricsInit, Types

LEMMA TypesStep == Types /\ [Next]_vars => Types'
<1> SUFFICES ASSUME Types, [Next]_vars PROVE Types' OBVIOUS
<1> USE DEF vars, history, metrics, process, stores, files, ghosts
<1>1. ASSUME NEW i \in Results, Records(i) PROVE Types'
  <2>1. Name[i] \in Checks BY DEF Checks
  <2>2. CASE RecordInfra(i) BY <1>1, <2>1, <2>2 DEF Records, RecordInfra, Types
  <2>3. CASE Guard(i) BY <1>1, <2>1, <2>3 DEF Records, Guard, Types
  <2>4. CASE Gauges(i) BY <1>1, <2>1, <2>4 DEF Records, Gauges, Types
  <2> QED BY <1>1, <2>2, <2>3, <2>4 DEF Records, RecordResult
<1>2. ASSUME NEW i \in Results, Queue(i) PROVE Types' BY <1>2 DEF Queue, Types
<1>3. ASSUME NEW i \in Results, SendEnds(i) PROVE Types' BY <1>3 DEF SendEnds, Types
<1>4. CASE DrainPush BY <1>4 DEF DrainPush, Record, Types
<1>5. CASE DrainNotify BY <1>5 DEF DrainNotify, Types
<1>6. CASE TickerReads BY <1>6 DEF TickerReads, Types
<1>7. CASE TickerWrites BY <1>7 DEF TickerWrites, Types
<1>8. CASE HistoryWrites
  <2>1. CASE Receive BY <1>8, <2>1 DEF HistoryWrites, Receive, Types
  <2>2. CASE FlushTick BY <1>8, <2>2 DEF HistoryWrites, FlushTick, Types
  <2>3. CASE Done BY <1>8, <2>3 DEF HistoryWrites, Done, Types
  <2>4. CASE DrainBuffer BY <1>8, <2>4 DEF HistoryWrites, DrainBuffer, Types
  <2>5. CASE flush BY <1>8, <2>5 DEF HistoryWrites, flush, Types
  <2> QED BY <1>8, <2>1, <2>2, <2>3, <2>4, <2>5 DEF HistoryWrites, Writes
<1>9. CASE HistoryPrunes BY <1>9 DEF HistoryPrunes, Prune, Types
<1>10. CASE Signal BY <1>10 DEF Signal, Types
<1>11. CASE NotifierWaited BY <1>11 DEF NotifierWaited, Types
<1>12. CASE FinalSave BY <1>12 DEF FinalSave, Types
<1>13. CASE HistoryClose BY <1>13 DEF HistoryClose, CloseDone, Types
<1>14. CASE HistoryClosed BY <1>14 DEF HistoryClosed, CloseDB, Types
<1>15. CASE UNCHANGED vars BY <1>15 DEF Types
<1> QED BY <1>1, <1>2, <1>3, <1>4, <1>5, <1>6, <1>7, <1>8, <1>9, <1>10, <1>11, <1>12,
        <1>13, <1>14, <1>15 DEF Next, Over

(* Types, and the capacities of the history's buffer and of the results    *)
(* channel (history.go 26-29, 90-94; scheduler.go 146-163).                *)
THEOREM TypeCorrect == Spec => []TypeOK
<1>1. Types /\ Capacities => TypeOK BY DEF Types, Capacities, Bounded, TypeOK
<1> QED BY <1>1, TypesInit, TypesStep, CapacitiesInit, CapacitiesStep, PTL DEF Spec

-----------------------------------------------------------------------------
(* Metrics *)

(* A result about to set its gauges has been admitted. *)
Admitted ==
    /\ \A i \in Results : recording[i] = "gauges" => Name[i] \in seen
    /\ \A n \in Checks : healthy[n] # {} => n \in seen

LEMMA AdmittedStep == Types /\ Admitted /\ [Next]_vars => Admitted'
<1> SUFFICES ASSUME Types, Admitted, [Next]_vars PROVE Admitted' OBVIOUS
<1>1. ASSUME NEW i \in Results, RecordInfra(i) PROVE Admitted'
  BY <1>1 DEF RecordInfra, Types, Admitted
<1>2. ASSUME NEW i \in Results, Guard(i) PROVE Admitted'
  BY <1>2 DEF Guard, Types, Admitted
<1>3. ASSUME NEW i \in Results, Gauges(i) PROVE Admitted'
  <2>1. Name[i] \in Checks /\ Name[i] \in seen BY <1>3 DEF Gauges, Checks, Admitted
  <2> QED BY <1>3, <2>1 DEF Gauges, Types, Admitted
<1>4. ASSUME NEW i \in Results, Queue(i) PROVE Admitted'
  BY <1>4 DEF Queue, Types, Admitted
<1>5. CASE UNCHANGED <<recording, seen, healthy>> BY <1>5 DEF Admitted
<1>6. \/ \E i \in Results : RecordInfra(i) \/ Guard(i) \/ Gauges(i) \/ Queue(i)
      \/ UNCHANGED <<recording, seen, healthy>>
  BY DEF Next, Records, RecordResult, SendEnds, DrainPush, DrainNotify, TickerReads,
         TickerWrites, HistoryWrites, HistoryPrunes, Signal, NotifierWaited, FinalSave,
         HistoryClose, HistoryClosed, Over, vars, metrics
<1> QED BY <1>1, <1>2, <1>3, <1>4, <1>5, <1>6

(* The names with a check_healthy series are at most max_check_cardinality *)
(* (prometheus.go 366-381), however the goroutines that record interleave. *)
THEOREM SeriesInvariant == Spec => []SeriesBounded
<1>1. Init => Admitted BY DEF Init, HistoryInit, MetricsInit, Admitted
<1>2. Capacities /\ Admitted => SeriesBounded
  BY DEF Capacities, Bounded, Admitted, SeriesBounded
<1> QED BY <1>1, <1>2, AdmittedStep, TypesInit, TypesStep, CapacitiesInit, CapacitiesStep,
        PTL DEF Spec

-----------------------------------------------------------------------------
(* History *)

(* A result is at one place at a time: before the channel, in it, in the   *)
(* history's buffer, in its batch, and only then in the table.             *)
OnePlace ==
    /\ \A i \in Results : recording[i] # "sent" =>
          i \notin queue /\ i \notin buffer /\ i \notin batch /\ rows[i] = 0
    /\ \A i \in queue : i \notin buffer /\ i \notin batch /\ rows[i] = 0
    /\ \A i \in buffer : i \notin batch /\ rows[i] = 0
    /\ \A i \in batch : rows[i] = 0
    /\ \A i \in Results : rows[i] <= 1

LEMMA OnePlaceStep == Types /\ OnePlace /\ [Next]_vars => OnePlace'
<1> SUFFICES ASSUME Types, OnePlace, [Next]_vars PROVE OnePlace' OBVIOUS
<1>1. ASSUME NEW i \in Results, Records(i) PROVE OnePlace'
  <2>1. UNCHANGED <<queue, buffer, batch, rows>> BY <1>1 DEF Records, history, process
  <2>2. \A j \in Results : recording'[j] # "sent" => recording[j] # "sent"
    BY <1>1 DEF Records, RecordResult, RecordInfra, Guard, Gauges, Types
  <2> QED BY <2>1, <2>2 DEF OnePlace
<1>2. ASSUME NEW i \in Results, Queue(i) PROVE OnePlace'
  BY <1>2 DEF Queue, history, Types, OnePlace
<1>3. CASE DrainPush
  BY <1>3 DEF DrainPush, Record, metrics, Types, OnePlace
<1>4. CASE HistoryWrites
  <2>1. UNCHANGED <<recording, queue>> BY <1>4 DEF HistoryWrites, metrics, process
  <2>2. CASE Receive BY <2>1, <2>2 DEF Receive, Types, OnePlace
  <2>3. CASE FlushTick \/ Done BY <2>1, <2>3 DEF FlushTick, Done, OnePlace
  <2>4. CASE DrainBuffer BY <2>1, <2>4 DEF DrainBuffer, Types, OnePlace
  <2>5. CASE flush BY <2>1, <2>5 DEF flush, Types, OnePlace
  <2> QED BY <1>4, <2>2, <2>3, <2>4, <2>5 DEF HistoryWrites, Writes
<1>5. CASE HistoryPrunes
  <2>1. /\ UNCHANGED <<recording, queue, buffer, batch>>
        /\ rows' = [i \in Results |-> IF i \in Expired THEN 0 ELSE rows[i]]
    BY <1>5 DEF HistoryPrunes, Prune, metrics, process
  <2> QED BY <2>1 DEF Types, OnePlace
<1>6. CASE UNCHANGED <<recording, queue, buffer, batch, rows>> BY <1>6 DEF OnePlace
<1>7. \/ \E i \in Results : Records(i) \/ Queue(i)
      \/ DrainPush \/ HistoryWrites \/ HistoryPrunes
      \/ UNCHANGED <<recording, queue, buffer, batch, rows>>
  BY DEF Next, SendEnds, DrainNotify, TickerReads, TickerWrites, Signal, NotifierWaited,
         FinalSave, HistoryClose, CloseDone, HistoryClosed, CloseDB, Over, vars, history,
         metrics, process
<1> QED BY <1>1, <1>2, <1>3, <1>4, <1>5, <1>6, <1>7

LEMMA OnePlaceInit == Init => OnePlace
BY DEF Init, HistoryInit, MetricsInit, OnePlace

(* No result is stored twice (history.go 97-161). *)
THEOREM StoredOnceInvariant == Spec => []StoredOnce
<1>1. OnePlace => StoredOnce BY DEF OnePlace, StoredOnce
<1> QED BY <1>1, OnePlaceInit, OnePlaceStep, TypesInit, TypesStep, PTL DEF Spec

(* An infrastructure error passes the guard of neither. *)
InfraSkipped ==
    /\ \A i \in Results : recording[i] \in {"due", "guard", "gauges"} =>
          \A n \in Checks : i \notin healthy[n]
    /\ \A i \in infra :
          /\ recording[i] \in {"recorded", "sent"}
          /\ i \notin buffer /\ i \notin batch /\ rows[i] = 0
          /\ \A n \in Checks : i \notin healthy[n]

LEMMA InfraSkippedStep ==
    Types /\ OnePlace /\ InfraSkipped /\ [Next]_vars => InfraSkipped'
<1> SUFFICES ASSUME Types, OnePlace, InfraSkipped, [Next]_vars PROVE InfraSkipped' OBVIOUS
<1>1. ASSUME NEW i \in Results, Records(i) PROVE InfraSkipped'
  <2>1. UNCHANGED <<buffer, batch, rows>> BY <1>1 DEF Records, history
  <2>2. CASE RecordInfra(i)
    <3>1. recording[i] = "due" /\ UNCHANGED healthy BY <2>2 DEF RecordInfra
    <3>2. i \notin infra /\ i \notin buffer /\ i \notin batch /\ rows[i] = 0
      BY <3>1 DEF OnePlace, InfraSkipped
    <3> QED BY <2>1, <2>2, <3>1, <3>2 DEF RecordInfra, Types, InfraSkipped
  <2>3. CASE Guard(i) BY <2>1, <2>3 DEF Guard, Types, InfraSkipped
  <2>4. CASE Gauges(i)
    <3>1. i \notin infra BY <2>4 DEF Gauges, InfraSkipped
    <3>2. Name[i] \in Checks BY DEF Checks
    <3> QED BY <2>1, <2>4, <3>1, <3>2 DEF Gauges, Types, InfraSkipped
  <2> QED BY <1>1, <2>2, <2>3, <2>4 DEF Records, RecordResult
<1>2. ASSUME NEW i \in Results, Queue(i) PROVE InfraSkipped'
  BY <1>2 DEF Queue, history, Types, InfraSkipped
<1>3. CASE DrainPush
  BY <1>3 DEF DrainPush, Record, metrics, Types, InfraSkipped
<1>4. CASE HistoryWrites
  <2>1. UNCHANGED <<infra, recording, healthy>> BY <1>4 DEF HistoryWrites, metrics
  <2>2. CASE Receive BY <2>1, <2>2 DEF Receive, Types, InfraSkipped
  <2>3. CASE FlushTick \/ Done BY <2>1, <2>3 DEF FlushTick, Done, InfraSkipped
  <2>4. CASE DrainBuffer BY <2>1, <2>4 DEF DrainBuffer, Types, InfraSkipped
  <2>5. CASE flush BY <2>1, <2>5 DEF flush, Types, InfraSkipped
  <2> QED BY <1>4, <2>2, <2>3, <2>4, <2>5 DEF HistoryWrites, Writes
<1>5. CASE HistoryPrunes
  BY <1>5 DEF HistoryPrunes, Prune, metrics, Types, InfraSkipped
<1>6. CASE UNCHANGED <<infra, recording, healthy, buffer, batch, rows>>
  BY <1>6 DEF InfraSkipped
<1>7. \/ \E i \in Results : Records(i) \/ Queue(i)
      \/ DrainPush \/ HistoryWrites \/ HistoryPrunes
      \/ UNCHANGED <<infra, recording, healthy, buffer, batch, rows>>
  BY DEF Next, SendEnds, DrainNotify, TickerReads, TickerWrites, Signal, NotifierWaited,
         FinalSave, HistoryClose, CloseDone, HistoryClosed, CloseDB, Over, vars, history,
         metrics
<1> QED BY <1>1, <1>2, <1>3, <1>4, <1>5, <1>6, <1>7

(* Neither the history nor check_healthy counts an infrastructure error    *)
(* (history.go 86-89, prometheus.go 352-360).                              *)
THEOREM InfraInvariant == Spec => []InfraNotCounted
<1>1. Init => InfraSkipped BY DEF Init, HistoryInit, MetricsInit, InfraSkipped
<1>2. InfraSkipped => InfraNotCounted BY DEF InfraSkipped, InfraNotCounted
<1> QED BY <1>1, <1>2, InfraSkippedStep, OnePlaceInit, OnePlaceStep, TypesInit, TypesStep,
        PTL DEF Spec

-----------------------------------------------------------------------------
(* Shutdown *)

(* What the history had accepted when Close began is on its way or where   *)
(* it ends; no later result is taken for one of them.                      *)
Closing ==
    /\ closing => main \in {"closing", "exited", "crashed"}
    /\ ~closing => atClose = {} /\ writer \in {"select", "flush"} /\ db = "open"
    /\ \A i \in atClose : recording[i] = "sent" /\ i \notin queue
    /\ \A i \in atClose :
          i \in buffer \/ i \in batch \/ rows[i] = 1 \/ i \in failed \/ i \in Expired
    /\ writer \in {"last", "stopped"} => \A i \in atClose : i \notin buffer
    /\ writer = "stopped" => batch = {}
    /\ db = "closed" => writer = "stopped"
    /\ main = "exited" => db = "closed"

LEMMA ClosingInit == Init => Closing
BY DEF Init, HistoryInit, MetricsInit, Closing

LEMMA ClosingStep == Types /\ OnePlace /\ Closing /\ [Next]_vars => Closing'
<1> SUFFICES ASSUME Types, OnePlace, Closing, [Next]_vars PROVE Closing' OBVIOUS
<1>1. ASSUME NEW i \in Results, Records(i) PROVE Closing'
  <2>1. UNCHANGED <<history, process, ghosts>> BY <1>1 DEF Records
  <2>2. \A j \in Results : recording[j] = "sent" => recording'[j] = "sent"
    BY <1>1 DEF Records, RecordResult, RecordInfra, Guard, Gauges, Types
  <2> QED BY <2>1, <2>2 DEF history, process, ghosts, Types, Closing
<1>2. ASSUME NEW i \in Results, Queue(i) PROVE Closing'
  <2>1. UNCHANGED <<history, main, ghosts>> BY <1>2 DEF Queue
  <2>2. i \notin atClose BY <1>2 DEF Queue, Closing
  <2>3. \A j \in atClose : recording'[j] = "sent" /\ j \notin queue'
    BY <1>2, <2>2 DEF Queue, Types, Closing
  <2> QED BY <2>1, <2>3 DEF history, ghosts, Types, Closing
<1>3. CASE DrainPush
  <2>1. PICK i \in queue : queue' = queue \ {i} /\ Record(i) BY <1>3 DEF DrainPush
  <2>2. UNCHANGED <<recording, main, ghosts>> BY <1>3 DEF DrainPush, metrics
  <2>3. i \notin atClose BY <2>1 DEF Closing
  <2> QED BY <2>1, <2>2, <2>3 DEF Record, ghosts, Types, Closing
<1>4. CASE DrainNotify
  <2>1. UNCHANGED <<history, recording, queue, ghosts>> BY <1>4 DEF DrainNotify, metrics
  <2>2. main' \in {main, "crashed"} BY <1>4 DEF DrainNotify
  <2> QED BY <2>1, <2>2 DEF history, ghosts, Closing
<1>5. CASE HistoryWrites
  <2>1. UNCHANGED <<recording, queue, main, ghosts>>
    BY <1>5 DEF HistoryWrites, metrics, process
  <2>2. CASE Receive BY <2>1, <2>2 DEF Receive, ghosts, Types, Closing
  <2>3. CASE FlushTick \/ Done BY <2>1, <2>3 DEF FlushTick, Done, ghosts, Types, Closing
  <2>4. CASE DrainBuffer BY <2>1, <2>4 DEF DrainBuffer, ghosts, Types, Closing
  <2>5. CASE flush
    <3>1. \A i \in atClose : i \in batch =>
             rows'[i] = 1 \/ i \in failed'
      BY <2>5 DEF flush, Types, OnePlace
    <3>2. \A i \in atClose : rows[i] = 1 => rows'[i] = 1
      BY <2>5 DEF flush, Types, OnePlace
    <3>3. failed \subseteq failed' /\ UNCHANGED <<buffer, closing, db>> /\ batch' = {}
      BY <2>5 DEF flush
    <3>4. /\ writer \in {"flush", "last"}
          /\ writer = "flush" => writer' = "select"
          /\ writer = "last" => writer' = "stopped"
      BY <2>5 DEF flush
    <3>5. \A i \in atClose :
             i \in buffer' \/ i \in batch' \/ rows'[i] = 1 \/ i \in failed' \/ i \in Expired
      BY <3>1, <3>2, <3>3 DEF Closing
    <3> QED BY <2>1, <3>3, <3>4, <3>5 DEF ghosts, Types, Closing
  <2> QED BY <1>5, <2>2, <2>3, <2>4, <2>5 DEF HistoryWrites, Writes
<1>6. CASE HistoryPrunes
  BY <1>6 DEF HistoryPrunes, Prune, metrics, process, ghosts, Types, Closing
<1>7. CASE Signal BY <1>7 DEF Signal, history, metrics, Types, Closing
<1>8. CASE NotifierWaited BY <1>8 DEF NotifierWaited, history, metrics, ghosts, Types, Closing
<1>9. CASE FinalSave BY <1>9 DEF FinalSave, history, metrics, Types, Closing
<1>10. CASE HistoryClose
  <2>1. /\ main = "closing" /\ ~closing /\ closing' = TRUE /\ atClose' = buffer \cup batch
        /\ UNCHANGED <<buffer, batch, rows, failed, writer, db, recording, queue, main>>
    BY <1>10 DEF HistoryClose, CloseDone, metrics, process
  <2>2. \A i \in atClose' : recording'[i] = "sent" /\ i \notin queue'
    BY <2>1 DEF Types, OnePlace
  <2> QED BY <2>1, <2>2 DEF Types, Closing
<1>11. CASE HistoryClosed
  BY <1>11 DEF HistoryClosed, CloseDB, metrics, ghosts, Types, Closing
<1>12. CASE UNCHANGED <<history, recording, queue, main, atClose>>
  BY <1>12 DEF history, Closing
<1>13. \/ \E i \in Results : Records(i) \/ Queue(i)
       \/ DrainPush \/ DrainNotify \/ HistoryWrites \/ HistoryPrunes
       \/ Signal \/ NotifierWaited \/ FinalSave \/ HistoryClose \/ HistoryClosed
       \/ UNCHANGED <<history, recording, queue, main, atClose>>
  BY DEF Next, SendEnds, TickerReads, TickerWrites, Over, vars, metrics, process, ghosts
<1> QED BY <1>1, <1>2, <1>3, <1>4, <1>5, <1>6, <1>7, <1>8, <1>9, <1>10, <1>11, <1>12, <1>13

(* Close leaves nothing in the buffer or the batch that it found there,    *)
(* and closes the database after the last flush (history.go 117-129,       *)
(* 186-190).                                                               *)
THEOREM CloseInvariant == Spec => []CloseFlushes
<1>1. Closing => CloseFlushes BY DEF Closing, CloseFlushes
<1> QED BY <1>1, ClosingInit, ClosingStep, OnePlaceInit, OnePlaceStep, TypesInit, TypesStep,
        PTL DEF Spec

(* After the last save every image that can still reach the file has what  *)
(* was drained before the signal, unless a save of the ticker was under    *)
(* way; and nothing that was being sent at the signal still is.            *)
Leaving ==
    /\ before \subseteq pushed
    /\ main = "serving" => alarmed = {}
    /\ alarmed \subseteq sending
    /\ main \in {"saving", "closing", "exited"} => alarmed = {}
    /\ main \in {"closing", "exited"} /\ ~lostSave =>
          before \subseteq saved /\ \A image \in ticking : before \subseteq image

LEMMA LeavingStep == Types /\ Leaving /\ [Next]_vars => Leaving'
<1> SUFFICES ASSUME Types, Leaving, [Next]_vars PROVE Leaving' OBVIOUS
<1> USE DEF Leaving
<1>1. ASSUME NEW i \in Results, SendEnds(i) PROVE Leaving'
  BY <1>1 DEF SendEnds, files
<1>2. CASE DrainPush BY <1>2 DEF DrainPush, ghosts
<1>3. CASE DrainNotify BY <1>3 DEF DrainNotify, files, ghosts
<1>4. CASE TickerReads BY <1>4 DEF TickerReads, ghosts
<1>5. CASE TickerWrites BY <1>5 DEF TickerWrites, ghosts
<1>6. CASE Signal BY <1>6 DEF Signal, stores, files
<1>7. CASE NotifierWaited BY <1>7 DEF NotifierWaited, stores, files, ghosts
<1>8. CASE FinalSave BY <1>8 DEF FinalSave, Types
<1>9. CASE HistoryClosed BY <1>9 DEF HistoryClosed, stores, files, ghosts
<1>10. CASE UNCHANGED <<pushed, sending, saved, ticking, main, before, alarmed, lostSave>>
  BY <1>10
<1>11. \/ \E i \in Results : SendEnds(i)
       \/ DrainPush \/ DrainNotify \/ TickerReads \/ TickerWrites
       \/ Signal \/ NotifierWaited \/ FinalSave \/ HistoryClosed
       \/ UNCHANGED <<pushed, sending, saved, ticking, main, before, alarmed, lostSave>>
  BY DEF Next, Records, Queue, HistoryWrites, HistoryPrunes, HistoryClose, Over, vars,
         process, stores, files, ghosts
<1> QED BY <1>1, <1>2, <1>3, <1>4, <1>5, <1>6, <1>7, <1>8, <1>9, <1>10, <1>11

LEMMA LeavingInvariant == Spec => []Leaving
<1>1. Init => Leaving BY DEF Init, Leaving
<1> QED BY <1>1, LeavingStep, TypesInit, TypesStep, PTL DEF Spec

(* What was drained before the signal is in the file at the exit (worker.go *)
(* 246-255), unless the last save failed or met one of the ticker.          *)
THEOREM DrainedInvariant == Spec => []DrainedIsSaved
<1>1. Leaving => DrainedIsSaved BY DEF Leaving, DrainedIsSaved
<1> QED BY <1>1, LeavingInvariant, PTL

(* The worker does not exit under an alarm that was being sent when the    *)
(* signal came (worker.go 250).                                            *)
THEOREM AlarmsInvariant == Spec => []AlarmsFinish
<1>1. Leaving => AlarmsFinish BY DEF Leaving, AlarmsFinish
<1> QED BY <1>1, LeavingInvariant, PTL

=============================================================================
