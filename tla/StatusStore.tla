---------------------------- MODULE StatusStore ----------------------------
(***************************************************************************)
(* The status store in memory (internal/status/store.go) with those who    *)
(* use it: the drain goroutine of the worker, which pushes every result    *)
(* and then counts its budget violations (cmd/worker.go), the readers of   *)
(* the status page, the save loop, and a restart that loads the file and   *)
(* drops the checks that are no longer configured.                         *)
(*                                                                         *)
(* How the file gets to disk is StatusFile's concern: here a save writes a *)
(* whole image or nothing.                                                 *)
(***************************************************************************)
EXTENDS Ring, FiniteSets

CONSTANTS
    Keys,         \* check keys, type and name (checkKey)
    NameOf,       \* the name in a key; budgets know only the name
    Active,       \* the sets of checks a start may find configured
    Threshold,    \* BudgetFailThreshold
    Readers,      \* requests for the status page
    Scenarios,    \* who is there besides the drain goroutine: sets of "page", "save"
    MaxResults,   \* bound on the results of a behaviour, per scenario
    MaxRestarts   \* bound on its restarts, per scenario

ASSUME ThresholdPositive == Threshold \in Nat \ {0}
ASSUME ActiveChecks == Active \subseteq SUBSET Keys
ASSUME ScenariosKnown == Scenarios \subseteq SUBSET {"page", "save"}
ASSUME EntryKinds == Entries = {"up", "down", "infra"}

Names == {NameOf[k] : k \in Keys}

VARIABLES
    known,     \* the keys of s.checks
    order,     \* s.order
    rings,     \* the ring of each check
    down,      \* the checks whose downSince is set
    count,     \* consecutive budget violations of a name
    drain,     \* what the drain goroutine does next: "result", "budget", "announce"
    busy,      \* the name of the result it is at
    told,      \* names the notifier holds to be violated (budgetStates)
    reported,  \* history: names whose latest crossing was reported, or restored
    cached,    \* snapCache is set
    fresh,     \* snapCache is younger than snapshotTTL
    cache,     \* the snapshot it holds
    reading,   \* requests that have computed a snapshot and not stored it
    mine,      \* the snapshot such a request has computed
    saver,     \* the save loop: "idle", "rings", "budgets"
    image,     \* what it is about to write
    live,      \* checks whose entries in image are the ring's own array
    racing,    \* pushes since it read the rings
    disk,      \* the image in the file
    actors,    \* the scenario of this behaviour
    results, restarts

store == <<known, order, rings, down, count>>
pages == <<cached, fresh, cache, reading, mine>>
saving == <<saver, image, live, racing, disk>>
vars == <<store, drain, busy, told, reported, pages, saving, actors, results, restarts>>

-----------------------------------------------------------------------------
(* Snapshots *)

View(k) == Ordered(rings[k])

(* What the page says of a check, from its latest entry. *)
Status(k) ==
    LET v == View(k)
    IN  CASE k \notin known -> "absent"
          [] k \in known /\ v = <<>> -> "pending"
          [] k \in known /\ v # <<>> -> [up |-> "up", down |-> "down",
                                         infra |-> "error"][v[Len(v)]]

Severity(n) == IF count[n] >= Threshold THEN "fail" ELSE IF count[n] > 0 THEN "warn" ELSE "pass"

(* computeSnapshot holds mu and reads the budgets last. *)
computeSnapshot ==
    [checks |-> [k \in Keys |-> Status(k)], budgets |-> [n \in Names |-> Severity(n)]]

EmptySnapshot ==
    [checks |-> [k \in Keys |-> "absent"], budgets |-> [n \in Names |-> "pass"]]

With(snap, status) == {k \in Keys : snap.checks[k] = status}

(* The banner of the page. *)
Overall(snap) ==
    LET ups == With(snap, "up")  downs == With(snap, "down")
    IN  CASE downs = {} /\ ups # {} -> "operational"
          [] ups = {} /\ downs # {} -> "down"
          [] ups # {} /\ downs # {} -> "degraded"
          [] OTHER -> "pending"

(* The badge of a group of checks, and that of a domain. *)
groupStatus(snap, S) ==
    LET downs == S \cap With(snap, "down")  errs == S \cap With(snap, "error")
    IN  CASE downs = {} /\ errs = {} -> "up"
          [] downs = {} /\ errs # {} -> "error"
          [] downs # {} /\ downs = S -> "down"
          [] OTHER -> "degraded"

domainStatus_ErrorsFirst(snap, S) ==
    LET downs == S \cap With(snap, "down")  errs == S \cap With(snap, "error")
    IN  CASE errs # {} -> "error"
          [] errs = {} /\ downs # {} -> IF downs = S THEN "down" ELSE "degraded"
          [] OTHER -> "up"

domainStatus(snap, S) ==
    LET downs == S \cap With(snap, "down")  errs == S \cap With(snap, "error")
    IN  CASE downs # {} -> IF downs = S THEN "down" ELSE "degraded"
          [] downs = {} /\ errs # {} -> "error"
          [] OTHER -> "up"

-----------------------------------------------------------------------------

NoImage ==
    [known |-> {}, order |-> <<>>, entries |-> [k \in Keys |-> <<>>], down |-> {},
     count |-> [n \in Names |-> 0]]

Init ==
    /\ known = {} /\ order = <<>> /\ rings = [k \in Keys |-> EmptyRing] /\ down = {}
    /\ count = [n \in Names |-> 0]
    /\ drain = "result" /\ busy \in Names /\ told = {}
    /\ reported = {}
    /\ cached = FALSE /\ fresh = FALSE /\ cache = EmptySnapshot
    /\ reading = {}
    /\ mine = [r \in Readers |-> EmptySnapshot]
    /\ actors \in Scenarios
    /\ saver = "idle" /\ image = NoImage /\ live = {} /\ racing = 0
    /\ disk = NoImage
    /\ results = 0 /\ restarts = 0

invalidateCache == cached' = FALSE /\ fresh' = FALSE /\ cache' = EmptySnapshot

-----------------------------------------------------------------------------
(* The drain goroutine *)

(* A push into a full ring overwrites an element of the array that a save  *)
(* may be marshalling: the save sees the old element or the new one.       *)
Overwrites(k) ==
    /\ saver # "idle" /\ k \in live
    /\ Len(rings[k].entries) = MaxHistory
    /\ rings[k].head + 1 <= Len(image.entries[k])

Push_InfraKeepsDown(k, e) ==
    /\ drain = "result" /\ results < MaxResults[actors]
    /\ saver # "idle" => racing + 1 < MaxHistory
    /\ known' = known \cup {k}
    /\ order' = IF k \in known THEN order ELSE Append(order, k)
    /\ down' = CASE e = "down" -> down \cup {k} [] e = "up" -> down \ {k} [] OTHER -> down
    /\ rings' = [rings EXCEPT ![k] = RingPush(rings[k], e)]
    /\ image' \in IF Overwrites(k)
                    THEN {image, [image EXCEPT !.entries[k][rings[k].head + 1] = e]}
                    ELSE {image}
    /\ racing' = IF saver = "idle" THEN 0 ELSE racing + 1
    /\ invalidateCache
    /\ results' = results + 1
    /\ drain' = IF e = "infra" THEN "result" ELSE "budget"
    /\ busy' = NameOf[k]
    /\ UNCHANGED <<count, told, reported, reading, mine, saver, live, disk, actors,
                   restarts>>

(* Push, and on to the budgets unless it was an infrastructure error.  A   *)
(* save is assumed to be shorter than MaxHistory results.                  *)
Push(k, e) ==
    /\ drain = "result" /\ results < MaxResults[actors]
    /\ saver # "idle" => racing + 1 < MaxHistory
    /\ known' = known \cup {k}
    /\ order' = IF k \in known THEN order ELSE Append(order, k)
    /\ down' = IF e = "down" THEN down \cup {k} ELSE down \ {k}
    /\ rings' = [rings EXCEPT ![k] = RingPush(rings[k], e)]
    /\ image' \in IF Overwrites(k)
                    THEN {image, [image EXCEPT !.entries[k][rings[k].head + 1] = e]}
                    ELSE {image}
    /\ racing' = IF saver = "idle" THEN 0 ELSE racing + 1
    /\ invalidateCache
    /\ results' = results + 1
    /\ drain' = IF e = "infra" THEN "result" ELSE "budget"
    /\ busy' = NameOf[k]
    /\ UNCHANGED <<count, told, reported, reading, mine, saver, live, disk, actors,
                   restarts>>

RecordBudgetCheck_After ==
    /\ drain = "budget"
    /\ \E violated \in BOOLEAN :
          LET n == IF violated THEN count[busy] + 1 ELSE 0
          IN  /\ count' = [count EXCEPT ![busy] = n]
              /\ drain' = IF n = Threshold + 1 THEN "announce" ELSE "result"
              /\ reported' = IF violated THEN reported ELSE reported \ {busy}
    /\ invalidateCache
    /\ UNCHANGED <<known, order, rings, down, busy, told, reading, mine, saving, actors,
                   results, restarts>>

(* RecordBudgetCheck for a metric with a budget; it reports the crossing   *)
(* of the threshold.                                                       *)
RecordBudgetCheck ==
    /\ drain = "budget"
    /\ \E violated \in BOOLEAN :
          LET n == IF violated THEN count[busy] + 1 ELSE 0
          IN  /\ count' = [count EXCEPT ![busy] = n]
              /\ drain' = IF n = Threshold THEN "announce" ELSE "result"
              /\ reported' = IF violated THEN reported ELSE reported \ {busy}
    /\ invalidateCache
    /\ UNCHANGED <<known, order, rings, down, busy, told, reading, mine, saving, actors,
                   results, restarts>>

(* HandleBudgetViolation: the notifier sends unless it has told already.   *)
(* Nobody ever reports the end of a violation to it.                       *)
Announce ==
    /\ drain = "announce"
    /\ told' = told \cup {busy}
    /\ reported' = reported \cup {busy}
    /\ drain' = "result"
    /\ UNCHANGED <<store, busy, pages, saving, actors, results, restarts>>

-----------------------------------------------------------------------------
(* The status page *)

Snapshot_ForEver(r) ==
    /\ "page" \in actors /\ r \notin reading
    /\ IF cached
         THEN UNCHANGED <<reading, mine>>
         ELSE /\ reading' = reading \cup {r}
              /\ mine' = [mine EXCEPT ![r] = computeSnapshot]
    /\ UNCHANGED <<store, drain, busy, told, reported, cached, fresh, cache, saving,
                   actors, results, restarts>>

(* Snapshot returns a young cached snapshot, which changes nothing, or     *)
(* computes a new one ...                                                  *)
Snapshot(r) ==
    /\ "page" \in actors /\ r \notin reading
    /\ IF cached /\ fresh
         THEN UNCHANGED <<reading, mine>>
         ELSE /\ reading' = reading \cup {r}
              /\ mine' = [mine EXCEPT ![r] = computeSnapshot]
    /\ UNCHANGED <<store, drain, busy, told, reported, cached, fresh, cache, saving,
                   actors, results, restarts>>

(* ... which goes to the cache after the lock was released, over whatever  *)
(* happened since it was computed.                                         *)
SnapshotStore(r) ==
    /\ r \in reading
    /\ reading' = reading \ {r}
    /\ cached' = TRUE /\ fresh' = TRUE /\ cache' = mine[r]
    /\ mine' = [mine EXCEPT ![r] = EmptySnapshot]
    /\ UNCHANGED <<store, drain, busy, told, reported, saving, actors, results, restarts>>

SnapshotExpires ==
    /\ cached /\ fresh
    /\ fresh' = FALSE
    /\ UNCHANGED <<store, drain, busy, told, reported, cached, cache, reading, mine,
                   saving, actors, results, restarts>>

-----------------------------------------------------------------------------
(* Saving and loading *)

(* The rings under mu: ordered hands out the ring's own array if it can.   *)
SaveRings ==
    /\ "save" \in actors /\ saver = "idle"
    /\ saver' = "rings"
    /\ image' = [known |-> known, order |-> order, entries |-> [k \in Keys |-> View(k)],
                 down |-> down, count |-> [n \in Names |-> 0]]
    /\ live' = {k \in known : Aliased(rings[k])}
    /\ racing' = 0
    /\ UNCHANGED <<store, drain, busy, told, reported, pages, disk, actors, results, restarts>>

(* The budgets later, under budgetMu. *)
SaveBudgets ==
    /\ saver = "rings"
    /\ saver' = "budgets"
    /\ image' = [image EXCEPT !.count = count]
    /\ UNCHANGED <<store, drain, busy, told, reported, pages, live, racing, disk, actors,
                   results, restarts>>

SaveEnds ==
    /\ saver = "budgets"
    /\ disk' \in {disk, image}
    /\ saver' = "idle" /\ image' = NoImage /\ live' = {} /\ racing' = 0
    /\ UNCHANGED <<store, drain, busy, told, reported, pages, actors, results, restarts>>

(* Reconcile's loop over s.order, which keeps the keys that are configured. *)
Kept(keys, active) ==
    LET kept[i \in 0 .. Len(keys)] ==
          CASE i = 0 -> <<>>
            [] i > 0 /\ keys[i] \in active -> Append(kept[i - 1], keys[i])
            [] OTHER -> kept[i - 1]
    IN  kept[Len(keys)]

Reconcile_Order(active) ==
    LET gone == {disk.order[i] : i \in DOMAIN disk.order} \ active
    IN  /\ known' = disk.known \ gone
        /\ order' = disk.order
        /\ down' = disk.down \ gone
        /\ rings' = [k \in Keys |-> IF k \in disk.known \ gone
                                      THEN Reloaded(disk.entries[k]) ELSE EmptyRing]
        /\ count' = [n \in Names |-> IF \E k \in active : NameOf[k] = n
                                       THEN disk.count[n] ELSE 0]

(* tryLoadData and Reconcile: a check in s.order that is not configured is *)
(* dropped, its budgets unless another check has its name.                 *)
Reconcile(active) ==
    LET gone == {disk.order[i] : i \in DOMAIN disk.order} \ active
    IN  /\ known' = disk.known \ gone
        /\ order' = Kept(disk.order, active)
        /\ down' = disk.down \ gone
        /\ rings' = [k \in Keys |-> IF k \in disk.known \ gone
                                      THEN Reloaded(disk.entries[k]) ELSE EmptyRing]
        /\ count' = [n \in Names |-> IF \E k \in active : NameOf[k] = n
                                       THEN disk.count[n] ELSE 0]

(* The process ends at any moment and starts anew. *)
Restart ==
    /\ restarts < MaxRestarts[actors]
    /\ \E active \in Active : Reconcile(active)
    /\ drain' = "result" /\ told' = {} /\ UNCHANGED busy
    /\ reported' = {n \in Names : count'[n] >= Threshold}
    /\ invalidateCache /\ reading' = {}
    /\ mine' = [r \in Readers |-> EmptySnapshot]
    /\ saver' = "idle" /\ image' = NoImage /\ live' = {} /\ racing' = 0
    /\ restarts' = restarts + 1
    /\ UNCHANGED <<disk, actors, results>>

Next ==
    \/ \E k \in Keys, e \in Entries : Push(k, e)
    \/ RecordBudgetCheck \/ Announce
    \/ \E r \in Readers : Snapshot(r) \/ SnapshotStore(r)
    \/ SnapshotExpires
    \/ SaveRings \/ SaveBudgets \/ SaveEnds
    \/ Restart

Spec == Init /\ [][Next]_vars

(* The drain goroutine works off the result it has taken, time passes, and *)
(* the page is requested again and again.                                  *)
FairSpec ==
    /\ Spec
    /\ WF_vars(RecordBudgetCheck) /\ WF_vars(Announce) /\ WF_vars(SnapshotExpires)
    /\ \A r \in Readers : WF_vars(Snapshot(r)) /\ WF_vars(SnapshotStore(r))

-----------------------------------------------------------------------------
(* Properties *)

(* Every ring keeps its shape through pushes, saves and restarts, so that  *)
(* push never writes and ordered never reads out of bounds, which would    *)
(* panic (store.go 185-206).                                               *)
RingsOK == \A k \in Keys : RingShape(rings[k])

(* s.order lists every check of s.checks exactly once, through saves that  *)
(* race pushes and restarts that drop checks: computeSnapshot looks up     *)
(* each of its keys, and a missing ring would crash the page (store.go     *)
(* 247-341, 413-414).                                                      *)
OrderIndexesChecks ==
    /\ {order[i] : i \in DOMAIN order} = known
    /\ Len(order) = Cardinality(known)

(* downSince is set just if the latest entry is a failure of the target,   *)
(* also in what was saved while results came in and loaded again: the page *)
(* shows how long a check has been down (store.go 331-336, 429-444).       *)
DownMarked ==
    \A k \in known : k \in down <=> View(k) # <<>> /\ View(k)[Len(View(k))] = "down"

(* Every time the page starts to show a budget as failed, this process has *)
(* reported that crossing to the notifier, unless the file said so: the    *)
(* counter meets the threshold exactly once on its way up, although checks *)
(* of one name share it and a restart resumes it (worker.go 186-191,       *)
(* store.go 345-367).                                                      *)
FailReported ==
    \A n \in Names : count[n] >= Threshold =>
        n \in reported \/ (drain = "announce" /\ busy = n)

(* Banner, group badges and domain badges are computed by three pieces of  *)
(* code and agree: the banner is red just if some badge is, and a group    *)
(* and a domain of the same checks have the same badge (store.go 471-480,  *)
(* handler.go 103-123, 199-218).                                           *)
SummariesAgree ==
    LET snap == computeSnapshot
    IN  /\ \A S \in SUBSET known : groupStatus(snap, S) = domainStatus(snap, S)
        /\ Overall(snap) \in {"down", "degraded"} <=>
              \E S \in SUBSET known : groupStatus(snap, S) \in {"down", "degraded"}

(* When no more results come, a page that is asked for again and again     *)
(* ends up showing the state of the store, although a snapshot can be      *)
(* cached after the push that made it stale (store.go 371-394).            *)
PagesCatchUp ==
    "page" \in actors => <>[](cached /\ cache = computeSnapshot)

H == INSTANCE SlidingWindow WITH
        window <- [k \in Keys |-> View(k)], incarnation <- restarts

(* Between two starts the history of every check is the sliding window of  *)
(* the results pushed (store.go 185-206, 291-341).                         *)
ImplementsWindow == H!Spec

=============================================================================
