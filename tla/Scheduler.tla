----------------------------- MODULE Scheduler -----------------------------
(***************************************************************************)
(* The check scheduler (internal/scheduler/scheduler.go).                  *)
(*                                                                         *)
(* Start launches, for every check, a recurring goroutine (runLoop) and a  *)
(* one-shot goroutine (runInitial), all counted in a WaitGroup, and a      *)
(* closer goroutine that waits for the context to be cancelled and for the *)
(* WaitGroup before it closes the bounded results channel.  Every          *)
(* goroutine executes its check with retries, records the result in the    *)
(* metrics and offers it to the channel without blocking.  The consumer is *)
(* the drain goroutine of cmd/worker.go.                                   *)
(*                                                                         *)
(* Data is abstracted to what the control depends on.  The outcome of one  *)
(* checker.Run is "up", "slow" (a success whose latency exceeds the        *)
(* check's degraded threshold, which execute marks Degraded) or "fail"     *)
(* (Success = false, infrastructure errors included: the scheduler does    *)
(* not tell them apart).  Durations are left out: a timer that is armed    *)
(* may fire at any later moment.                                           *)
(***************************************************************************)
EXTENDS Integers, Sequences, FiniteSets

CONSTANTS
    Checks,       \* the configured checks (s.checks)
    Registered,   \* those whose type has a checker in the registry
    Valid,        \* those whose schedule gronx.IsValid accepts
    Dateless,     \* those whose schedule has no next tick (gronx.NextTick fails)
    Staggered,    \* those with a positive ComputeStagger delay
    DegradedAfter, \* those with a degraded threshold (DegradedAfter > 0)
    RetryCount,   \* cfg.Retry.Count, 0 when there is no retry policy
    ResultsCap    \* capacity of the results channel (100 in the code)

ASSUME ChecksFinite == IsFiniteSet(Checks)
ASSUME CheckSets == /\ Registered \subseteq Checks
                    /\ Valid \subseteq Checks
                    /\ Dateless \subseteq Checks
                    /\ Staggered \subseteq Checks
                    /\ DegradedAfter \subseteq Checks
ASSUME RetryNat == RetryCount \in [Checks -> Nat]
ASSUME CapPositive == ResultsCap \in Nat \ {0}

VARIABLES
    phase,     \* progress of Start: "loops", "initial", "started"
    todo,      \* checks the current loop of Start has still to visit
    pc,        \* where each goroutine is
    attempt,   \* RunWithRetry's attempt counter, per goroutine
    outcome,   \* outcome of the goroutine's last checker.Run
    wg,        \* the WaitGroup counter
    ctxDone,   \* the context has been cancelled
    closer,    \* closer goroutine: "none", "ctx", "wait", "closed"
    results,   \* content of the results channel
    panicked,  \* a goroutine sent on the closed channel
    gauge,     \* per check, the outcome last recorded in the metrics
    offered,   \* per check, the outcome last offered to the channel
    drain      \* the consumer: "off", "on", "done"

vars == <<phase, todo, pc, attempt, outcome, wg, ctxDone, closer, results,
          panicked, gauge, offered, drain>>

starting == <<phase, todo>>
channel  == <<closer, results, panicked, drain>>
observed == <<gauge, offered>>

Outcomes == {"up", "slow", "fail"}

(* A run is slow only for a check that has a degraded threshold. *)
OutcomesOf(c) == IF c \in DegradedAfter THEN Outcomes ELSE Outcomes \ {"slow"}

(* One recurring and one one-shot goroutine per check. *)
Procs == {"loop", "initial"} \X Checks
CheckOf(p) == p[2]

Results == [check : Checks, by : {"loop", "initial"}, outcome : Outcomes,
            retries : Nat]

PCs == {"none", "tick", "stagger", "run", "backoff", "record", "send", "done"}

(* Goroutines that were started and have not returned. *)
Live == {p \in Procs : pc[p] \notin {"none", "done"}}

Closed == closer = "closed"

Init ==
    /\ phase = "loops"
    /\ todo = Checks
    /\ pc = [p \in Procs |-> "none"]
    /\ attempt = [p \in Procs |-> 0]
    /\ outcome = [p \in Procs |-> "none"]
    /\ wg = 0
    /\ ctxDone = FALSE
    /\ closer = "none"
    /\ results = <<>>
    /\ panicked = FALSE
    /\ gauge = [c \in Checks |-> "none"]
    /\ offered = [c \in Checks |-> "none"]
    /\ drain = "off"

-----------------------------------------------------------------------------
(* Start: launching the goroutines. *)

(* A goroutine that has reached execute begins its first attempt. *)
FirstStop(c) == IF c \in Staggered THEN "stagger" ELSE "run"

(* First loop of Start: a recurring goroutine for each check that has a    *)
(* checker and a valid schedule; the others are skipped.                   *)
StartLoop(c) ==
    /\ phase = "loops" /\ c \in todo
    /\ todo' = todo \ {c}
    /\ IF c \in Registered /\ c \in Valid
         THEN /\ wg' = wg + 1
              /\ pc' = [pc EXCEPT ![<<"loop", c>>] = "tick"]
         ELSE UNCHANGED <<wg, pc>>
    /\ UNCHANGED <<phase, attempt, outcome, ctxDone, observed, channel>>

BeginInitial ==
    /\ phase = "loops" /\ todo = {}
    /\ phase' = "initial"
    /\ todo' = Checks
    /\ UNCHANGED <<pc, attempt, outcome, wg, ctxDone, observed, channel>>

RunInitial_ValidOnly(c) ==
    /\ phase = "initial" /\ c \in todo
    /\ todo' = todo \ {c}
    /\ IF c \in Registered /\ c \in Valid
         THEN /\ wg' = wg + 1
              /\ pc' = [pc EXCEPT ![<<"initial", c>>] = FirstStop(c)]
         ELSE UNCHANGED <<wg, pc>>
    /\ UNCHANGED <<phase, attempt, outcome, ctxDone, observed, channel>>

RunInitial_NoAdd(c) ==
    /\ phase = "initial" /\ c \in todo
    /\ todo' = todo \ {c}
    /\ IF c \in Registered
         THEN /\ UNCHANGED wg
              /\ pc' = [pc EXCEPT ![<<"initial", c>>] = FirstStop(c)]
         ELSE UNCHANGED <<wg, pc>>
    /\ UNCHANGED <<phase, attempt, outcome, ctxDone, observed, channel>>

(* runInitial: a one-shot goroutine for each check that has a checker,     *)
(* whatever its schedule.                                                  *)
RunInitial(c) ==
    /\ phase = "initial" /\ c \in todo
    /\ todo' = todo \ {c}
    /\ IF c \in Registered
         THEN /\ wg' = wg + 1
              /\ pc' = [pc EXCEPT ![<<"initial", c>>] = FirstStop(c)]
         ELSE UNCHANGED <<wg, pc>>
    /\ UNCHANGED <<phase, attempt, outcome, ctxDone, observed, channel>>

(* The last statement of Start: the closer goroutine. *)
StartCloser ==
    /\ phase = "initial" /\ todo = {}
    /\ phase' = "started"
    /\ closer' = "ctx"
    /\ UNCHANGED <<todo, pc, attempt, outcome, wg, ctxDone, observed,
                   results, panicked, drain>>

-----------------------------------------------------------------------------
(* The goroutines of the checks. *)

Exit_NoDone(p) ==
    /\ pc' = [pc EXCEPT ![p] = "done"]
    /\ UNCHANGED wg

(* The goroutine returns; its deferred wg.Done runs. *)
Exit(p) ==
    /\ pc' = [pc EXCEPT ![p] = "done"]
    /\ wg' = wg - 1

(* runLoop's NextTick fails: the loop of this check ends. *)
TickFails(c) ==
    /\ pc[<<"loop", c>>] = "tick" /\ c \in Dateless
    /\ Exit(<<"loop", c>>)
    /\ UNCHANGED <<starting, attempt, outcome, ctxDone, observed, channel>>

(* The cron timer fires; the goroutine staggers or executes at once. *)
TimerFires(c) ==
    /\ pc[<<"loop", c>>] = "tick" /\ c \notin Dateless
    /\ pc' = [pc EXCEPT ![<<"loop", c>>] = FirstStop(c)]
    /\ UNCHANGED <<starting, attempt, outcome, wg, ctxDone, observed, channel>>

StaggerElapses(p) ==
    /\ pc[p] = "stagger"
    /\ pc' = [pc EXCEPT ![p] = "run"]
    /\ UNCHANGED <<starting, attempt, outcome, wg, ctxDone, observed, channel>>

(* The ctx.Done() branch of the selects on the cron timer and the stagger. *)
(* When both branches are ready Go picks either.                           *)
CancelledWhileWaiting(p) ==
    /\ ctxDone
    /\ \/ pc[p] = "tick" /\ CheckOf(p) \notin Dateless
       \/ pc[p] = "stagger"
    /\ Exit(p)
    /\ UNCHANGED <<starting, attempt, outcome, ctxDone, observed, channel>>

RunReturns_OneShort(p, o) ==
    /\ pc[p] = "run"
    /\ outcome' = [outcome EXCEPT ![p] = o]
    /\ pc' = [pc EXCEPT ![p] =
                IF o = "fail" /\ attempt[p] + 1 < RetryCount[CheckOf(p)]
                  THEN "backoff" ELSE "record"]
    /\ UNCHANGED <<starting, attempt, wg, ctxDone, observed, channel>>

(* checker.Run returns.  A failure goes to the retry loop while attempts   *)
(* are left; anything else is RunWithRetry's return value.                 *)
RunReturns(p, o) ==
    /\ pc[p] = "run"
    /\ outcome' = [outcome EXCEPT ![p] = o]
    /\ pc' = [pc EXCEPT ![p] =
                IF o = "fail" /\ attempt[p] < RetryCount[CheckOf(p)]
                  THEN "backoff" ELSE "record"]
    /\ UNCHANGED <<starting, attempt, wg, ctxDone, observed, channel>>

(* The retry delay elapses and the next attempt starts. *)
BackoffElapses(p) ==
    /\ pc[p] = "backoff"
    /\ pc' = [pc EXCEPT ![p] = "run"]
    /\ attempt' = [attempt EXCEPT ![p] = @ + 1]
    /\ UNCHANGED <<starting, outcome, wg, ctxDone, observed, channel>>

(* Cancelled between two attempts: the previous result is returned. *)
CancelledInBackoff(p) ==
    /\ ctxDone /\ pc[p] = "backoff"
    /\ pc' = [pc EXCEPT ![p] = "record"]
    /\ UNCHANGED <<starting, attempt, outcome, wg, ctxDone, observed, channel>>

(* execute's metrics.RecordResult. *)
RecordMetrics(p) ==
    /\ pc[p] = "record"
    /\ gauge' = [gauge EXCEPT ![CheckOf(p)] = outcome[p]]
    /\ pc' = [pc EXCEPT ![p] = "send"]
    /\ UNCHANGED <<starting, attempt, outcome, wg, ctxDone, offered, channel>>

(* The annotated result that execute publishes. *)
ResultOf(p) ==
    [check |-> CheckOf(p), by |-> p[1], outcome |-> outcome[p],
     retries |-> attempt[p]]

(* execute's local variables go out of scope.  The recurring goroutine     *)
(* goes for its next tick, the one-shot goroutine returns.                 *)
Forget(p) ==
    /\ attempt' = [attempt EXCEPT ![p] = 0]
    /\ outcome' = [outcome EXCEPT ![p] = "none"]

AfterExecute(p) ==
    /\ Forget(p)
    /\ IF p[1] = "loop"
         THEN pc' = [pc EXCEPT ![p] = "tick"] /\ UNCHANGED wg
         ELSE Exit(p)

Send_Unbounded(p) ==
    /\ pc[p] = "send"
    /\ offered' = [offered EXCEPT ![CheckOf(p)] = outcome[p]]
    /\ IF Closed
         THEN panicked' = TRUE /\ UNCHANGED results
         ELSE results' = Append(results, ResultOf(p)) /\ UNCHANGED panicked
    /\ AfterExecute(p)
    /\ UNCHANGED <<starting, ctxDone, closer, gauge, drain>>

Send_Blocking(p) ==
    /\ pc[p] = "send" /\ (Closed \/ Len(results) < ResultsCap)
    /\ offered' = [offered EXCEPT ![CheckOf(p)] = outcome[p]]
    /\ IF Closed
         THEN panicked' = TRUE /\ UNCHANGED results
         ELSE results' = Append(results, ResultOf(p)) /\ UNCHANGED panicked
    /\ AfterExecute(p)
    /\ UNCHANGED <<starting, ctxDone, closer, gauge, drain>>

(* execute's non-blocking send: queue the result, or drop it when the      *)
(* channel is full.  A send on a closed channel panics, default branch or  *)
(* not.                                                                    *)
Send(p) ==
    /\ pc[p] = "send"
    /\ offered' = [offered EXCEPT ![CheckOf(p)] = outcome[p]]
    /\ IF Closed
         THEN panicked' = TRUE /\ UNCHANGED results
         ELSE /\ results' = IF Len(results) < ResultsCap
                              THEN Append(results, ResultOf(p)) ELSE results
              /\ UNCHANGED panicked
    /\ AfterExecute(p)
    /\ UNCHANGED <<starting, ctxDone, closer, gauge, drain>>

-----------------------------------------------------------------------------
(* Shutdown and the consumer. *)

(* runWorker's cancel(), after the signal and long after Start returned. *)
Cancel ==
    /\ drain # "off" /\ ~ctxDone
    /\ ctxDone' = TRUE
    /\ UNCHANGED <<starting, pc, attempt, outcome, wg, observed, channel>>

CloserSeesCancel ==
    /\ closer = "ctx" /\ ctxDone
    /\ closer' = "wait"
    /\ UNCHANGED <<starting, pc, attempt, outcome, wg, ctxDone, observed,
                   results, panicked, drain>>

CloseResults_NoWait ==
    /\ closer = "wait"
    /\ closer' = "closed"
    /\ UNCHANGED <<starting, pc, attempt, outcome, wg, ctxDone, observed,
                   results, panicked, drain>>

(* wg.Wait() returns and the channel is closed. *)
CloseResults ==
    /\ closer = "wait" /\ wg = 0
    /\ closer' = "closed"
    /\ UNCHANGED <<starting, pc, attempt, outcome, wg, ctxDone, observed,
                   results, panicked, drain>>

(* The worker starts draining some time after Start has returned. *)
DrainStarts ==
    /\ phase = "started" /\ drain = "off"
    /\ drain' = "on"
    /\ UNCHANGED <<starting, pc, attempt, outcome, wg, ctxDone, observed,
                   closer, results, panicked>>

DrainTakes ==
    /\ drain = "on" /\ results # <<>>
    /\ results' = Tail(results)
    /\ UNCHANGED <<starting, pc, attempt, outcome, wg, ctxDone, observed,
                   closer, panicked, drain>>

(* range over a closed and empty channel ends. *)
DrainEnds ==
    /\ drain = "on" /\ results = <<>> /\ Closed
    /\ drain' = "done"
    /\ UNCHANGED <<starting, pc, attempt, outcome, wg, ctxDone, observed,
                   closer, results, panicked>>

(* Everything has returned: the process may stop here. *)
Terminated ==
    /\ drain = "done" /\ Live = {}
    /\ UNCHANGED vars

Starting == (\E c \in Checks : StartLoop(c) \/ RunInitial(c))
            \/ BeginInitial \/ StartCloser

Step(p) ==
    \/ p[1] = "loop" /\ (TickFails(CheckOf(p)) \/ TimerFires(CheckOf(p)))
    \/ StaggerElapses(p)
    \/ CancelledWhileWaiting(p)
    \/ \E o \in OutcomesOf(CheckOf(p)) : RunReturns(p, o)
    \/ BackoffElapses(p)
    \/ CancelledInBackoff(p)
    \/ RecordMetrics(p)
    \/ Send(p)

Closing == CloserSeesCancel \/ CloseResults

Draining == DrainStarts \/ DrainTakes \/ DrainEnds

Next ==
    \/ Starting
    \/ \E p \in Procs : Step(p)
    \/ Cancel
    \/ Closing
    \/ Draining
    \/ Terminated

(* Every goroutine that can run is run by the Go scheduler and timers      *)
(* fire, hence weak fairness of each goroutine; that a checker's Run       *)
(* returns is assumed here (module Checkers shows which ones must).        *)
(* Go's select chooses uniformly among ready branches, so a cancelled      *)
(* context is not ignored for ever: strong fairness of that branch.  The   *)
(* signal that leads to Cancel need never come, and the goroutines must do *)
(* without a consumer that takes their results: no fairness of either.     *)
Fairness ==
    /\ WF_vars(Starting)
    /\ \A p \in Procs : WF_vars(Step(p)) /\ SF_vars(CancelledWhileWaiting(p))
    /\ WF_vars(Closing)

Spec == Init /\ [][Next]_vars
FairSpec == Spec /\ Fairness

-----------------------------------------------------------------------------
(* Properties. *)

(* Types; in particular the channel never holds more than its capacity and *)
(* no attempt goes beyond the configured number of retries.                *)
TypeOK ==
    /\ phase \in {"loops", "initial", "started"}
    /\ todo \subseteq Checks
    /\ pc \in [Procs -> PCs]
    /\ attempt \in [Procs -> Nat]
    /\ outcome \in [Procs -> Outcomes \cup {"none"}]
    /\ \A p \in Procs : pc[p] \in {"backoff", "record", "send"} =>
                            outcome[p] \in Outcomes
    /\ wg \in Int
    /\ ctxDone \in BOOLEAN
    /\ closer \in {"none", "ctx", "wait", "closed"}
    /\ results \in Seq(Results)
    /\ Len(results) <= ResultsCap
    /\ panicked \in BOOLEAN
    /\ gauge \in [Checks -> Outcomes \cup {"none"}]
    /\ offered \in [Checks -> Outcomes \cup {"none"}]
    /\ drain \in {"off", "on", "done"}

(* No goroutine ever sends on the closed results channel, which would      *)
(* crash the worker: the closer waits for every execution in flight        *)
(* (scheduler.go 97-102, 158-159).                                         *)
NoSendOnClosed == ~panicked

(* The WaitGroup counts exactly the goroutines still running, so that      *)
(* wg.Wait neither returns early nor blocks for ever, and its counter      *)
(* never goes negative (which panics).                                     *)
WgCountsLive == wg = Cardinality(Live)

(* Once the channel is closed no goroutine of a check is left running.     *)
ClosedMeansIdle == Closed => Live = {}

(* A failure reaches the consumer only after all the configured retries    *)
(* have been used, unless the worker is shutting down (scheduler.go        *)
(* 201-237).                                                               *)
FailureExhaustsRetries ==
    \A i \in 1 .. Len(results) :
        results[i].outcome = "fail" =>
            results[i].retries = RetryCount[results[i].check] \/ ctxDone

(* The goroutines whose results are in the channel. *)
Offerers == [i \in 1 .. Len(results) |-> <<results[i].by, results[i].check>>]

Stream == INSTANCE ResultStream WITH
    Workers <- Procs, Cap <- ResultsCap,
    busy <- Live, queue <- Offerers, open <- ~Closed, reader <- drain

(* Seen through Results(), the goroutines, the WaitGroup, the closer and   *)
(* the channel are a bounded queue that is closed once, after the last     *)
(* goroutine has ended, and drained to the end (scheduler.go 65-110,       *)
(* 144-168).                                                               *)
ImplementsStream == Stream!Spec

(* A cancelled scheduler closes its channel and its consumer, if it works, *)
(* ends, whatever the goroutines were doing (scheduler.go 97-102,          *)
(* worker.go 178).                                                         *)
ShutdownCompletes ==
    /\ ctxDone ~> Closed
    /\ WF_vars(Draining) => (ctxDone ~> drain = "done")

(* A check with a checker and a working schedule waits for its tick and    *)
(* offers a result again and again until shutdown: failures, retries and a *)
(* full channel that nobody reads never stop its loop (scheduler.go        *)
(* 112-142, 158-167).                                                      *)
LoopNeverStalls ==
    \A c \in (Registered \cap Valid) \ Dateless, stop \in {"tick", "send"} :
        []<>(pc[<<"loop", c>>] = stop \/ ctxDone)

(* Every check that has a checker, even one whose schedule is rejected,    *)
(* reports at least once after boot (scheduler.go 90-95, 170-192).         *)
EveryCheckReports ==
    \A c \in Registered : <>(offered[c] # "none" \/ ctxDone)
=============================================================================
