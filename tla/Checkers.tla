------------------------------ MODULE Checkers ------------------------------
(***************************************************************************)
(* Checks on their way from checks.yml to a result: they are loaded and    *)
(* filtered, then run concurrently, each through the steps of its checker  *)
(* (CheckerSteps) and the retries of scheduler.RunWithRetry.               *)
(*                                                                         *)
(* The caller decides what the context does: the worker cancels it when it *)
(* shuts down, /probe gives it a deadline, `technician check` and          *)
(* `technician validate` never end it and run the checks one at a time.    *)
(* Runs share the browser slots of the Playwright checker and the          *)
(* more-specific prefixes the BGP checker remembers by check name: the BGP *)
(* entries of the model have one name, which nothing rejects.              *)
(***************************************************************************)
EXTENDS CheckerSteps, FiniteSets

CONSTANTS
    Runs,         \* the entries of checks.yml, and the goroutines that run them
    Setups,       \* callers, contents of checks.yml and effective filters tried
    MaxBrowsers,  \* playwright.max_browsers
    Retries,      \* retry.count
    Routes        \* the more-specific prefixes that may be announced

ASSUME RetriesNat == Retries \in Nat
ASSUME BrowsersPositive == MaxBrowsers \in Nat \ {0}
ASSUME SetupsKnown ==
    \A s \in Setups : /\ s.caller \in {"worker", "probe", "check", "validate"}
                      /\ s.file \in [Runs -> CheckEntries]

VARIABLES
    caller,    \* who runs the checks
    filter,    \* the effective check filter
    cfg,       \* the entry, later the configuration, of each check
    status,    \* "file", "ready", "skipped", "running", "backoff", "returned", "panicked"
    pos,       \* the step a run is at
    result,    \* result of the latest attempt: "none", "ok", "fail", "infra"
    attempt,   \* retries made
    held,      \* what the run has acquired and not released
    deferred,  \* what its deferred calls will release
    ctxDone,   \* the caller's context has ended
    dialing,   \* the WebSocket dial an attempt abandoned: "no", "connect",
               \* "upgrade", or "open": a connection that nobody closes
    routes,    \* the more-specifics announced at present
    answer,    \* the more-specifics in the answer a BGP run has received
    known,     \* knownMoreSpecifics of the check
    observed,  \* the check has an entry in knownMoreSpecifics
    baseline,  \* history: the first set of more-specifics remembered
    alarmed,   \* history: more-specifics that made an attempt fail
    surprise   \* history: the run has met a new more-specific

Active(r) == status[r] \in {"running", "backoff"}

Dials == Runs \X (0 .. Retries)

memory == <<known, observed, baseline, alarmed, surprise>>
bgp == <<routes, answer, memory>>
runState == <<status, pos, result, held, deferred>>
vars == <<caller, filter, cfg, runState, attempt, ctxDone, dialing, bgp>>

Outcomes == {"ok", "fail", "infra"}
Done == {"returned", "skipped", "panicked"}

Init ==
    /\ \E s \in Setups : caller = s.caller /\ filter = s.filter /\ cfg = s.file
    /\ status = [r \in Runs |-> "file"]
    /\ pos = [r \in Runs |-> 0]
    /\ result = [r \in Runs |-> "none"]
    /\ attempt = [r \in Runs |-> 0]
    /\ held = [r \in Runs |-> {}]
    /\ deferred = [r \in Runs |-> {}]
    /\ ctxDone = FALSE
    /\ dialing = [d \in Dials |-> "no"]
    /\ routes = {} /\ known = {} /\ baseline = {} /\ alarmed = {}
    /\ answer = [r \in Runs |-> {}]
    /\ observed = FALSE
    /\ surprise = [r \in Runs |-> FALSE]

-----------------------------------------------------------------------------
(* Loading *)

(* The check `technician check --check` names, which no filter hides. *)
Named == IF caller = "check" /\ LoadChecks(cfg) THEN {{r} : r \in Runs} ELSE {}

(* /probe takes no file and refuses a module it does not have. *)
Probed == {r \in Runs : cfg[r].type \in ProbeModules}

(* loadFilteredChecks decides which checks run; /probe builds the          *)
(* configuration of the requested module itself.                           *)
Load ==
    /\ \A r \in Runs : status[r] = "file"
    /\ \E chosen \in IF caller = "probe" THEN {Probed}
                        ELSE {loadFilteredChecks(cfg, filter)} \cup Named :
           /\ status' = [r \in Runs |-> IF r \in chosen THEN "ready" ELSE "skipped"]
           /\ cfg' = [r \in Runs |->
                 CASE r \notin chosen -> cfg[r]
                   [] r \in chosen /\ caller = "probe" -> buildCheckConfig(cfg[r].type)
                   [] OTHER -> WithDefaults(cfg[r])]
    /\ UNCHANGED <<caller, filter, pos, result, held, deferred, attempt, ctxDone,
                   dialing, bgp>>

(* The loops of `technician check` and `technician validate`. *)
OneAtATime == caller \in {"check", "validate"} => \A q \in Runs : ~Active(q)

Start(r) ==
    /\ status[r] = "ready"
    /\ OneAtATime
    /\ status' = [status EXCEPT ![r] = "running"]
    /\ pos' = [pos EXCEPT ![r] = 1]
    /\ UNCHANGED <<caller, filter, cfg, result, held, deferred, attempt, ctxDone,
                   dialing, bgp>>

-----------------------------------------------------------------------------
(* One attempt *)

Steps(r) == RunSteps(cfg[r])
Step(r) == Steps(r)[pos[r]]
At(r, op) == status[r] = "running" /\ Step(r).op = op

SlotFree == Cardinality({r \in Runs : "slot" \in held[r]}) < MaxBrowsers

TriesAgain_OneMore(r, outcome) ==
    outcome # "ok" /\ attempt[r] <= Retries /\ caller \in {"worker", "validate"}

(* RunWithRetry tries again unless it was a success, the retries are used  *)
(* up or the caller does not use it.                                       *)
TriesAgain(r, outcome) ==
    outcome # "ok" /\ attempt[r] < Retries /\ caller \in {"worker", "validate"}

(* Run returns: its locals are gone, its deferred calls release what it    *)
(* registered with them, and a failing step what it closes by hand.        *)
Return(r, outcome, closed) ==
    /\ result' = [result EXCEPT ![r] = outcome]
    /\ held' = [held EXCEPT ![r] = @ \ (deferred[r] \cup closed)]
    /\ deferred' = [deferred EXCEPT ![r] = {}]
    /\ status' = [status EXCEPT ![r] = IF TriesAgain(r, outcome) THEN "backoff"
                                                                 ELSE "returned"]
    /\ pos' = [pos EXCEPT ![r] = 0]
    /\ answer' = [answer EXCEPT ![r] = {}]

(* The step succeeds; after the last one the check has succeeded.  The     *)
(* lines this stands for are those of every checker: see CheckerSteps.     *)
Advance(r) ==
    IF pos[r] = Len(Steps(r))
      THEN /\ result' = [result EXCEPT ![r] = "ok"]
           /\ held' = [held EXCEPT ![r] = (@ \cup Step(r).gets)
                                            \ (deferred[r] \cup Step(r).defers)]
           /\ deferred' = [deferred EXCEPT ![r] = {}]
           /\ status' = [status EXCEPT ![r] = "returned"]
           /\ pos' = [pos EXCEPT ![r] = 0]
           /\ answer' = [answer EXCEPT ![r] = {}]
      ELSE /\ pos' = [pos EXCEPT ![r] = @ + 1]
           /\ answer' = [answer EXCEPT ![r] = CASE Step(r).op = "routing" -> routes
                                                [] Step(r).op = "observe" -> {}
                                                [] OTHER -> @]
           /\ held' = [held EXCEPT ![r] = @ \cup Step(r).gets]
           /\ deferred' = [deferred EXCEPT ![r] = @ \cup Step(r).defers]
           /\ UNCHANGED <<status, result>>

Proceeds(r) ==
    /\ status[r] = "running" /\ Step(r).ok
    /\ Step(r).op # "observe"
    /\ Step(r).op = "slot" => SlotFree
    /\ Advance(r)
    /\ UNCHANGED <<caller, filter, cfg, attempt, ctxDone, dialing, routes, memory>>

(* An early return of a checker, with what it closes by hand before. *)
Fails(r) ==
    /\ status[r] = "running"
    /\ Step(r).op \notin {"observe", "slot"}
    /\ \E outcome \in Step(r).bad \ {"panic"} : Return(r, outcome, Step(r).closes)
    /\ UNCHANGED <<caller, filter, cfg, attempt, ctxDone, dialing, routes, memory>>

(* The check's timeout ends a wait. *)
TimesOut(r) ==
    /\ status[r] = "running" /\ Step(r).blocks /\ "timeout" \in Step(r).ends
    /\ Return(r, Step(r).late, Step(r).closes)
    /\ UNCHANGED <<caller, filter, cfg, attempt, ctxDone, dialing, routes, memory>>

(* The end of the context ends a wait.  A WebSocket dial goes on without   *)
(* its run, and keeps the connection.                                      *)
Cancelled(r) ==
    /\ status[r] = "running" /\ ctxDone
    /\ Step(r).blocks /\ "ctx" \in Step(r).ends
    /\ Return(r, Step(r).late, Step(r).closes)
    /\ dialing' = IF Step(r).op \in {"connect", "upgrade"}
                    THEN [dialing EXCEPT ![<<r, attempt[r]>>] = Step(r).op] ELSE dialing
    /\ UNCHANGED <<caller, filter, cfg, attempt, ctxDone, routes, memory>>

(* Nothing recovers a panic in a checker: the process ends. *)
Panics(r) ==
    /\ status[r] = "running" /\ "panic" \in Step(r).bad
    /\ status' = [q \in Runs |-> "panicked"]
    /\ held' = [q \in Runs |-> {}]
    /\ dialing' = [d \in Dials |-> "no"]
    /\ UNCHANGED <<caller, filter, cfg, pos, result, deferred, attempt, ctxDone, bgp>>

(* The more-specifics in the answer whose origin is not expected_origin. *)
Rogue(r) == IF "other_origin" \in cfg[r].has THEN answer[r] ELSE {}

ObserveMoreSpecifics_RecordFirst(r) ==
    LET rogue == Rogue(r)
    IN  /\ At(r, "observe")
        /\ known' = answer[r] /\ observed' = TRUE
        /\ baseline' = IF observed THEN baseline ELSE answer[r]
        /\ alarmed' = alarmed \cup rogue
        /\ UNCHANGED surprise
        /\ IF rogue # {} THEN Return(r, "fail", {}) ELSE Advance(r)
        /\ UNCHANGED <<caller, filter, cfg, attempt, ctxDone, dialing, routes>>

(* A BGP run compares the answer with the prefixes remembered and replaces *)
(* them by the answer; a rogue or a new prefix fails the check.            *)
ObserveMoreSpecifics(r) ==
    LET rogue == Rogue(r)
        new == IF observed THEN answer[r] \ known ELSE {}
    IN  /\ At(r, "observe")
        /\ known' = answer[r] /\ observed' = TRUE
        /\ baseline' = IF observed THEN baseline ELSE answer[r]
        /\ alarmed' = alarmed \cup rogue \cup new
        /\ surprise' = [surprise EXCEPT ![r] = @ \/ new # {}]
        /\ IF rogue \cup new # {} THEN Return(r, "fail", {}) ELSE Advance(r)
        /\ UNCHANGED <<caller, filter, cfg, attempt, ctxDone, dialing, routes>>

-----------------------------------------------------------------------------
(* Between attempts, and around them *)

(* The select between a cancelled context and the elapsed delay. *)
Retry(r) ==
    /\ status[r] = "backoff"
    /\ \/ /\ ctxDone
          /\ status' = [status EXCEPT ![r] = "returned"]
          /\ UNCHANGED <<pos, attempt>>
       \/ /\ status' = [status EXCEPT ![r] = "running"]
          /\ pos' = [pos EXCEPT ![r] = 1]
          /\ attempt' = [attempt EXCEPT ![r] = @ + 1]
    /\ UNCHANGED <<caller, filter, cfg, result, held, deferred, ctxDone, dialing, bgp>>

(* The worker shuts down, or the deadline /probe sets passes. *)
ContextEnds ==
    /\ caller \in {"worker", "probe"} /\ ~ctxDone
    /\ \A r \in Runs : status[r] # "file"
    /\ ctxDone' = TRUE
    /\ UNCHANGED <<caller, filter, cfg, runState, attempt, dialing, bgp>>

(* The goroutine of an abandoned dial: it gets one stage further or fails, *)
(* and only connecting has a time limit.  A dial that completes leaves its *)
(* open connection in the channel that nobody reads any more.              *)
DialMoves(d) ==
    /\ dialing[d] \in {"connect", "upgrade"}
    /\ \E stage \in {"no", IF dialing[d] = "connect" THEN "upgrade" ELSE "open"} :
           dialing' = [dialing EXCEPT ![d] = stage]
    /\ UNCHANGED <<caller, filter, cfg, runState, attempt, ctxDone, bgp>>

DialTimesOut(d) ==
    /\ dialing[d] = "connect"
    /\ dialing' = [dialing EXCEPT ![d] = "no"]
    /\ UNCHANGED <<caller, filter, cfg, runState, attempt, ctxDone, bgp>>

(* A more-specific prefix is announced or withdrawn (of interest to BGP    *)
(* checks only).                                                           *)
RouteChanges ==
    /\ \E r \in Runs : Active(r) /\ cfg[r].type = "bgp"
    /\ \E p \in Routes : routes' = IF p \in routes THEN routes \ {p} ELSE routes \cup {p}
    /\ UNCHANGED <<caller, filter, cfg, runState, attempt, ctxDone, dialing, answer,
                   memory>>

(* A check that has returned runs again when its schedule says so. *)
RunsAgain(r) ==
    /\ caller = "worker" /\ status[r] = "returned" /\ ~ctxDone
    /\ cfg[r].type = "bgp"
    /\ status' = [status EXCEPT ![r] = "ready"]
    /\ result' = [result EXCEPT ![r] = "none"]
    /\ attempt' = [attempt EXCEPT ![r] = 0]
    /\ surprise' = [surprise EXCEPT ![r] = FALSE]
    /\ UNCHANGED <<caller, filter, cfg, pos, held, deferred, ctxDone, dialing, routes,
                   answer, known, observed, baseline, alarmed>>

Idle == (\A r \in Runs : status[r] \in Done) /\ UNCHANGED vars

Next ==
    \/ Load
    \/ ContextEnds
    \/ RouteChanges
    \/ Idle
    \/ \E r \in Runs :
          \/ Start(r) \/ Proceeds(r) \/ Fails(r) \/ TimesOut(r) \/ Cancelled(r)
          \/ Panics(r) \/ ObserveMoreSpecifics(r) \/ Retry(r) \/ RunsAgain(r)
    \/ \E d \in Dials : DialMoves(d) \/ DialTimesOut(d)

Spec == Init /\ [][Next]_vars

(* A run takes its own steps, timers fire, and the deadline of /probe      *)
(* passes.  Nobody else is obliged to answer, and the worker need not shut *)
(* down.                                                                   *)
RunMoves(r) ==
    /\ status[r] = "running" /\ ~Step(r).blocks
    /\ Proceeds(r) \/ Fails(r) \/ Panics(r) \/ ObserveMoreSpecifics(r)

FairSpec ==
    /\ Spec
    /\ \A r \in Runs : /\ WF_vars(RunMoves(r)) /\ WF_vars(TimesOut(r))
                       /\ WF_vars(Cancelled(r)) /\ WF_vars(Retry(r))
    /\ \A d \in Dials : WF_vars(DialTimesOut(d))
    /\ WF_vars(caller = "probe" /\ ContextEnds)

-----------------------------------------------------------------------------
(* Properties *)

Resources == {"conn", "body", "rpki_body", "slot", "workdir"}

TypeOK ==
    /\ caller \in {"worker", "probe", "check", "validate"}
    /\ status \in [Runs -> {"file", "ready", "running", "backoff"} \cup Done]
    /\ pos \in [Runs -> Nat]
    /\ result \in [Runs -> Outcomes \cup {"none"}]
    /\ attempt \in [Runs -> 0 .. Retries]
    /\ held \in [Runs -> SUBSET Resources]
    /\ deferred \in [Runs -> SUBSET Resources]
    /\ ctxDone \in BOOLEAN
    /\ dialing \in [Dials -> {"no", "connect", "upgrade", "open"}]
    /\ routes \in SUBSET Routes /\ answer \in [Runs -> SUBSET Routes]
    /\ known \in SUBSET Routes /\ baseline \in SUBSET Routes
    /\ alarmed \in SUBSET Routes
    /\ observed \in BOOLEAN
    /\ surprise \in [Runs -> BOOLEAN]

(* Every way out of every checker's Run, be it an answer, a failure, the   *)
(* timeout or the end of the context, gives back what the run acquired:    *)
(* connections, response bodies, the browser slot and the work directory.  *)
(* One thing can stay behind: the dial of a WebSocket check, with its      *)
(* connection, and only if the context ended while Run waited for it.      *)
ReleasedOnReturn ==
    /\ \A r \in Runs : status[r] \in {"backoff", "returned"} => held[r] = {}
    /\ \A d \in Dials : dialing[d] # "no" => ctxDone /\ cfg[d[1]].type = "websocket"

(* smtp.go says that "config validation guarantees start_tls is set, so    *)
(* AUTH runs over TLS": a run that reaches AUTH, for whichever caller, has *)
(* negotiated STARTTLS before.                                             *)
AuthOverTLS ==
    \A r \in Runs : At(r, "auth") => \E i \in 1 .. pos[r] - 1 : Steps(r)[i].op = "starttls"

(* A more-specific prefix becomes part of the baseline of the BGP checker  *)
(* silently only with the first answer; any later one has failed an        *)
(* attempt, in whatever order overlapping runs observe their answers.      *)
KnownWasReported == known \ baseline \subseteq alarmed

(* make([]byte, size) of udp.go is the one place where a configuration can *)
(* end the process: it does so only if some UDP check was given a          *)
(* max_response_bytes that is negative or beyond what can be allocated,    *)
(* never for the sizes that defaults and /probe set.                       *)
PanicsFromBadSize ==
    (\E r \in Runs : status[r] = "panicked")
        => \E r \in Runs : cfg[r].type = "udp" /\ TooLong(cfg[r].number)

(* The runs that must end although no peer ever answers.  SMTP has no      *)
(* deadline after connecting; the handshakes of TLS, TCP and WebSocket     *)
(* have only the context, writing to a stalled peer and resolving the host *)
(* of an ICMP check have nothing, and an HTTP client ignores a timeout     *)
(* below zero.                                                             *)
Bounded(r) ==
    \/ cfg[r].type \notin {"smtp", "tls", "websocket", "tcp", "icmp", "bgp", "domain_expiry"}
    \/ cfg[r].type = "tcp" /\ cfg[r].has \cap {"tls", "send"} = {}
    \/ cfg[r].type \in {"bgp", "domain_expiry"} /\ cfg[r].timeout > 0

(* Whatever its peers do, a run of those comes back, through all its       *)
(* retries, and lets its check run again.                                  *)
BoundedRunsEnd == \A r \in Runs : (Active(r) /\ Bounded(r)) ~> ~Active(r)

(* docs/alerting.md: the BGP checker "flags a more-specific prefix that is *)
(* new since the last successful check", so the run that meets one does    *)
(* not end in success.                                                     *)
NewRouteFailsCheck ==
    \A r \in Runs : status[r] = "returned" /\ result[r] = "ok" => ~surprise[r]
=============================================================================
