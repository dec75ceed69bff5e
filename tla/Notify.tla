------------------------------- MODULE Notify -------------------------------
(***************************************************************************)
(* The webhook notifier (internal/notify/notify.go).                       *)
(*                                                                         *)
(* A Manager debounces check results, budget violations and certificate    *)
(* expiry into events; dispatch filters each event per webhook (event      *)
(* type, severity, cooldown) and starts one goroutine per accepted event   *)
(* and webhook, which sends it under a semaphore and retries once.  The    *)
(* handlers hold the Manager's mutex for their whole body, so each is one  *)
(* action; the sending goroutines interleave with them.                    *)
(*                                                                         *)
(* An event is reduced to its type, its severity and the check NAME, which *)
(* is all that dispatch looks at.  Time is a logical clock: one unit is    *)
(* the resolution at which cooldowns are compared.                         *)
(***************************************************************************)
EXTENDS Integers, FiniteSets

CONSTANTS
    Checks,              \* check keys, "type:name" in the code
    Names,               \* check names; checks of different types may share one
    NameOf,              \* the name part of a key
    Tls,                 \* the keys whose type is tls
    Metrics,             \* budget metric names
    Webhooks,            \* indices of the configured webhooks
    Events,              \* per webhook, the event types it subscribes to
    Severities,          \* per webhook, the severities it accepts
    Cooldown,            \* per webhook, its cooldown
    FailThreshold,       \* consecutiveFailThreshold (3 in the code)
    MaxConcurrentSends,  \* capacity of the semaphore (4 in the code)
    WarnDays,            \* CertWarnDays (default 30)
    CriticalDays,        \* CertCriticalDays (default 7)
    DayLength,           \* time units in a day, for certificate expiry
    ExpiryTimes,         \* the times to expiry considered, in those units
    MaxClock,            \* bound: the clock stops here
    MaxFails             \* bound: consecutive failures considered

EventTypes == {"check_down", "check_up", "budget_violation", "cert_expiring"}
Levels == {"warning", "critical"}

ASSUME WebhooksFinite == IsFiniteSet(Webhooks)
ASSUME NamesOfChecks == NameOf \in [Checks -> Names] /\ Tls \subseteq Checks
ASSUME WebhookConfig == /\ Events \in [Webhooks -> SUBSET EventTypes]
                        /\ Severities \in [Webhooks -> SUBSET Levels]
                        /\ Cooldown \in [Webhooks -> Nat \ {0}]
ASSUME Limits == /\ FailThreshold \in Nat \ {0}
                 /\ MaxConcurrentSends \in Nat \ {0}
                 /\ MaxClock \in Nat
                 /\ MaxFails \in Nat
ASSUME CertConfig == /\ WarnDays \in Nat /\ CriticalDays \in Nat
                     /\ DayLength \in Nat \ {0}
                     /\ ExpiryTimes \subseteq Int

VARIABLES
    checkStates,   \* per check: "unseen", "up" or "down" (last result)
    failCounts,    \* per check, consecutive failures counted
    notifiedDown,  \* checks whose alarm has been raised
    budgetStates,  \* <<name, metric>> pairs last reported violated
    certStates,    \* per name, severity last raised, or "ok"
    lastSent,      \* per webhook, name and event type, when last accepted
    sending,       \* the sending goroutines, each with its stage
    sem,           \* semaphore slots in use
    wg,            \* the WaitGroup counter
    now,           \* the clock
    streak,        \* history: consecutive failures since the last success
    raisedAt,      \* history: when the current alarm of a check was raised
    alarmedAt,     \* history: when a webhook last accepted an alarm of a check
    certLevel      \* history: per name, how critical the last certificate was

manager == <<checkStates, failCounts, notifiedDown, budgetStates, certStates>>
senders == <<sending, sem, wg>>
history == <<streak, raisedAt, alarmedAt, certLevel>>
vars == <<manager, lastSent, senders, now, history>>

Never == -1

(* A send is identified by its cooldown key and the time it was accepted. *)
Sends == [wh : Webhooks, name : Names, type : EventTypes, at : Nat]
InFlight == DOMAIN sending

Init ==
    /\ checkStates = [c \in Checks |-> "unseen"]
    /\ failCounts = [c \in Checks |-> 0]
    /\ notifiedDown = {}
    /\ budgetStates = {}
    /\ certStates = [n \in Names |-> "ok"]
    /\ lastSent = [k \in Webhooks \X Names \X EventTypes |-> Never]
    /\ sending = [s \in {} |-> "queued"]
    /\ sem = 0
    /\ wg = 0
    /\ now = 0
    /\ streak = [c \in Checks |-> 0]
    /\ raisedAt = [c \in Checks |-> Never]
    /\ alarmedAt = [k \in Webhooks \X Checks |-> Never]
    /\ certLevel = [n \in Names |-> "ok"]

-----------------------------------------------------------------------------
(* dispatch *)

EventSet == [type : EventTypes, severity : Levels \cup {""}, name : Names]

Event(type, severity, name) ==
    [type |-> type, severity |-> severity, name |-> name]

(* An event without a severity passes every severity filter. *)
Subscribed(w, e) ==
    /\ e.type \in Events[w]
    /\ e.severity = "" \/ e.severity \in Severities[w]

CooledDown_AnyName(w, e) ==
    \A n \in Names : LET last == lastSent[<<w, n, e.type>>]
                     IN  last = Never \/ now - last >= Cooldown[w]

(* The cooldown key is the webhook, the check name and the event type. *)
CooledDown(w, e) ==
    LET last == lastSent[<<w, e.name, e.type>>]
    IN  last = Never \/ now - last >= Cooldown[w]

Accepting_NoCooldown(e) == {w \in Webhooks : Subscribed(w, e)}

(* The webhooks for which dispatch starts a send of e. *)
Accepting(e) == {w \in Webhooks : Subscribed(w, e) /\ CooledDown(w, e)}

(* The goroutines dispatch starts. *)
SendsOf(e) == [wh : Accepting(e), name : {e.name}, type : {e.type}, at : {now}]

(* Add the goroutines in new, all waiting for the semaphore. *)
Launch(new) == [s \in InFlight \cup new |->
                  IF s \in new THEN "queued" ELSE sending[s]]

Dispatch_OneAdd(e) ==
    /\ lastSent' = [k \in DOMAIN lastSent |->
                      IF k[1] \in Accepting(e) /\ k[2] = e.name /\ k[3] = e.type
                        THEN now ELSE lastSent[k]]
    /\ sending' = Launch(SendsOf(e))
    /\ wg' = wg + 1
    /\ UNCHANGED sem

Dispatch(e) ==
    /\ lastSent' = [k \in DOMAIN lastSent |->
                      IF k[1] \in Accepting(e) /\ k[2] = e.name /\ k[3] = e.type
                        THEN now ELSE lastSent[k]]
    /\ sending' = Launch(SendsOf(e))
    /\ wg' = wg + Cardinality(SendsOf(e))
    /\ UNCHANGED sem

NoEvent == UNCHANGED <<lastSent, senders>>

-----------------------------------------------------------------------------
(* HandleResult *)

DownEvent(c) == Event("check_down", "critical", NameOf[c])
UpEvent(c)   == Event("check_up", "", NameOf[c])

(* An infrastructure error is ignored altogether. *)
HandleInfraError(c) == UNCHANGED vars

(* The first result of a check only sets the baseline. *)
HandleFirst(c, ok) ==
    /\ checkStates[c] = "unseen"
    /\ checkStates' = [checkStates EXCEPT ![c] = IF ok THEN "up" ELSE "down"]
    /\ streak' = [streak EXCEPT ![c] = IF ok THEN 0 ELSE 1]
    /\ NoEvent
    /\ UNCHANGED <<failCounts, notifiedDown, budgetStates, certStates, now,
                   raisedAt, alarmedAt, certLevel>>

HandleSuccess_KeepsCount(c) ==
    /\ checkStates[c] # "unseen"
    /\ checkStates' = [checkStates EXCEPT ![c] = "up"]
    /\ notifiedDown' = notifiedDown \ {c}
    /\ IF c \in notifiedDown
         THEN Dispatch(UpEvent(c))
         ELSE NoEvent
    /\ streak' = [streak EXCEPT ![c] = 0]
    /\ UNCHANGED <<failCounts, budgetStates, certStates, now, raisedAt, alarmedAt,
                   certLevel>>

(* A success clears the counter and the alarm; it is announced only when   *)
(* the alarm had been raised.                                              *)
HandleSuccess(c) ==
    /\ checkStates[c] # "unseen"
    /\ checkStates' = [checkStates EXCEPT ![c] = "up"]
    /\ failCounts' = [failCounts EXCEPT ![c] = 0]
    /\ notifiedDown' = notifiedDown \ {c}
    /\ IF c \in notifiedDown
         THEN Dispatch(UpEvent(c))
         ELSE NoEvent
    /\ streak' = [streak EXCEPT ![c] = 0]
    /\ UNCHANGED <<budgetStates, certStates, now, raisedAt, alarmedAt, certLevel>>

(* A failure is counted; the alarm is raised when the count reaches the    *)
(* threshold, and only then.                                               *)
HandleFailure(c) ==
    LET count == failCounts[c] + 1
        raise == count = FailThreshold /\ c \notin notifiedDown
    IN  /\ checkStates[c] # "unseen" /\ streak[c] < MaxFails
        /\ checkStates' = [checkStates EXCEPT ![c] = "down"]
        /\ failCounts' = [failCounts EXCEPT ![c] = count]
        /\ IF raise
             THEN /\ notifiedDown' = notifiedDown \cup {c}
                  /\ raisedAt' = [raisedAt EXCEPT ![c] = now]
                  /\ alarmedAt' = [k \in DOMAIN alarmedAt |->
                                     IF k[1] \in Accepting(DownEvent(c)) /\ k[2] = c
                                       THEN now ELSE alarmedAt[k]]
                  /\ Dispatch(DownEvent(c))
             ELSE NoEvent /\ UNCHANGED <<notifiedDown, raisedAt, alarmedAt>>
        /\ streak' = [streak EXCEPT ![c] = @ + 1]
        /\ UNCHANGED <<budgetStates, certStates, now, certLevel>>

HandleResult(c) ==
    \/ HandleInfraError(c)
    \/ \E ok \in BOOLEAN : HandleFirst(c, ok)
    \/ HandleSuccess(c)
    \/ HandleFailure(c)

-----------------------------------------------------------------------------
(* HandleBudgetViolation and HandleCertResult *)

(* Only the transition to violated is dispatched. *)
HandleBudgetViolation(n, m, violated) ==
    /\ budgetStates' = IF violated THEN budgetStates \cup {<<n, m>>}
                                   ELSE budgetStates \ {<<n, m>>}
    /\ IF violated /\ <<n, m>> \notin budgetStates
         THEN Dispatch(Event("budget_violation", "warning", n))
         ELSE NoEvent
    /\ UNCHANGED <<checkStates, failCounts, notifiedDown, certStates, now, history>>

(* CertDaysRemaining: Go's int() truncates the days towards zero, so that  *)
(* the day before and the day after expiry are both day 0.                 *)
DaysRemaining(left) ==
    IF left >= 0 THEN left \div DayLength ELSE -((-left) \div DayLength)

(* An expired certificate never passes validateChain. *)
CertValid(left, chainOk) == chainOk /\ left >= 0

(* What HandleCertResult takes for "no cert data". *)
NoCertData(left, chainOk) == DaysRemaining(left) = 0 /\ ~CertValid(left, chainOk)

CertSeverity(left) ==
    CASE DaysRemaining(left) <= CriticalDays -> "critical"
      [] DaysRemaining(left) > CriticalDays /\ DaysRemaining(left) <= WarnDays -> "warning"
      [] OTHER -> "ok"

(* A result that carries no certificate (connection or handshake failed)   *)
(* is ignored.                                                             *)
HandleNoCert(c) == c \in Tls /\ UNCHANGED vars

(* A change to warning or critical is dispatched, whichever way it goes;   *)
(* a healthy certificate clears the state.                                 *)
HandleCertResult(c, left, chainOk) ==
    LET n == NameOf[c]
        severity == CertSeverity(left)
    IN  /\ c \in Tls
        /\ IF NoCertData(left, chainOk)
             THEN UNCHANGED certStates /\ NoEvent
             ELSE /\ certStates' = [certStates EXCEPT ![n] = severity]
                  /\ IF severity \notin {"ok", certStates[n]}
                       THEN Dispatch(Event("cert_expiring", severity, n))
                       ELSE NoEvent
        /\ certLevel' = [certLevel EXCEPT ![n] = severity]
        /\ UNCHANGED <<checkStates, failCounts, notifiedDown, budgetStates, now,
                       streak, raisedAt, alarmedAt>>

-----------------------------------------------------------------------------
(* The sending goroutines.  Stages: "queued" (waiting for the semaphore),  *)
(* "send", "pause" (the 2 s before the retry), "resend".                   *)

Acquire(s) ==
    /\ s \in InFlight /\ sending[s] = "queued"
    /\ sem < MaxConcurrentSends
    /\ sem' = sem + 1
    /\ sending' = [sending EXCEPT ![s] = "send"]
    /\ UNCHANGED <<manager, lastSent, wg, now, history>>

Finish_KeepsSlot(s) ==
    /\ sending' = [t \in InFlight \ {s} |-> sending[t]]
    /\ wg' = wg - 1
    /\ UNCHANGED sem

(* The goroutine returns: the deferred release and wg.Done run. *)
Finish(s) ==
    /\ sending' = [t \in InFlight \ {s} |-> sending[t]]
    /\ sem' = sem - 1
    /\ wg' = wg - 1

SendSucceeds(s) ==
    /\ s \in InFlight /\ sending[s] = "send"
    /\ Finish(s)
    /\ UNCHANGED <<manager, lastSent, now, history>>

SendFails(s) ==
    /\ s \in InFlight /\ sending[s] = "send"
    /\ sending' = [sending EXCEPT ![s] = "pause"]
    /\ UNCHANGED <<manager, lastSent, sem, wg, now, history>>

Resend(s) ==
    /\ s \in InFlight /\ sending[s] = "pause"
    /\ sending' = [sending EXCEPT ![s] = "resend"]
    /\ UNCHANGED <<manager, lastSent, sem, wg, now, history>>

(* Whether or not the retry succeeds the goroutine is done. *)
ResendReturns(s) ==
    /\ s \in InFlight /\ sending[s] = "resend"
    /\ Finish(s)
    /\ UNCHANGED <<manager, lastSent, now, history>>

SenderStep(s) == SendSucceeds(s) \/ SendFails(s) \/ Resend(s) \/ ResendReturns(s)

Tick ==
    /\ now < MaxClock
    /\ now' = now + 1
    /\ UNCHANGED <<manager, lastSent, senders, history>>

Handle ==
    \/ \E c \in Checks : HandleResult(c)
    \/ \E n \in Names, m \in Metrics, v \in BOOLEAN : HandleBudgetViolation(n, m, v)
    \/ \E c \in Tls, left \in ExpiryTimes, chainOk \in BOOLEAN :
          HandleCertResult(c, left, chainOk)
    \/ \E c \in Tls : HandleNoCert(c)

Next ==
    \/ Handle
    \/ \E s \in InFlight : Acquire(s) \/ SenderStep(s)
    \/ Tick

(* The sends that can exist while the clock is within its bound. *)
BoundedSends == [wh : Webhooks, name : Names, type : EventTypes, at : 0 .. MaxClock]

(* A sending goroutine keeps running: its two sends share a 30 s timeout.  *)
(* Go serves the goroutines blocked on a channel in FIFO order, so a       *)
(* queued one gets a slot if slots keep being released: strong fairness.   *)
Fairness ==
    \A s \in BoundedSends : WF_vars(SenderStep(s)) /\ SF_vars(Acquire(s))

Spec == Init /\ [][Next]_vars
FairSpec == Spec /\ Fairness

-----------------------------------------------------------------------------
(* Properties *)

(* Types of the variables. *)
TypeOK ==
    /\ checkStates \in [Checks -> {"unseen", "up", "down"}]
    /\ failCounts \in [Checks -> Nat]
    /\ notifiedDown \subseteq Checks
    /\ budgetStates \subseteq Names \X Metrics
    /\ certStates \in [Names -> {"ok"} \cup Levels]
    /\ lastSent \in [Webhooks \X Names \X EventTypes -> Nat \cup {Never}]
    /\ InFlight \subseteq Sends
    /\ sending \in [InFlight -> {"queued", "send", "pause", "resend"}]
    /\ sem \in Int
    /\ wg \in Int
    /\ now \in Nat
    /\ streak \in [Checks -> Nat]
    /\ raisedAt \in [Checks -> Nat \cup {Never}]
    /\ alarmedAt \in [Webhooks \X Checks -> Nat \cup {Never}]
    /\ certLevel \in [Names -> {"ok"} \cup Levels]

(* Debouncing is exact up to the baseline result (notify.go 157-207): an   *)
(* alarm stands only while the last FailThreshold conclusive results all   *)
(* failed, and it does stand as soon as one more than that have failed     *)
(* (the first result after boot is not counted).                           *)
DebounceBounds ==
    \A c \in Checks :
        /\ c \in notifiedDown => streak[c] >= FailThreshold
        /\ streak[c] > FailThreshold => c \in notifiedDown

(* The goroutines holding a semaphore slot. *)
Holding == {s \in InFlight : sending[s] # "queued"}

(* Outbound sends are limited, and the semaphore and the WaitGroup account *)
(* exactly for the goroutines, so that no slot leaks and Wait returns when *)
(* and only when all sends are over (notify.go 299-304, 323-338).          *)
SlotsAccounted ==
    /\ sem = Cardinality(Holding)
    /\ sem <= MaxConcurrentSends
    /\ wg = Cardinality(InFlight)

(* Two sends of one webhook about the same name and event type are at      *)
(* least a cooldown apart, even when the first is still in flight because  *)
(* its endpoint is slow (notify.go 317-323).                               *)
SendsSpaced ==
    \A s, t \in InFlight :
        s # t /\ s.wh = t.wh /\ s.name = t.name /\ s.type = t.type =>
            s.at - t.at >= Cooldown[s.wh] \/ t.at - s.at >= Cooldown[s.wh]

(* Every send that was accepted comes to an end: no goroutine waits for a  *)
(* semaphore slot for ever (notify.go 325-338).                            *)
SendsFinish == \A s \in BoundedSends : (s \in InFlight) ~> (s \notin InFlight)

(* No other check has the name of c. *)
OwnName(c) == \A d \in Checks : NameOf[d] = NameOf[c] => d = c

(* docs/alerting.md 77: the cooldown is the "Minimum interval between      *)
(* repeated notifications for the same check+event".  While a check is     *)
(* down, a webhook that subscribes to its alarm has accepted it, or had    *)
(* accepted an alarm of this same check less than a cooldown before it was *)
(* raised: no other check, event or webhook withholds it (notify.go        *)
(* 188-206, 306-323).  It is so for a check whose name is its own; the key *)
(* of the cooldown has no type, so that checks which share a name silence  *)
(* each other.                                                             *)
AlarmReachesSubscribers ==
    \A c \in notifiedDown, w \in Webhooks :
        OwnName(c) /\ Subscribed(w, DownEvent(c)) =>
            /\ alarmedAt[<<w, c>>] # Never
            /\ raisedAt[c] - alarmedAt[<<w, c>>] < Cooldown[w]

-----------------------------------------------------------------------------
(* A statement of the documentation that the code does not keep. *)

(* docs/alerting.md 86: cert_expiring fires when "A TLS certificate enters *)
(* the warn or critical expiry window": a certificate seen with at most    *)
(* CriticalDays left has been raised as critical.                          *)
CriticalCertRaised ==
    \A n \in Names : certLevel[n] = "critical" => certStates[n] = "critical"
=============================================================================
