---------------------------- MODULE NotifyProofs ----------------------------
(***************************************************************************)
(* Proofs about Notify for any sets of checks, names and webhooks, any     *)
(* cooldowns, thresholds and semaphore capacity, and any clock bound.      *)
(***************************************************************************)
EXTENDS Notify, FiniteSetTheorems, TLAPS

(* What the debouncing argument needs (notify.go 157-207): the alarm is    *)
(* the memory that the counter has reached the threshold, and the counter  *)
(* trails the true run of failures by the baseline result at most.         *)
DebounceInv ==
    \A c \in Checks :
        /\ c \in notifiedDown <=> failCounts[c] >= FailThreshold
        /\ checkStates[c] = "unseen" => streak[c] = 0 /\ failCounts[c] = 0
        /\ failCounts[c] <= streak[c]
        /\ streak[c] <= failCounts[c] + 1

(* No send in flight is younger than the last one accepted under its key,  *)
(* and nothing was accepted in the future.                                 *)
SendsBehind ==
    /\ \A s \in InFlight : s.at <= lastSent[<<s.wh, s.name, s.type>>]
    /\ \A k \in Webhooks \X Names \X EventTypes : lastSent[k] <= now

(* For a check with a name of its own, the cooldown of alarms is that of   *)
(* the check's own alarms.                                                 *)
OwnCooldown ==
    \A w \in Webhooks, c \in Checks :
        OwnName(c) => lastSent[<<w, NameOf[c], "check_down">>] = alarmedAt[<<w, c>>]

-----------------------------------------------------------------------------

(* The events the handlers build. *)
LEMMA EventsTyped ==
    /\ \A c \in Checks : DownEvent(c) \in EventSet /\ UpEvent(c) \in EventSet
    /\ \A n \in Names : Event("budget_violation", "warning", n) \in EventSet
    /\ \A n \in Names, v \in Levels : Event("cert_expiring", v, n) \in EventSet
<1>1. \A c \in Checks : NameOf[c] \in Names BY NamesOfChecks
<1> QED BY <1>1 DEF DownEvent, UpEvent, Event, EventSet, EventTypes, Levels

LEMMA CertSeverityTyped ==
    ASSUME NEW left \in Int
    PROVE  CertSeverity(left) \in {"ok"} \cup Levels
BY DEF CertSeverity, Levels

(* A handler either dispatches one event or leaves the sends alone. *)
LEMMA HandlerEffect ==
    ASSUME TypeOK, Handle
    PROVE  /\ now' = now
           /\ NoEvent \/ \E e \in EventSet : Dispatch(e)
<1>1. ASSUME NEW c \in Checks, HandleResult(c)
      PROVE  now' = now /\ (NoEvent \/ \E e \in EventSet : Dispatch(e))
  BY <1>1, EventsTyped DEF HandleResult, HandleInfraError, HandleFirst,
     HandleSuccess, HandleFailure, NoEvent, vars, senders
<1>2. ASSUME NEW n \in Names, NEW m \in Metrics, NEW v \in BOOLEAN,
             HandleBudgetViolation(n, m, v)
      PROVE  now' = now /\ (NoEvent \/ \E e \in EventSet : Dispatch(e))
  BY <1>2, EventsTyped DEF HandleBudgetViolation
<1>3. ASSUME NEW c \in Tls, NEW left \in ExpiryTimes, NEW chainOk \in BOOLEAN,
             HandleCertResult(c, left, chainOk)
      PROVE  now' = now /\ (NoEvent \/ \E e \in EventSet : Dispatch(e))
  <2>1. NameOf[c] \in Names BY NamesOfChecks
  <2>2. CertSeverity(left) \in {"ok"} \cup Levels
    BY CertConfig, CertSeverityTyped
  <2>3. now' = now BY <1>3 DEF HandleCertResult
  <2>4. NoEvent \/ (CertSeverity(left) # "ok"
                    /\ Dispatch(Event("cert_expiring", CertSeverity(left), NameOf[c])))
    BY <1>3 DEF HandleCertResult
  <2> QED BY <2>1, <2>2, <2>3, <2>4, EventsTyped
<1>4. ASSUME NEW c \in Tls, HandleNoCert(c)
      PROVE  now' = now /\ (NoEvent \/ \E e \in EventSet : Dispatch(e))
  BY <1>4 DEF HandleNoCert, NoEvent, vars, senders
<1> QED BY <1>1, <1>2, <1>3, <1>4 DEF Handle

(* dispatch keeps the types of what it writes. *)
LEMMA DispatchTyped ==
    ASSUME TypeOK, NEW e \in EventSet, Dispatch(e)
    PROVE  /\ lastSent' \in [Webhooks \X Names \X EventTypes -> Nat \cup {Never}]
           /\ InFlight' \subseteq Sends
           /\ sending' \in [InFlight' -> {"queued", "send", "pause", "resend"}]
           /\ InFlight' = InFlight \cup SendsOf(e)
           /\ sem' \in Int
<1> USE DEF TypeOK
<1>1. lastSent' \in [Webhooks \X Names \X EventTypes -> Nat \cup {Never}]
  BY DEF Dispatch
<1>2. SendsOf(e) \subseteq Sends
  BY DEF SendsOf, Sends, Accepting, EventSet
<1>3. InFlight' = InFlight \cup SendsOf(e)
  BY DEF Dispatch, Launch, InFlight
<1>4. sending' = [s \in InFlight \cup SendsOf(e) |->
                    IF s \in SendsOf(e) THEN "queued" ELSE sending[s]]
  BY DEF Dispatch, Launch
<1>5. sending' \in [InFlight' -> {"queued", "send", "pause", "resend"}]
  BY <1>3, <1>4
<1> QED BY <1>1, <1>2, <1>3, <1>5 DEF Dispatch

(* A webhook accepts an event only after its cooldown, so the goroutines   *)
(* dispatch starts are new.                                                *)
LEMMA NewSends ==
    ASSUME TypeOK, SendsBehind, NEW e \in EventSet, NEW s \in SendsOf(e),
           NEW t \in InFlight, s.wh = t.wh, s.name = t.name, s.type = t.type
    PROVE  s.at - t.at >= Cooldown[s.wh] /\ s # t
<1>1. /\ s.wh \in Webhooks /\ CooledDown(s.wh, e)
      /\ s.name = e.name /\ s.type = e.type /\ s.at = now
  BY DEF SendsOf, Accepting
<1>2. <<s.wh, e.name, e.type>> \in Webhooks \X Names \X EventTypes
  BY <1>1 DEF EventSet
<1>3. lastSent[<<s.wh, e.name, e.type>>] \in Nat \cup {Never} /\ now \in Nat
  BY <1>2 DEF TypeOK
<1>4. t.at \in Nat /\ t.at <= lastSent[<<s.wh, e.name, e.type>>]
  BY <1>1 DEF TypeOK, Sends, SendsBehind
<1>5. Cooldown[s.wh] \in Nat \ {0} BY <1>1, WebhookConfig
<1>6. now - lastSent[<<s.wh, e.name, e.type>>] >= Cooldown[s.wh]
  BY <1>1, <1>3, <1>4 DEF CooledDown, Never
<1> QED BY <1>1, <1>3, <1>4, <1>5, <1>6 DEF Never

LEMMA SendsOfFinite ==
    ASSUME NEW e \in EventSet
    PROVE  IsFiniteSet(SendsOf(e))
<1> DEFINE f == [s \in SendsOf(e) |-> s.wh]
<1>1. f \in Injection(SendsOf(e), Webhooks)
  <2>1. f \in [SendsOf(e) -> Webhooks] BY DEF SendsOf, Accepting
  <2>2. \A s, t \in SendsOf(e) : f[s] = f[t] => s = t BY DEF SendsOf
  <2> QED BY <2>1, <2>2 DEF Injection, IsInjective
<1> QED BY <1>1, WebhooksFinite, FS_Injection

-----------------------------------------------------------------------------

(* The variables hold values of their types. *)
THEOREM TypeCorrect == Spec => []TypeOK
<1>1. Init => TypeOK
  <2> SUFFICES ASSUME Init PROVE TypeOK
    OBVIOUS
  <2>1. InFlight = {} BY DEF Init, InFlight
  <2>2. sem \in Int /\ wg \in Int /\ now \in Nat BY DEF Init
  <2>3. sending \in [InFlight -> {"queued", "send", "pause", "resend"}]
    BY DEF Init, InFlight
  <2>4. /\ lastSent \in [Webhooks \X Names \X EventTypes -> Nat \cup {Never}]
        /\ raisedAt \in [Checks -> Nat \cup {Never}]
        /\ alarmedAt \in [Webhooks \X Checks -> Nat \cup {Never}]
        /\ failCounts \in [Checks -> Nat]
        /\ streak \in [Checks -> Nat]
    BY DEF Init
  <2>5. /\ checkStates \in [Checks -> {"unseen", "up", "down"}]
        /\ certStates \in [Names -> {"ok"} \cup Levels]
        /\ certLevel \in [Names -> {"ok"} \cup Levels]
    BY DEF Init
  <2> QED BY <2>1, <2>2, <2>3, <2>4, <2>5 DEF Init, TypeOK
<1>2. TypeOK /\ [Next]_vars => TypeOK'
  <2> SUFFICES ASSUME TypeOK, [Next]_vars PROVE TypeOK'
    OBVIOUS
  <2> DEFINE SendTypes ==
        /\ lastSent \in [Webhooks \X Names \X EventTypes -> Nat \cup {Never}]
        /\ InFlight \subseteq Sends
        /\ sending \in [InFlight -> {"queued", "send", "pause", "resend"}]
        /\ sem \in Int
        /\ wg \in Int
      ManagerTypes ==
        /\ checkStates \in [Checks -> {"unseen", "up", "down"}]
        /\ failCounts \in [Checks -> Nat]
        /\ notifiedDown \subseteq Checks
        /\ budgetStates \subseteq Names \X Metrics
        /\ certStates \in [Names -> {"ok"} \cup Levels]
        /\ streak \in [Checks -> Nat]
        /\ raisedAt \in [Checks -> Nat \cup {Never}]
        /\ alarmedAt \in [Webhooks \X Checks -> Nat \cup {Never}]
        /\ certLevel \in [Names -> {"ok"} \cup Levels]
  <2>0. TypeOK <=> SendTypes /\ ManagerTypes /\ now \in Nat
    BY DEF TypeOK
  <2>00. TypeOK' <=> SendTypes' /\ ManagerTypes' /\ (now \in Nat)'
    BY DEF TypeOK
  <2>1. CASE Handle
    <3>1. SendTypes' /\ now' \in Nat
      <4>1. CASE NoEvent
        BY <2>0, <2>1, <4>1, HandlerEffect DEF NoEvent, senders, InFlight
      <4>2. ASSUME NEW e \in EventSet, Dispatch(e) PROVE SendTypes'
        <5>1. Cardinality(SendsOf(e)) \in Nat
          BY SendsOfFinite, FS_CardinalityType
        <5>2. wg' \in Int BY <2>0, <4>2, <5>1 DEF Dispatch
        <5> QED BY <4>2, <5>2, DispatchTyped
      <4> QED BY <2>0, <2>1, <4>1, <4>2, HandlerEffect
    <3>2. ManagerTypes'
      <4>1. ASSUME NEW c \in Checks, HandleResult(c) PROVE ManagerTypes'
        <5>1. CASE HandleInfraError(c)
          BY <2>0, <5>1 DEF HandleInfraError, vars, manager, history
        <5>2. ASSUME NEW ok \in BOOLEAN, HandleFirst(c, ok) PROVE ManagerTypes'
          BY <2>0, <5>2 DEF HandleFirst
        <5>3. CASE HandleSuccess(c)
          BY <2>0, <5>3 DEF HandleSuccess
        <5>4. CASE HandleFailure(c)
          <6>1. /\ failCounts' \in [Checks -> Nat]
                /\ streak' \in [Checks -> Nat]
            BY <2>0, <5>4 DEF HandleFailure
          <6>2. /\ raisedAt' \in [Checks -> Nat \cup {Never}]
                /\ alarmedAt' \in [Webhooks \X Checks -> Nat \cup {Never}]
            BY <2>0, <5>4 DEF HandleFailure
          <6>3. /\ checkStates' \in [Checks -> {"unseen", "up", "down"}]
                /\ notifiedDown' \subseteq Checks
            BY <2>0, <5>4 DEF HandleFailure
          <6> QED BY <2>0, <5>4, <6>1, <6>2, <6>3 DEF HandleFailure
        <5> QED BY <4>1, <5>1, <5>2, <5>3, <5>4 DEF HandleResult
      <4>2. ASSUME NEW n \in Names, NEW m \in Metrics, NEW v \in BOOLEAN,
                   HandleBudgetViolation(n, m, v)
            PROVE  ManagerTypes'
        BY <2>0, <4>2 DEF HandleBudgetViolation, history
      <4>3. ASSUME NEW c \in Tls, NEW left \in ExpiryTimes,
                   NEW chainOk \in BOOLEAN, HandleCertResult(c, left, chainOk)
            PROVE  ManagerTypes'
        <5>1. CertSeverity(left) \in {"ok"} \cup Levels
          BY CertConfig, CertSeverityTyped
        <5> QED BY <2>0, <4>3, <5>1 DEF HandleCertResult
      <4>4. ASSUME NEW c \in Tls, HandleNoCert(c) PROVE ManagerTypes'
        BY <2>0, <4>4 DEF HandleNoCert, vars, manager, history
      <4> QED BY <2>1, <4>1, <4>2, <4>3, <4>4 DEF Handle
    <3> QED BY <3>1, <3>2, <2>00
  <2>2. ASSUME NEW s \in InFlight, Acquire(s) \/ SenderStep(s) PROVE TypeOK'
    <3>1. UNCHANGED <<manager, lastSent, now, history>>
      BY <2>2 DEF Acquire, SenderStep, SendSucceeds, SendFails, Resend,
         ResendReturns
    <3>2. sem' \in Int /\ wg' \in Int
      BY <2>0, <2>2 DEF Acquire, SenderStep, SendSucceeds, SendFails, Resend,
         ResendReturns, Finish
    <3>3. /\ InFlight' \subseteq InFlight
          /\ sending' \in [InFlight' -> {"queued", "send", "pause", "resend"}]
      BY <2>0, <2>2 DEF Acquire, SenderStep, SendSucceeds, SendFails, Resend,
         ResendReturns, Finish, InFlight
    <3> QED BY <2>0, <2>00, <3>1, <3>2, <3>3 DEF manager, history
  <2>3. CASE Tick
    BY <2>0, <2>00, <2>3 DEF Tick, manager, senders, history, InFlight
  <2>4. CASE UNCHANGED vars
    BY <2>0, <2>00, <2>4 DEF vars, manager, senders, history, InFlight
  <2> QED BY <2>1, <2>2, <2>3, <2>4 DEF Next
<1> QED BY <1>1, <1>2, PTL DEF Spec

-----------------------------------------------------------------------------

(* Debouncing is exact up to the baseline result, whatever the results and *)
(* however they interleave with other checks, budgets and certificates.    *)
THEOREM DebounceCorrect == Spec => []DebounceBounds
<1>1. Init => DebounceInv
  BY Limits DEF Init, DebounceInv
<1>2. TypeOK /\ DebounceInv /\ [Next]_vars => DebounceInv'
  <2> SUFFICES ASSUME TypeOK, DebounceInv, [Next]_vars PROVE DebounceInv'
    OBVIOUS
  <2> USE Limits DEF TypeOK
  <2>1. ASSUME NEW c \in Checks, NEW ok \in BOOLEAN, HandleFirst(c, ok)
        PROVE  DebounceInv'
    BY <2>1 DEF HandleFirst, DebounceInv
  <2>2. ASSUME NEW c \in Checks, HandleSuccess(c) PROVE DebounceInv'
    BY <2>2 DEF HandleSuccess, DebounceInv
  <2>3. ASSUME NEW c \in Checks, HandleFailure(c) PROVE DebounceInv'
    <3>1. /\ checkStates' = [checkStates EXCEPT ![c] = "down"]
          /\ failCounts' = [failCounts EXCEPT ![c] = failCounts[c] + 1]
          /\ streak' = [streak EXCEPT ![c] = @ + 1]
      BY <2>3 DEF HandleFailure
    <3>2. notifiedDown' = IF failCounts[c] + 1 = FailThreshold /\ c \notin notifiedDown
                            THEN notifiedDown \cup {c} ELSE notifiedDown
      BY <2>3 DEF HandleFailure
    <3>3. /\ c \in notifiedDown' <=> failCounts'[c] >= FailThreshold
          /\ failCounts'[c] <= streak'[c]
          /\ streak'[c] <= failCounts'[c] + 1
          /\ checkStates'[c] # "unseen"
      BY <3>1, <3>2 DEF DebounceInv
    <3>4. \A d \in Checks \ {c} :
             /\ d \in notifiedDown' <=> d \in notifiedDown
             /\ failCounts'[d] = failCounts[d] /\ streak'[d] = streak[d]
             /\ checkStates'[d] = checkStates[d]
      BY <3>1, <3>2
    <3> QED BY <3>3, <3>4 DEF DebounceInv
  <2>4. CASE UNCHANGED <<checkStates, failCounts, notifiedDown, streak>>
    BY <2>4 DEF DebounceInv
  <2>5. ASSUME NEW c \in Checks, HandleResult(c) PROVE DebounceInv'
    BY <2>1, <2>2, <2>3, <2>4, <2>5
       DEF HandleResult, HandleInfraError, vars, manager, history
  <2>6. CASE \/ \E n \in Names, m \in Metrics, v \in BOOLEAN :
                  HandleBudgetViolation(n, m, v)
             \/ \E c \in Tls, left \in ExpiryTimes, chainOk \in BOOLEAN :
                  HandleCertResult(c, left, chainOk)
             \/ \E c \in Tls : HandleNoCert(c)
    BY <2>4, <2>6 DEF HandleBudgetViolation, HandleCertResult, HandleNoCert,
       vars, manager, history
  <2>7. ASSUME NEW s \in InFlight, Acquire(s) \/ SenderStep(s) PROVE DebounceInv'
    BY <2>4, <2>7 DEF Acquire, SenderStep, SendSucceeds, SendFails, Resend,
       ResendReturns, manager, history
  <2>8. CASE Tick \/ UNCHANGED vars
    BY <2>4, <2>8 DEF Tick, vars, manager, history
  <2> QED BY <2>5, <2>6, <2>7, <2>8 DEF Next, Handle
<1>3. TypeOK /\ DebounceInv => DebounceBounds
  BY Limits DEF TypeOK, DebounceInv, DebounceBounds
<1> QED BY <1>1, <1>2, <1>3, TypeCorrect, PTL DEF Spec

-----------------------------------------------------------------------------

(* dispatch accounts for the goroutines it starts. *)
LEMMA DispatchKeepsSlots ==
    ASSUME TypeOK, SlotsAccounted, IsFiniteSet(InFlight), SendsBehind,
           NEW e \in EventSet, Dispatch(e)
    PROVE  SlotsAccounted' /\ IsFiniteSet(InFlight')
<1>1. InFlight' = InFlight \cup SendsOf(e) BY DispatchTyped
<1>2. InFlight \cap SendsOf(e) = {}
  BY NewSends
<1>3. IsFiniteSet(SendsOf(e)) BY SendsOfFinite
<1>4. IsFiniteSet(InFlight') BY <1>1, <1>3, FS_Union
<1>5. Cardinality(InFlight') = Cardinality(InFlight) + Cardinality(SendsOf(e))
  <2>1. Cardinality(InFlight \cap SendsOf(e)) = 0 BY <1>2, FS_EmptySet
  <2>2. Cardinality(InFlight) \in Nat /\ Cardinality(SendsOf(e)) \in Nat
    BY <1>3, FS_CardinalityType
  <2>3. Cardinality(InFlight \cup SendsOf(e)) =
           Cardinality(InFlight) + Cardinality(SendsOf(e))
              - Cardinality(InFlight \cap SendsOf(e))
    BY <1>3, FS_Union
  <2> QED BY <1>1, <2>1, <2>2, <2>3
<1>6. Holding' = Holding
  <2>1. \A s \in InFlight : s \notin SendsOf(e) BY <1>2
  <2> QED BY <1>1, <2>1 DEF Dispatch, Launch, Holding
<1> QED BY <1>4, <1>5, <1>6 DEF SlotsAccounted, Dispatch

(* A step of a sending goroutine takes or gives back a slot exactly when   *)
(* it starts or stops holding one, and leaves the WaitGroup on return.     *)
LEMMA SenderKeepsSlots ==
    ASSUME TypeOK, SlotsAccounted, IsFiniteSet(InFlight),
           NEW s \in InFlight, Acquire(s) \/ SenderStep(s)
    PROVE  SlotsAccounted' /\ IsFiniteSet(InFlight')
<1> USE DEF TypeOK
<1>1. IsFiniteSet(Holding) BY FS_Subset DEF Holding
<1>2. Cardinality(Holding) \in Nat BY <1>1, FS_CardinalityType
<1>3. CASE Acquire(s)
  <2>1. InFlight' = InFlight BY <1>3 DEF Acquire, InFlight
  <2>2. Holding' = Holding \cup {s}
    BY <1>3, <2>1 DEF Acquire, Holding
  <2>3. s \notin Holding BY <1>3 DEF Acquire, Holding
  <2>4. Cardinality(Holding') = Cardinality(Holding) + 1
    BY <1>1, <2>2, <2>3, FS_AddElement
  <2> QED BY <1>2, <1>3, <2>1, <2>4, Limits DEF Acquire, SlotsAccounted
<1>4. CASE SendFails(s) \/ Resend(s)
  <2>1. InFlight' = InFlight BY <1>4 DEF SendFails, Resend, InFlight
  <2>2. Holding' = Holding BY <1>4, <2>1 DEF SendFails, Resend, Holding
  <2> QED BY <1>4, <2>1, <2>2 DEF SendFails, Resend, SlotsAccounted
<1>5. CASE SendSucceeds(s) \/ ResendReturns(s)
  <2>1. InFlight' = InFlight \ {s}
    BY <1>5 DEF SendSucceeds, ResendReturns, Finish, InFlight
  <2>2. s \in Holding BY <1>5 DEF SendSucceeds, ResendReturns, Holding
  <2>3. Holding' = Holding \ {s}
    BY <1>5, <2>1 DEF SendSucceeds, ResendReturns, Finish, Holding
  <2>4. Cardinality(Holding') = Cardinality(Holding) - 1
    BY <1>1, <2>2, <2>3, FS_RemoveElement
  <2>5. /\ Cardinality(InFlight') = Cardinality(InFlight) - 1
        /\ IsFiniteSet(InFlight')
    BY <2>1, FS_RemoveElement
  <2>6. sem' = sem - 1 /\ wg' = wg - 1
    BY <1>5 DEF SendSucceeds, ResendReturns, Finish
  <2> QED BY <1>2, <2>4, <2>5, <2>6, Limits DEF SlotsAccounted
<1> QED BY <1>3, <1>4, <1>5 DEF SenderStep

(* What a step of dispatch does to the times of the sends. *)
LEMMA DispatchKeepsOrder ==
    ASSUME TypeOK, SendsBehind, SendsSpaced, NEW e \in EventSet, Dispatch(e),
           now' = now
    PROVE  SendsBehind' /\ SendsSpaced'
<1> USE DEF TypeOK
<1>1. InFlight' = InFlight \cup SendsOf(e) /\ InFlight' \subseteq Sends
  BY DispatchTyped
<1>2. ASSUME NEW k \in Webhooks \X Names \X EventTypes
      PROVE  lastSent'[k] >= lastSent[k] /\ lastSent'[k] <= now
  <2>1. lastSent'[k] = now \/ lastSent'[k] = lastSent[k] BY DEF Dispatch
  <2>2. lastSent[k] <= now /\ lastSent[k] \in Int /\ now \in Int
    BY DEF SendsBehind, Never
  <2> QED BY <2>1, <2>2
<1>3. ASSUME NEW s \in InFlight'
      PROVE  s.at <= lastSent'[<<s.wh, s.name, s.type>>]
  <2>0. <<s.wh, s.name, s.type>> \in Webhooks \X Names \X EventTypes
        /\ s.at \in Nat
    BY <1>1 DEF Sends
  <2>1. CASE s \in InFlight
    <3>1. s.at <= lastSent[<<s.wh, s.name, s.type>>] BY <2>1 DEF SendsBehind
    <3>2. lastSent[<<s.wh, s.name, s.type>>] \in Int
          /\ lastSent'[<<s.wh, s.name, s.type>>] \in Int
      BY <2>0, DispatchTyped DEF Never
    <3> QED BY <1>2, <2>0, <3>1, <3>2
  <2>2. CASE s \in SendsOf(e)
    <3>1. s.wh \in Accepting(e) /\ s.name = e.name /\ s.type = e.type /\ s.at = now
      BY <2>2 DEF SendsOf
    <3>2. lastSent'[<<s.wh, s.name, s.type>>] = now
      BY <2>0, <3>1 DEF Dispatch
    <3> QED BY <3>1, <3>2
  <2> QED BY <1>1, <2>1, <2>2
<1>4. SendsBehind' BY <1>2, <1>3 DEF SendsBehind
<1>5. SendsSpaced'
  <2> SUFFICES ASSUME NEW s \in InFlight', NEW t \in InFlight', s # t,
                      s.wh = t.wh, s.name = t.name, s.type = t.type
               PROVE  s.at - t.at >= Cooldown[s.wh] \/ t.at - s.at >= Cooldown[s.wh]
    BY DEF SendsSpaced
  <2>1. CASE s \in InFlight /\ t \in InFlight BY <2>1 DEF SendsSpaced
  <2>2. CASE s \in SendsOf(e) /\ t \in InFlight BY <2>2, NewSends
  <2>3. CASE s \in InFlight /\ t \in SendsOf(e) BY <2>3, NewSends
  <2>4. CASE s \in SendsOf(e) /\ t \in SendsOf(e)
    BY <2>4 DEF SendsOf
  <2> QED BY <1>1, <2>1, <2>2, <2>3, <2>4
<1> QED BY <1>4, <1>5

(* The semaphore and the WaitGroup are exact, the number of concurrent     *)
(* sends is limited, and sends under one cooldown key are spaced, however  *)
(* slow the endpoints are.                                                 *)
THEOREM SendsCorrect == Spec => [](SlotsAccounted /\ SendsSpaced)
<1> DEFINE Inv == /\ SlotsAccounted /\ IsFiniteSet(InFlight)
                  /\ SendsBehind /\ SendsSpaced
<1>1. Init => Inv
  <2> SUFFICES ASSUME Init PROVE Inv
    OBVIOUS
  <2>1. InFlight = {} BY DEF Init, InFlight
  <2>2. Holding = {} BY <2>1 DEF Holding
  <2>3. SlotsAccounted BY <2>1, <2>2, FS_EmptySet, Limits DEF Init, SlotsAccounted
  <2>4. SendsBehind /\ SendsSpaced
    BY <2>1 DEF Init, SendsBehind, SendsSpaced, Never
  <2> QED BY <2>1, <2>3, <2>4, FS_EmptySet
<1>2. TypeOK /\ Inv /\ [Next]_vars => Inv'
  <2> SUFFICES ASSUME TypeOK, Inv, [Next]_vars PROVE Inv'
    OBVIOUS
  <2>1. CASE UNCHANGED <<lastSent, senders>> /\ (now' = now \/ now' = now + 1)
    <3>1. InFlight' = InFlight /\ Holding' = Holding
      BY <2>1 DEF senders, InFlight, Holding
    <3>2. SlotsAccounted' /\ IsFiniteSet(InFlight') /\ SendsSpaced'
      BY <2>1, <3>1 DEF SlotsAccounted, SendsSpaced, senders
    <3>3. \A k \in Webhooks \X Names \X EventTypes : lastSent'[k] <= now'
      <4>1. \A k \in Webhooks \X Names \X EventTypes :
               lastSent[k] \in Int /\ lastSent[k] <= now
        BY DEF TypeOK, SendsBehind, Never
      <4> QED BY <2>1, <4>1 DEF TypeOK
    <3> QED BY <2>1, <3>1, <3>2, <3>3 DEF SendsBehind
  <2>2. CASE Handle
    <3>1. ASSUME NEW e \in EventSet, Dispatch(e), now' = now PROVE Inv'
      BY <3>1, DispatchKeepsSlots, DispatchKeepsOrder
    <3> QED BY <2>1, <2>2, <3>1, HandlerEffect DEF NoEvent
  <2>3. ASSUME NEW s \in InFlight, Acquire(s) \/ SenderStep(s) PROVE Inv'
    <3>1. SlotsAccounted' /\ IsFiniteSet(InFlight') BY <2>3, SenderKeepsSlots
    <3>2. InFlight' \subseteq InFlight /\ lastSent' = lastSent /\ now' = now
      BY <2>3 DEF Acquire, SenderStep, SendSucceeds, SendFails, Resend,
         ResendReturns, Finish, InFlight
    <3>3. SendsBehind' /\ SendsSpaced' BY <3>2 DEF SendsBehind, SendsSpaced
    <3> QED BY <3>1, <3>3
  <2>4. CASE Tick BY <2>1, <2>4 DEF Tick
  <2>5. CASE UNCHANGED vars BY <2>1, <2>5 DEF vars
  <2> QED BY <2>2, <2>3, <2>4, <2>5 DEF Next
<1> QED BY <1>1, <1>2, TypeCorrect, PTL DEF Spec

-----------------------------------------------------------------------------

(* In particular, two sends of one webhook about the same name and event   *)
(* are a cooldown apart even when the first is still being retried.        *)
COROLLARY SpacingCorrect == Spec => []SendsSpaced
BY SendsCorrect, PTL

-----------------------------------------------------------------------------

(* dispatch touches the cooldown of alarms only if it is given an alarm,   *)
(* and then only for the name of the alarm.                                *)
LEMMA DispatchOther ==
    ASSUME TypeOK, NEW e \in EventSet, Dispatch(e), NEW w \in Webhooks, NEW n \in Names,
           e.type # "check_down" \/ e.name # n
    PROVE  lastSent'[<<w, n, "check_down">>] = lastSent[<<w, n, "check_down">>]
BY DEF Dispatch, TypeOK, EventTypes

(* A failure that raises the alarm of c. *)
Raises(c) ==
    HandleFailure(c) /\ failCounts[c] + 1 = FailThreshold /\ c \notin notifiedDown

(* Every other step leaves the cooldown of alarms and what is remembered   *)
(* of them alone.                                                          *)
LEMMA OtherSteps ==
    ASSUME TypeOK, [Next]_vars, ~\E c \in Checks : Raises(c)
    PROVE  /\ UNCHANGED <<raisedAt, alarmedAt>> /\ notifiedDown' \subseteq notifiedDown
           /\ \A w \in Webhooks, n \in Names :
                 lastSent'[<<w, n, "check_down">>] = lastSent[<<w, n, "check_down">>]
<1> DEFINE Same == \A w \in Webhooks, n \in Names :
                     lastSent'[<<w, n, "check_down">>] = lastSent[<<w, n, "check_down">>]
<1>1. UNCHANGED <<raisedAt, alarmedAt>> /\ notifiedDown' \subseteq notifiedDown
  <2>1. CASE Handle
    BY <2>1 DEF Raises, Handle, HandleResult, HandleInfraError, HandleFirst,
       HandleSuccess, HandleFailure, HandleBudgetViolation, HandleCertResult,
       HandleNoCert, vars, manager, history
  <2>2. CASE ~Handle
    BY <2>2 DEF Next, Acquire, SenderStep, SendSucceeds, SendFails, Resend,
       ResendReturns, Tick, vars, manager, history
  <2> QED BY <2>1, <2>2
<1>2. CASE lastSent' = lastSent BY <1>1, <1>2
<1>3. ASSUME NEW e \in EventSet, Dispatch(e), e.type # "check_down" PROVE Same
  BY <1>3, DispatchOther
<1>4. ASSUME NEW c \in Checks, HandleResult(c) PROVE Same
  <2>1. NoEvent \/ Dispatch(UpEvent(c))
    BY <1>4 DEF Raises, HandleResult, HandleInfraError, HandleFirst, HandleSuccess,
       HandleFailure, NoEvent, vars, senders
  <2>2. UpEvent(c).type # "check_down" BY DEF UpEvent, Event
  <2> HIDE DEF Same
  <2>3. CASE Dispatch(UpEvent(c)) BY <1>3, <2>2, <2>3, EventsTyped
  <2>4. CASE NoEvent BY <2>4 DEF NoEvent, Same
  <2> QED BY <2>1, <2>3, <2>4
<1>5. ASSUME NEW n \in Names, NEW m \in Metrics, NEW v \in BOOLEAN,
             HandleBudgetViolation(n, m, v)
      PROVE  Same
  <2>1. Event("budget_violation", "warning", n).type # "check_down" BY DEF Event
  <2>2. NoEvent \/ Dispatch(Event("budget_violation", "warning", n))
    BY <1>5 DEF HandleBudgetViolation
  <2> HIDE DEF Same
  <2>3. CASE NoEvent BY <2>3 DEF NoEvent, Same
  <2> QED BY <1>3, <2>1, <2>2, <2>3, EventsTyped
<1>6. ASSUME NEW c \in Tls, NEW left \in ExpiryTimes, NEW chainOk \in BOOLEAN,
             HandleCertResult(c, left, chainOk)
      PROVE  Same
  <2> DEFINE v == CertSeverity(left)
             e == Event("cert_expiring", v, NameOf[c])
  <2>1. e.type # "check_down" BY DEF Event
  <2>2. NoEvent \/ (v # "ok" /\ Dispatch(e)) BY <1>6 DEF HandleCertResult
  <2>3. v \in {"ok"} \cup Levels /\ NameOf[c] \in Names
    BY CertConfig, CertSeverityTyped, NamesOfChecks
  <2>4. v # "ok" => e \in EventSet BY <2>3, EventsTyped
  <2> HIDE DEF Same, e, v
  <2>5. CASE NoEvent BY <2>5 DEF NoEvent, Same
  <2> QED BY <1>3, <2>1, <2>2, <2>4, <2>5
<1>7. lastSent' = lastSent \/ Same
  <2> HIDE DEF Same
  <2>1. CASE Handle
    BY <1>4, <1>5, <1>6, <2>1 DEF Handle, HandleNoCert, vars
  <2>2. CASE ~Handle
    BY <2>2 DEF Next, Acquire, SenderStep, SendSucceeds, SendFails, Resend,
       ResendReturns, Tick, vars
  <2> QED BY <2>1, <2>2
<1> QED BY <1>1, <1>2, <1>7

LEMMA RaiseEffect ==
    ASSUME TypeOK, OwnCooldown, NEW c \in Checks, Raises(c)
    PROVE  /\ notifiedDown' = notifiedDown \cup {c} /\ raisedAt'[c] = now
           /\ \A d \in Checks \ {c} : raisedAt'[d] = raisedAt[d]
           /\ \A w \in Webhooks, d \in Checks : d # c => alarmedAt'[<<w, d>>] = alarmedAt[<<w, d>>]
           /\ \A w \in Webhooks :
                 alarmedAt'[<<w, c>>] = IF w \in Accepting(DownEvent(c)) THEN now
                                                                       ELSE alarmedAt[<<w, c>>]
           /\ OwnCooldown'
<1> DEFINE e == DownEvent(c)
<1>1. /\ notifiedDown' = notifiedDown \cup {c}
      /\ raisedAt' = [raisedAt EXCEPT ![c] = now]
      /\ alarmedAt' = [k \in DOMAIN alarmedAt |->
                         IF k[1] \in Accepting(e) /\ k[2] = c THEN now ELSE alarmedAt[k]]
      /\ Dispatch(e)
  BY DEF Raises, HandleFailure
<1>2. e \in EventSet /\ e.type = "check_down" /\ e.name = NameOf[c]
  BY EventsTyped DEF DownEvent, Event
<1> HIDE DEF e
<1>3. \A w \in Webhooks, d \in Checks :
         alarmedAt'[<<w, d>>] = IF w \in Accepting(e) /\ d = c THEN now ELSE alarmedAt[<<w, d>>]
  BY <1>1 DEF TypeOK
<1>4. \A w \in Webhooks, n \in Names :
         lastSent'[<<w, n, "check_down">>] =
            IF w \in Accepting(e) /\ n = NameOf[c] THEN now
                                                   ELSE lastSent[<<w, n, "check_down">>]
  BY <1>1, <1>2 DEF Dispatch, TypeOK, EventTypes
<1>5. ASSUME NEW w \in Webhooks, NEW d \in Checks, OwnName(d)
      PROVE  lastSent'[<<w, NameOf[d], "check_down">>] = alarmedAt'[<<w, d>>]
  <2>1. NameOf[d] \in Names BY NamesOfChecks
  <2>2. NameOf[d] = NameOf[c] <=> d = c BY <1>5 DEF OwnName
  <2>3. lastSent[<<w, NameOf[d], "check_down">>] = alarmedAt[<<w, d>>]
    BY <1>5 DEF OwnCooldown
  <2> QED BY <1>3, <1>4, <2>1, <2>2, <2>3
<1>6. OwnCooldown' BY <1>5 DEF OwnCooldown, OwnName
<1> QED BY <1>1, <1>3, <1>6 DEF TypeOK, e

(* A subscribed webhook misses the alarm of a check with a name of its own *)
(* only within a cooldown of an earlier alarm of the same check, as        *)
(* docs/alerting.md says: the name shared by checks of different types is  *)
(* all that silences one check for another (notify.go 306-323).            *)
THEOREM AlarmsDelivered == Spec => []AlarmReachesSubscribers
<1> DEFINE Inv == OwnCooldown /\ AlarmReachesSubscribers
<1>1. Init => Inv
  <2> SUFFICES ASSUME Init PROVE Inv OBVIOUS
  <2>1. AlarmReachesSubscribers BY DEF Init, AlarmReachesSubscribers
  <2>2. \A w \in Webhooks, c \in Checks :
           <<w, NameOf[c], "check_down">> \in Webhooks \X Names \X EventTypes
    BY NamesOfChecks DEF EventTypes
  <2>3. OwnCooldown BY <2>2 DEF Init, OwnCooldown
  <2> QED BY <2>1, <2>3
<1>2. TypeOK /\ Inv /\ [Next]_vars => Inv'
  <2> SUFFICES ASSUME TypeOK, OwnCooldown, AlarmReachesSubscribers, [Next]_vars
               PROVE  OwnCooldown' /\ AlarmReachesSubscribers'
    OBVIOUS
  <2>1. ASSUME NEW c \in Checks, Raises(c)
        PROVE  OwnCooldown' /\ AlarmReachesSubscribers'
    <3>1. ASSUME NEW d \in notifiedDown', NEW w \in Webhooks,
                 OwnName(d), Subscribed(w, DownEvent(d))
          PROVE  /\ alarmedAt'[<<w, d>>] # Never
                 /\ raisedAt'[d] - alarmedAt'[<<w, d>>] < Cooldown[w]
      <4>1. d \in Checks BY <2>1, <3>1, RaiseEffect DEF TypeOK
      <4>2. CASE d = c
        <5>1. now \in Nat /\ Cooldown[w] \in Nat \ {0} BY WebhookConfig DEF TypeOK
        <5>2. raisedAt'[c] = now BY <2>1, RaiseEffect
        <5>3. CASE CooledDown(w, DownEvent(c))
          <6>1. w \in Accepting(DownEvent(c)) BY <3>1, <4>2, <5>3 DEF Accepting
          <6>2. alarmedAt'[<<w, c>>] = now BY <2>1, <6>1, RaiseEffect
          <6> QED BY <4>2, <5>1, <5>2, <6>2 DEF Never
        <5>4. CASE ~CooledDown(w, DownEvent(c))
          <6>1. w \notin Accepting(DownEvent(c)) BY <5>4 DEF Accepting
          <6>2. alarmedAt'[<<w, c>>] = alarmedAt[<<w, c>>] BY <2>1, <6>1, RaiseEffect
          <6>3. alarmedAt[<<w, c>>] = lastSent[<<w, NameOf[c], "check_down">>]
            BY <3>1, <4>2 DEF OwnCooldown
          <6>4. alarmedAt[<<w, c>>] \in Nat \cup {Never} BY DEF TypeOK
          <6>5. /\ alarmedAt[<<w, c>>] # Never
                /\ ~(now - alarmedAt[<<w, c>>] >= Cooldown[w])
            BY <5>4, <6>3 DEF CooledDown, DownEvent, Event
          <6> QED BY <4>2, <5>1, <5>2, <6>2, <6>4, <6>5 DEF Never
        <5> QED BY <5>3, <5>4
      <4>3. CASE d # c
        <5>1. d \in notifiedDown BY <2>1, <3>1, <4>3, RaiseEffect
        <5>2. raisedAt'[d] = raisedAt[d] /\ alarmedAt'[<<w, d>>] = alarmedAt[<<w, d>>]
          BY <2>1, <4>1, <4>3, RaiseEffect
        <5> QED BY <3>1, <5>1, <5>2 DEF AlarmReachesSubscribers
      <4> QED BY <4>2, <4>3
    <3>2. AlarmReachesSubscribers'
      BY <3>1 DEF AlarmReachesSubscribers, OwnName, Subscribed, DownEvent, Event
    <3> QED BY <2>1, <3>2, RaiseEffect
  <2>2. CASE ~\E c \in Checks : Raises(c)
    <3>1. /\ UNCHANGED <<raisedAt, alarmedAt>> /\ notifiedDown' \subseteq notifiedDown
          /\ \A w \in Webhooks, n \in Names :
                lastSent'[<<w, n, "check_down">>] = lastSent[<<w, n, "check_down">>]
      BY <2>2, OtherSteps
    <3>2. AlarmReachesSubscribers'
      BY <3>1 DEF AlarmReachesSubscribers, OwnName, Subscribed, DownEvent, Event
    <3>3. \A c \in Checks : NameOf[c] \in Names BY NamesOfChecks
    <3>4. OwnCooldown' BY <3>1, <3>3 DEF OwnCooldown, OwnName
    <3> QED BY <3>2, <3>4
  <2> QED BY <2>1, <2>2
<1> QED BY <1>1, <1>2, TypeCorrect, PTL DEF Spec

-----------------------------------------------------------------------------
(* No certificate is looked at on the day before or the day after it       *)
(* expires.                                                                *)
NoDayZero == \A left \in ExpiryTimes : left >= DayLength \/ left <= -DayLength

LEMMA WholeDaysLeft ==
    ASSUME NEW left \in Int, left >= DayLength \/ left <= -DayLength
    PROVE  DaysRemaining(left) # 0
<1>0. DayLength \in Nat \ {0} BY CertConfig
<1>1. ASSUME NEW t \in Nat, t >= DayLength PROVE t \div DayLength \in Nat \ {0}
  <2>1. t \div DayLength \in Int /\ t < DayLength * (t \div DayLength) + DayLength
    BY <1>0, <1>1
  <2>2. t \div DayLength <= 0 => DayLength * (t \div DayLength) <= 0 BY <1>0, <2>1
  <2> QED BY <1>0, <1>1, <2>1, <2>2
<1>2. CASE left >= DayLength BY <1>0, <1>1, <1>2 DEF DaysRemaining
<1>3. CASE left <= -DayLength
  <2>1. -left \in Nat /\ -left >= DayLength /\ ~(left >= 0) BY <1>0, <1>3
  <2>2. (-left) \div DayLength \in Nat \ {0} BY <1>1, <2>1
  <2> QED BY <2>1, <2>2 DEF DaysRemaining
<1> QED BY <1>2, <1>3

(* What the manager remembers of a certificate is how critical it is. *)
CertsKnown == \A n \in Names : certStates[n] = certLevel[n]

(* As long as no certificate is within a day of its expiry, every one in   *)
(* its critical window has been raised as critical: what HandleCertResult  *)
(* misses, it misses on day zero (notify.go 247-290).                      *)
THEOREM CertsRaisedOutsideDayZero == NoDayZero /\ Spec => []CriticalCertRaised
<1>1. Init => CertsKnown BY DEF Init, CertsKnown
<1>2. NoDayZero /\ TypeOK /\ CertsKnown /\ [Next]_vars => CertsKnown'
  <2> SUFFICES ASSUME NoDayZero, TypeOK, CertsKnown, [Next]_vars PROVE CertsKnown'
    OBVIOUS
  <2>1. ASSUME NEW c \in Tls, NEW left \in ExpiryTimes, NEW chainOk \in BOOLEAN,
               HandleCertResult(c, left, chainOk)
        PROVE  CertsKnown'
    <3>1. ~NoCertData(left, chainOk)
      BY CertConfig, WholeDaysLeft DEF NoDayZero, NoCertData
    <3>2. /\ certStates' = [certStates EXCEPT ![NameOf[c]] = CertSeverity(left)]
          /\ certLevel' = [certLevel EXCEPT ![NameOf[c]] = CertSeverity(left)]
      BY <2>1, <3>1 DEF HandleCertResult
    <3> QED BY <3>2 DEF CertsKnown, TypeOK
  <2>2. CASE UNCHANGED <<certStates, certLevel>> BY <2>2 DEF CertsKnown
  <2>3. \/ \E c \in Tls, left \in ExpiryTimes, chainOk \in BOOLEAN :
              HandleCertResult(c, left, chainOk)
        \/ UNCHANGED <<certStates, certLevel>>
    BY DEF Next, Handle, HandleResult, HandleInfraError, HandleFirst, HandleSuccess,
           HandleFailure, HandleBudgetViolation, HandleNoCert, Acquire, SenderStep,
           SendSucceeds, SendFails, Resend, ResendReturns, Tick, vars, manager, history
  <2> QED BY <2>1, <2>2, <2>3
<1>3. CertsKnown => CriticalCertRaised BY DEF CertsKnown, CriticalCertRaised
<1>4. NoDayZero => []NoDayZero
  <2>1. NoDayZero => NoDayZero' BY DEF NoDayZero
  <2> QED BY <2>1, PTL
<1> QED BY <1>1, <1>2, <1>3, <1>4, TypeCorrect, PTL DEF Spec
=============================================================================
