-------------------------- MODULE SchedulerProofs --------------------------
(***************************************************************************)
(* Proofs about Scheduler for any finite set of checks, any retry policy   *)
(* and any channel capacity.                                               *)
(***************************************************************************)
EXTENDS Scheduler, FiniteSetTheorems, SequenceTheorems, TLAPS

(* Start has visited no check twice and has launched nothing it has not    *)
(* visited, and the closer exists only once all goroutines are counted     *)
(* (scheduler.go 65-105): what the WaitGroup argument rests on.            *)
StartInOrder ==
    /\ phase = "loops" =>
         /\ \A c \in todo : pc[<<"loop", c>>] = "none"
         /\ \A c \in Checks : pc[<<"initial", c>>] = "none"
    /\ phase = "initial" => \A c \in todo : pc[<<"initial", c>>] = "none"
    /\ closer # "none" => phase = "started"

(* The retry state of a goroutine (scheduler.go 201-237): the attempts     *)
(* never exceed the policy, a backoff has an attempt left, and a failure   *)
(* about to be published has none left unless shutdown cut it short.       *)
RetryDiscipline ==
    \A p \in Procs :
        /\ attempt[p] <= RetryCount[CheckOf(p)]
        /\ pc[p] = "backoff" => attempt[p] < RetryCount[CheckOf(p)]
        /\ pc[p] \in {"record", "send"} /\ outcome[p] = "fail" =>
              attempt[p] = RetryCount[CheckOf(p)] \/ ctxDone

(* The inductive invariant behind the safe close of the channel. *)
CloseInv == /\ WgCountsLive
            /\ ClosedMeansIdle
            /\ NoSendOnClosed
            /\ StartInOrder

-----------------------------------------------------------------------------

(* The goroutines of a finite set of checks are finitely many. *)
LEMMA ProcsFinite == IsFiniteSet(Procs)
<1>1. IsFiniteSet({"loop", "initial"})
  <2>1. IsFiniteSet({"loop"}) BY FS_Singleton
  <2>2. IsFiniteSet({"loop"} \cup {"initial"}) BY <2>1, FS_AddElement
  <2> QED BY <2>2
<1> QED BY <1>1, ChecksFinite, FS_Product DEF Procs

(* Starting a goroutine adds one to the number of live goroutines. *)
LEMMA LiveStart ==
    ASSUME TypeOK, NEW p \in Procs, NEW v \in PCs \ {"none", "done"},
           pc[p] = "none", pc' = [pc EXCEPT ![p] = v]
    PROVE  Cardinality(Live') = Cardinality(Live) + 1
<1>1. IsFiniteSet(Live) BY ProcsFinite, FS_Subset DEF Live
<1>2. Live' = Live \cup {p} BY DEF Live, TypeOK
<1>3. p \notin Live BY DEF Live
<1> QED BY <1>1, <1>2, <1>3, FS_AddElement

(* The return of a live goroutine takes one away. *)
LEMMA LiveExit ==
    ASSUME TypeOK, NEW p \in Procs, p \in Live, pc' = [pc EXCEPT ![p] = "done"]
    PROVE  Cardinality(Live') = Cardinality(Live) - 1
<1>1. IsFiniteSet(Live) BY ProcsFinite, FS_Subset DEF Live
<1>2. Live' = Live \ {p} BY DEF Live, TypeOK
<1> QED BY <1>1, <1>2, FS_RemoveElement

(* A step of a live goroutine that does not return keeps it live. *)
LEMMA LiveKeep ==
    ASSUME TypeOK, NEW p \in Procs, p \in Live,
           NEW v \in PCs \ {"none", "done"}, pc' = [pc EXCEPT ![p] = v]
    PROVE  Live' = Live
BY DEF Live, TypeOK

LEMMA NoneLive ==
    ASSUME TypeOK, Cardinality(Live) = 0
    PROVE  Live = {}
<1>1. IsFiniteSet(Live) BY ProcsFinite, FS_Subset DEF Live
<1> QED BY <1>1, FS_EmptySet

-----------------------------------------------------------------------------

(* The variables hold values of their types, and the results channel never *)
(* holds more than its capacity.                                           *)
THEOREM TypeCorrect == Spec => []TypeOK
<1>1. Init => TypeOK
  <2> SUFFICES ASSUME Init PROVE TypeOK
    OBVIOUS
  <2>1. results \in Seq(Results) /\ Len(results) <= ResultsCap
    BY CapPositive DEF Init
  <2>2. \A p \in Procs : pc[p] \notin {"backoff", "record", "send"}
    BY DEF Init
  <2>3. wg \in Int BY DEF Init
  <2>4. /\ pc \in [Procs -> PCs]
        /\ attempt \in [Procs -> Nat]
        /\ outcome \in [Procs -> Outcomes \cup {"none"}]
    BY DEF Init, PCs
  <2> QED BY <2>1, <2>2, <2>3, <2>4 DEF Init, TypeOK
<1>2. TypeOK /\ [Next]_vars => TypeOK'
  <2> SUFFICES ASSUME TypeOK, [Next]_vars PROVE TypeOK'
    OBVIOUS
  <2> USE DEF TypeOK, starting, channel, observed
  <2>1. ASSUME NEW c \in Checks, StartLoop(c) PROVE TypeOK'
    <3>1. <<"loop", c>> \in Procs BY DEF Procs
    <3>2. pc' \in [Procs -> PCs]
      BY <2>1, <3>1 DEF StartLoop, PCs
    <3>4. wg' \in Int
      BY <2>1 DEF StartLoop
    <3>3. \A p \in Procs : pc'[p] \in {"backoff", "record", "send"} =>
                             pc'[p] = pc[p]
      BY <2>1, <3>1 DEF StartLoop
    <3> QED BY <2>1, <3>2, <3>3, <3>4 DEF StartLoop
  <2>2. ASSUME NEW c \in Checks, RunInitial(c) PROVE TypeOK'
    <3>1. <<"initial", c>> \in Procs BY DEF Procs
    <3>2. pc' \in [Procs -> PCs]
      BY <2>2, <3>1 DEF RunInitial, FirstStop, PCs
    <3>4. wg' \in Int
      BY <2>2 DEF RunInitial
    <3>3. \A p \in Procs : pc'[p] \in {"backoff", "record", "send"} =>
                             pc'[p] = pc[p]
      BY <2>2, <3>1 DEF RunInitial, FirstStop
    <3> QED BY <2>2, <3>2, <3>3, <3>4 DEF RunInitial
  <2>3. CASE BeginInitial BY <2>3 DEF BeginInitial
  <2>4. CASE StartCloser BY <2>4 DEF StartCloser
  <2>5. ASSUME NEW p \in Procs, Step(p) PROVE TypeOK'
    <3>0. CheckOf(p) \in Checks /\ p[1] \in {"loop", "initial"}
          /\ p = <<p[1], CheckOf(p)>>
      BY DEF Procs, CheckOf
    <3>1. CASE p[1] = "loop" /\ TickFails(CheckOf(p))
      <4>1. pc' \in [Procs -> PCs] BY <3>0, <3>1 DEF TickFails, Exit, PCs
      <4>2. wg' \in Int BY <3>1 DEF TickFails, Exit
      <4> QED BY <3>0, <3>1, <4>1, <4>2 DEF TickFails, Exit
    <3>2. CASE p[1] = "loop" /\ TimerFires(CheckOf(p))
      BY <3>0, <3>2 DEF TimerFires, FirstStop, PCs
    <3>3. CASE StaggerElapses(p) BY <3>3 DEF StaggerElapses, PCs
    <3>4. CASE CancelledWhileWaiting(p)
      BY <3>4 DEF CancelledWhileWaiting, Exit, PCs
    <3>5. ASSUME NEW o \in OutcomesOf(CheckOf(p)), RunReturns(p, o) PROVE TypeOK'
      BY <3>5 DEF RunReturns, OutcomesOf, PCs
    <3>6. CASE BackoffElapses(p) BY <3>6 DEF BackoffElapses, PCs
    <3>7. CASE CancelledInBackoff(p) BY <3>7 DEF CancelledInBackoff, PCs
    <3>8. CASE RecordMetrics(p)
      BY <3>0, <3>8 DEF RecordMetrics, PCs
    <3>9. CASE Send(p)
      <4>1. pc' \in [Procs -> PCs]
        BY <3>9 DEF Send, AfterExecute, Exit, PCs
      <4>5. wg' \in Int
        BY <3>9 DEF Send, AfterExecute, Exit
      <4>6. /\ attempt' \in [Procs -> Nat]
            /\ outcome' \in [Procs -> Outcomes \cup {"none"}]
        BY <3>9 DEF Send, AfterExecute, Forget
      <4>7. offered' \in [Checks -> Outcomes \cup {"none"}]
        BY <3>0, <3>9 DEF Send
      <4>8. panicked' \in BOOLEAN
        BY <3>9 DEF Send
      <4>2. ResultOf(p) \in Results
        BY <3>0, <3>9 DEF ResultOf, Results, Send
      <4>3. results' \in Seq(Results) /\ Len(results') <= ResultsCap
        <5>1. results' = results \/ /\ results' = Append(results, ResultOf(p))
                                    /\ Len(results) < ResultsCap
          BY <3>9 DEF Send
        <5>2. results \in Seq(Results) /\ Len(results) \in Nat OBVIOUS
        <5>3. CASE results' = Append(results, ResultOf(p)) /\ Len(results) < ResultsCap
          <6>1. results' \in Seq(Results) /\ Len(results') = Len(results) + 1
            BY <4>2, <5>2, <5>3, AppendProperties
          <6> QED BY <5>2, <5>3, <6>1, CapPositive
        <5> QED BY <5>1, <5>3
      <4>4. \A q \in Procs : pc'[q] \in {"backoff", "record", "send"} =>
                               outcome'[q] \in Outcomes
        BY <3>9 DEF Send, AfterExecute, Forget, Exit
      <4> QED BY <3>9, <4>1, <4>3, <4>4, <4>5, <4>6, <4>7, <4>8 DEF Send
    <3> QED BY <2>5, <3>1, <3>2, <3>3, <3>4, <3>5, <3>6, <3>7, <3>8, <3>9 DEF Step
  <2>6. CASE Cancel BY <2>6 DEF Cancel
  <2>7. CASE Closing BY <2>7 DEF Closing, CloserSeesCancel, CloseResults
  <2>8. CASE Draining
    <3>1. CASE DrainTakes
      <4>1. results' \in Seq(Results) /\ Len(results') <= ResultsCap
        BY <3>1, CapPositive DEF DrainTakes
      <4> QED BY <3>1, <4>1 DEF DrainTakes
    <3>2. CASE DrainStarts \/ DrainEnds
      BY <3>2 DEF DrainStarts, DrainEnds
    <3> QED BY <2>8, <3>1, <3>2 DEF Draining
  <2>9. CASE UNCHANGED vars BY <2>9 DEF vars
  <2> QED BY <2>1, <2>2, <2>3, <2>4, <2>5, <2>6, <2>7, <2>8, <2>9
          DEF Next, Starting, Terminated
<1> QED BY <1>1, <1>2, PTL DEF Spec

-----------------------------------------------------------------------------

(* A step of a goroutine of a check preserves CloseInv: the channel is     *)
(* still open when it sends, and it leaves the WaitGroup when it returns.  *)
LEMMA StepKeepsCloseInv ==
    ASSUME TypeOK, CloseInv, NEW p \in Procs, Step(p)
    PROVE  CloseInv'
<1>0. CheckOf(p) \in Checks /\ p[1] \in {"loop", "initial"}
      /\ p = <<p[1], CheckOf(p)>>
  BY DEF Procs, CheckOf
<1>1. p \in Live
  <2>1. pc[p] \notin {"none", "done"}
    BY <1>0 DEF Step, TickFails, TimerFires, StaggerElapses,
       CancelledWhileWaiting, RunReturns, BackoffElapses, CancelledInBackoff,
       RecordMetrics, Send
  <2> QED BY <2>1 DEF Live
<1>2. ~Closed
  BY <1>1 DEF CloseInv, ClosedMeansIdle
<1>3. UNCHANGED <<phase, todo, closer, panicked>>
  BY <1>2 DEF Step, TickFails, TimerFires, StaggerElapses,
     CancelledWhileWaiting, RunReturns, BackoffElapses, CancelledInBackoff,
     RecordMetrics, Send, starting, channel
<1>4. \/ pc' = [pc EXCEPT ![p] = "done"] /\ wg' = wg - 1
      \/ \E v \in PCs \ {"none", "done"} :
            pc' = [pc EXCEPT ![p] = v] /\ wg' = wg
  <2>1. CASE p[1] = "loop" /\ TickFails(CheckOf(p))
    BY <1>0, <2>1 DEF TickFails, Exit
  <2>2. CASE p[1] = "loop" /\ TimerFires(CheckOf(p))
    BY <1>0, <2>2 DEF TimerFires, FirstStop, PCs
  <2>3. CASE StaggerElapses(p) BY <2>3 DEF StaggerElapses, PCs
  <2>4. CASE CancelledWhileWaiting(p)
    BY <2>4 DEF CancelledWhileWaiting, Exit
  <2>5. ASSUME NEW o \in OutcomesOf(CheckOf(p)), RunReturns(p, o)
        PROVE  \E v \in PCs \ {"none", "done"} :
                  pc' = [pc EXCEPT ![p] = v] /\ wg' = wg
    BY <2>5 DEF RunReturns, PCs
  <2>6. CASE BackoffElapses(p) BY <2>6 DEF BackoffElapses, PCs
  <2>7. CASE CancelledInBackoff(p) BY <2>7 DEF CancelledInBackoff, PCs
  <2>8. CASE RecordMetrics(p) BY <2>8 DEF RecordMetrics, PCs
  <2>9. CASE Send(p) BY <2>9 DEF Send, AfterExecute, Exit, PCs
  <2> QED BY <2>1, <2>2, <2>3, <2>4, <2>5, <2>6, <2>7, <2>8, <2>9 DEF Step
<1>5. WgCountsLive'
  <2>1. CASE pc' = [pc EXCEPT ![p] = "done"] /\ wg' = wg - 1
    BY <1>1, <2>1, LiveExit DEF CloseInv, WgCountsLive
  <2>2. ASSUME NEW v \in PCs \ {"none", "done"},
               pc' = [pc EXCEPT ![p] = v] /\ wg' = wg
        PROVE  WgCountsLive'
    BY <1>1, <2>2, LiveKeep DEF CloseInv, WgCountsLive
  <2> QED BY <1>4, <2>1, <2>2
<1>6. ClosedMeansIdle' /\ NoSendOnClosed'
  BY <1>2, <1>3 DEF CloseInv, ClosedMeansIdle, NoSendOnClosed, Closed
<1>7. StartInOrder'
  <2>1. \A q \in Procs : q # p => pc'[q] = pc[q]
    BY <1>4 DEF TypeOK
  <2>2. pc[p] # "none" BY <1>1 DEF Live
  <2>3. \A q \in Procs : pc[q] = "none" => pc'[q] = "none"
    BY <2>1, <2>2
  <2>4. \A c \in Checks : <<"loop", c>> \in Procs /\ <<"initial", c>> \in Procs
    BY DEF Procs
  <2> QED BY <1>3, <2>3, <2>4 DEF CloseInv, StartInOrder, TypeOK
<1> QED BY <1>5, <1>6, <1>7 DEF CloseInv

(* Launching a goroutine happens before the closer exists and adds exactly *)
(* one to the WaitGroup.                                                   *)
LEMMA StartKeepsCloseInv ==
    ASSUME TypeOK, CloseInv, Starting
    PROVE  CloseInv'
<1> USE DEF CloseInv, starting, channel, observed
<1>0. \A c \in Checks : <<"loop", c>> \in Procs /\ <<"initial", c>> \in Procs
  BY DEF Procs
<1>1. ASSUME NEW c \in Checks, StartLoop(c) PROVE CloseInv'
  <2>1. pc[<<"loop", c>>] = "none" BY <1>1 DEF StartLoop, StartInOrder
  <2>2. WgCountsLive'
    <3>1. CASE c \in Registered /\ c \in Valid
      <4>1. wg' = wg + 1 /\ pc' = [pc EXCEPT ![<<"loop", c>>] = "tick"]
        BY <1>1, <3>1 DEF StartLoop
      <4>2. "tick" \in PCs \ {"none", "done"} BY DEF PCs
      <4>3. Cardinality(Live') = Cardinality(Live) + 1
        BY <1>0, <2>1, <4>1, <4>2, LiveStart
      <4> QED BY <4>1, <4>3 DEF WgCountsLive
    <3>2. CASE ~(c \in Registered /\ c \in Valid)
      BY <1>1, <3>2 DEF StartLoop, WgCountsLive, Live
    <3> QED BY <3>1, <3>2
  <2>3. StartInOrder'
    BY <1>0, <1>1 DEF StartLoop, StartInOrder, TypeOK
  <2>4. ClosedMeansIdle' /\ NoSendOnClosed'
    BY <1>1 DEF StartLoop, StartInOrder, ClosedMeansIdle, NoSendOnClosed, Closed
  <2> QED BY <2>2, <2>3, <2>4
<1>2. ASSUME NEW c \in Checks, RunInitial(c) PROVE CloseInv'
  <2>1. pc[<<"initial", c>>] = "none" BY <1>2 DEF RunInitial, StartInOrder
  <2>2. WgCountsLive'
    <3>1. CASE c \in Registered
      <4>1. wg' = wg + 1 /\ pc' = [pc EXCEPT ![<<"initial", c>>] = FirstStop(c)]
        BY <1>2, <3>1 DEF RunInitial
      <4>2. FirstStop(c) \in PCs \ {"none", "done"} BY DEF PCs, FirstStop
      <4>3. Cardinality(Live') = Cardinality(Live) + 1
        BY <1>0, <2>1, <4>1, <4>2, LiveStart
      <4> QED BY <4>1, <4>3 DEF WgCountsLive
    <3>2. CASE c \notin Registered
      BY <1>2, <3>2 DEF RunInitial, WgCountsLive, Live
    <3> QED BY <3>1, <3>2
  <2>3. StartInOrder'
    BY <1>0, <1>2 DEF RunInitial, StartInOrder, TypeOK
  <2>4. ClosedMeansIdle' /\ NoSendOnClosed'
    BY <1>2 DEF RunInitial, StartInOrder, ClosedMeansIdle, NoSendOnClosed, Closed
  <2> QED BY <2>2, <2>3, <2>4
<1>3. CASE BeginInitial
  BY <1>3 DEF BeginInitial, StartInOrder, WgCountsLive, Live, ClosedMeansIdle,
     NoSendOnClosed, Closed
<1>4. CASE StartCloser
  BY <1>4 DEF StartCloser, StartInOrder, WgCountsLive, Live, ClosedMeansIdle,
     NoSendOnClosed, Closed
<1> QED BY <1>1, <1>2, <1>3, <1>4 DEF Starting

LEMMA CloseInvariant == Spec => []CloseInv
<1>1. Init => CloseInv
  <2> SUFFICES ASSUME Init PROVE CloseInv
    OBVIOUS
  <2>1. Live = {} BY DEF Init, Live
  <2>2. wg = Cardinality(Live) BY <2>1, FS_EmptySet DEF Init
  <2>3. StartInOrder BY DEF Init, StartInOrder, Procs
  <2> QED BY <2>2, <2>3 DEF Init, CloseInv, WgCountsLive, ClosedMeansIdle,
             NoSendOnClosed, Closed
<1>2. TypeOK /\ CloseInv /\ [Next]_vars => CloseInv'
  <2> SUFFICES ASSUME TypeOK, CloseInv, [Next]_vars PROVE CloseInv'
    OBVIOUS
  <2> USE DEF starting, channel, observed
  <2>1. CASE Starting BY <2>1, StartKeepsCloseInv
  <2>2. ASSUME NEW p \in Procs, Step(p) PROVE CloseInv'
    BY <2>2, StepKeepsCloseInv
  <2>3. CASE Cancel
    BY <2>3 DEF Cancel, CloseInv, StartInOrder, WgCountsLive, Live,
       ClosedMeansIdle, NoSendOnClosed, Closed
  <2>4. CASE CloserSeesCancel
    BY <2>4 DEF CloserSeesCancel, CloseInv, StartInOrder, WgCountsLive, Live,
       ClosedMeansIdle, NoSendOnClosed, Closed
  <2>5. CASE CloseResults
    <3>1. Live = {} BY <2>5, NoneLive DEF CloseResults, CloseInv, WgCountsLive
    <3> QED BY <2>5, <3>1 DEF CloseResults, CloseInv, StartInOrder, WgCountsLive,
               Live, ClosedMeansIdle, NoSendOnClosed, Closed
  <2>6. CASE Draining
    <3>1. UNCHANGED <<phase, todo, pc, wg, closer, panicked>>
      BY <2>6 DEF Draining, DrainStarts, DrainTakes, DrainEnds
    <3> QED BY <3>1 DEF CloseInv, StartInOrder, WgCountsLive, Live,
               ClosedMeansIdle, NoSendOnClosed, Closed
  <2>7. CASE UNCHANGED vars
    BY <2>7 DEF vars, CloseInv, StartInOrder, WgCountsLive, Live,
       ClosedMeansIdle, NoSendOnClosed, Closed
  <2> QED BY <2>1, <2>2, <2>3, <2>4, <2>5, <2>6, <2>7
          DEF Next, Closing, Terminated
<1> QED BY <1>1, <1>2, TypeCorrect, PTL DEF Spec

(* The closing protocol is safe: the WaitGroup counts exactly the live     *)
(* goroutines, the channel is closed only when none is left, and so no     *)
(* goroutine ever sends on the closed channel.                             *)
THEOREM CloseIsSafe ==
    Spec => [](WgCountsLive /\ ClosedMeansIdle /\ NoSendOnClosed)
<1>1. CloseInv => WgCountsLive /\ ClosedMeansIdle /\ NoSendOnClosed
  BY DEF CloseInv
<1> QED BY <1>1, CloseInvariant, PTL

(* In particular wg.Wait returns exactly when every goroutine has ended,   *)
(* and the counter never goes negative.                                    *)
COROLLARY WgExact == Spec => []WgCountsLive
BY CloseIsSafe, PTL

-----------------------------------------------------------------------------

(* Each step of a goroutine keeps its retry state within the policy, and   *)
(* what it queues is either a success or a failure without retries left.   *)
LEMMA StepKeepsRetryDiscipline ==
    ASSUME TypeOK, RetryDiscipline, NEW p \in Procs, Step(p)
    PROVE  RetryDiscipline'
<1>0. CheckOf(p) \in Checks /\ p = <<p[1], CheckOf(p)>>
  BY DEF Procs, CheckOf
<1>1. RetryCount[CheckOf(p)] \in Nat BY <1>0, RetryNat
<1> USE DEF RetryDiscipline, TypeOK
<1>2. UNCHANGED ctxDone
  BY DEF Step, TickFails, TimerFires, StaggerElapses,
     CancelledWhileWaiting, RunReturns, BackoffElapses, CancelledInBackoff,
     RecordMetrics, Send
<1>3. CASE p[1] = "loop" /\ TickFails(CheckOf(p))
  BY <1>0, <1>2, <1>3 DEF TickFails, Exit
<1>4. CASE p[1] = "loop" /\ TimerFires(CheckOf(p))
  BY <1>0, <1>2, <1>4 DEF TimerFires, FirstStop
<1>5. CASE StaggerElapses(p) BY <1>2, <1>5 DEF StaggerElapses
<1>6. CASE CancelledWhileWaiting(p)
  BY <1>2, <1>6 DEF CancelledWhileWaiting, Exit
<1>7. ASSUME NEW o \in OutcomesOf(CheckOf(p)), RunReturns(p, o)
      PROVE  RetryDiscipline'
  BY <1>1, <1>2, <1>7 DEF RunReturns
<1>8. CASE BackoffElapses(p) BY <1>1, <1>2, <1>8 DEF BackoffElapses
<1>9. CASE CancelledInBackoff(p) BY <1>2, <1>9 DEF CancelledInBackoff
<1>10. CASE RecordMetrics(p) BY <1>2, <1>10 DEF RecordMetrics
<1>11. CASE Send(p)
  BY <1>1, <1>2, <1>11 DEF Send, AfterExecute, Forget, Exit
<1> QED BY <1>3, <1>4, <1>5, <1>6, <1>7, <1>8, <1>9, <1>10, <1>11 DEF Step

(* A failure reaches the consumer only with its retries used up, unless    *)
(* the worker is shutting down.                                            *)
THEOREM FailuresAreFinal == Spec => []FailureExhaustsRetries
<1> DEFINE Inv == RetryDiscipline /\ FailureExhaustsRetries
<1>1. Init => Inv
  <2> SUFFICES ASSUME Init PROVE Inv
    OBVIOUS
  <2>1. RetryDiscipline
    <3>1. \A p \in Procs : RetryCount[CheckOf(p)] \in Nat
      BY RetryNat DEF Procs, CheckOf
    <3> QED BY <3>1 DEF Init, RetryDiscipline
  <2>2. FailureExhaustsRetries BY DEF Init, FailureExhaustsRetries
  <2> QED BY <2>1, <2>2
<1>2. TypeOK /\ Inv /\ [Next]_vars => Inv'
  <2> SUFFICES ASSUME TypeOK, Inv, [Next]_vars PROVE Inv'
    OBVIOUS
  <2> USE DEF starting, channel, observed
  <2>1. ASSUME NEW p \in Procs, Step(p) PROVE Inv'
    <3>1. RetryDiscipline' BY <2>1, StepKeepsRetryDiscipline
    <3>2. CASE results' = results
      <4>1. ctxDone' = ctxDone
        BY <2>1 DEF Step, TickFails, TimerFires, StaggerElapses,
           CancelledWhileWaiting, RunReturns, BackoffElapses,
           CancelledInBackoff, RecordMetrics, Send
      <4> QED BY <3>1, <3>2, <4>1 DEF FailureExhaustsRetries
    <3>3. CASE results' # results
      <4>1. Send(p)
        BY <2>1, <3>3 DEF Step, TickFails, TimerFires, StaggerElapses,
           CancelledWhileWaiting, RunReturns, BackoffElapses,
           CancelledInBackoff, RecordMetrics
      <4>2. results' = Append(results, ResultOf(p)) /\ ctxDone' = ctxDone
        BY <3>3, <4>1 DEF Send
      <4>3. outcome[p] = "fail" =>
               attempt[p] = RetryCount[CheckOf(p)] \/ ctxDone
        BY <4>1 DEF Send, RetryDiscipline
      <4>4. ResultOf(p).outcome = "fail" =>
               ResultOf(p).retries = RetryCount[ResultOf(p).check] \/ ctxDone
        BY <4>3 DEF ResultOf
      <4>5. \A i \in 1 .. Len(results') :
               results'[i] = ResultOf(p)
               \/ (i \in 1 .. Len(results) /\ results'[i] = results[i])
        BY <4>2 DEF TypeOK
      <4>6. FailureExhaustsRetries'
        BY <4>2, <4>4, <4>5 DEF FailureExhaustsRetries
      <4> QED BY <3>1, <4>6
    <3> QED BY <3>2, <3>3
  <2>2. CASE Starting
    <3>1. RetryDiscipline'
      <4>1. UNCHANGED <<attempt, outcome, ctxDone>>
        BY <2>2 DEF Starting, StartLoop, RunInitial, BeginInitial, StartCloser
      <4>2. \A p \in Procs : pc'[p] \in {"backoff", "record", "send"} =>
                               pc'[p] = pc[p]
        BY <2>2 DEF Starting, StartLoop, RunInitial, BeginInitial, StartCloser,
           FirstStop, TypeOK
      <4> QED BY <4>1, <4>2 DEF RetryDiscipline
    <3>2. UNCHANGED <<results, ctxDone>>
      BY <2>2 DEF Starting, StartLoop, RunInitial, BeginInitial, StartCloser
    <3> QED BY <3>1, <3>2 DEF FailureExhaustsRetries
  <2>3. CASE Cancel
    BY <2>3 DEF Cancel, RetryDiscipline, FailureExhaustsRetries
  <2>4. CASE Closing
    BY <2>4 DEF Closing, CloserSeesCancel, CloseResults, RetryDiscipline,
       FailureExhaustsRetries
  <2>5. CASE Draining
    <3>1. UNCHANGED <<pc, attempt, outcome, ctxDone>>
      BY <2>5 DEF Draining, DrainStarts, DrainTakes, DrainEnds
    <3>2. RetryDiscipline' BY <3>1 DEF RetryDiscipline
    <3>3. CASE results' = results
      BY <3>1, <3>2, <3>3 DEF FailureExhaustsRetries
    <3>4. CASE DrainTakes
      <4>1. \A i \in 1 .. Len(results') :
               i + 1 \in 1 .. Len(results) /\ results'[i] = results[i + 1]
        BY <3>4 DEF DrainTakes, TypeOK
      <4> QED BY <3>1, <3>2, <4>1 DEF FailureExhaustsRetries
    <3> QED BY <2>5, <3>3, <3>4 DEF Draining, DrainStarts, DrainEnds
  <2>6. CASE UNCHANGED vars
    BY <2>6 DEF vars, RetryDiscipline, FailureExhaustsRetries
  <2> QED BY <2>1, <2>2, <2>3, <2>4, <2>5, <2>6 DEF Next, Terminated
<1> QED BY <1>1, <1>2, TypeCorrect, PTL DEF Spec

-----------------------------------------------------------------------------
(* The scheduler as a stream of results. *)

LEMMA OfferersTyped ==
    ASSUME TypeOK
    PROVE  /\ Offerers \in Seq(Procs) /\ Len(Offerers) = Len(results)
           /\ Len(results) \in Nat
<1>1. Len(results) \in Nat /\ results \in Seq(Results) BY DEF TypeOK
<1>2. \A x \in Results : <<x.by, x.check>> \in Procs BY DEF Results, Procs
<1>3. \A i \in 1 .. Len(results) : results[i] \in Results BY <1>1
<1>4. \A i \in 1 .. Len(results) : <<results[i].by, results[i].check>> \in Procs
  BY <1>2, <1>3
<1> QED BY <1>1, <1>4 DEF Offerers

(* A result that is queued joins the goroutines in the channel as the      *)
(* last of them.                                                           *)
LEMMA OfferersAppend ==
    ASSUME TypeOK, NEW p \in Procs, ResultOf(p) \in Results,
           results' = Append(results, ResultOf(p))
    PROVE  Offerers' = Append(Offerers, p)
<1>1. Len(results) \in Nat /\ results \in Seq(Results) BY DEF TypeOK
<1>2. /\ Len(results') = Len(results) + 1 /\ results'[Len(results) + 1] = ResultOf(p)
      /\ \A i \in 1 .. Len(results) : results'[i] = results[i]
  BY <1>1, AppendProperties
<1>3. <<ResultOf(p).by, ResultOf(p).check>> = p BY DEF ResultOf, CheckOf, Procs
<1>4. Offerers \in Seq(Procs) /\ Len(Offerers) = Len(results) BY OfferersTyped
<1>5. /\ Append(Offerers, p) \in Seq(Procs) /\ Len(Append(Offerers, p)) = Len(results) + 1
      /\ \A i \in 1 .. Len(results) : Append(Offerers, p)[i] = Offerers[i]
      /\ Append(Offerers, p)[Len(results) + 1] = p
  BY <1>4, AppendProperties
<1>6. /\ Offerers' = [i \in 1 .. Len(results) + 1 |-> <<results'[i].by, results'[i].check>>]
  BY <1>2 DEF Offerers
<1>7. \A i \in 1 .. Len(results) + 1 : Offerers'[i] = Append(Offerers, p)[i]
  <2> SUFFICES ASSUME NEW i \in 1 .. Len(results) + 1
               PROVE  Offerers'[i] = Append(Offerers, p)[i]
    OBVIOUS
  <2>1. CASE i = Len(results) + 1 BY <1>2, <1>3, <1>5, <1>6, <2>1
  <2>2. CASE i \in 1 .. Len(results)
    <3>1. Offerers[i] = <<results[i].by, results[i].check>> BY <2>2 DEF Offerers
    <3>2. Offerers'[i] = <<results'[i].by, results'[i].check>> BY <1>6
    <3>3. results'[i] = results[i] BY <1>2, <2>2
    <3> QED BY <1>5, <2>2, <3>1, <3>2, <3>3
  <2>3. i = Len(results) + 1 \/ i \in 1 .. Len(results) BY <1>1
  <2> QED BY <2>1, <2>2, <2>3
<1>8. Offerers' \in Seq(Procs) /\ Len(Offerers') = Len(results) + 1
  <2>1. \A i \in 1 .. Len(results) + 1 : Append(Offerers, p)[i] \in Procs BY <1>5
  <2>2. \A i \in 1 .. Len(results) + 1 : <<results'[i].by, results'[i].check>> \in Procs
    BY <1>6, <1>7, <2>1
  <2> QED BY <1>1, <1>6, <2>2
<1> QED BY <1>5, <1>7, <1>8, SeqEqual

LEMMA OfferersTail ==
    ASSUME TypeOK, results # <<>>, results' = Tail(results)
    PROVE  Offerers # <<>> /\ Offerers' = Tail(Offerers)
<1>1. Len(results) \in Nat \ {0} /\ results \in Seq(Results)
  BY EmptySeq DEF TypeOK
<1>2. /\ results' \in Seq(Results) /\ Len(results') = Len(results) - 1
      /\ \A i \in 1 .. Len(results) - 1 : results'[i] = results[i + 1]
  BY <1>1, HeadTailProperties
<1>3. Offerers \in Seq(Procs) /\ Len(Offerers) = Len(results) BY OfferersTyped
<1>4. Offerers # <<>> BY <1>1, <1>3
<1>5. /\ Tail(Offerers) \in Seq(Procs) /\ Len(Tail(Offerers)) = Len(results) - 1
      /\ \A i \in 1 .. Len(results) - 1 : Tail(Offerers)[i] = Offerers[i + 1]
  BY <1>3, <1>4, HeadTailProperties
<1>6. Offerers' = [i \in 1 .. Len(results) - 1 |-> <<results'[i].by, results'[i].check>>]
  BY <1>2 DEF Offerers
<1>7. \A i \in 1 .. Len(results) - 1 : Offerers'[i] = Tail(Offerers)[i]
  <2> SUFFICES ASSUME NEW i \in 1 .. Len(results) - 1
               PROVE  Offerers'[i] = Tail(Offerers)[i]
    OBVIOUS
  <2>1. i + 1 \in 1 .. Len(results) BY <1>1
  <2>2. Offerers[i + 1] = <<results[i + 1].by, results[i + 1].check>> BY <2>1 DEF Offerers
  <2> QED BY <1>2, <1>5, <1>6, <2>2
<1>8. Offerers' \in Seq(Procs) /\ Len(Offerers') = Len(results) - 1
  <2>1. \A i \in 1 .. Len(results) - 1 : Offerers'[i] \in Procs BY <1>5, <1>7
  <2>2. Len(results) - 1 \in Nat BY <1>1
  <2>3. \A i \in 1 .. Len(results) - 1 : <<results'[i].by, results'[i].check>> \in Procs
    BY <1>6, <2>1
  <2> QED BY <1>6, <2>2, <2>3
<1> QED BY <1>4, <1>5, <1>7, <1>8, SeqEqual

(* The steps the reader of the channel does not see. *)
LEMMA Unseen ==
    ASSUME Live' = Live, Closed' = Closed, UNCHANGED <<results, drain>>
    PROVE  UNCHANGED Stream!vars
BY DEF Stream!vars, Offerers

(* A goroutine starts before the closer exists. *)
LEMMA LaunchStreams ==
    ASSUME TypeOK, CloseInv, NEW p \in Procs, NEW v \in PCs \ {"none", "done"},
           pc[p] = "none", pc' = [pc EXCEPT ![p] = v], phase # "started",
           UNCHANGED <<closer, results, drain>>
    PROVE  [Stream!Next]_(Stream!vars)
<1>1. Live' = Live \cup {p} /\ p \notin Live BY DEF Live, TypeOK
<1>2. ~Closed /\ Closed' = Closed BY DEF CloseInv, StartInOrder, Closed
<1>3. Offerers' = Offerers BY DEF Offerers
<1>4. Stream!Begin BY <1>1, <1>2, <1>3 DEF Stream!Begin
<1> QED BY <1>4 DEF Stream!Next

(* A goroutine goes on, or returns without offering a result. *)
LEMMA QuietStreams ==
    ASSUME TypeOK, NEW p \in Procs, p \in Live, UNCHANGED <<closer, results, drain>>,
           NEW v \in PCs \ {"none"}, pc' = [pc EXCEPT ![p] = v]
    PROVE  [Stream!Next]_(Stream!vars)
<1>1. Closed' = Closed /\ Offerers' = Offerers BY DEF Closed, Offerers
<1>2. CASE v = "done"
  <2>1. Live' = Live \ {p} BY <1>2 DEF Live, TypeOK
  <2>2. Stream!End BY <1>1, <2>1 DEF Stream!End
  <2> QED BY <2>2 DEF Stream!Next
<1>3. CASE v # "done"
  <2>1. Live' = Live BY <1>3, LiveKeep
  <2> QED BY <1>1, <2>1, Unseen
<1> QED BY <1>2, <1>3

LEMMA SendStreams ==
    ASSUME TypeOK, CloseInv, NEW p \in Procs, Send(p)
    PROVE  [Stream!Next]_(Stream!vars)
<1>1. p \in Live BY DEF Send, Live
<1>2. ~Closed BY <1>1 DEF CloseInv, ClosedMeansIdle
<1>3. /\ results' = IF Len(results) < ResultsCap THEN Append(results, ResultOf(p)) ELSE results
      /\ UNCHANGED <<closer, drain>>
      /\ pc' = [pc EXCEPT ![p] = "tick"] \/ pc' = [pc EXCEPT ![p] = "done"]
  BY <1>2 DEF Send, AfterExecute, Exit
<1>4. Live' \in {Live, Live \ {p}} BY <1>1, <1>3 DEF Live, TypeOK
<1>5. Offerers' = IF Len(Offerers) < ResultsCap THEN Append(Offerers, p) ELSE Offerers
  <2>0. Len(Offerers) = Len(results) BY OfferersTyped
  <2>1. CASE Len(results) < ResultsCap
    <3>1. ResultOf(p) \in Results
      BY DEF ResultOf, Results, CheckOf, Procs, TypeOK, Send
    <3> QED BY <1>3, <2>0, <2>1, <3>1, OfferersAppend
  <2>2. CASE ~(Len(results) < ResultsCap)
    <3>1. results' = results BY <1>3, <2>2
    <3>2. Offerers' = Offerers BY <3>1 DEF Offerers
    <3> QED BY <2>0, <2>2, <3>2
  <2> QED BY <2>1, <2>2
<1>6. Closed' = Closed BY <1>3 DEF Closed
<1>7. Stream!Offer BY <1>1, <1>2, <1>3, <1>4, <1>5, <1>6 DEF Stream!Offer
<1> QED BY <1>7 DEF Stream!Next

LEMMA StreamStep ==
    ASSUME TypeOK, CloseInv, [Next]_vars
    PROVE  [Stream!Next]_(Stream!vars)
<1> USE DEF starting, channel, observed
<1>0. \A c \in Checks : <<"loop", c>> \in Procs /\ <<"initial", c>> \in Procs BY DEF Procs
<1>1. CASE Starting
  <2>1. ASSUME NEW c \in Checks, StartLoop(c) PROVE [Stream!Next]_(Stream!vars)
    <3>1. /\ phase = "loops" /\ pc[<<"loop", c>>] = "none"
          /\ UNCHANGED <<closer, results, drain>>
      BY <2>1 DEF StartLoop, CloseInv, StartInOrder
    <3>2. pc' = [pc EXCEPT ![<<"loop", c>>] = "tick"] \/ pc' = pc BY <2>1 DEF StartLoop
    <3>3. "tick" \in PCs \ {"none", "done"} BY DEF PCs
    <3>4. CASE pc' = pc BY <3>1, <3>4, Unseen DEF Live, Closed
    <3> QED BY <1>0, <3>1, <3>2, <3>3, <3>4, LaunchStreams
  <2>2. ASSUME NEW c \in Checks, RunInitial(c) PROVE [Stream!Next]_(Stream!vars)
    <3>1. /\ phase = "initial" /\ pc[<<"initial", c>>] = "none"
          /\ UNCHANGED <<closer, results, drain>>
      BY <2>2 DEF RunInitial, CloseInv, StartInOrder
    <3>2. pc' = [pc EXCEPT ![<<"initial", c>>] = FirstStop(c)] \/ pc' = pc
      BY <2>2 DEF RunInitial
    <3>3. FirstStop(c) \in PCs \ {"none", "done"} BY DEF PCs, FirstStop
    <3>4. CASE pc' = pc BY <3>1, <3>4, Unseen DEF Live, Closed
    <3> QED BY <1>0, <3>1, <3>2, <3>3, <3>4, LaunchStreams
  <2>3. CASE BeginInitial BY <2>3, Unseen DEF BeginInitial, Live, Closed
  <2>4. CASE StartCloser
    <3>1. phase = "initial" /\ closer' = "ctx" /\ UNCHANGED <<pc, results, drain>>
      BY <2>4 DEF StartCloser
    <3>2. closer = "none" BY <3>1 DEF CloseInv, StartInOrder
    <3> QED BY <3>1, <3>2, Unseen DEF Live, Closed
  <2> QED BY <1>1, <2>1, <2>2, <2>3, <2>4 DEF Starting
<1>2. ASSUME NEW p \in Procs, Step(p), ~Send(p) PROVE [Stream!Next]_(Stream!vars)
  <2>0. p = <<p[1], CheckOf(p)>> BY DEF Procs, CheckOf
  <2>1. pc[p] \notin {"none", "done"} /\ UNCHANGED <<closer, results, drain>>
    BY <1>2, <2>0 DEF Step, TickFails, TimerFires, StaggerElapses, CancelledWhileWaiting,
       RunReturns, BackoffElapses, CancelledInBackoff, RecordMetrics
  <2>2. \E v \in PCs \ {"none"} : pc' = [pc EXCEPT ![p] = v]
    BY <1>2, <2>0 DEF Step, TickFails, TimerFires, StaggerElapses, CancelledWhileWaiting,
       RunReturns, BackoffElapses, CancelledInBackoff, RecordMetrics, FirstStop, Exit, PCs
  <2>3. p \in Live BY <2>1 DEF Live
  <2> QED BY <2>1, <2>2, <2>3, QuietStreams
<1>3. ASSUME NEW p \in Procs, Send(p) PROVE [Stream!Next]_(Stream!vars)
  BY <1>3, SendStreams
<1>4. CASE Cancel BY <1>4, Unseen DEF Cancel, Live, Closed
<1>5. CASE CloserSeesCancel BY <1>5, Unseen DEF CloserSeesCancel, Live, Closed
<1>6. CASE CloseResults
  <2>1. Live = {} BY <1>6, NoneLive DEF CloseResults, CloseInv, WgCountsLive
  <2>2. ~Closed /\ Closed' /\ Live' = Live /\ Offerers' = Offerers /\ drain' = drain
    BY <1>6 DEF CloseResults, Closed, Live, Offerers
  <2>3. Stream!Close BY <2>1, <2>2 DEF Stream!Close
  <2> QED BY <2>3 DEF Stream!Next
<1>7. CASE Draining
  <2>0. Live' = Live /\ Closed' = Closed
    BY <1>7 DEF Draining, DrainStarts, DrainTakes, DrainEnds, Live, Closed
  <2>1. CASE DrainStarts
    <3>1. Stream!Attach BY <2>0, <2>1 DEF DrainStarts, Offerers, Stream!Attach
    <3> QED BY <3>1 DEF Stream!Next
  <2>2. CASE DrainTakes
    <3>1. Offerers # <<>> /\ Offerers' = Tail(Offerers)
      BY <2>2, OfferersTail DEF DrainTakes
    <3>2. Stream!Take BY <2>0, <2>2, <3>1 DEF DrainTakes, Stream!Take
    <3> QED BY <3>2 DEF Stream!Next
  <2>3. CASE DrainEnds
    <3>1. Offerers = <<>> /\ Offerers' = Offerers BY <2>3 DEF DrainEnds, Offerers
    <3>2. Stream!Leave BY <2>0, <2>3, <3>1 DEF DrainEnds, Stream!Leave
    <3> QED BY <3>2 DEF Stream!Next
  <2> QED BY <1>7, <2>1, <2>2, <2>3 DEF Draining
<1>8. CASE UNCHANGED vars BY <1>8, Unseen DEF vars, Live, Closed
<1> QED BY <1>1, <1>2, <1>3, <1>4, <1>5, <1>6, <1>7, <1>8 DEF Next, Closing, Terminated

(* The goroutines, the WaitGroup, the closer and the channel implement the *)
(* stream, for any set of checks, retry policy and capacity (scheduler.go  *)
(* 65-168): the rendezvous of the WaitGroup with the close is what makes   *)
(* Close wait for the last worker.                                         *)
THEOREM SchedulerImplementsStream == Spec => ImplementsStream
<1>1. Init => Stream!Init
  BY DEF Init, Live, Offerers, Closed, Stream!Init
<1>2. TypeOK /\ CloseInv /\ [Next]_vars => [Stream!Next]_(Stream!vars) BY StreamStep
<1> QED BY <1>1, <1>2, TypeCorrect, CloseInvariant, PTL DEF Spec, ImplementsStream, Stream!Spec
============================================================================
