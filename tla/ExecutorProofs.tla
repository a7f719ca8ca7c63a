---------------------------- MODULE ExecutorProofs ----------------------------
(***************************************************************************)
(* With fault tolerance and no timeouts, a call never returns the answers  *)
(* of another one while the executor is up, for every number of workers    *)
(* and of calls in flight, and whatever fails: the steps of the engine     *)
(* keep the invariant, and the theorems follow.                            *)
(***************************************************************************)
EXTENDS ExecutorAnswers, ExecutorResponses

-----------------------------------------------------------------------------
(* The engine *)

\* What the engine waits for, and its batches, are calls that were made.
LEMMA EngineLocalStep ==
  ASSUME Good, EngineOK', UNCHANGED <<conf, calls, drained, reading, worker>>
  PROVE  Good'
  BY LocalStep DEF Good, Types, Reliable

\* A step of the engine that keeps the batches.
LEMMA BatchesKept ==
  ASSUME EngineOK, Len(calls) \in Nat, Len(calls') \in Nat, Len(calls) <= Len(calls'),
         engine' \in EngineState, engine'.want <= Len(calls'),
         engine'.batches = engine.batches
  PROVE  EngineOK'
<1>1. ASSUME NEW k \in 1 .. Len(engine.batches)
      PROVE  engine.batches[k] \in 1 .. Len(calls')
  BY DEF EngineOK
<1> QED BY <1>1 DEF EngineOK

\* The head of the batch queue is a call, and so are the others.
LEMMA NextBatch ==
  ASSUME EngineOK, engine.batches # <<>>, Len(calls) \in Nat
  PROVE  /\ Head(engine.batches) \in 1 .. Len(calls)
         /\ Tail(engine.batches) \in Seq(Nat)
         /\ \A k \in 1 .. Len(Tail(engine.batches)) :
              Tail(engine.batches)[k] \in 1 .. Len(calls)
<1>1. engine.batches \in Seq(Nat)
  BY DEF EngineOK, EngineState
<1>2. /\ Len(engine.batches) \in Nat \ {0} /\ Head(engine.batches) = engine.batches[1]
      /\ Tail(engine.batches) \in Seq(Nat)
      /\ Len(Tail(engine.batches)) = Len(engine.batches) - 1
      /\ \A k \in 1 .. Len(Tail(engine.batches)) :
           Tail(engine.batches)[k] = engine.batches[k + 1]
  BY <1>1, HeadTailProperties, EmptySeq
<1> QED BY <1>2 DEF EngineOK

\* Steps of the engine that call nothing.
LEMMA EngineSteps ==
  ASSUME Good,
         \/ AwaitBatch \/ StepReturns \/ UtilityReturns \/ MaskReturns
         \/ CommandReturns \/ DrainBatch \/ Recovered \/ RecoveryTimeout
         \/ ProcessEnds \/ ExecutorDead
  PROVE  Good'
<1>1. EngineOK /\ Len(calls) \in Nat
  BY DEF Good, Types
<1>2. CASE AwaitBatch
  <2>1. UNCHANGED <<conf, calls, drained, reading, worker>> /\ engine.batches # <<>>
    BY <1>2 DEF AwaitBatch
  <2>2. EngineOK'
    <3> DEFINE h == Head(engine.batches)
               t == Tail(engine.batches)
    <3>1. /\ h \in 1 .. Len(calls) /\ h \in Nat /\ t \in Seq(Nat)
          /\ \A k \in 1 .. Len(t) : t[k] \in 1 .. Len(calls)
      BY <1>1, <2>1, NextBatch
    <3>2. engine' = [engine EXCEPT !.doing = "step", !.want = h, !.batches = t]
      BY <1>2 DEF AwaitBatch
    <3> HIDE DEF h, t
    <3>3. engine' \in EngineState /\ engine'.want = h /\ engine'.batches = t
      BY <1>1, <3>1, <3>2, Zenon DEF EngineOK, EngineState
    <3> QED BY <1>1, <2>1, <3>1, <3>3 DEF EngineOK
  <2> QED BY <2>1, <2>2, EngineLocalStep
<1>3. CASE DrainBatch
  <2>1. UNCHANGED <<conf, calls, drained, reading, worker>> /\ engine.batches # <<>>
    BY <1>3 DEF DrainBatch
  <2>2. EngineOK'
    <3> DEFINE h == Head(engine.batches)
               t == Tail(engine.batches)
    <3>1. /\ h \in 1 .. Len(calls) /\ h \in Nat /\ t \in Seq(Nat)
          /\ \A k \in 1 .. Len(t) : t[k] \in 1 .. Len(calls)
      BY <1>1, <2>1, NextBatch
    <3>2. engine' = [engine EXCEPT !.want = h, !.batches = t]
      BY <1>3 DEF DrainBatch
    <3> HIDE DEF h, t
    <3>3. engine' \in EngineState /\ engine'.want = h /\ engine'.batches = t
      BY <1>1, <3>1, <3>2, Zenon DEF EngineOK, EngineState
    <3> QED BY <1>1, <2>1, <3>1, <3>3 DEF EngineOK
  <2> QED BY <2>1, <2>2, EngineLocalStep
<1>4. CASE StepReturns
  <2>1. /\ UNCHANGED <<conf, calls, drained, reading, worker>> /\ engine' \in EngineState
        /\ engine'.want = 0 /\ engine'.batches = engine.batches
    BY <1>1, <1>4, Zenon DEF StepReturns, EngineOK, EngineState
  <2> QED BY <1>1, <2>1, BatchesKept, EngineLocalStep
<1>5. CASE UtilityReturns
  <2>1. /\ UNCHANGED <<conf, calls, drained, reading, worker>> /\ engine' \in EngineState
        /\ engine'.want = 0 /\ engine'.batches = engine.batches
    BY <1>1, <1>5, Zenon DEF UtilityReturns, EngineOK, EngineState
  <2> QED BY <1>1, <2>1, BatchesKept, EngineLocalStep
<1>6. CASE Recovered
  <2>1. /\ UNCHANGED <<conf, calls, drained, reading, worker>> /\ engine' \in EngineState
        /\ engine'.want = 0 /\ engine'.batches = engine.batches
    BY <1>1, <1>6, Zenon DEF Recovered, EngineOK, EngineState
  <2> QED BY <1>1, <2>1, BatchesKept, EngineLocalStep
<1>7. CASE MaskReturns
  <2>1. /\ UNCHANGED <<conf, calls, drained, reading, worker>> /\ engine' \in EngineState
        /\ engine'.want = 0 /\ engine'.batches = engine.batches
    BY <1>1, <1>7, Zenon DEF MaskReturns, EngineOK, EngineState
  <2> QED BY <1>1, <2>1, BatchesKept, EngineLocalStep
<1>8. CASE CommandReturns
  <2>1. /\ UNCHANGED <<conf, calls, drained, reading, worker>> /\ engine' \in EngineState
        /\ engine'.want = 0 /\ engine'.batches = engine.batches
    BY <1>1, <1>8, Zenon DEF CommandReturns, EngineOK, EngineState
  <2> QED BY <1>1, <2>1, BatchesKept, EngineLocalStep
<1>9. CASE RecoveryTimeout
  <2>1. /\ UNCHANGED <<conf, calls, drained, reading, worker>> /\ engine' \in EngineState
        /\ engine'.want = 0 /\ engine'.batches = engine.batches
    BY <1>1, <1>9, Zenon DEF RecoveryTimeout, EngineOK, EngineState
  <2> QED BY <1>1, <2>1, BatchesKept, EngineLocalStep
<1>10. CASE ProcessEnds
  <2>1. /\ UNCHANGED <<conf, calls, drained, reading, worker>> /\ engine' \in EngineState
        /\ engine'.want = 0 /\ engine'.batches = engine.batches
    BY <1>1, <1>10, Zenon DEF ProcessEnds, EngineOK, EngineState
  <2> QED BY <1>1, <2>1, BatchesKept, EngineLocalStep
<1>11. CASE ExecutorDead
  <2>1. /\ UNCHANGED <<conf, calls, drained, reading, worker>> /\ engine' \in EngineState
        /\ engine'.want = 0 /\ engine'.batches = engine.batches
    BY <1>1, <1>11, Zenon DEF ExecutorDead, EngineOK, EngineState
  <2> QED BY <1>1, <2>1, BatchesKept, EngineLocalStep
<1> QED BY <1>2, <1>3, <1>4, <1>5, <1>6, <1>7, <1>8, <1>9, <1>10, <1>11

\* Steps of the engine that make calls.
LEMMA CallSteps ==
  ASSUME Good, ScheduleBatch \/ UtilityCall \/ QueryMask \/ Retry
  PROVE  Good'
<1>1. EngineOK /\ Len(calls) \in Nat
  BY DEF Good, Types
<1>2. CASE ScheduleBatch
  <2> DEFINE kinds == <<"execute", "sample">>
  <2>1. kinds \in Seq(Kinds) /\ Len(kinds) = 2
    BY DEF Kinds, StepKinds
  <2>2. Submit(kinds) /\ UNCHANGED <<conf, drained, reading, worker>>
    BY <1>2 DEF ScheduleBatch
  <2> HIDE DEF kinds
  <2>3. /\ Len(calls') = Len(calls) + 2
        /\ Types' /\ FutureOK' /\ ResultsOK' /\ TakenOK' /\ QueuesOK'
    BY <2>1, <2>2, SubmitStep, Zenon
  <2>4. EngineOK'
    <3> DEFINE b == engine.batches
    <3>1. b \in Seq(Nat) /\ Len(b) \in Nat
      BY <1>1 DEF EngineOK, EngineState
    <3>2. /\ Append(b, Len(calls) + 2) \in Seq(Nat)
          /\ Len(Append(b, Len(calls) + 2)) = Len(b) + 1
          /\ \A k \in 1 .. Len(b) : Append(b, Len(calls) + 2)[k] = b[k]
          /\ Append(b, Len(calls) + 2)[Len(b) + 1] = Len(calls) + 2
      BY <1>1, <3>1
    <3>3. engine' = [engine EXCEPT !.batches = Append(b, Len(calls) + 2)]
      BY <1>2 DEF ScheduleBatch
    <3>4. \A k \in 1 .. Len(b) + 1 : Append(b, Len(calls) + 2)[k] \in 1 .. Len(calls')
      BY <1>1, <2>3, <3>1, <3>2 DEF EngineOK
    <3> HIDE DEF b
    <3>5. /\ engine' \in EngineState /\ engine'.want = engine.want
          /\ engine'.batches = Append(b, Len(calls) + 2)
      BY <1>1, <3>2, <3>3, Zenon DEF EngineOK, EngineState
    <3>6. engine'.want <= Len(calls')
      BY <1>1, <2>3, <3>5 DEF EngineOK, EngineState
    <3> QED BY <3>2, <3>4, <3>5, <3>6 DEF EngineOK
  <2> QED BY <2>3, <2>4 DEF Good
<1>3. ASSUME UtilityCall \/ QueryMask \/ Retry PROVE Good'
  <2>1. PICK kind \in {"utility", "mask", "command"} : Submit(<<kind>>)
    BY <1>3 DEF UtilityCall, QueryMask, Retry
  <2>2. <<kind>> \in Seq(Kinds) /\ Len(<<kind>>) = 1
    BY <2>1 DEF Kinds
  <2>3. UNCHANGED <<conf, drained, reading, worker>>
    BY <1>3 DEF UtilityCall, QueryMask, Retry
  <2>4. /\ Len(calls') = Len(calls) + 1
        /\ Types' /\ FutureOK' /\ ResultsOK' /\ TakenOK' /\ QueuesOK'
    BY <2>1, <2>2, <2>3, SubmitStep, Zenon
  <2>5. EngineOK'
    <3>1. /\ engine' \in EngineState /\ engine'.want = Len(calls) + 1
          /\ engine'.batches = engine.batches
      <4> DEFINE n == Len(calls) + 1
      <4>1. PICK st \in {"DIAGNOSING", engine.status}, dg \in {"utility", "mask", "command"} :
              engine' = [engine EXCEPT !.status = st, !.doing = dg, !.want = n]
        <5>1. CASE UtilityCall
          BY <1>1, <5>1, ZenonT(30) DEF UtilityCall, EngineOK, EngineState
        <5>2. CASE QueryMask
          BY <5>2, ZenonT(30) DEF QueryMask
        <5>3. CASE Retry
          BY <1>1, <5>3, ZenonT(30) DEF Retry, EngineOK, EngineState
        <5> QED BY <1>3, <5>1, <5>2, <5>3
      <4>2. n \in Nat
        BY <1>1
      <4> HIDE DEF n
      <4>3. engine' \in EngineState /\ engine'.want = n /\ engine'.batches = engine.batches
        BY <1>1, <4>1, <4>2, Zenon DEF EngineOK, EngineState
      <4> QED BY <4>3 DEF n
    <3> QED BY <1>1, <2>4, <3>1, BatchesKept
  <2> QED BY <2>4, <2>5 DEF Good
<1> QED BY <1>2, <1>3

-----------------------------------------------------------------------------
(* The theorems *)

\* Every step of workers, monitor, futures and engine keeps the invariant while the
\* executor is up.
LEMMA IInvStep == IInv /\ [Next]_vars => IInv'
<1> SUFFICES ASSUME IInv, [Next]_vars, executor' = "up" PROVE Good'
  BY DEF IInv
<1>1. executor = "up"
  BY Zenon DEF Next, vars, WorkerStep, ExecuteWorkerRpc, EnqueueOutput, MonitorStep, DetectDeath,
         Shutdown, FailureCallback, FutureStep, PopFuture, ReadResponse, ResponseCancelled,
         EngineStep, AwaitBatch, StepReturns, StepFails, ProcessEnds, ExecutorDead, QueryMask,
         HandleExecutorFailed, UtilityReturns, MaskReturns, CommandReturns, DrainBatch,
         Recovered, Die, ResponseTimeout, ScheduleBatch, BatchRefused, UtilityCall, Retry,
         RecoveryTimeout
<1>2. Good
  BY <1>1 DEF IInv
<1>3. CASE WorkerStep
  BY <1>2, <1>3, RpcStep, OutputStep DEF WorkerStep
<1>4. CASE MonitorStep
  BY <1>1, <1>4 DEF MonitorStep, DetectDeath, Shutdown, FailureCallback
<1>5. CASE FutureStep
  <2>1. ~ ResponseCancelled
    BY <1>1 DEF ResponseCancelled
  <2> QED BY <1>1, <1>2, <1>5, <2>1, PopStep, ReadStep DEF FutureStep
<1>6. CASE EngineStep
  BY <1>2, <1>6, EngineSteps, CallSteps DEF EngineStep, StepFails, HandleExecutorFailed
<1>7. CASE \E w \in Worker : Die(w)
  BY <1>2, <1>7, DieStep
<1>8. ~ ResponseTimeout
  BY <1>2 DEF Good, Types, Reliable, ResponseTimeout
<1>9. CASE ScheduleBatch \/ UtilityCall \/ Retry
  BY <1>2, <1>9, CallSteps
<1>10. CASE BatchRefused \/ RecoveryTimeout
  BY <1>2, <1>10, EngineSteps DEF BatchRefused
<1>11. CASE UNCHANGED vars
  BY <1>2, <1>11, EngineLocalStep DEF vars, Good, EngineOK
<1> QED BY <1>3, <1>4, <1>5, <1>6, <1>7, <1>8, <1>9, <1>10, <1>11 DEF Next

\* With fault tolerance and without timeouts, the queues of every worker hold the
\* answers that are still to be read, in order, as long as the executor is up.
THEOREM AnswersInvariant == Spec /\ Reliable => []IInv
<1>1. Init /\ Reliable => IInv
  BY InitGood DEF IInv
<1> QED BY <1>1, IInvStep, PTL DEF Spec

\* With fault tolerance and without timeouts, what the engine goes on with are the
\* answers of all workers to its own call, whatever failed before, as long as the
\* executor is up.
THEOREM TolerantAnswersAreOwn == Spec /\ Reliable => [](executor = "up" => OwnAnswers)
<1>1. ASSUME IInv, executor = "up" PROVE OwnAnswers
  <2>1. /\ engine.want \in Nat /\ engine.want <= Len(calls) /\ Len(calls) \in Nat
        /\ ResultsOK
    BY <1>1 DEF IInv, Good, EngineOK, EngineState, Types
  <2>2. ASSUME engine.want # 0, State = "ok"
        PROVE  /\ {a.rank : a \in calls[engine.want].answers}
                     = Replying(calls[engine.want].kind)
               /\ \A a \in calls[engine.want].answers : a.call = engine.want
    <3>1. engine.want \in 1 .. Len(calls)
      BY <2>1, <2>2
    <3> QED BY <2>1, <2>2, <3>1, Zenon DEF ResultsOK, Ranks, State
  <2> QED BY <2>2 DEF OwnAnswers
<1>2. IInv => (executor = "up" => OwnAnswers)
  BY <1>1
<1> QED BY <1>2, AnswersInvariant, PTL
=============================================================================
