------------------------------ MODULE Executor ------------------------------
(***************************************************************************)
(* MultiprocExecutor, its worker processes and the part of the engine core *)
(* that calls it: collective_rpc, the futures it returns, the threads of a *)
(* worker, the monitor of worker processes, and the sentinel that takes    *)
(* the engine through a fault when fault tolerance is enabled.             *)
(*                                                                         *)
(* Calls are numbered in the order of collective_rpc.  The broadcast queue *)
(* is the log of the calls with the position of each worker in it          *)
(* (BroadcastQueue), and futures_queue is the calls after drained.  What a *)
(* call computes is left out: an answer says which call it is for, whether *)
(* it succeeded, and whether the output is None.                           *)
(***************************************************************************)
EXTENDS Integers, Sequences, FiniteSets

CONSTANTS NumWorkers,    \* world_size
          OutputRank,    \* output_rank, as a position in Worker
          MaxInFlight,   \* batch_queue_size
          MaxCalls,      \* bound: no step or utility call after so many calls
          Configs        \* the configurations and faults considered

Worker == 1 .. NumWorkers
StepKinds == {"execute", "sample"}
Kinds == StepKinds \cup {"utility", "mask", "command"}

\* ft: enable_fault_tolerance; async: use_async_scheduling; aggregate: a KV or EC
\* output aggregator; failing and late: the calls that may raise in a worker or
\* time out, and how often that happens and workers die.
ASSUME ExecutorAssumption ==
  /\ NumWorkers \in Nat \ {0} /\ OutputRank \in Worker
  /\ MaxInFlight \in Nat \ {0} /\ MaxCalls \in Nat
  /\ Configs \subseteq [ft : BOOLEAN, async : BOOLEAN, aggregate : BOOLEAN,
                        failing : SUBSET Kinds, failures : Nat,
                        late : SUBSET (Kinds \ {"command"}), timeouts : Nat,
                        deaths : Nat]

VARIABLES conf,      \* the configuration, and the faults still to come
          calls,     \* kind, state of the future and answers of each call
          drained,   \* how many futures have been taken from futures_queue
          reading,   \* the future in get_response
          worker,    \* of each worker: process, position, outputs and answers
          executor,  \* "up", then "failed", "down" and "reported"
          engine     \* the engine core and its sentinel

vars == <<conf, calls, drained, reading, worker, executor, engine>>

NoFuture == [call |-> 0, left |-> {}, failed |-> FALSE]

Init == /\ conf \in Configs
        /\ calls = <<>> /\ drained = 0 /\ reading = NoFuture
        /\ worker = [w \in Worker |-> [alive |-> TRUE, taken |-> 0, ran |-> FALSE,
                                       outputs |-> <<>>, answers |-> <<>>]]
        /\ executor = "up"
        /\ engine = [status |-> "HEALTHY", doing |-> "idle", want |-> 0,
                     batches |-> <<>>]

\* The workers whose response queues a call reads.
Replying(kind) == IF kind \in StepKinds /\ ~ conf.aggregate THEN {OutputRank} ELSE Worker

NewCall(kind) == [kind |-> kind, state |-> "pending", answers |-> {}]

\* collective_rpc, which raises once is_failed is set.
Submit(kinds) == /\ executor = "up"
                 /\ calls' = calls \o [i \in DOMAIN kinds |-> NewCall(kinds[i])]

-----------------------------------------------------------------------------
(* The worker processes *)

MayFail(kind) == kind \in conf.failing /\ conf.failures > 0
Outcomes(kind) == {TRUE} \cup (IF MayFail(kind) THEN {FALSE} ELSE {})
AfterFailure(ok) == IF ok THEN conf ELSE [conf EXCEPT !.failures = @ - 1]

HandleOutput(s, a) == IF conf.async THEN [s EXCEPT !.outputs = Append(@, a)]
                      ELSE [s EXCEPT !.answers = Append(@, a)]

\* worker_busy_loop: execute_model leaves its state to sample_tokens, which returns
\* None if there is none, and execute_model returns None itself.
ExecuteWorkerRpc(w) ==
  /\ worker[w].alive /\ worker[w].taken < Len(calls)
  /\ LET i    == worker[w].taken + 1
         kind == calls[i].kind
     IN  \E ok \in Outcomes(kind) :
           LET a == [call |-> i, ok |-> ok,
                     none |-> kind = "execute" \/ (kind = "sample" /\ ~ worker[w].ran)]
               s == [worker[w] EXCEPT !.taken = i,
                       !.ran = IF kind \in StepKinds THEN kind = "execute" /\ ok ELSE @]
           IN  /\ worker' = [worker EXCEPT ![w] =
                    IF w \in Replying(kind) THEN HandleOutput(s, a) ELSE s]
               /\ conf' = AfterFailure(ok)
  /\ UNCHANGED <<calls, drained, reading, executor, engine>>

\* async_output_busy_loop, whose get_output may raise.
EnqueueOutput(w) ==
  /\ worker[w].alive /\ worker[w].outputs # <<>>
  /\ LET a == Head(worker[w].outputs)
     IN  \E ok \in IF a.ok /\ ~ a.none THEN Outcomes(calls[a.call].kind) ELSE {a.ok} :
           /\ worker' = [worker EXCEPT ![w].outputs = Tail(@),
                                       ![w].answers = Append(@, [a EXCEPT !.ok = ok])]
           /\ conf' = IF a.ok THEN AfterFailure(ok) ELSE conf
  /\ UNCHANGED <<calls, drained, reading, executor, engine>>

Die(w) == /\ conf.deaths > 0 /\ worker[w].alive
          /\ conf' = [conf EXCEPT !.deaths = @ - 1]
          /\ worker' = [worker EXCEPT ![w].alive = FALSE]
          /\ UNCHANGED <<calls, drained, reading, executor, engine>>

-----------------------------------------------------------------------------
(* The monitor thread: is_failed, shutdown, failure_callback *)

DetectDeath == /\ executor = "up" /\ \E w \in Worker : ~ worker[w].alive
               /\ executor' = "failed"
               /\ UNCHANGED <<conf, calls, drained, reading, worker, engine>>

Shutdown == /\ executor = "failed"
            /\ executor' = "down"
            /\ worker' = [w \in Worker |-> [worker[w] EXCEPT !.alive = FALSE]]
            /\ UNCHANGED <<conf, calls, drained, reading, engine>>

\* Faulty variant of FailureCallback: the sentinel is told in place of the engine.
CallbackToSentinel == /\ executor = "down" /\ engine.status # "HEALTHY"
                      /\ executor' = "reported"
                      /\ engine' = [engine EXCEPT !.status = "DEAD"]
                      /\ UNCHANGED <<conf, calls, drained, reading, worker>>

\* EXECUTOR_FAILED is put in the input queue, and the sentinel told.
FailureCallback == /\ executor = "down"
                   /\ executor' = "reported"
                   /\ engine' = IF engine.status = "HEALTHY" THEN engine
                                ELSE [engine EXCEPT !.status = "DEAD"]
                   /\ UNCHANGED <<conf, calls, drained, reading, worker>>

-----------------------------------------------------------------------------
(* FutureWrapper.result *)

Waits == engine.want # 0 /\ calls[engine.want].state = "pending"

\* The futures ahead of the one that is waited for are drained first.
PopFuture == /\ Waits /\ reading = NoFuture
             /\ drained' = drained + 1
             /\ reading' = [call |-> drained + 1, failed |-> FALSE,
                            left |-> Replying(calls[drained + 1].kind)]
             /\ UNCHANGED <<conf, calls, worker, executor, engine>>

NextRank == CHOOSE w \in reading.left : \A v \in reading.left : w <= v

Resolve(state, answers) ==
  /\ calls' = [calls EXCEPT ![reading.call].state = state,
                            ![reading.call].answers = answers]
  /\ reading' = NoFuture

\* The output aggregators need an output of every worker, unless the output rank
\* has none.
Aggregates(answers) ==
  conf.aggregate /\ calls[reading.call].kind \in StepKinds =>
    \/ \E a \in answers : a.rank = OutputRank /\ a.none
    \/ \A a \in answers : ~ a.none

\* Faulty variant of RaisesAtOnce: the other answers are left in their queues.
RaisesAtFirst(a) == ~ a.ok

RaisesAtOnce(a) == ~ a.ok /\ (~ conf.ft \/ executor # "up")

\* With fault tolerance all answers are read before a failure is raised.
ReadResponse ==
  /\ reading # NoFuture /\ worker[NextRank].answers # <<>>
  /\ LET w      == NextRank
         a      == Head(worker[w].answers)
         left   == reading.left \ {w}
         failed == reading.failed \/ ~ a.ok
         got    == calls[reading.call].answers \cup
                     IF a.ok THEN {[rank |-> w, call |-> a.call, none |-> a.none]}
                     ELSE {}
     IN  /\ worker' = [worker EXCEPT ![w].answers = Tail(@)]
         /\ \/ /\ RaisesAtOnce(a) \/ left = {}
               /\ Resolve(IF failed \/ ~ Aggregates(got) THEN "error" ELSE "ok", got)
            \/ /\ ~ RaisesAtOnce(a) /\ left # {}
               /\ calls' = [calls EXCEPT ![reading.call].answers = got]
               /\ reading' = [reading EXCEPT !.left = left, !.failed = failed]
  /\ UNCHANGED <<conf, drained, executor, engine>>

\* The answer comes later, and stays in the queue.
ResponseTimeout ==
  /\ reading # NoFuture /\ worker[NextRank].answers = <<>>
  /\ calls[reading.call].kind \in conf.late /\ conf.timeouts > 0
  /\ conf' = [conf EXCEPT !.timeouts = @ - 1]
  /\ Resolve("error", calls[reading.call].answers)
  /\ UNCHANGED <<drained, worker, executor, engine>>

\* Faulty variant of ResponseCancelled: only the queue of the output rank is shut
\* down.
OutputRankCancelled ==
  /\ reading # NoFuture /\ worker[NextRank].answers = <<>>
  /\ executor \in {"down", "reported"} /\ NextRank = OutputRank
  /\ Resolve("error", calls[reading.call].answers)
  /\ UNCHANGED <<conf, drained, worker, executor, engine>>

\* The response queues are shut down.
ResponseCancelled ==
  /\ reading # NoFuture /\ worker[NextRank].answers = <<>>
  /\ executor \in {"down", "reported"}
  /\ Resolve("error", calls[reading.call].answers)
  /\ UNCHANGED <<conf, drained, worker, executor, engine>>

-----------------------------------------------------------------------------
(* The engine core: busy loop and sentinel *)

Idle == engine.doing = "idle"
Returns(doing) == engine.doing = doing /\ engine.want # 0 /\ ~ Waits
State == calls[engine.want].state

\* step_with_batch_queue: a batch is the calls execute_model and sample_tokens.
ScheduleBatch == /\ Idle /\ Len(engine.batches) < MaxInFlight
                 /\ Len(calls) + 2 <= MaxCalls
                 /\ Submit(<<"execute", "sample">>)
                 /\ engine' = [engine EXCEPT !.batches = Append(@, Len(calls) + 2)]
                 /\ UNCHANGED <<conf, drained, reading, worker, executor>>

AwaitBatch == /\ Idle /\ engine.batches # <<>>
              /\ engine' = [engine EXCEPT !.doing = "step", !.want = Head(engine.batches),
                                          !.batches = Tail(@)]
              /\ UNCHANGED <<conf, calls, drained, reading, worker, executor>>

\* The sampled tokens reach the scheduler.
HasOutput == /\ State = "ok"
             /\ \A a \in calls[engine.want].answers : a.rank = OutputRank => ~ a.none

StepReturns == /\ Returns("step") /\ HasOutput
               /\ engine' = [engine EXCEPT !.doing = "idle", !.want = 0]
               /\ UNCHANGED <<conf, calls, drained, reading, worker, executor>>

\* An exception leaves the busy loop: the process ends without fault tolerance;
\* on_fault gives up if the executor failed, and asks the workers for their mask
\* otherwise.
ProcessEnds == /\ ~ conf.ft
               /\ engine' = [engine EXCEPT !.doing = "ended", !.want = 0]
               /\ UNCHANGED <<conf, calls, drained, reading, worker, executor>>

ExecutorDead == /\ conf.ft /\ executor # "up"
                /\ engine' = [engine EXCEPT !.status = "DEAD", !.doing = "paused",
                                            !.want = 0]
                /\ UNCHANGED <<conf, calls, drained, reading, worker, executor>>

QueryMask == /\ conf.ft /\ Submit(<<"mask">>)
             /\ engine' = [engine EXCEPT !.status = "DIAGNOSING", !.doing = "mask",
                                         !.want = Len(calls) + 1]
             /\ UNCHANGED <<conf, drained, reading, worker, executor>>

StepFails == /\ Returns("step") /\ ~ HasOutput
             /\ ProcessEnds \/ ExecutorDead \/ QueryMask
BatchRefused == /\ Idle /\ executor # "up" /\ Len(engine.batches) < MaxInFlight
                /\ ProcessEnds \/ ExecutorDead
HandleExecutorFailed == /\ Idle /\ executor = "reported"
                        /\ ProcessEnds \/ ExecutorDead

\* A utility call reports its result or its failure, and the engine goes on.
UtilityCall == /\ Idle /\ Len(calls) < MaxCalls
               /\ Submit(<<"utility">>)
               /\ engine' = [engine EXCEPT !.doing = "utility", !.want = Len(calls) + 1]
               /\ UNCHANGED <<conf, drained, reading, worker, executor>>

UtilityReturns == /\ Returns("utility")
                  /\ engine' = [engine EXCEPT !.doing = "idle", !.want = 0]
                  /\ UNCHANGED <<conf, calls, drained, reading, worker, executor>>

\* The failure of _query_mask is ignored.
MaskReturns ==
  /\ Returns("mask")
  /\ engine' = [engine EXCEPT !.doing = "paused", !.want = 0,
                  !.status = IF @ = "DIAGNOSING" THEN "UNHEALTHY" ELSE @]
  /\ UNCHANGED <<conf, calls, drained, reading, worker, executor>>

\* The client asks for a retry: handle_ft_command, then _drain_batch_queue.
Retry == /\ engine.doing = "paused" /\ engine.status = "UNHEALTHY"
         /\ Submit(<<"command">>)
         /\ engine' = [engine EXCEPT !.doing = "command", !.want = Len(calls) + 1]
         /\ UNCHANGED <<conf, drained, reading, worker, executor>>

CommandReturns ==
  /\ Returns("command")
  /\ engine' = [engine EXCEPT !.doing = IF State = "ok" THEN "drain" ELSE "paused",
                              !.want = 0]
  /\ UNCHANGED <<conf, calls, drained, reading, worker, executor>>

DrainBatch == /\ engine.doing = "drain" /\ ~ Waits /\ engine.batches # <<>>
              /\ engine' = [engine EXCEPT !.want = Head(engine.batches),
                                          !.batches = Tail(@)]
              /\ UNCHANGED <<conf, calls, drained, reading, worker, executor>>

\* _mark_healthy, whatever became of the status in the meantime.
Recovered == /\ engine.doing = "drain" /\ ~ Waits /\ engine.batches = <<>>
             /\ engine' = [engine EXCEPT !.status = "HEALTHY", !.doing = "idle",
                                         !.want = 0]
             /\ UNCHANGED <<conf, calls, drained, reading, worker, executor>>

\* No recovery within engine_recovery_timeout_sec: the exception is raised again.
RecoveryTimeout == /\ engine.doing \in {"paused", "command", "drain"}
                   /\ engine' = [engine EXCEPT !.doing = "ended", !.want = 0]
                   /\ UNCHANGED <<conf, calls, drained, reading, worker, executor>>

-----------------------------------------------------------------------------
WorkerStep == \E w \in Worker : ExecuteWorkerRpc(w) \/ EnqueueOutput(w)
MonitorStep == DetectDeath \/ Shutdown \/ FailureCallback
FutureStep == PopFuture \/ ReadResponse \/ ResponseCancelled
EngineStep == \/ AwaitBatch \/ StepReturns \/ StepFails \/ HandleExecutorFailed
              \/ UtilityReturns \/ MaskReturns \/ CommandReturns
              \/ DrainBatch \/ Recovered

Next == \/ WorkerStep \/ MonitorStep \/ FutureStep \/ EngineStep
        \/ \E w \in Worker : Die(w)
        \/ ResponseTimeout
        \/ ScheduleBatch \/ BatchRefused \/ UtilityCall
        \/ Retry \/ RecoveryTimeout

Spec == Init /\ [][Next]_vars

(* Fairness: the workers answer while they live, the monitor runs, the engine's *)
(* thread goes on, and the wait for a recovery ends.                            *)
FairSpec == /\ Spec
            /\ \A w \in Worker : WF_vars(ExecuteWorkerRpc(w)) /\ WF_vars(EnqueueOutput(w))
            /\ WF_vars(MonitorStep)
            /\ WF_vars(FutureStep \/ EngineStep)
            /\ WF_vars(RecoveryTimeout)

-----------------------------------------------------------------------------
TypeOK ==
  /\ calls \in Seq([kind : Kinds, state : {"pending", "ok", "error"},
                    answers : SUBSET [rank : Worker, call : Nat, none : BOOLEAN]])
  /\ drained \in 0 .. Len(calls)
  /\ reading \in [call : 0 .. drained, left : SUBSET Worker, failed : BOOLEAN]
  /\ \A w \in Worker :
       /\ worker[w].taken \in 0 .. Len(calls)
       /\ worker[w].outputs \o worker[w].answers
            \in Seq([call : 1 .. Len(calls), ok : BOOLEAN, none : BOOLEAN])
  /\ executor \in {"up", "failed", "down", "reported"}
  /\ engine \in [status : {"HEALTHY", "DIAGNOSING", "UNHEALTHY", "DEAD"},
                  doing : {"idle", "step", "utility", "mask", "paused", "command",
                           "drain", "ended"},
                  want : 0 .. Len(calls), batches : Seq(1 .. Len(calls))]

\* collective_rpc returns "a list containing the results from each worker": what
\* a step, a utility call or a recovery goes on with are the answers of the
\* workers to that very call, whatever failed in the calls before it.
OwnAnswers ==
  /\ engine.doing \in {"step", "utility", "mask", "command"}
  /\ engine.want # 0
  /\ State = "ok"
  /\ engine.doing = "step" => HasOutput
  => LET c == calls[engine.want]
     IN  /\ {a.rank : a \in c.answers} = Replying(c.kind)
         /\ \A a \in c.answers : a.call = engine.want

\* So they are for a step and for the recovery.  For a utility call they are, with
\* fault tolerance, as long as the executor has not failed: otherwise the call may
\* come behind a step that failed, at which the engine is going to end.
OwnAnswersUnlessEnding ==
  /\ TypeOK
  /\ (engine.doing = "utility" => conf.ft /\ executor = "up") => OwnAnswers

\* The engine never waits for ever: an answer comes, or the wait is cancelled
\* because a worker died, and a fault ends in recovery or in the end of the
\* process.
NeverStuck == engine.doing # "idle" ~> engine.doing \in {"idle", "ended"}

\* When a worker process dies the engine core ends, whatever it was doing: also in
\* the middle of a recovery, which may report the engine as healthy once more.
DeathEndsEngine == executor # "up" ~> engine.doing = "ended"
=============================================================================
