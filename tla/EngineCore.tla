------------------------------ MODULE EngineCore ------------------------------
(***************************************************************************)
(* The engine's main loop (vllm/v1/engine/core.py: step and                *)
(* step_with_batch_queue) around the scheduler, and the worker that runs   *)
(* the steps.  A step is scheduled, put in the batch queue, executed in    *)
(* the order of the queue, and its output given back to the scheduler; up  *)
(* to MaxInFlight steps are in the queue at a time.                        *)
(*                                                                         *)
(* The worker is modelled by what its steps do to the KV cache: the        *)
(* contents of a block are the tokens of the prefix that ends in it, as    *)
(* far as the keys and values of those tokens have been written.  A step   *)
(* is executed when its output is taken: no action of the scheduler looks  *)
(* at the contents, so any earlier moment would be the same.               *)
(***************************************************************************)
EXTENDS Scheduler

LOCAL INSTANCE FiniteSetsExt

VARIABLES steps,    \* batch_queue, the oldest step first
          output,   \* entries whose output update_from_output has yet to handle
          content,  \* the prefix each block holds
          known     \* the tokens the worker knows of each request

vars == <<req, running, waiting, kv, pass, policy, steps, output, content, known>>
engineVars == <<policy, steps, output, content, known>>

MaxInFlight == policy.maxInFlight   \* batch_queue_size, 1 for step()

Init == /\ SchedInit
        /\ steps = <<>>
        /\ output = <<>>
        /\ content = [b \in Block |-> <<>>]
        /\ known = [r \in Req |-> <<>>]

Between == pass.phase = "idle" /\ output = <<>>

\* Messages of the input and abort queues, handled between two calls.
Receive == /\ Between
           /\ \E r \in Req : AddRequest(r) \/ Abort(r)
           /\ UNCHANGED engineVars

Reset == /\ Between
         /\ policy.resets \/ ~ \E r \in Req : Unfinished(r)
         /\ ResetIdleCache \/ ResetRunning
         /\ UNCHANGED engineVars

BeginStep == /\ Between
             /\ Len(steps) < MaxInFlight
             /\ \E r \in Req : Unfinished(r)
             /\ StartSchedule
             /\ UNCHANGED engineVars

ScheduleStep == /\ \/ SkipRunning
                   \/ ScheduleRunning
                   \/ PreemptRunning
                   \/ EndRunningLoop
                   \/ SkipWaiting
                   \/ TryAdmit
                   \/ EndWaitingLoop
                /\ UNCHANGED engineVars

\* The step joins the queue even if nothing could be scheduled.
EndStep == /\ FinishSchedule
           /\ steps' = Append(steps, pass.batch)
           /\ UNCHANGED <<policy, output, content, known>>

-----------------------------------------------------------------------------
(* The worker *)

\* The tokens the worker has of an entry's request when it runs the entry.
Inputs(e) == IF e.tokens # <<>> THEN e.tokens ELSE known[e.r]

\* The blocks of its table an entry writes, by index.
Writes(e) == {i \in DOMAIN e.tbl : /\ i * BlockSize > e.start
                                   /\ (i - 1) * BlockSize < e.start + e.n}

\* The contents c after a step: keys and values of all its tokens are written
\* before any of them is read.
WrittenOn(c, step) ==
  [b \in Block |->
     IF \E e \in Elems(step) : \E i \in Writes(e) : e.tbl[i] = b
     THEN LET e == CHOOSE e \in Elems(step) : \E i \in Writes(e) : e.tbl[i] = b
              i == CHOOSE i \in Writes(e) : e.tbl[i] = b
          IN  SubSeq(Inputs(e), 1, AtMost(e.start + e.n, i * BlockSize))
     ELSE c[b]]

Written(step) == WrittenOn(content, step)

\* An entry finds the keys and values of its own tokens in every block below the
\* first token it computes, given the contents before and after its step.
FindsOwnPrefix(e, before, after) ==
  /\ e.start + e.n <= Len(Inputs(e))
  /\ \A i \in DOMAIN e.tbl :
       /\ i * BlockSize <= e.start =>
            after[e.tbl[i]] = SubSeq(Inputs(e), 1, i * BlockSize)
       /\ e.start \in (i - 1) * BlockSize + 1 .. i * BlockSize - 1 =>
            /\ e.start <= Len(before[e.tbl[i]])
            /\ SubSeq(before[e.tbl[i]], 1, e.start) = SubSeq(Inputs(e), 1, e.start)

\* The queue is full, or nothing is left to schedule.
Execute == /\ Between
           /\ steps # <<>>
           /\ Len(steps) = MaxInFlight \/ ~ \E r \in Req : Unfinished(r)
           /\ steps' = Tail(steps)
           /\ output' = Head(steps)
           /\ content' = Written(Head(steps))
           /\ known' = [r \in Req |->
                IF \E e \in Elems(Head(steps)) : e.r = r
                THEN Inputs(CHOOSE e \in Elems(Head(steps)) : e.r = r) ELSE known[r]]
           /\ UNCHANGED <<schedVars, policy>>

\* An entry that reaches the last known token samples one.
Samples(e) == e.start + e.n = Len(known[e.r])

Update ==
  /\ output # <<>>
  /\ LET e == Head(output)
     IN  \E out \in IF Samples(e) THEN {<<t>> : t \in Token} ELSE {<<>>} :
           /\ UpdateFromOutput(e.r, e.n, out)
           /\ known' = [known EXCEPT ![e.r] = @ \o out]
  /\ output' = Tail(output)
  /\ UNCHANGED <<pass, policy, steps, content>>

Next == \/ Receive
        \/ Reset
        \/ BeginStep
        \/ ScheduleStep
        \/ EndStep
        \/ Execute
        \/ Update

Spec == Init /\ [][Next]_vars

-----------------------------------------------------------------------------
(* Fairness: the engine's loop keeps calling step while there is anything to  *)
(* do, and nobody resets the cache for ever.                                  *)
EngineStep == BeginStep \/ ScheduleStep \/ EndStep \/ Execute \/ Update
FairSpec == Init /\ [][Receive \/ EngineStep]_vars /\ WF_vars(EngineStep)

-----------------------------------------------------------------------------
Entries == [r : Req, start : 0 .. MaxModelLen, n : 1 .. TokenBudget,
            tbl : Seq(Block), tokens : Seq(Token)]

TypeOK ==
  /\ req \in [Req -> [status : {"NEW", "WAITING", "RUNNING", "PREEMPTED", "FINISHED"},
                      toks : Seq(Token), comp : 0 .. MaxModelLen,
                      plh : 0 .. MaxInFlight, infl : Nat, stale : Nat,
                      drop : BOOLEAN]]
  /\ running \in Seq(Req) /\ waiting \in Seq(Req)
  /\ pass.budget \in 0 .. TokenBudget
  /\ pass.batch \in Seq(Entries) /\ pass.skipped \in Seq(Req)
  /\ steps \in Seq(Seq(Entries)) /\ output \in Seq(Entries)
  /\ content \in [Block -> Seq(Token)] /\ known \in [Req -> Seq(Token)]

\* A request that is not finished is in exactly one queue, once, the one of its
\* status, through admission, preemption, skipping, stopping and abort; and the
\* counters stay in their ranges.
QueuesMatchStatus ==
  LET queue == pass.skipped \o waiting
  IN  /\ TypeOK
      /\ NoDuplicates(running) /\ NoDuplicates(queue)
      /\ Elems(running) = {r \in Req : req[r].status = "RUNNING"}
      /\ Elems(queue) = {r \in Req : req[r].status \in {"WAITING", "PREEMPTED"}}

\* The manager's bookkeeping is exact, and only running requests hold blocks:
\* what a preempted, stopped or aborted request held is back in the pool,
\* although steps of it may be in flight.
BlocksHeldByRunning ==
  /\ TablesOK(kv) /\ QueueOK(kv.pool)
  /\ \A r \in Req : kv.table[r] # <<>> => req[r].status = "RUNNING"

\* reset_prefix_cache with reset_running_requests never raises: preempting the
\* running requests returns every block.
ResetRunningSucceeds == pass.phase = "idle" => MayResetPrefixCache(FreeAll.pool)

\* The entries of a request not yet handled by update_from_output, by position:
\* 0 is the step being handled.
Pending(r) == {i \in 0 .. Len(steps) :
                 \E e \in Elems(IF i = 0 THEN output ELSE steps[i]) : e.r = r}
PendingEntry(r, i) ==
  CHOOSE e \in Elems(IF i = 0 THEN output ELSE steps[i]) : e.r = r
TokensUpTo(r, m) ==
  MapThenSumSet(LAMBDA i : PendingEntry(r, i).n, {i \in Pending(r) : i <= m})

\* num_in_flight_tokens is what the steps in flight hold of the request, the
\* stale ones are the oldest of them, and num_output_placeholders counts the
\* later ones that will sample: the drain in update_from_output stays in
\* lockstep with the steps through preemption, resumption and reset.
CountersMatchSteps ==
  \A r \in Req : Unfinished(r) =>
    LET fresh == {i \in Pending(r) : TokensUpTo(r, i) > req[r].stale}
    IN  /\ req[r].infl = TokensUpTo(r, Len(steps))
        /\ req[r].stale \in {0} \cup {TokensUpTo(r, i) : i \in Pending(r)}
        /\ Async => req[r].plh =
             Cardinality({i \in fresh : PendingEntry(r, i).start + PendingEntry(r, i).n
                                          >= Len(req[r].toks)})

\* A token is delivered only after the tokens it was sampled from: no output of
\* a preempted or resumed request is lost, repeated or out of order.
DeliveredInOrder ==
  output # <<>> =>
    LET r == Head(output).r
    IN  Unfinished(r) /\ Samples(Head(output)) /\ ~ (req[r].stale > 0 /\ req[r].drop)
          => known[r] = req[r].toks

\* A request never gets more tokens than max_tokens and max_model_len allow,
\* with several steps of it in flight.
LengthsRespected ==
  \A r \in Req : /\ Len(req[r].toks) <= MaxModelLen
                 /\ Len(req[r].toks) - Len(Prompt[r]) <= MaxTokens

\* The assertions at the end of schedule(): the budget is accounted for, also
\* when a preempted request gives tokens back, and no more than
\* max_num_running_reqs requests run.
BudgetAccounted ==
  /\ pass.phase # "idle" =>
       pass.budget + MapThenSumSet(LAMBDA i : pass.batch[i].n, DOMAIN pass.batch)
         = TokenBudget
  /\ Len(running) <= MaxNumSeqs

\* Every block below the first token a step computes holds, when the step runs,
\* the keys and values of the request's own tokens: whatever was shared,
\* evicted, reallocated, preempted or aborted since the step was scheduled.
ReadsOwnPrefix ==
  steps # <<>> /\ output = <<>> =>
    \A e \in Elems(Head(steps)) : FindsOwnPrefix(e, content, Written(Head(steps)))

\* get_computed_blocks returns "blocks that are computed": a block registered in
\* the prefix cache holds the tokens of its key, or a step that is scheduled
\* writes them.
CachedBlocksAreComputed ==
  \A k \in Key : \A b \in kv.pool.map[k] :
    \/ content[b] = k
    \/ \E e \in UNION {Elems(s) : s \in Elems(steps) \cup {pass.batch}} :
         \E i \in Writes(e) : e.tbl[i] = b /\ i * BlockSize = Len(k)
                              /\ e.start + e.n >= Len(k)

\* Every request that arrives finishes: preemption under memory pressure always
\* lets some request advance, and none waits for ever behind the others.
EveryRequestFinishes ==
  \A r \in Req : req[r].status = "WAITING" ~> req[r].status = "FINISHED"
=============================================================================
