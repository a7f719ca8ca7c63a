------------------------------ MODULE KVTransfer ------------------------------
(***************************************************************************)
(* The scheduler and the engine loop with a KV connector                   *)
(* (vllm/v1/core/sched/scheduler.py), the role of a KV consumer: the       *)
(* keys and values of a prompt are loaded from elsewhere, between the      *)
(* steps (asynchronously) or inside the step that admits the request, and  *)
(* may be sent elsewhere once a request has finished.                      *)
(*                                                                         *)
(* A transfer writes or reads the blocks without being ordered with the    *)
(* steps in flight.  The scheduler therefore keeps the blocks of a         *)
(* transfer until it is reported, and gives a block back to the pool only  *)
(* when every step that may write it has been processed.                   *)
(*                                                                         *)
(* Step numbers are kept relative to processed_step_seq: they are only     *)
(* ever compared with it, and drop by one whenever it is incremented.      *)
(***************************************************************************)
EXTENDS EngineCore

LOCAL INSTANCE FiniteSetsExt

CONSTANTS Remote,      \* the prompt tokens of a request that can be loaded
          Configs      \* the configurations considered

ASSUME TransferAssumption ==
  /\ \A r \in Req : Remote[r] \in 0 .. Len(Prompt[r])
  /\ Configs \subseteq [async : BOOLEAN,       \* load_kv_async
                        deferLoads : BOOLEAN,  \* defer_async_loads
                        recompute : BOOLEAN,   \* recompute_kv_load_failures
                        sends : BOOLEAN,       \* finished requests may be sent
                        failures : Nat]        \* bound on the loads that fail

VARIABLES conf,  \* the configuration, one of Configs
          xs,    \* the scheduler's state that is about transfers
          wk,    \* the connector on the workers: what it was told, and its jobs
          upd    \* the part of update_from_output that is about transfers

transferVars == <<conf, xs, wk, upd>>
allVars == <<vars, transferVars>>

\* defer_block_free, for a consumer
DeferBlockFree == MaxInFlight > 1

NoJob == [kind |-> "none", stage |-> "none", tbl |-> <<>>, ext |-> {},
          upto |-> 0, bad |-> {}]
NoUpdate == [on |-> FALSE, skip |-> {}, done |-> {}, sound |-> {}]

\* holding   kv_holding_waiting         skipped   step_skipped_kv_holding
\* recved    finished_recving_kv_req_ids  failed  failed_recving_kv_req_ids
\* ahead     sched_step_seq             last      last_sched_seq of each request
\* frees     deferred_frees             loads     deferred_loads
\* delayed   finished requests still in self.requests
\* prefills  _inflight_prefills
TransferInit ==
  /\ Init
  /\ conf \in Configs
  /\ xs = [holding |-> <<>>, skipped |-> <<>>, recved |-> {}, failed |-> {},
           ahead |-> 0, last |-> [r \in Req |-> 0], frees |-> <<>>, loads |-> <<>>,
           delayed |-> {}, prefills |-> {}]
  /\ wk = [told |-> {}, meta |-> <<>>, job |-> [r \in Req |-> NoJob], failures |-> 0]
  /\ upd = NoUpdate

IsRemote(r) == req[r].status = "WAITING_FOR_REMOTE_KVS"
Live(r) == Unfinished(r) \/ IsRemote(r)

\* has_requests: requests kept for a transfer count, so that the steps which
\* report its end are executed.
HasRequests == xs.delayed # {} \/ \E r \in Req : Live(r)

Quiet == Between /\ ~ upd.on

-----------------------------------------------------------------------------
(* Freeing blocks *)

\* Faulty variant of MayFree: the steps in flight are forgotten.
MayFreeAlways(r) == TRUE

\* _request_blocks_can_be_freed
MayFree(r) == ~ DeferBlockFree \/ xs.last[r] = 0

\* Faulty variant of FreedNow: blocks whose free is deferred are freed as well.
FreedNowToo(m, r) == Free(m, r)

\* _free_request_blocks: the manager m after it, and deferred_frees.
FreedNow(m, r) ==
  IF MayFree(r) THEN Free(m, r)
  ELSE [m EXCEPT !.table[r] = <<>>, !.ncached[r] = 0]

FreedLater(m, r) ==
  IF MayFree(r) \/ m.table[r] = <<>> THEN xs.frees
  ELSE Append(xs.frees, [fence |-> xs.ahead, blocks |-> m.table[r]])

\* Faulty variant of StillLoading: a load that never started is waited for.
StillLoadingIfDeferred(r) == IsRemote(r) /\ r \notin xs.recved

\* A load of r was started and is not known to be over.
StillLoading(r) == /\ IsRemote(r)
                   /\ r \notin xs.recved
                   /\ \A i \in DOMAIN xs.loads : xs.loads[i].r # r

\* request_finished of the connector: it may keep the blocks of a request that
\* ran, to send them.
KeepsToSend(r) == IF conf.sends /\ req[r].status = "RUNNING" THEN BOOLEAN ELSE {FALSE}

SendJob(r) == [NoJob EXCEPT !.kind = "send", !.stage = "told", !.tbl = kv.table[r]]

\* finish_requests and _free_request, on the manager m: the request leaves its
\* queue, and its blocks are freed unless a transfer needs them.
Finish(r, toks, m, sends) ==
  LET left == [xs EXCEPT !.holding = Without(@, r), !.recved = @ \ {r},
                         !.failed = @ \ {r}, !.prefills = @ \ {r},
                         !.loads = Keep(@, {d \in Elems(@) : d.r # r})]
  IN  /\ req' = [req EXCEPT ![r] = Finished(r, toks)]
      /\ running' = Without(running, r)
      /\ waiting' = Without(waiting, r)
      /\ \/ /\ StillLoading(r) \/ sends
            /\ kv' = m
            /\ xs' = [left EXCEPT !.delayed = @ \cup {r}]
         \/ /\ ~ StillLoading(r) /\ ~ sends
            /\ kv' = FreedNow(m, r)
            /\ xs' = [left EXCEPT !.frees = FreedLater(m, r)]
      /\ wk' = IF sends THEN [wk EXCEPT !.told = @ \cup {r}, !.job[r] = SendJob(r)]
               ELSE wk

ReceiveRequest == /\ Quiet
                  /\ \E r \in Req : AddRequest(r)
                  /\ UNCHANGED <<engineVars, transferVars>>

AbortRequest(r) == /\ Quiet
                   /\ Live(r)
                   /\ \E sends \in KeepsToSend(r) : Finish(r, req[r].toks, kv, sends)
                   /\ UNCHANGED <<pass, engineVars, conf, upd>>

-----------------------------------------------------------------------------
(* schedule() *)

BeginTransferStep == /\ Quiet
                     /\ Len(steps) < MaxInFlight
                     /\ HasRequests
                     /\ StartSchedule
                     /\ UNCHANGED <<engineVars, transferVars>>

RunningTurn == /\ \/ SkipRunning
                  \/ ScheduleRunning
                  \/ EndRunningLoop
               /\ UNCHANGED <<engineVars, transferVars>>

PreemptTurn == /\ PreemptRunning
               /\ MayFree(Victim)
               /\ xs' = [xs EXCEPT !.prefills = @ \ {Victim}]
               /\ UNCHANGED <<engineVars, conf, wk, upd>>

\* "A deferred free will not help with immediate allocation": the loop ends.
GiveUpTurn == /\ WantsSlots
              /\ ~ HasSlots(Current, NumNewTokens(Current))
              /\ ~ MayFree(Victim)
              /\ pass' = [pass EXCEPT
                            !.phase = IF pass.preempted THEN "end" ELSE "waiting"]
              /\ UNCHANGED <<req, running, waiting, kv, engineVars, transferVars>>

\* Requests that hold blocks go first.
Queue == IF xs.holding # <<>> THEN xs.holding ELSE waiting

InAdmissionLoop == /\ pass.phase = "waiting"
                   /\ pass.budget > 0
                   /\ Queue # <<>>
                   /\ Len(running) < MaxNumSeqs

Candidate == Head(Queue)

\* The queues after the candidate has left them, and xs with it.
Popped == IF xs.holding # <<>> THEN waiting ELSE Tail(waiting)
PoppedState == IF xs.holding # <<>> THEN [xs EXCEPT !.holding = Tail(@)] ELSE xs

\* skip_request, on the state x
Skipped(x, r, holds) == IF holds THEN [x EXCEPT !.skipped = Append(@, r)] ELSE x
SkippedPass(r, holds) ==
  IF holds THEN pass ELSE [pass EXCEPT !.skipped = Append(@, r)]

\* The transfer is not over, output that will be delivered is in flight, or the
\* connector cannot tell yet what it has.
SkipTurn ==
  LET r     == Candidate
      holds == req[r].comp > 0 \/ IsRemote(r)
  IN  /\ InAdmissionLoop
      /\ \/ IsRemote(r) /\ r \notin xs.recved
         \/ ~ IsRemote(r) /\ AwaitsStaleOutput(r)
         \/ ~ IsRemote(r) /\ ~ AwaitsStaleOutput(r) /\ req[r].comp = 0 /\ Remote[r] > 0
      /\ waiting' = Popped
      /\ xs' = Skipped(PoppedState, r, holds)
      /\ pass' = SkippedPass(r, holds)
      /\ UNCHANGED <<req, running, kv, engineVars, conf, wk, upd>>

\* Faulty variant of LoadedKv: the blocks of a failed load are cached too.
LoadedKvFailedToo(r) ==
  CacheBlocks(kv, r, req[r].toks, Remote[r])

\* The manager once a load of r is over: what was loaded is cached, or the
\* blocks are freed if nothing was.
LoadedKv(r) ==
  IF r \in xs.failed /\ req[r].comp = 0 THEN Free(kv, r)
  ELSE CacheBlocks(kv, r, req[r].toks, req[r].comp)

\* _update_waiting_for_remote_kv and the promotion of the request: after a hit
\* on all its tokens the last one is computed again.  WAITING stands for both
\* WAITING and PREEMPTED, which are admitted alike.
PromoteTurn ==
  LET r == Candidate
  IN  /\ InAdmissionLoop
      /\ IsRemote(r) /\ r \in xs.recved
      /\ kv' = LoadedKv(r)
      /\ req' = [req EXCEPT ![r].status = "WAITING",
                            ![r].comp = AtMost(@, Len(req[r].toks) - 1)]
      /\ xs' = [xs EXCEPT !.recved = @ \ {r}, !.failed = @ \ {r}]
      /\ UNCHANGED <<running, waiting, pass, engineVars, conf, wk, upd>>

\* get_num_new_matched_tokens beyond the local hit: what it has may be gone.  A
\* load inside the step leaves a token to compute.
Matched(r, local) ==
  LET all == IF conf.async THEN Remote[r] ELSE AtMost(Remote[r], Len(req[r].toks) - 1)
  IN  {0, AtLeast(all - local, 0)}

Watermark == IF running # <<>> THEN WatermarkBlocks ELSE 0

\* The blocks a load writes, by their index in the table.
LoadJob(m, r, local, total) ==
  [NoJob EXCEPT !.kind = "load", !.stage = "told", !.tbl = m.table[r],
                !.ext = local \div BlockSize + 1 .. NumBlocks(total), !.upto = total]

\* Blocks that requests still being prefilled or loaded will need.
ReservedBlocks ==
  MapThenSumSet(LAMBDA r : NumBlocksToAllocate(kv, r, <<>>,
                             AtMost(Len(req[r].toks), MaxModelLen)),
                xs.prefills)

\* An asynchronous load: the blocks are allocated and not cached, and the load
\* starts, or waits for the steps in flight.
FitsLoad(r, hits, total) ==
  /\ CanAllocateSlots(kv, r, hits, total, Len(req[r].toks), ReserveFullIsl, Watermark)
  /\ NumBlocksToAllocate(kv, r, hits, total) + Watermark
       <= Len(kv.pool.free) - ReservedBlocks

StartLoad(r, hits, ext) ==
  LET local == Len(hits) * BlockSize
      total == local + ext
      defer == conf.deferLoads /\ xs.ahead > 0
      m     == AllocateNewBlocks(AddLocalComputedBlocks(kv, r, hits), r, total)
      left  == Skipped([PoppedState EXCEPT !.prefills = @ \cup {r}], r, TRUE)
  IN  /\ FitsLoad(r, hits, total)
      /\ kv' = m
      /\ req' = [req EXCEPT ![r].status = "WAITING_FOR_REMOTE_KVS", ![r].comp = total]
      /\ waiting' = Popped
      /\ \/ /\ defer
            /\ xs' = [left EXCEPT
                 !.last[r] = xs.ahead,
                 !.loads = Append(@, [r |-> r, fence |-> xs.ahead,
                                      job |-> LoadJob(m, r, local, total)])]
            /\ UNCHANGED wk
         \/ /\ ~ defer
            /\ xs' = left
            /\ wk' = [wk EXCEPT !.told = @ \cup {r},
                                !.job[r] = LoadJob(m, r, local, total)]
      /\ UNCHANGED <<running, pass>>

\* The tokens a request is given when it joins the running ones from start.
ChunkFrom(r, start) == AtMost(Capped(Len(req[r].toks) - start), pass.budget)

FitsRun(r, hits, start) ==
  CanAllocateSlots(kv, r, hits, start + ChunkFrom(r, start), Len(req[r].toks),
                   ReserveFullIsl, Watermark)

\* The request joins the running ones; what the step itself loads is cached like
\* what it computes.
Admit(r, hits, ext) ==
  LET local == Len(hits) * BlockSize
      start == IF req[r].comp > 0 THEN req[r].comp ELSE local + ext
      n     == ChunkFrom(r, start)
      toks  == req[r].toks
  IN  /\ FitsRun(r, hits, start)
      /\ kv' = AllocateSlots(kv, r, toks, hits, start + n)
      /\ running' = Append(running, r)
      /\ waiting' = Popped
      /\ req' = [req EXCEPT ![r].status = "RUNNING", ![r].comp = start]
      /\ pass' = [pass EXCEPT
           !.budget = @ - n,
           !.batch = Append(@, Entry(r, start, n, kv'.table[r], toks))]
      /\ xs' = [PoppedState EXCEPT
           !.prefills = IF start + n < Len(toks) THEN @ \cup {r} ELSE @]
      /\ wk' = IF ext = 0 THEN wk
               ELSE [wk EXCEPT !.told = @ \cup {r},
                               !.job[r] = LoadJob(kv', r, local, local + ext)]

\* One turn of the waiting loop, when the candidate is not skipped: it starts to
\* load, is admitted, or does not fit and ends the loop.
AdmitTurn ==
  LET r == Candidate
  IN  /\ InAdmissionLoop
      /\ ~ IsRemote(r) /\ ~ AwaitsStaleOutput(r)
      /\ \E hits \in IF req[r].comp = 0 THEN GetComputedBlocks(kv, req[r].toks)
                     ELSE {<<>>} :
         \E ext \in IF req[r].comp = 0 THEN Matched(r, Len(hits) * BlockSize) ELSE {0} :
           LET local == Len(hits) * BlockSize
               start == IF req[r].comp > 0 THEN req[r].comp ELSE local + ext
               loads == conf.async /\ ext > 0
           IN  \/ loads /\ StartLoad(r, hits, ext)
               \/ ~ loads /\ Admit(r, hits, ext)
               \/ /\ IF loads THEN ~ FitsLoad(r, hits, local + ext)
                     ELSE ~ FitsRun(r, hits, start)
                  /\ pass' = [pass EXCEPT !.phase = "end"]
                  /\ UNCHANGED <<req, running, waiting, kv, xs, wk>>
      /\ UNCHANGED <<engineVars, conf, upd>>

EndAdmissionLoop == /\ pass.phase = "waiting"
                    /\ ~ InAdmissionLoop
                    /\ pass' = [pass EXCEPT !.phase = "end"]
                    /\ UNCHANGED <<req, running, waiting, kv, engineVars, transferVars>>

\* The end of schedule(): a step with tokens is counted, and what the connector
\* was told goes out with the step.
EndTransferStep ==
  LET batch     == Elems(pass.batch)
      counted   == DeferBlockFree /\ batch # {}
      scheduled == {e.r : e \in batch}
      complete  == {e.r : e \in {e \in batch :
                      e.start + e.n >= Len(req[e.r].toks) + req[e.r].plh}}
  IN  /\ EndStep
      /\ xs' = [xs EXCEPT
           !.holding = Prepend(@, xs.skipped),
           !.skipped = <<>>,
           !.ahead = IF counted THEN @ + 1 ELSE @,
           !.last = [r \in Req |-> IF counted /\ r \in scheduled THEN xs.ahead + 1
                                   ELSE @[r]],
           !.prefills = @ \ complete]
      /\ wk' = [wk EXCEPT
           !.told = {},
           !.meta = Append(@, wk.told),
           !.job = [r \in Req |-> IF r \in wk.told THEN [@[r] EXCEPT !.stage = "sent"]
                                  ELSE @[r]]]
      /\ UNCHANGED <<conf, upd>>

-----------------------------------------------------------------------------
(* The connector on the workers (external): a load or a send that was handed   *)
(* out goes on beside the steps.  No other step of the scheduler looks at the  *)
(* contents, so it is enough that transfers move between two calls.            *)

\* The contents c after the good blocks of the job are written.
LoadedOn(c, r, job) ==
  [b \in Block |->
     IF \E i \in job.ext : job.tbl[i] = b
     THEN LET i == CHOOSE i \in job.ext : job.tbl[i] = b
          IN  IF i \in job.bad THEN <<>>
              ELSE SubSeq(Prompt[r], 1, AtMost(i * BlockSize, job.upto))
     ELSE c[b]]

JobFails(r) ==
  /\ Quiet
  /\ conf.async /\ wk.job[r].kind = "load" /\ wk.job[r].stage = "sent"
  /\ wk.job[r].bad = {} /\ wk.failures < conf.failures
  /\ \E bad \in SUBSET wk.job[r].ext \ {{}} :
       wk' = [wk EXCEPT !.job[r].bad = bad, !.failures = @ + 1]
  /\ UNCHANGED <<schedVars, engineVars, conf, xs, upd>>

JobEnds(r) ==
  /\ Quiet
  /\ conf.async \/ wk.job[r].kind = "send"
  /\ wk.job[r].stage = "sent"
  /\ wk' = [wk EXCEPT !.job[r].stage = "done"]
  /\ content' = LoadedOn(content, r, wk.job[r])
  /\ UNCHANGED <<schedVars, policy, steps, output, known, conf, xs, upd>>

-----------------------------------------------------------------------------
(* update_from_output() *)

\* The jobs that the workers have heard of when they run the oldest step.
Heard(r) == /\ wk.job[r].stage \in {"sent", "done"}
            /\ \A i \in 2 .. Len(wk.meta) : r \notin wk.meta[i]

\* How many entries of q are at or below the step being processed.
Passed(q) == Cardinality({i \in DOMAIN q : \A j \in 1 .. i : q[j].fence <= 1})

After(n) == AtLeast(n - 1, 0)
Rest(q) == [i \in 1 .. Len(q) - Passed(q) |->
              [q[i + Passed(q)] EXCEPT !.fence = After(@)]]

\* _drain_deferred_frees
DrainedPool ==
  LET f[i \in 0 .. Passed(xs.frees)] ==
        IF i = 0 THEN kv.pool
        ELSE FreeBlocks(f[i - 1], Backwards(xs.frees[i].blocks))
  IN  f[Passed(xs.frees)]

\* _drain_deferred_loads: the connector is told of the loads.
DrainedLoads == {xs.loads[i] : i \in 1 .. Passed(xs.loads)}

\* processed_step_seq is incremented for a step with tokens.
Counted == DeferBlockFree /\ Head(steps) # <<>>

ScheduledIn(step, r) == IF \E e \in Elems(step) : e.r = r
                        THEN (CHOOSE e \in Elems(step) : e.r = r).n ELSE 0

\* The computed blocks of r among the invalid ones, by index.
InvalidOf(r, bad) ==
  {i \in 1 .. AtMost(NumBlocks(req[r].comp - ScheduledIn(Head(steps), r)),
                     Len(kv.table[r])) : kv.table[r][i] \in bad}

\* Invalid blocks that no request before r in self.running has: only the first
\* request recomputes a block they share.
OwnInvalidOf(r, bad) ==
  LET before == {s \in Elems(running) : \E i, j \in DOMAIN running :
                                          i < j /\ running[i] = s /\ running[j] = r}
  IN  {i \in InvalidOf(r, bad) :
         \A s \in before : \A j \in InvalidOf(s, bad) : kv.table[s][j] # kv.table[r][i]}

AsyncFailed(bad) == {r \in Elems(xs.holding) : IsRemote(r) /\ InvalidOf(r, bad) # {}}
SyncFailed(bad) == {r \in Elems(running) : InvalidOf(r, bad) # {}}

\* Faulty variant of Truncated: the first invalid block counts as computed.
TruncatedAfter(r, own) ==
  IF own # {} THEN Min(own) * BlockSize
  ELSE req[r].comp - ScheduledIn(Head(steps), r)

\* _update_requests_with_invalid_blocks: the computed tokens end at the first
\* invalid block, or before the step if others recompute all of them.
Truncated(r, own) ==
  IF own # {} THEN (Min(own) - 1) * BlockSize
  ELSE req[r].comp - ScheduledIn(Head(steps), r)

TruncatedRequests(bad) ==
  [r \in Req |->
     IF r \in AsyncFailed(bad)
     THEN [req[r] EXCEPT !.comp = Truncated(r, InvalidOf(r, bad))]
     ELSE IF r \in SyncFailed(bad)
     THEN [req[r] EXCEPT !.comp = Truncated(r, OwnInvalidOf(r, bad))]
     ELSE req[r]]

\* Under the fail policy invalid blocks and those after them leave the cache.
EvictedPool(pool, bad) ==
  IF conf.recompute THEN pool
  ELSE MaybeEvictCachedBlocks(pool,
         UNION {{kv.table[r][i] : i \in {i \in DOMAIN kv.table[r] :
                                           \E j \in OwnInvalidOf(r, bad) : i >= j}} :
                r \in SyncFailed(bad)})

\* The failures a step with loads of its own may have.
StepFailures ==
  LET own == {r \in Req : ~ conf.async /\ wk.job[r].kind = "load" /\ Heard(r)}
  IN  {[r \in own |-> {}]} \cup
      (IF wk.failures = conf.failures THEN {}
       ELSE {f \in [own -> UNION {SUBSET wk.job[r].ext : r \in own}] :
               /\ \A r \in own : f[r] \subseteq wk.job[r].ext
               /\ Cardinality({r \in own : f[r] # {}}) = 1})

LoadedInStep(fails) ==
  LET f == [r \in DOMAIN fails |-> LoadedOn(content, r, [wk.job[r] EXCEPT !.bad = fails[r]])]
  IN  [b \in Block |->
         IF \E r \in DOMAIN fails : \E i \in wk.job[r].ext : wk.job[r].tbl[i] = b
         THEN f[CHOOSE r \in DOMAIN fails :
                  \E i \in wk.job[r].ext : wk.job[r].tbl[i] = b][b]
         ELSE content[b]]

\* The entries of a step that find their own prefix, by index: what an entry
\* computes from anything else is of no use to a later one that shares it.
Sound(step, before) ==
  LET after == WrittenOn(before, step)
      written(e) == {e.tbl[i] : i \in Writes(e)}
      read(e) == {e.tbl[i] : i \in {i \in DOMAIN e.tbl : i * BlockSize <= e.start}}
      f[i \in 0 .. Len(step)] ==
        IF i = 0 THEN {}
        ELSE f[i - 1] \cup
               {j \in {i} : /\ FindsOwnPrefix(step[i], before, after)
                           /\ \A k \in 1 .. i - 1 :
                                read(step[i]) \cap written(step[k]) # {} => k \in f[i - 1]}
  IN  f[Len(step)]

\* The oldest step is executed and update_from_output begins: the fences advance
\* and invalid blocks are handled, before the requests of the step.
ExecuteTransferStep ==
  /\ Quiet
  /\ steps # <<>>
  /\ Len(steps) = MaxInFlight \/ ~ HasRequests
  /\ \E fails \in StepFailures :
       LET step   == Head(steps)
           bad    == UNION {{wk.job[r].tbl[i] : i \in fails[r]} : r \in DOMAIN fails} \cup
                     UNION {{wk.job[r].tbl[i] : i \in wk.job[r].bad} :
                              r \in {r \in Req : Heard(r)}}
           ended  == {r \in Req : Heard(r) /\ wk.job[r].stage = "done"}
           before == LoadedInStep(fails)
           sound  == Sound(step, before)
           lost   == UNION {{step[j].tbl[i] : i \in Writes(step[j])} :
                            j \in DOMAIN step \ sound}
           drained == IF Counted THEN DrainedPool ELSE kv.pool
           started == IF Counted THEN DrainedLoads ELSE {}
       IN  /\ steps' = Tail(steps)
           /\ output' = step
           /\ content' = [b \in Block |-> IF b \in lost THEN <<>>
                                         ELSE WrittenOn(before, step)[b]]
           /\ known' = [r \in Req |-> IF \E e \in Elems(step) : e.r = r
                          THEN Inputs(CHOOSE e \in Elems(step) : e.r = r) ELSE known[r]]
           /\ req' = TruncatedRequests(bad)
           /\ kv' = [kv EXCEPT !.pool = EvictedPool(drained, bad)]
           /\ xs' = [xs EXCEPT
                !.failed = IF conf.recompute THEN @ \cup AsyncFailed(bad) ELSE @,
                !.ahead = IF Counted THEN @ - 1 ELSE @,
                !.last = [r \in Req |-> IF Counted THEN After(@[r]) ELSE @[r]],
                !.frees = IF Counted THEN Rest(@) ELSE @,
                !.loads = IF Counted THEN Rest(@) ELSE @]
           /\ wk' = [wk EXCEPT
                !.told = @ \cup {d.r : d \in started},
                !.meta = Tail(@),
                !.failures = @ + Cardinality({r \in DOMAIN fails : fails[r] # {}}),
                !.job = [r \in Req |->
                           IF r \in ended \cup DOMAIN fails THEN NoJob
                           ELSE IF \E d \in started : d.r = r
                           THEN (CHOOSE d \in started : d.r = r).job ELSE @[r]]]
           /\ upd' = [on    |-> TRUE,
                      skip  |-> SyncFailed(bad) \cup
                                  (IF conf.recompute THEN {} ELSE AsyncFailed(bad)),
                      done  |-> ended,
                      sound |-> {step[j].r : j \in sound}]
  /\ UNCHANGED <<running, waiting, pass, policy, conf>>

\* The output of the next request of the step, which is dropped if its load
\* failed; the worker then drops the token too.
UpdateTransferOutput ==
  /\ output # <<>>
  /\ output' = Tail(output)
  /\ LET e       == Head(output)
         r       == e.r
         s       == req[r]
         dropped == Live(r) /\ r \in upd.skip
     IN  \E out \in IF Samples(e) THEN {<<t>> : t \in Token} ELSE {<<>>} :
           /\ known' = IF dropped THEN known ELSE [known EXCEPT ![r] = @ \o out]
           /\ \/ /\ ~ Live(r)
                 /\ UNCHANGED <<req, running, waiting, kv, xs, wk>>
              \/ /\ Live(r) /\ (dropped \/ IgnoresOutput(s, out))
                 /\ req' = [req EXCEPT ![r] = Drained(s, e.n)]
                 /\ UNCHANGED <<running, waiting, kv, xs, wk>>
              \/ /\ Live(r) /\ ~ dropped /\ ~ IgnoresOutput(s, out)
                 /\ ~ Stops(r, s.toks \o out)
                 /\ req' = [req EXCEPT ![r] = Told(s, e.n, out)]
                 /\ kv' = CachedOutput(r, e.n, out)
                 /\ UNCHANGED <<running, waiting, xs, wk>>
              \/ /\ Live(r) /\ ~ dropped /\ ~ IgnoresOutput(s, out)
                 /\ Stops(r, s.toks \o out)
                 /\ \E sends \in KeepsToSend(r) :
                      Finish(r, s.toks \o out, CachedOutput(r, e.n, out), sends)
  /\ UNCHANGED <<pass, policy, steps, content, conf, upd>>

Updating == upd.on /\ output = <<>>

\* Under the fail policy the requests whose load failed end with an error.
ToFail == IF conf.recompute THEN {} ELSE {r \in upd.skip : Live(r)}

FailRequest == /\ Updating
               /\ \E r \in ToFail : Finish(r, req[r].toks, kv, FALSE)
               /\ UNCHANGED <<pass, engineVars, conf, upd>>

\* _update_from_kv_xfer_finished for one transfer: its request can be scheduled,
\* or has finished and is freed.
TransferFinished ==
  /\ Updating /\ ToFail = {}
  /\ \E r \in upd.done :
       /\ upd' = [upd EXCEPT !.done = @ \ {r}]
       /\ \/ /\ IsRemote(r)
             /\ xs' = [xs EXCEPT !.recved = @ \cup {r}]
             /\ UNCHANGED kv
          \/ /\ ~ IsRemote(r)
             /\ kv' = FreedNow(kv, r)
             /\ xs' = [xs EXCEPT !.frees = FreedLater(kv, r), !.delayed = @ \ {r}]
  /\ UNCHANGED <<req, running, waiting, pass, engineVars, conf, wk>>

EndUpdate == /\ Updating /\ ToFail = {} /\ upd.done = {}
             /\ upd' = NoUpdate
             /\ UNCHANGED <<schedVars, engineVars, conf, xs, wk>>

TransferNext ==
  \/ ReceiveRequest
  \/ \E r \in Req : AbortRequest(r) \/ JobFails(r) \/ JobEnds(r)
  \/ BeginTransferStep
  \/ RunningTurn
  \/ PreemptTurn
  \/ GiveUpTurn
  \/ SkipTurn
  \/ PromoteTurn
  \/ AdmitTurn
  \/ EndAdmissionLoop
  \/ EndTransferStep
  \/ ExecuteTransferStep
  \/ UpdateTransferOutput
  \/ FailRequest
  \/ TransferFinished
  \/ EndUpdate

TransferSpec == TransferInit /\ [][TransferNext]_allVars

-----------------------------------------------------------------------------
\* The blocks a job is still going to write or read, and those of a load that
\* waits to start.
Targets(r) ==
  {wk.job[r].tbl[i] : i \in IF wk.job[r].stage \in {"told", "sent"}
                            THEN wk.job[r].ext ELSE {}}

\* The memory a load in progress writes belongs to it alone: each block is in the
\* table of its request and of no other, is not in the prefix cache, and no step
\* in flight writes it, whatever was freed, aborted or preempted before.
LoadsOwnTheirBlocks ==
  conf.async =>
    \A r \in Req : \A b \in Targets(r) :
      /\ kv.pool.ref[b] = 1 /\ b \in Elems(kv.table[r])
      /\ kv.pool.hash[b] = NoHash
      /\ \A e \in UNION {Elems(s) : s \in Elems(steps)} :
           \A i \in Writes(e) : e.tbl[i] # b

\* A token is delivered only if every block its step read held the keys and
\* values of the request's own tokens: loaded, cached or computed, with failed
\* loads, shared blocks, aborts and late writes of steps in flight.
SampledFromOwnPrefix ==
  output # <<>> =>
    LET e == Head(output)
    IN  Live(e.r) /\ e.r \notin upd.skip => e.r \in upd.sound

\* A block in the prefix cache holds the tokens of its key, or a step in flight
\* computes or loads them: blocks that failed to load, and those computed from
\* them, never stay in the cache.
CachedBlocksAreValid ==
  \A k \in Key : \A b \in kv.pool.map[k] :
    \/ content[b] = k
    \/ \E e \in UNION {Elems(s) : s \in Elems(steps) \cup {pass.batch}} :
         \E i \in Writes(e) : e.tbl[i] = b /\ i * BlockSize = Len(k)
                              /\ e.start + e.n >= Len(k)
    \/ \E r \in Req : ~ conf.async /\ \E i \in wk.job[r].ext : wk.job[r].tbl[i] = b

\* Every reference of a block is one of a block table or of a deferred free, and
\* only requests that run, load, have loaded or are kept for a transfer hold a
\* table: nothing is freed twice and nothing leaks.
BlocksAccountedFor ==
  /\ QueueOK(kv.pool)
  /\ \A b \in Block :
       kv.pool.ref[b] =
         Cardinality({r \in Req : b \in Elems(kv.table[r])})
           + Cardinality({i \in DOMAIN xs.frees : b \in Elems(xs.frees[i].blocks)})
  /\ \A r \in Req : kv.table[r] # <<>> =>
       \/ r \in Elems(running) \cup Elems(xs.holding) \cup Elems(xs.skipped)
       \/ r \in xs.delayed

\* Whatever the scheduler waits for will be reported: a request that waits for
\* its load has one deferred, in progress or reported, a finished request is kept
\* only while a transfer of it goes on, a deferred free or load waits for a step
\* in flight, and no report is remembered for a request that no longer waits.
EveryWaitIsAnswered ==
  LET pending == {r \in Req : wk.job[r].kind # "none"} \cup upd.done
  IN  /\ \A r \in Req : IsRemote(r) =>
           r \in pending \cup xs.recved \cup {d.r : d \in Elems(xs.loads)}
      /\ xs.delayed \subseteq pending
      /\ xs.recved \cup xs.failed \subseteq {r \in Req : IsRemote(r)}
      /\ xs.ahead = Cardinality({i \in DOMAIN steps : steps[i] # <<>>}) \/ ~ DeferBlockFree
      /\ \A d \in Elems(xs.frees) \cup Elems(xs.loads) : d.fence \in 1 .. xs.ahead
=============================================================================
