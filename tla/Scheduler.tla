------------------------------ MODULE Scheduler ------------------------------
(***************************************************************************)
(* The V1 scheduler: Scheduler (vllm/v1/core/sched/scheduler.py),          *)
(* AsyncScheduler (async_scheduler.py) and the request queues              *)
(* (request_queue.py), for decoder-only text requests on the KV cache      *)
(* manager of module KVCacheManager.                                       *)
(*                                                                         *)
(* schedule() is a sequence of small steps, one for each turn of its two   *)
(* loops and of the loop around allocate_slots; pass holds its locals.     *)
(* Nothing else runs between those steps.                                  *)
(***************************************************************************)
EXTENDS KVCacheManager

CONSTANTS Prompt,          \* prompt_token_ids of each request
          MaxTokens,       \* sampling_params.max_tokens
          Eos,             \* the token that stops a request
          Rank,            \* (priority, arrival_time) under PRIORITY
          TokenBudget,     \* max_num_scheduled_tokens
          MaxNumSeqs,      \* max_num_running_reqs
          Policies         \* the configurations considered

ASSUME SchedulerAssumption ==
  /\ Prompt \in [Req -> Seq(Token)]
  /\ \A r \in Req : Len(Prompt[r]) \in 1 .. MaxModelLen - 1
  /\ {MaxTokens, TokenBudget, MaxNumSeqs} \subseteq Nat \ {0}
  /\ Policies \subseteq [async : BOOLEAN, priority : BOOLEAN, longPrefill : Nat,
                          reserveFullIsl : BOOLEAN, maxInFlight : Nat \ {0},
                          resets : BOOLEAN]
  /\ Rank \in [Req -> Nat] /\ \A r, s \in Req : Rank[r] = Rank[s] => r = s

VARIABLES req,      \* the Request objects
          running,  \* self.running
          waiting,  \* self.waiting, in the order of its iterator
          kv,       \* self.kv_cache_manager
          pass,     \* where schedule() is, and its locals
          policy    \* the configuration, which never changes

schedVars == <<req, running, waiting, kv, pass>>

Async == policy.async                    \* AsyncScheduler rather than Scheduler
Priority == policy.priority              \* PRIORITY rather than FCFS
LongPrefill == policy.longPrefill        \* long_prefill_token_threshold
ReserveFullIsl == policy.reserveFullIsl  \* scheduler_reserve_full_isl

\* plh is num_output_placeholders, infl num_in_flight_tokens, stale
\* num_stale_output_tokens and drop drop_stale_output.
NewRequest(r) == [status |-> "NEW", toks |-> Prompt[r], comp |-> 0, plh |-> 0,
                  infl |-> 0, stale |-> 0, drop |-> FALSE]

\* A request that has stopped keeps nothing but its tokens.
Finished(r, toks) == [NewRequest(r) EXCEPT !.status = "FINISHED", !.toks = toks]

Idle == [phase |-> "idle", idx |-> 1, budget |-> 0, cap |-> 0, want |-> 0,
         preempted |-> FALSE, batch |-> <<>>, skipped |-> <<>>]

SchedInit == /\ req = [r \in Req |-> NewRequest(r)]
             /\ running = <<>>
             /\ waiting = <<>>
             /\ kv = NewManager
             /\ pass = Idle
             /\ policy \in Policies

Unfinished(r) == req[r].status \in {"WAITING", "PREEMPTED", "RUNNING"}

-----------------------------------------------------------------------------
(* Request queues *)

\* A heap is iterated by rank.
ByRank(S) == [i \in 1 .. Cardinality(S) |->
                CHOOSE r \in S : Cardinality({s \in S : Rank[s] <= Rank[r]}) = i]

AddToQueue(q, r) == IF Priority THEN ByRank(Elems(q) \cup {r}) ELSE Append(q, r)

\* prepend_request, and prepend_requests of requests skipped in order.
Prepend(q, rs) == IF Priority THEN ByRank(Elems(q) \cup Elems(rs)) ELSE rs \o q

Without(q, r) == Keep(q, Req \ {r})

-----------------------------------------------------------------------------
(* Requests entering and leaving between calls of schedule() *)

AddRequest(r) ==
  /\ pass.phase = "idle"
  /\ req[r].status = "NEW"
  /\ req' = [req EXCEPT ![r].status = "WAITING"]
  /\ waiting' = AddToQueue(waiting, r)
  /\ UNCHANGED <<running, kv, pass>>

\* Faulty variant of Abort: the blocks of the request are not freed.
AbortKeepsBlocks(r) ==
  /\ pass.phase = "idle"
  /\ Unfinished(r)
  /\ req' = [req EXCEPT ![r] = Finished(r, req[r].toks)]
  /\ running' = Without(running, r)
  /\ waiting' = Without(waiting, r)
  /\ UNCHANGED <<kv, pass>>

\* Faulty variant of Abort: a preempted request stays in the queue.
AbortKeepsQueued(r) ==
  /\ pass.phase = "idle"
  /\ Unfinished(r)
  /\ req' = [req EXCEPT ![r] = Finished(r, req[r].toks)]
  /\ running' = Without(running, r)
  /\ waiting' = IF req[r].status = "PREEMPTED" THEN waiting ELSE Without(waiting, r)
  /\ kv' = Free(kv, r)
  /\ UNCHANGED pass

\* finish_requests(FINISHED_ABORTED): the request leaves its queue and is freed,
\* whatever steps of it are in flight.
Abort(r) ==
  /\ pass.phase = "idle"
  /\ Unfinished(r)
  /\ req' = [req EXCEPT ![r] = Finished(r, req[r].toks)]
  /\ running' = Without(running, r)
  /\ waiting' = Without(waiting, r)
  /\ kv' = Free(kv, r)
  /\ UNCHANGED pass

\* Faulty variant of Preempted: the output in flight is not marked as stale.
PreemptedFresh(s, drop) ==
  [s EXCEPT !.status = "PREEMPTED", !.comp = 0, !.plh = 0,
            !.drop = drop \/ (s.drop /\ s.stale > 0)]

\* _preempt_request: all output in flight becomes stale.
Preempted(s, drop) ==
  [s EXCEPT !.status = "PREEMPTED", !.comp = 0, !.plh = 0, !.stale = s.infl,
            !.drop = drop \/ (s.drop /\ s.stale > 0)]

\* reset_prefix_cache without reset_running_requests
ResetIdleCache ==
  /\ pass.phase = "idle"
  /\ MayResetPrefixCache(kv.pool)
  /\ kv' = [kv EXCEPT !.pool = ResetPrefixCache(@)]
  /\ UNCHANGED <<req, running, waiting, pass>>

\* Faulty variant of FreeAll: the first running request is missed.
FreeAllButFirst == LET f[i \in 0 .. Len(running)] ==
                         IF i = 0 THEN kv
                         ELSE Free(f[i - 1], running[Len(running) + 1 - i])
                   IN  f[AtLeast(Len(running) - 1, 0)]

\* The manager once every running request is freed, the last first.
FreeAll == LET f[i \in 0 .. Len(running)] ==
                 IF i = 0 THEN kv ELSE Free(f[i - 1], running[Len(running) + 1 - i])
           IN  f[Len(running)]

\* reset_prefix_cache with reset_running_requests preempts every running request
\* and drops its output in flight.
ResetRunning ==
  /\ pass.phase = "idle"
  /\ running # <<>>
  /\ req' = [r \in Req |-> IF r \in Elems(running) THEN Preempted(req[r], TRUE)
                           ELSE req[r]]
  /\ waiting' = Prepend(waiting, running)
  /\ running' = <<>>
  /\ kv' = [FreeAll EXCEPT !.pool = ResetPrefixCache(@)]
  /\ UNCHANGED pass

-----------------------------------------------------------------------------
(* schedule() *)

StartSchedule ==
  /\ pass.phase = "idle"
  /\ pass' = [Idle EXCEPT
                !.phase = "running", !.budget = TokenBudget,
                !.cap = IF Len(running) + Len(waiting) > 1 THEN LongPrefill ELSE 0]
  /\ UNCHANGED <<req, running, waiting, kv>>

\* A chunk is cut at the threshold when there are other requests.
Capped(n) == IF pass.cap > 0 THEN AtMost(n, pass.cap) ELSE n

\* An entry of the scheduler output: tokens start + 1 .. start + n of r, on the
\* block table tbl.  A new or resumed request comes with its tokens.
Entry(r, start, n, tbl, tokens) ==
  [r |-> r, start |-> start, n |-> n, tbl |-> tbl, tokens |-> tokens]

InRunningLoop == /\ pass.phase = "running"
                 /\ pass.idx <= Len(running)
                 /\ pass.budget > 0

Current == running[pass.idx]

\* The step in flight is sure to produce the last token of the request.
LastTokenInFlight(r) ==
  /\ req[r].plh > 0
  /\ req[r].comp + 2 - req[r].plh >= Len(Prompt[r]) + MaxTokens

\* num_new_tokens, computed once for all attempts to allocate.
NumNewTokens(r) ==
  IF pass.want > 0 THEN pass.want
  ELSE LET left == Capped(Len(req[r].toks) + req[r].plh - req[r].comp)
       IN  AtMost(AtMost(left, pass.budget), MaxModelLen - req[r].comp - 1)

SkipRunning ==
  /\ InRunningLoop
  /\ LastTokenInFlight(Current) \/ NumNewTokens(Current) = 0
  /\ pass' = [pass EXCEPT !.idx = @ + 1]
  /\ UNCHANGED <<req, running, waiting, kv>>

WantsSlots == /\ InRunningLoop
              /\ ~ LastTokenInFlight(Current)
              /\ NumNewTokens(Current) # 0

HasSlots(r, n) ==
  CanAllocateSlots(kv, r, <<>>, req[r].comp + n, Len(req[r].toks), FALSE, 0)

ScheduleRunning ==
  LET r == Current
      n == NumNewTokens(r)
  IN  /\ WantsSlots
      /\ HasSlots(r, n)
      /\ kv' = AllocateSlots(kv, r, req[r].toks, <<>>, req[r].comp + n)
      /\ pass' = [pass EXCEPT
           !.idx = @ + 1, !.budget = @ - n, !.want = 0,
           !.batch = Append(@, Entry(r, req[r].comp, n, kv'.table[r], <<>>))]
      /\ UNCHANGED <<req, running, waiting>>

\* The lowest-priority running request, or the last.
Victim == IF Priority
          THEN CHOOSE r \in Elems(running) :
                 \A s \in Elems(running) : Rank[s] <= Rank[r]
          ELSE running[Len(running)]

\* Faulty variant of Restored: the tokens of the victim stay spent.
RestoredNothing(victim) == 0

\* The tokens this pass scheduled for a request it then preempts.
Restored(victim) ==
  IF \E e \in Elems(pass.batch) : e.r = victim
  THEN (CHOOSE e \in Elems(pass.batch) : e.r = victim).n ELSE 0

\* Not enough blocks: the victim is preempted and the allocation tried again.
\* Under PRIORITY the victim may be before the current request and already in
\* the batch, which gives its tokens back to the budget.
PreemptRunning ==
  LET r        == Current
      n        == NumNewTokens(r)
      victim   == Victim
      before   == victim \in {running[i] : i \in 1 .. pass.idx - 1}
  IN  /\ WantsSlots
      /\ ~ HasSlots(r, n)
      /\ running' = Without(running, victim)
      /\ waiting' = Prepend(waiting, <<victim>>)
      /\ req' = [req EXCEPT ![victim] = Preempted(@, FALSE)]
      /\ kv' = Free(kv, victim)
      /\ pass' = [pass EXCEPT
           !.phase = IF victim = r /\ ~ Priority THEN "end" ELSE "running",
           !.idx = IF before THEN @ - 1 ELSE @,
           !.want = IF victim = r THEN 0 ELSE n,
           !.budget = @ + Restored(victim),
           !.batch = Keep(@, {e \in Elems(@) : e.r # victim}),
           !.preempted = TRUE]

\* Waiting requests are looked at only if no running one was preempted.
EndRunningLoop ==
  /\ pass.phase = "running"
  /\ ~ InRunningLoop
  /\ pass' = [pass EXCEPT !.phase = IF pass.preempted THEN "end" ELSE "waiting"]
  /\ UNCHANGED <<req, running, waiting, kv>>

InWaitingLoop == /\ pass.phase = "waiting"
                 /\ pass.budget > 0
                 /\ waiting # <<>>
                 /\ Len(running) < MaxNumSeqs

\* Output of the request that will still be delivered is in flight.
AwaitsStaleOutput(r) == req[r].stale > 0 /\ ~ req[r].drop

SkipWaiting ==
  /\ InWaitingLoop
  /\ AwaitsStaleOutput(Head(waiting))
  /\ waiting' = Tail(waiting)
  /\ pass' = [pass EXCEPT !.skipped = Append(@, Head(waiting))]
  /\ UNCHANGED <<req, running, kv>>

\* One turn of the waiting loop: the request at the head is admitted with its
\* cache hits, or its allocation fails and the loop ends.
TryAdmit ==
  /\ InWaitingLoop
  /\ ~ AwaitsStaleOutput(Head(waiting))
  /\ LET r         == Head(waiting)
         toks      == req[r].toks
         watermark == IF running # <<>> THEN WatermarkBlocks ELSE 0
     IN  \E hits \in GetComputedBlocks(kv, toks) :
           LET start == Len(hits) * BlockSize
               n     == AtMost(Capped(Len(toks) - start), pass.budget)
               fits  == CanAllocateSlots(kv, r, hits, start + n, Len(toks),
                                         ReserveFullIsl, watermark)
           IN  \/ /\ fits
                  /\ kv' = AllocateSlots(kv, r, toks, hits, start + n)
                  /\ running' = Append(running, r)
                  /\ waiting' = Tail(waiting)
                  /\ req' = [req EXCEPT ![r].status = "RUNNING", ![r].comp = start]
                  /\ pass' = [pass EXCEPT
                       !.budget = @ - n,
                       !.batch = Append(@, Entry(r, start, n, kv'.table[r], toks))]
               \/ /\ ~ fits
                  /\ pass' = [pass EXCEPT !.phase = "end"]
                  /\ UNCHANGED <<req, running, waiting, kv>>

EndWaitingLoop ==
  /\ pass.phase = "waiting"
  /\ ~ InWaitingLoop
  /\ pass' = [pass EXCEPT !.phase = "end"]
  /\ UNCHANGED <<req, running, waiting, kv>>

\* _update_after_schedule: the scheduled tokens count as computed, and under
\* async scheduling a request that has no more tokens to compute is given a
\* placeholder for the one it samples.
Advanced(s, n) ==
  [s EXCEPT !.comp = @ + n, !.infl = @ + n,
            !.plh = IF Async /\ s.comp + n >= Len(s.toks) + s.plh THEN @ + 1 ELSE @]

\* The skipped requests go back to the front of the queue and the step is out.
FinishSchedule ==
  /\ pass.phase = "end"
  /\ waiting' = Prepend(waiting, pass.skipped)
  /\ req' = [r \in Req |-> IF \E e \in Elems(pass.batch) : e.r = r
                           THEN Advanced(req[r], (CHOOSE e \in Elems(pass.batch) :
                                                    e.r = r).n)
                           ELSE req[r]]
  /\ pass' = Idle
  /\ UNCHANGED <<running, kv>>

-----------------------------------------------------------------------------
(* update_from_output(), one request of the step at a time *)

\* Faulty variant of Stops: the limits are off by one.
StopsLate(r, toks) ==
  \/ toks[Len(toks)] = Eos
  \/ Len(toks) > MaxModelLen
  \/ Len(toks) - Len(Prompt[r]) > MaxTokens

\* check_stop
Stops(r, toks) ==
  \/ toks[Len(toks)] = Eos
  \/ Len(toks) >= MaxModelLen
  \/ Len(toks) - Len(Prompt[r]) >= MaxTokens

\* The n tokens of a step are no longer in flight, nor stale if they were.
Drained(s, n) == [s EXCEPT !.infl = @ - n, !.stale = IF @ > 0 THEN @ - n ELSE @]

\* Nothing was sampled, or the output is of before a reset of the running requests.
IgnoresOutput(s, out) == (s.stale > 0 /\ s.drop) \/ out = <<>>

\* _update_request_with_output
Told(s, n, out) == [Drained(s, n) EXCEPT
                      !.toks = @ \o out,
                      !.plh = IF s.stale = 0 /\ @ > 0 THEN @ - 1 ELSE @]

\* Under async scheduling the blocks the sampled token fills are cached now.
CachedOutput(r, n, out) ==
  LET s    == req[r]
      told == Told(s, n, out)
  IN  IF s.stale = 0 /\ s.status = "RUNNING" /\ s.plh > 0
      THEN CacheBlocks(kv, r, told.toks, told.comp - told.infl) ELSE kv

\* The entry scheduled n tokens of r, and the model sampled the tokens in out,
\* none or one.
UpdateFromOutput(r, n, out) ==
  LET s       == req[r]
      toks    == s.toks \o out
      stopped == Stops(r, toks)
  IN  \/ /\ ~ Unfinished(r)
         /\ UNCHANGED <<req, running, waiting, kv>>
      \/ /\ Unfinished(r) /\ IgnoresOutput(s, out)
         /\ req' = [req EXCEPT ![r] = Drained(s, n)]
         /\ UNCHANGED <<running, waiting, kv>>
      \/ /\ Unfinished(r) /\ ~ IgnoresOutput(s, out) /\ ~ stopped
         /\ req' = [req EXCEPT ![r] = Told(s, n, out)]
         /\ kv' = CachedOutput(r, n, out)
         /\ UNCHANGED <<running, waiting>>
      \/ /\ Unfinished(r) /\ ~ IgnoresOutput(s, out) /\ stopped
         /\ req' = [req EXCEPT ![r] = Finished(r, toks)]
         /\ kv' = Free(CachedOutput(r, n, out), r)
         /\ running' = Without(running, r)
         /\ waiting' = Without(waiting, r)
=============================================================================
