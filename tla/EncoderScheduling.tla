------------------------- MODULE EncoderScheduling -------------------------
(***************************************************************************)
(* The life of encoder outputs: the scheduler decides which multimodal     *)
(* inputs a step encodes, references and frees, and the worker, one or     *)
(* more steps behind, keeps the outputs (encoder_cache of the model        *)
(* runner).                                                                *)
(*                                                                         *)
(* The parts of schedule() that do not look at encoder inputs are left     *)
(* open: the tokens the budget allows a request, the prefix cache hit it   *)
(* starts from, whether its KV blocks can be allocated, and, under FCFS,   *)
(* the order of the waiting requests.  Output tokens play no role: a       *)
(* request stays running after its prompt until it stops or is aborted.    *)
(***************************************************************************)
EXTENDS EncoderCacheManager

LOCAL INSTANCE FiniteSetsExt

CONSTANTS EncoderBudget,   \* max_num_encoder_input_tokens
          MaxChunk,        \* most tokens of a request in a step
          Policies,        \* the configurations considered
          Rank,            \* (priority, arrival_time) under PRIORITY
          MaxInFlight      \* batch_queue_size

VARIABLES cache,    \* self.encoder_cache_manager
          comp,     \* num_computed_tokens
          running,  \* self.running
          waiting,  \* the requests waiting, new or preempted
          pass,     \* locals of schedule()
          steps,    \* scheduler outputs in flight, oldest first
          worker,   \* the items in the worker's encoder_cache
          policy    \* the configuration, which never changes

vars == <<cache, comp, running, waiting, pass, steps, worker, policy>>

Priority == policy.priority   \* SchedulingPolicy.PRIORITY rather than FCFS
Whole == policy.whole         \* disable_chunked_mm_input

Elems(q) == {q[i] : i \in DOMAIN q}

\* want is the request whose slots are to be allocated, with the results of
\* _try_schedule_encoder_inputs; req is "none" between requests.
NoRequest == [req |-> "none", start |-> 0, n |-> 0, budget |-> 0, sched |-> {},
              dup |-> {}]
Idle == [phase |-> "idle", idx |-> 1, budget |-> 0, want |-> NoRequest,
         batch |-> {}, tried |-> {}, preempted |-> FALSE]

Init == /\ cache = NewCache
        /\ comp = [r \in Req |-> 0]
        /\ running = <<>> /\ waiting = {}
        /\ pass = Idle
        /\ steps = <<>> /\ worker = {}
        /\ policy \in Policies

-----------------------------------------------------------------------------
(* Between calls of schedule() *)

Arrive(r) == /\ pass.phase = "idle"
             /\ r \notin Elems(running) \cup waiting
             /\ \A s \in Elems(steps) : \A e \in s.entries : e.r # r
             /\ waiting' = waiting \cup {r}
             /\ comp' = [comp EXCEPT ![r] = 0]
             /\ UNCHANGED <<cache, running, pass, steps, worker>>

\* _free_request, of a request that stopped or is aborted.
Finish(r) == /\ pass.phase = "idle"
             /\ r \in Elems(running) \cup waiting
             /\ cache' = Free(cache, r)
             /\ running' = SelectSeq(running, LAMBDA x : x # r)
             /\ waiting' = waiting \ {r}
             /\ UNCHANGED <<comp, pass, steps, worker>>

\* reset_encoder_cache, used when nothing is in progress.
ResetEncoderCache == /\ pass.phase = "idle"
                     /\ running = <<>> /\ waiting = {} /\ steps = <<>>
                     /\ cache' = NewCache
                     /\ worker' = {}
                     /\ UNCHANGED <<comp, running, waiting, pass, steps>>

-----------------------------------------------------------------------------
(* schedule() *)

StartSchedule == /\ pass.phase = "idle"
                 /\ Len(steps) < MaxInFlight
                 /\ running # <<>> \/ waiting # {}
                 /\ pass' = [Idle EXCEPT !.phase = "running", !.budget = EncoderBudget]
                 /\ UNCHANGED <<cache, comp, running, waiting, steps, worker>>

Wanted(r, start, t) == [req |-> r, start |-> start, n |-> t.n, budget |-> t.budget,
                        sched |-> t.sched, dup |-> t.dup]

\* How many tokens the budgets may leave a request that is at token start.
Chunks(r, start) == 0 .. (IF NumTokens[r] - start < MaxChunk
                          THEN NumTokens[r] - start ELSE MaxChunk)

TryRunning ==
  /\ pass.phase = "running" /\ pass.want = NoRequest
  /\ pass.idx <= Len(running)
  /\ LET r == running[pass.idx]
     IN  \E n \in Chunks(r, comp[r]) :
           LET t == IF n = 0 THEN [c |-> cache, n |-> 0]
                    ELSE TryScheduleEncoderInputs(cache, r, comp[r], n, pass.budget, Whole)
           IN  /\ cache' = t.c
               /\ pass' = IF t.n = 0 THEN [pass EXCEPT !.idx = @ + 1]
                          ELSE [pass EXCEPT !.want = Wanted(r, comp[r], t)]
  /\ UNCHANGED <<comp, running, waiting, steps, worker>>

\* The request gets its slots and its encoder inputs are allocated.
Scheduled(w) ==
  /\ cache' = AllocateInputs(cache, w.req, w.sched, w.dup)
  /\ pass' = [pass EXCEPT
       !.want = NoRequest,
       !.idx = IF pass.phase = "running" THEN @ + 1 ELSE @,
       !.budget = IF w.sched # {} THEN w.budget ELSE @,
       !.batch = @ \cup {[r |-> w.req, start |-> w.start, n |-> w.n,
                          sched |-> w.sched]}]

ScheduleRunning ==
  /\ pass.phase = "running" /\ pass.want # NoRequest
  /\ Scheduled(pass.want)
  /\ UNCHANGED <<comp, running, waiting, steps, worker>>

\* The position of the lowest-priority running request, or the last.
VictimIndex == IF Priority
               THEN CHOOSE k \in DOMAIN running :
                      \A j \in DOMAIN running : Rank[running[j]] <= Rank[running[k]]
               ELSE Len(running)

\* No blocks for the request: a victim is preempted.  Under PRIORITY it may have
\* been scheduled in this pass already; its compute budget is restored then.
PreemptRunning ==
  /\ pass.phase = "running" /\ pass.want # NoRequest
  /\ LET v       == running[VictimIndex]
         self    == v = pass.want.req
         dropped == {e \in pass.batch : e.r = v}
     IN  /\ running' = SelectSeq(running, LAMBDA x : x # v)
         /\ waiting' = waiting \cup {v}
         /\ cache' = Free(cache, v)
         /\ comp' = [comp EXCEPT ![v] = 0]
         /\ pass' = [pass EXCEPT
              !.phase = IF self /\ ~ Priority THEN "end" ELSE @,
              !.idx = IF VictimIndex < @ THEN @ - 1 ELSE @,
              !.want = IF self THEN NoRequest ELSE @,
              !.batch = @ \ dropped,
              !.budget = @ + MapThenSumSet(LAMBDA i : Embeds[HashOf(v, i)],
                                           UNION {e.sched : e \in dropped}),
              !.preempted = TRUE]
  /\ UNCHANGED <<steps, worker>>

\* The loop ends when all running requests had their turn or the token budget,
\* left open here, is used up.
EndRunningLoop ==
  /\ pass.phase = "running" /\ pass.want = NoRequest
  /\ pass.idx > Len(running) \/ pass.batch # {}
  /\ pass' = [pass EXCEPT !.phase = IF pass.preempted THEN "end" ELSE "waiting"]
  /\ UNCHANGED <<cache, comp, running, waiting, steps, worker>>

\* A waiting request is skipped if none of its tokens can be scheduled.  Under
\* PRIORITY the queue is a heap by rank.
TryWaiting ==
  /\ pass.phase = "waiting" /\ pass.want = NoRequest
  /\ \E r \in waiting \ pass.tried :
       /\ Priority => \A s \in waiting \ pass.tried : Rank[r] <= Rank[s]
       /\ \E start \in 0 .. NumTokens[r] - 1 : \E n \in Chunks(r, start) \ {0} :
            LET t == TryScheduleEncoderInputs(cache, r, start, n, pass.budget, Whole)
            IN  /\ cache' = t.c
                /\ pass' = [pass EXCEPT
                     !.tried = @ \cup {r},
                     !.want = IF t.n = 0 THEN NoRequest ELSE Wanted(r, start, t)]
  /\ UNCHANGED <<comp, running, waiting, steps, worker>>

AdmitWaiting ==
  /\ pass.phase = "waiting" /\ pass.want # NoRequest
  /\ Scheduled(pass.want)
  /\ running' = Append(running, pass.want.req)
  /\ waiting' = waiting \ {pass.want.req}
  /\ comp' = [comp EXCEPT ![pass.want.req] = pass.want.start]
  /\ UNCHANGED <<steps, worker>>

\* Faulty variant of RejectWaiting: the references stay.
RejectKeepsInputs ==
  /\ pass.phase = "waiting" /\ pass.want # NoRequest
  /\ pass' = [pass EXCEPT !.want = NoRequest, !.phase = "end"]
  /\ UNCHANGED <<cache, comp, running, waiting, steps, worker>>

\* allocate_slots returned None.
RejectWaiting ==
  /\ pass.phase = "waiting" /\ pass.want # NoRequest
  /\ cache' = Free(cache, pass.want.req)
  /\ pass' = [pass EXCEPT !.want = NoRequest, !.phase = "end"]
  /\ UNCHANGED <<comp, running, waiting, steps, worker>>

EndWaitingLoop ==
  /\ pass.phase = "waiting" /\ pass.want = NoRequest
  /\ pass' = [pass EXCEPT !.phase = "end"]
  /\ UNCHANGED <<cache, comp, running, waiting, steps, worker>>

\* The scheduler output is built and num_computed_tokens advanced.
FinishSchedule ==
  /\ pass.phase = "end"
  /\ steps' = Append(steps, [entries |-> pass.batch, frees |-> Freed(cache)])
  /\ cache' = [cache EXCEPT !.freed = {}]
  /\ comp' = [r \in Req |-> comp[r] + MapThenSumSet(LAMBDA e : e.n,
                                        {e \in pass.batch : e.r = r})]
  /\ pass' = Idle
  /\ UNCHANGED <<running, waiting, worker>>

-----------------------------------------------------------------------------
(* The worker and update_from_output *)

Encoded(step) == UNION {{HashOf(e.r, i) : i \in e.sched} : e \in step.entries}

\* The worker's items when a step gathers its embeddings.
Available(step) == (worker \ step.frees) \cup Encoded(step)

\* The inputs an entry needs in its tokens, _gather_mm_embeddings.
Gathered(e) == {i \in DOMAIN Features[e.r] : /\ End(e.r, i) > e.start
                                             /\ Start(e.r, i) < e.start + e.n}

\* The worker runs a step and its output frees the inputs that are computed, of
\* the requests still running.
ExecuteStep ==
  /\ pass.phase = "idle" /\ steps # <<>>
  /\ worker' = Available(Head(steps))
  /\ cache' = FoldSet(LAMBDA r, c : FreeComputed(c, r, comp[r]), cache,
                      {e.r : e \in Head(steps).entries})
  /\ steps' = Tail(steps)
  /\ UNCHANGED <<comp, running, waiting, pass>>

Next == /\ \/ \E r \in Req : Arrive(r) \/ Finish(r)
           \/ ResetEncoderCache
           \/ StartSchedule
           \/ TryRunning \/ ScheduleRunning \/ PreemptRunning \/ EndRunningLoop
           \/ TryWaiting \/ AdmitWaiting \/ RejectWaiting \/ EndWaitingLoop
           \/ FinishSchedule
           \/ ExecuteStep
        /\ UNCHANGED policy

Spec == Init /\ [][Next]_vars

-----------------------------------------------------------------------------
Size(S) == MapThenSumSet(LAMBDA h : Embeds[h], S)

TypeOK ==
  /\ cache.present \subseteq Hash
  /\ cache.cached \in [Hash -> SUBSET Req]
  /\ cache.slots \in 0 .. CacheSize /\ cache.reclaimable \in 0 .. CacheSize
  /\ \A r \in Req : /\ cache.ids[r] \subseteq DOMAIN Features[r]
                    /\ comp[r] \in 0 .. NumTokens[r]
  /\ running \in Seq(Req) /\ waiting \subseteq Req
  /\ pass.budget \in 0 .. EncoderBudget
  /\ worker \subseteq Hash

\* num_free_slots and num_freeable_slots are exact through hits, evictions,
\* allocation, preemption and the freeing of computed inputs, and all counters
\* stay in their ranges.
SlotsAccounted ==
  /\ TypeOK
  /\ cache.slots = CacheSize - Size(cache.present)
  /\ cache.reclaimable = cache.slots + Size(Elems(cache.freeable))

\* An item is referenced by exactly the requests that hold an occurrence of it,
\* each of the occurrences counted, and is freeable, once, exactly when nobody
\* holds one: no reference leaks, and no item a request needs can be evicted.
ReferencesExact ==
  /\ \A h \in Hash :
       cache.cached[h] = {r \in Req : \E i \in cache.ids[r] : HashOf(r, i) = h}
  /\ \A r \in Req, h \in Hash :
       cache.refs[r][h] = Cardinality({i \in cache.ids[r] : HashOf(r, i) = h})
  /\ Elems(cache.freeable) = {h \in cache.present : cache.cached[h] = {}}
  /\ Len(cache.freeable) = Cardinality(Elems(cache.freeable))
  /\ \A h \in Hash \ cache.present : cache.cached[h] = {}

\* Only a running request, or the one being scheduled, holds references: a request
\* that waits, because the cache or the blocks are exhausted, never keeps room
\* another one waits for.
NoHoldAndWait ==
  \A r \in Req : cache.ids[r] # {} => r \in Elems(running) \/ r = pass.want.req

\* The assertions of allocate(): the room can_allocate made for the scheduled
\* inputs is still there when they are allocated, after later inputs of the
\* request were looked at and victims preempted.
PromisedRoom ==
  pass.want # NoRequest =>
    /\ Size({HashOf(pass.want.req, i) : i \in pass.want.sched}) <= cache.slots
    /\ \A i \in pass.want.sched : HashOf(pass.want.req, i) \notin cache.present

\* The worker never holds more embeddings than the cache has room for, although
\* it learns of evictions only with a later step.
WorkerWithinCapacity == Size(worker) <= CacheSize

\* A step finds every encoder output it gathers in the worker: "The encoder input
\* is already computed and cached from a previous step" or the step encodes it.
WorkerHasInputs ==
  steps # <<>> =>
    \A e \in Head(steps).entries : \A i \in Gathered(e) :
      HashOf(e.r, i) \in Available(Head(steps))

\* Under FCFS it does; under PRIORITY it need not, when the victim of a preemption
\* was scheduled in the same pass.
FcfsWorkerHasInputs == ~ Priority => WorkerHasInputs
=============================================================================
