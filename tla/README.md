# Verification of the vLLM V1 core

TLA+ models of the part of vLLM that decides what runs, where its data lives and
how the processes that run it talk to each other: the KV cache block pool, the KV
cache manager, the scheduler, the engine loop around it, the transfer of KV blocks
through a connector, the encoder cache, the shared-memory message queue, and the
multiprocess executor with its workers. The models are written from the Python
under `src/vllm` and checked with TLC on small instances. The invariants of the
block pool, the correctness of the message queue, and that the calls of a
fault-tolerant executor return their own answers are proved with TLAPS for every
size.

## 1. Inventory

| part | state | operations that change it | interacts with |
|---|---|---|---|
| block pool (`v1/core/block_pool.py`, free queue in `v1/core/kv_cache_utils.py`) | free queue, reference counts, block hashes, hash-to-block map, reuse watchers, pending KV events | `get_new_blocks`, `touch`, `free_blocks`, `unpin_blocks`, `cache_full_blocks`, `cache_partial_block`, `move_block_hashes`, `evict_blocks`, `reset_prefix_cache` | KV cache managers, HiSparse, connectors, event consumers |
| KV cache manager (`v1/core/kv_cache_manager.py`, coordinator, single-type managers) | block table and number of cached blocks of each request | `get_computed_blocks`, `allocate_slots`, `cache_blocks`, `free`, `reset_prefix_cache` | block pool below, scheduler above |
| scheduler (`v1/core/sched/scheduler.py`, `async_scheduler.py`, `request_queue.py`) | requests, `running`, `waiting`, per-request counters, locals of `schedule()` | `add_request`, `finish_requests`, `schedule`, `_preempt_request`, `_update_after_schedule`, `update_from_output`, `reset_prefix_cache` | KV cache manager, encoder cache, connector, engine loop |
| KV connector, as the scheduler sees it (`scheduler.py`) | requests waiting for a load, failed and finished loads, deferred frees and loads, blocks kept to be sent | `get_num_new_matched_tokens`, `_update_waiting_for_remote_kv`, `_update_from_kv_xfer_finished`, `_handle_invalid_blocks`, `_connector_finished` | scheduler, workers |
| engine loop (`v1/engine/core.py`) | batch queue | `step`, `step_with_batch_queue`, aborts between steps | scheduler, executor |
| encoder cache (`v1/core/encoder_cache_manager.py`) | references of requests to multimodal items, free and reclaimable slots, freed list | `check_and_update_cache`, `can_allocate`, `allocate`, `free_encoder_input`, `free`, `get_freed_mm_hashes`, `reset` | scheduler, worker's encoder cache |
| message queue (`distributed/device_communicators/shm_broadcast.py`) | ring of chunks with one written flag and a read flag for each reader, sockets for large messages and notifications | `acquire_write`, `acquire_read`, `enqueue`, `dequeue`, `shutdown` | executor and workers |
| multiprocess executor (`v1/executor/multiproc_executor.py`), sentinel (`v1/fault_tolerance`) | futures in order, response queues, worker processes, health of the engine | `collective_rpc`, `get_response`, `worker_busy_loop`, `async_output_busy_loop`, `monitor_workers`, `shutdown`, `on_fault`, retry and draining | engine loop, message queue |
| worker (`v1/worker/gpu_model_runner.py`) | KV blocks, tokens of cached requests, encoder outputs | executes steps in order | engine loop |

The hard behaviours are listed in `PROJECT.json` under `hazards`, each at the
line where it bites. In short: several steps are in flight while requests are
preempted, aborted, resumed or the cache is reset; blocks are registered as
cached when they are scheduled and not when they are computed; blocks and
encoder outputs are shared, evicted and handed out again while queued steps
still refer to them; a victim of preemption may already be part of the step
being built; the worker learns of everything one or more steps late; a load
started for one request may end after its blocks belong to another; readers and
writer of the ring see each other's flags between any two accesses; a failed, late
or cancelled call leaves answers in the response queues that the next call reads.

What has to be right: references equal holders; the free queue is exactly the
unreferenced blocks; the prefix map, the block hashes and the event stream
agree; a step reads only KV of its own request's tokens; tokens are delivered in
order and within the limits; every request is in one queue; every request
finishes; the worker has the encoder outputs a step reads; nothing is sampled from,
cached from or leaked by a failed load; each reader gets each message once and in
order; a call returns the answers to that call; a dead worker ends the engine.

## 2. Modules

| module | models | state and actions |
|---|---|---|
| `BlockPool` | `BlockPool`, `KVCacheBlock`, `FreeKVCacheBlockQueue` | the pool is a record (`free`, `ref`, `hash`, `extra`, `map`, `watch`, `stored`); every method is an operator from pool to pool, so that callers can compose calls in one step |
| `BlockPoolClients` | the pool under every legal order of calls | one action for each public method (`DoGetNewBlocks` ... `DoResetPrefixCache`); `held` is what each caller has a reference to |
| `BlockPoolProofs` | | theorems about `BlockPoolClients` |
| `KVCacheManager` | `KVCacheManager`, the unitary coordinator, `FullAttentionManager` | operators on a record of pool, block tables and cached counts |
| `KVCacheRequests` | the manager under the calls of the scheduler in any order | `Arrive`, `Admit`, `Grow`, `Sample`, `Preempt`, `Finish`, `Reset` |
| `Scheduler` | `Scheduler`, `AsyncScheduler`, both request queues | one action for each turn of the loops in `schedule()`; `pass` holds its locals; `UpdateFromOutput` handles one request of a finished step |
| `EngineCore` | the engine loop, the batch queue and the worker's effect on KV blocks | composes `Scheduler` with `steps`, `output`, `content`, `known` |
| `KVTransfer` | the scheduler and the engine loop with a KV connector | extends `EngineCore`; one action for each turn of the loops with their transfer-related branches (`RunningTurn`, `PreemptTurn`, `GiveUpTurn`, `SkipTurn`, `PromoteTurn`, `AdmitTurn`), for the transfers (`JobFails`, `JobEnds`) and for the parts of `update_from_output` (`UpdateTransferOutput`, `FailRequest`, `TransferFinished`) |
| `EncoderCacheManager` | `EncoderCacheManager` and `_try_schedule_encoder_inputs` | operators on a record |
| `EncoderScheduling` | the life of encoder outputs between scheduler and worker | the encoder-related turns of `schedule()`, the worker, `update_from_output` |
| `BroadcastQueue` | what a message queue promises: each receiver gets all messages, once, in order, and the sender is at most `Capacity` messages ahead | `Send`, `Deliver` |
| `MessageQueue` | `ShmRingBuffer` and `MessageQueue` with one writer and local readers | each access to a flag of the ring is an action of its own; implements `BroadcastQueue` |
| `MessageQueueProofs` | | theorems about `MessageQueue` |
| `Executor` | `MultiprocExecutor`, `FutureWrapper`, `WorkerProc`, and of `EngineCore` and `EngineCoreSentinel` what calls them | the broadcast queue is the log `calls` with a position for each worker, as in `BroadcastQueue`; actions of the workers, the monitor thread, the futures and the engine |
| `ExecutorInvariant`, `ExecutorAnswers`, `ExecutorResponses`, `ExecutorProofs` | | theorems about `Executor`, the first three with the invariant and the steps that keep it |
| `MC*` | | values of the constants for TLC |

Definitions marked "Faulty variant of X" are X with a plausible mistake. They are
used nowhere in the models; replacing X by one shows that a property notices.

Abstractions shared by the modules:

- A block hash is chained over all tokens before the block, so the key of a
  block is the prefix that ends in it. Different prefixes have different
  hashes (no collisions). Of several blocks under one key, a lookup may return
  any; the code returns the first one inserted.
- A loop over distinct blocks is one step over their set; the order of the free
  queue is kept.
- `stored` counts events per key since the last `AllBlocksCleared`: what a
  consumer that replays the stream believes.
- One full-attention group, block size equal to hash block size, chunked prefill
  on. No speculative decoding, LoRA, grammar, streaming input, pause state or
  data-parallel throttling. A connector occurs in `KVTransfer` only.
- The scheduling policy and configuration are a variable (`policy` in `Scheduler` and
  `EncoderScheduling`, `conf` in `KVTransfer` and `Executor`) that is chosen in `Init`
  from a constant set, so one run covers several configurations.
- A finished request needs no further step to be flushed from the worker's
  batch (`finished_req_ids` is left out).
- A step is executed when its output is taken. No action of the scheduler looks
  at the contents of blocks, so executing it earlier makes no difference.
- In `EncoderScheduling` the token budget, prefix hits, the success of the KV
  allocation and, under FCFS, the order of the waiting requests are left open. Every
  placeholder is an embedding, and equal identifiers have equal sizes.
  `reset_encoder_cache` is called when nothing is in progress; the code only
  warns otherwise.
- `KVTransfer` is the role of a consumer under FCFS. The connector on the workers is
  external: a load is a job that writes its blocks at any time after it was told,
  may fail for any subset of them, and is reported with a later step. Loads are
  between the steps (`load_kv_async`) or inside the step that admits the request.
  Step numbers are relative to `processed_step_seq`, with which alone they are compared.
  `WAITING` also stands for `PREEMPTED` once a load has been promoted.
- In `MessageQueue` the stores of one process become visible in program order, as on
  x86, and `memory_fence()` orders the accesses around it. The sockets
  are external: large messages arrive reliably and in order, a notification may
  get lost (`CONFLATE`). Readers in `Deadline` call `dequeue` with a timeout.
- In `Executor` a `collective_rpc` up to its future is one step, because one thread of
  the engine calls it. A worker that lives answers every call: collectives that hang
  are seen as timeouts or deaths. The capacity of the broadcast ring is not part of
  it (`BroadcastQueue` has it). One engine: no vote and no `scale_down`.

## 3. Runs

| run | instance | shows |
|---|---|---|
| `block_pool` | 2 clients, 3 usable blocks, 2 prefixes of lengths 1 and 2 | counts, queue, map, primary keys, events and watchers are exact. Three blocks let the queue be reordered and a prefix have duplicates; two lengths give promotion and additional keys |
| `kv_requests` | 2 requests, 3 usable blocks of 2 tokens, at most 4 tokens, watermark 1 | tables, keys, coverage, capacity check, eviction order. Both requests together want 4 blocks, so admission fails, hits are evicted and preemption happens |
| `engine` | 2 requests with a shared first block and prompts of 2 and 4, up to 3 output tokens, 3 usable blocks of 2 tokens, budget 3. Three policies: asynchronous FCFS with 2 steps in flight, prefills cut at 2 and cache resets; synchronous with 3 batches in the queue and the full prompt reserved; asynchronous PRIORITY | the nine invariants of the engine. Both prompts fit and both outputs do not, so requests are preempted with output in flight; the texts differ after the first block, so a block that changes hands changes contents. Three batches are the fewest with which a preempted request is skipped because its output is in flight. Under PRIORITY the victim may already be in the batch |
| `engine_live` | the same requests, up to 6 tokens, asynchronous FCFS | every request finishes |
| `priority_uncomputed_prefix` | PRIORITY, one step at a time, a prompt of 9 tokens in chunks | expected violation, finding 1 |
| `encoder` | 2 requests, 3 items of sizes 2, 1 and 2, room for 3, 2 steps in flight; one item is repeated and a chunk may end inside its second occurrence, one is shared. FCFS that splits items over steps, and PRIORITY that does not | accounts, references, promised room, no hold-and-wait, the worker's cache within capacity; under FCFS the worker has what it reads |
| `priority_unencoded_input` | the same under PRIORITY | expected violation, finding 2 |
| `kv_transfer` | 2 requests, all of one prompt and the first block of the other can be loaded, 3 usable blocks, 2 steps in flight. Asynchronous loads: one failure, deferred loads with the recompute policy, and sends with the fail policy. Loads inside the step without failure | a load owns the blocks it writes; tokens come from the request's own prefix; failed blocks leave the cache; no block leaks or is freed twice; whatever the scheduler waits for is on its way |
| `kv_load_failure` | the plain `step()`, loads inside the step, one failure, default policy | expected violation, finding 3 |
| `message_queue` | a writer, 2 readers of which one has deadlines, a ring of 2 chunks, 3 messages of which 2 are large | no chunk is written while it is read; the ring implements `BroadcastQueue`; every message arrives. Three messages on two chunks wrap the ring, and a small message follows large ones |
| `executor` | 2 workers, the second being the output rank, 2 batches in flight, 4 calls besides those of a recovery. With fault tolerance: two failing calls, or one and a death. Without: a late step, or a failing step and a death | a call returns its own answers, the engine never waits for ever, a death ends the engine |
| `executor_utility_failure` | without fault tolerance, one failing utility call, 5 calls | expected violation, finding 4 |

`TypeOK` of `KVCacheRequests`, `EngineCore`, `EncoderScheduling` and `Executor` is a
conjunct of `TablesHoldReferences`, `QueuesMatchStatus`, `SlotsAccounted` and
`OwnAnswersUnlessEnding`.

Bounds: blocks, requests, tokens per request (`MaxModelLen`, `MaxTokens`), the
steps in flight (`maxInFlight` of a policy, `MaxInFlight`), the token alphabet, the
loads that fail (`failures`), messages (`MaxSent`), calls (`MaxCalls`) and the faults of
a configuration of `Executor` (`failures`, `timeouts`, `deaths`). Requests in
`kv_requests` and `encoder` arrive again after they finish, so there is no bound
on the number of calls there. Two requests suffice for sharing, preemption of the
other and of oneself, and for handing blocks of one to the other; three requests
(a victim's victim) are beyond these instances. Clients and requests are
symmetric only in `block_pool` and `kv_requests`, where nothing orders them.

Fairness:

- `EngineCore`: weak fairness of `EngineStep` as a whole. The busy loop of the engine
  calls `step` again as long as there are requests, every call of `schedule()` ends, and
  the worker answers; no single action is given fairness of its own. Arrivals and
  aborts have none, and cache resets are left out: a caller that resets for ever can
  starve everybody.
- `MessageQueue`: weak fairness of the writer's steps and of each reader's steps: each is a
  process that runs. Whether anything is enqueued is the caller's choice, and a
  lost notification is never made up for: the reader's own poll is what wakes it.
- `Executor`: weak fairness of the two loops of each worker while it lives, of the
  monitor thread, of the engine's thread (`FutureStep \/ EngineStep`), and of the
  recovery timeout, which is a timer. New batches, utility calls, retries, failures
  and deaths have none.

Deadlock is checked where the system goes on for ever (`block_pool`, `kv_requests`,
`encoder`, `engine`). The other runs end when all requests are finished, all messages
have been sent, or the engine has ended; there `EveryRequestFinishes`, `EveryMessageArrives`,
`NeverStuck` and, for transfers, `EveryWaitIsAnswered` say that nothing is left behind.

## 4. Findings

1. **Blocks that were never computed stay in the prefix cache**
   (`priority_uncomputed_prefix`). `allocate_slots` registers the blocks a step
   will fill. If the request is then chosen as PRIORITY victim in the same call
   of `schedule()`, its tokens leave the batch and its blocks are freed, but the
   keys stay in the map. `get_computed_blocks` says it returns "blocks that are
   computed for the request"; it returns these. The victim has to be before the
   current request in `running` and to be filling blocks, e.g. a long prompt cut
   at `long_prefill_token_threshold`. With the same instance `ReadsOwnPrefix`
   fails as well: the resumed request reads the slots.
2. **Encoder inputs that were never encoded stay in the encoder cache**
   (`priority_unencoded_input`). The same preemption takes the victim's encoder
   inputs out of the batch and restores the compute budget, but not the entries
   of the encoder cache. The next request that needs the item takes it for
   "already computed and cached from a previous step", and the worker does not
   have it.

   Under FCFS the victim is the last running request, which has not been
   scheduled in the pass, and both properties hold (`engine`, `encoder`).
3. **Blocks whose load failed stay in the prefix cache** (`kv_load_failure`). With loads
   inside the step the blocks are registered when the request is admitted.
   `_handle_invalid_blocks` is to evict them when the load fails, but looks for them in
   the tables of running requests only. If the request was aborted while the step
   ran, nobody is affected, the method returns early and the keys stay.
4. **A utility call returns answers of an earlier call** (`executor_utility_failure`).
   Without fault tolerance `get_response` raises at the first failure and leaves the
   answers of the later workers in their queues. The engine survives the failure of
   a utility call, so every later call reads one answer too old from these workers.
   With fault tolerance the answers are read to the end and `OwnAnswers` holds
   (`executor`, and for every size `TolerantAnswersAreOwn`), unless a call times out.

## 5. Proofs

`BlockPoolProofs` proves for every number of blocks, every set of keys with
lengths, every finite set of clients, and caching on or off:

- `PoolInvariant`: `Spec => []IInv`, with `IInv` the conjunction of the type
  invariant, `RefCountsHolders`, `QueueOK`, `MapOK`, `PrimaryOK`, `EventsOK` and
  the watcher property. None of them is inductive alone: freeing moves a block to the
  queue when its count drops to zero, which is right only if the count is the
  number of holders; eviction counts events by the keys on a block, which is
  right only if the map agrees with them; `get_new_blocks` hands out the head of
  the queue, which is right only if the queue has no duplicates and holds
  unreferenced blocks only.
- `RefCountsAlwaysHolders`, `FreeQueueAlwaysExact`, `MapAlwaysMatchesHashes`,
  `EventsAlwaysMirrorCache`, `WatchedNeverOverwritten`,
  `PrimaryKeyAlwaysLongest`: the properties of run `block_pool`, from it.

The proof has one lemma per operator and component (what it does to the queue,
to the counts, to the map, to the events) and one step per action. Lemmas about
`Keep` (selection from a sequence by rank) carry the reasoning about the free
queue. The assumptions are the named ASSUMEs of `BlockPool` and
`BlockPoolClients`: at least one block, `NoHash` is not a key, keys have positive
lengths, clients are finite.

`MessageQueueProofs` proves for every set of readers, every ring size, every
set of large messages and any choice of readers with deadlines:

- `RingInvariant`: `Spec => []RingInv`. `NoOverlap` alone is not inductive: that the
  writer may fill a chunk follows from flags it read one by one, while the readers
  went on. `RingInv` says where everybody is: a reader is as many chunks behind
  the writer on the ring as it has messages left to take, at most the whole ring
  (`RingOK`); of each chunk the flags tell which readers still have to read
  its message (`FlagsOK`); what the writer (`WriterOK`) and a reader (`ReaderOK`) remember of
  flags they loaded earlier still holds, because a read flag that is set stays set
  until the writer resets it and a written flag until every reader has read.
- `WriterExcludesReaders`: `Spec => []NoOverlap`, from it.
- `QueueInvariant`: `Spec => []QueueInv`, which adds what a reader without deadline has
  got (`GotOK`) and that its socket holds exactly the large messages between what it has
  taken and what was sent (`SocketOK`).
- `ImplementsBroadcastQueue`: `Spec => IsBroadcastQueue`. `Publish` is `Send`, the step that
  completes a `dequeue` is `Deliver`, every other step stutters.

The assumption is `QueueAssumption`: at least one chunk. `MaxSent` is any number.

`ExecutorProofs` proves for every number of workers, batches in flight and calls, and
for any failing calls and dying workers, with fault tolerance and without timeouts
(`Reliable`):

- `AnswersInvariant`: `Spec /\ Reliable => []IInv`. An answer carries nothing that says
  which call it is for, so that the head of a response queue belongs to the future
  being read follows from the order of everything before it. `IInv` says that, while the
  executor is up, futures are read in the order of the calls (`FutureOK`), that the
  answers collected are those of the workers already read (`ResultsOK`), that no answer
  was read before it was given (`TakenOK`), and that the two queues of a worker hold, in
  order, the calls it has taken and whose answer has not been read, no more and no less
  (`QueuesOK`). Its heart is `HeadIsForReading`. It needs both assumptions: without
  fault tolerance `get_response` raises at the first failure (finding 4), and a timeout
  leaves a late answer; either way a queue holds an answer that nobody will read.
- `TolerantAnswersAreOwn`: `Spec /\ Reliable => [](executor = "up" => OwnAnswers)`, from it.

The assumption on the constants is `ExecutorAssumption`: at least one worker and one
batch in flight, and the output rank is a worker.

Only model-checked: everything about the manager, the scheduler, the engine, KV
transfers and the encoder cache; the executor without fault tolerance and while it
shuts down; liveness, which needs ENABLED and fairness and is outside the prover's
reach.

## 6. Not modelled

- Speculative decoding. Draft tokens, their verification and lookahead slots enter
  every counter of a request; the hazard is listed without property.
- Sliding-window, chunked-local, Mamba and cross-attention managers and the hybrid
  coordinator. They replace blocks outside a window by the null block and join the
  hits of several groups, which needs block tables and a hit search of their own.
  Partial hits with copy-on-write are modelled in the pool, not in the managers.
- `FreeKVCacheBlockQueue` as the doubly linked list it is; it is a sequence here.
- With a connector: PRIORITY, cache resets, pause states, `requires_kv_delivery`,
  `has_pending_block_frees` and retained blocks; the role of a producer beyond keeping
  blocks until they are sent; the offloading connectors behind the interface.
- Of the message queue: remote readers (a socket only), creation and destruction of
  the shared memory, pickling, the tensor arena.
- Of the executor: start-up and handshake, follower nodes, Ray, `scale_down` and the vote
  among data-parallel engines. `sleep`, `wake_up` and orderly shutdown of the engine.
- The data-parallel coordinator, engine clients, output processor, micro-batching and
  HiSparse: protocols or tables of their own beside the parts modelled here.
- Model code, kernels and sampling (numeric), API servers (I/O), grammars (third
  party), configuration and memory planning (no state that changes).
