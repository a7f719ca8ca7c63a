--------------------------- MODULE KVCacheManager ---------------------------
(***************************************************************************)
(* The KV cache manager for one group of full-attention layers:            *)
(* KVCacheManager (vllm/v1/core/kv_cache_manager.py), the unitary          *)
(* coordinator (kv_cache_coordinator.py) and FullAttentionManager          *)
(* (single_type_kv_cache_manager.py), as operators on a record.            *)
(*                                                                         *)
(*   pool     the block pool                                               *)
(*   table    req_to_blocks, the block table of each request               *)
(*   ncached  num_cached_block, 0 when the request is not in it            *)
(*                                                                         *)
(* The hash of a block is chained over all tokens before it, so the key of *)
(* the i-th block of a request is the prefix of its tokens that ends       *)
(* there.  Two different prefixes have different hashes.                   *)
(***************************************************************************)
EXTENDS BlockPool

CONSTANTS Req,
          Token,
          BlockSize,        \* block_size, also hash_block_size
          MaxModelLen,      \* max_model_len
          WatermarkBlocks   \* watermark_blocks

ASSUME ReqAssumption == IsFiniteSet(Req)
ASSUME SizeAssumption == /\ BlockSize \in Nat \ {0}
                         /\ MaxModelLen \in Nat \ {0}
                         /\ WatermarkBlocks \in Nat
ASSUME PrefixAssumption ==
  /\ Key \subseteq UNION {[1 .. i * BlockSize -> Token] :
                            i \in 1 .. MaxModelLen \div BlockSize}
  /\ KeyTokens = [k \in Key |-> Len(k)]

\* request.block_hashes[i - 1]
BlockHash(toks, i) == SubSeq(toks, 1, i * BlockSize)

\* cdiv(n, block_size)
NumBlocks(n) == (n + BlockSize - 1) \div BlockSize

AtMost(m, n) == IF m <= n THEN m ELSE n
AtLeast(m, n) == IF m >= n THEN m ELSE n

NewManager == [pool    |-> NewPool,
               table   |-> [r \in Req |-> <<>>],
               ncached |-> [r \in Req |-> 0]]

\* get_computed_blocks: the results find_longest_cache_hit may return for the
\* tokens.  The walk stops at the first missing key, and at the last token,
\* which is recomputed for its logits.  Of several blocks under one key the
\* map returns any.
GetComputedBlocks(kv, toks) ==
  LET most   == (Len(toks) - 1) \div BlockSize
      hashed == UNION {kv.pool.map[BlockHash(toks, i)] : i \in 1 .. most}
  IN  IF ~ EnableCaching THEN {<<>>}
      ELSE {h \in UNION {[1 .. n -> hashed] : n \in 0 .. most} :
              /\ \A i \in DOMAIN h : h[i] \in kv.pool.map[BlockHash(toks, i)]
              /\ Len(h) < most =>
                   kv.pool.map[BlockHash(toks, Len(h) + 1)] = {}}

\* Faulty variant of NumBlocksToAllocate: the hits in the free queue are forgotten.
NumNewBlocksOnly(kv, r, hits, n) ==
  AtLeast(NumBlocks(n) - (Len(hits) + Len(kv.table[r])), 0)

\* get_num_blocks_to_allocate: new blocks, and the hits that are now free and
\* will leave the free queue when they are touched.
NumBlocksToAllocate(kv, r, hits, n) ==
  AtLeast(NumBlocks(n) - (Len(hits) + Len(kv.table[r])), 0)
    + Cardinality({b \in Elems(hits) : kv.pool.ref[b] = 0})

\* The two checks that make allocate_slots return None: with mustFit the whole
\* sequence must fit, though only the blocks of this step are taken, and the
\* slots of this step must be available above the watermark.
CanAllocateSlots(kv, r, hits, n, full, mustFit, watermark) ==
  /\ mustFit => NumBlocksToAllocate(kv, r, hits, AtMost(full, MaxModelLen))
                  + watermark <= Len(kv.pool.free)
  /\ NumBlocksToAllocate(kv, r, hits, AtMost(n, MaxModelLen))
       + watermark <= Len(kv.pool.free)

\* Faulty variant of CacheBlocks: a block counts as full one token early.
CacheBlocksEarly(kv, r, toks, n) ==
  LET full == AtMost(n + 1, Len(toks)) \div BlockSize
      new  == kv.ncached[r] + 1 .. full
      key  == [b \in {kv.table[r][i] : i \in new \cap DOMAIN kv.table[r]} |->
                 BlockHash(toks, CHOOSE i \in new : kv.table[r][i] = b)]
  IN  IF ~ EnableCaching \/ new = {} THEN kv
      ELSE [kv EXCEPT !.pool = CacheFullBlocks(kv.pool, key),
                      !.ncached[r] = full]

\* cache_blocks: the blocks that the first n tokens fill and that are not
\* cached yet get their keys.
CacheBlocks(kv, r, toks, n) ==
  LET full == AtMost(n, Len(toks)) \div BlockSize
      new  == kv.ncached[r] + 1 .. full
      key  == [b \in {kv.table[r][i] : i \in new} |->
                 BlockHash(toks, CHOOSE i \in new : kv.table[r][i] = b)]
  IN  IF ~ EnableCaching \/ new = {} THEN kv
      ELSE [kv EXCEPT !.pool = CacheFullBlocks(kv.pool, key),
                      !.ncached[r] = full]

\* Faulty variant of AddLocalComputedBlocks: the hits are not touched.
AddUntouchedBlocks(kv, r, hits) ==
  [kv EXCEPT !.table[r] = @ \o hits,
             !.ncached[r] = IF hits = <<>> THEN @ ELSE Len(hits)]

\* add_local_computed_blocks: the hits are touched before anything is
\* allocated, and count as cached.
AddLocalComputedBlocks(kv, r, hits) ==
  [kv EXCEPT !.pool = Touch(kv.pool, Elems(hits)),
             !.table[r] = @ \o hits,
             !.ncached[r] = IF hits = <<>> THEN @ ELSE Len(hits)]

\* Faulty variant of AllocateNewBlocks: the last, partly used block is missing.
AllocateFullBlocks(kv, r, n) ==
  LET new == AtLeast((n \div BlockSize) - Len(kv.table[r]), 0)
  IN  [kv EXCEPT !.pool = GetNewBlocks(kv.pool, new),
                 !.table[r] = @ \o NewBlocks(kv.pool, new)]

\* allocate_new_blocks
AllocateNewBlocks(kv, r, n) ==
  LET new == AtLeast(NumBlocks(n) - Len(kv.table[r]), 0)
  IN  [kv EXCEPT !.pool = GetNewBlocks(kv.pool, new),
                 !.table[r] = @ \o NewBlocks(kv.pool, new)]

\* allocate_slots, when it does not return None: slots for the first n tokens of
\* a request, n counting those computed and those to compute in this step.
AllocateSlots(kv, r, toks, hits, n) ==
  CacheBlocks(AllocateNewBlocks(AddLocalComputedBlocks(kv, r, hits),
                                r, AtMost(n, MaxModelLen)),
              r, toks, n)

\* Faulty variant of Backwards: the first block of the table is released first.
Forwards(q) == q

Backwards(q) == [i \in DOMAIN q |-> q[Len(q) + 1 - i]]

\* Faulty variant of Free: the number of cached blocks is kept.
FreeKeepsCount(kv, r) ==
  [kv EXCEPT !.pool = FreeBlocks(kv.pool, Backwards(kv.table[r])), !.table[r] = <<>>]

\* free: the request's bookkeeping is popped and its blocks are released, the
\* last of the table first.
Free(kv, r) ==
  [pool    |-> FreeBlocks(kv.pool, Backwards(kv.table[r])),
   table   |-> [kv.table EXCEPT ![r] = <<>>],
   ncached |-> [kv.ncached EXCEPT ![r] = 0]]

-----------------------------------------------------------------------------
(* What the manager keeps true of its state. *)

\* A block is referenced once for each block table it is in.
TablesOK(kv) ==
  /\ \A r \in Req : NoDuplicates(kv.table[r])
  /\ \A b \in Block :
       kv.pool.ref[b] = Cardinality({r \in Req : b \in Elems(kv.table[r])})

\* The cached blocks of a request carry the keys of its own tokens, and the
\* others carry none.
KeysOK(kv, toks) ==
  \A r \in Req : \A i \in DOMAIN kv.table[r] :
    kv.pool.hash[kv.table[r][i]] = IF i <= kv.ncached[r]
                                   THEN BlockHash(toks[r], i) ELSE NoHash

\* No cached block is ahead of an uncached one in the free queue.
EvictionOK(kv) ==
  \A i, j \in DOMAIN kv.pool.free :
    kv.pool.hash[kv.pool.free[i]] # NoHash /\ i < j
      => kv.pool.hash[kv.pool.free[j]] # NoHash

\* A prefix is cached only if the prefix one block shorter is.
ChainOK(kv) ==
  \A k \in Key : kv.pool.map[k] # {} /\ Len(k) > BlockSize
                   => kv.pool.map[SubSeq(k, 1, Len(k) - BlockSize)] # {}
=============================================================================
