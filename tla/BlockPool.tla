------------------------------ MODULE BlockPool ------------------------------
(***************************************************************************)
(* The KV cache block pool: vllm/v1/core/block_pool.py with the block and  *)
(* free-queue classes of vllm/v1/core/kv_cache_utils.py.                   *)
(*                                                                         *)
(* A pool is a record and every method that changes it is an operator from *)
(* pool to pool, so that the managers above can compose several calls in   *)
(* one step.  A method that loops over distinct blocks is written over the *)
(* set of those blocks: the iterations touch disjoint parts of the pool,   *)
(* except for the order of the free queue, which is kept.                  *)
(*                                                                         *)
(*   free    free_block_queue, head first                                  *)
(*   ref     KVCacheBlock.ref_cnt                                          *)
(*   hash    KVCacheBlock._block_hash (NoHash is Python's None)            *)
(*   extra   cached_block_hashes_by_block                                  *)
(*   map     cached_block_hash_to_block, the set of blocks under a key     *)
(*   watch   the keys of _reuse_watchers                                   *)
(*   stored  BlockStored minus BlockRemoved events emitted for a key since *)
(*           the last AllBlocksCleared: what a consumer of the event       *)
(*           stream believes                                               *)
(***************************************************************************)
EXTENDS Integers, Sequences, FiniteSets

CONSTANTS NumGpuBlocks,   \* num_gpu_blocks
          Key,            \* BlockHashWithGroupId values
          KeyTokens,      \* the prefix length a key stands for
          NoHash,
          EnableCaching   \* enable_caching

ASSUME NumGpuBlocksAssumption == NumGpuBlocks \in Nat \ {0}
ASSUME KeyAssumption == /\ NoHash \notin Key
                        /\ KeyTokens \in [Key -> Nat \ {0}]
ASSUME EnableCachingAssumption == EnableCaching \in BOOLEAN

\* null_block: block 0, taken from the queue by the constructor and never
\* pooled, counted or hashed.
Null == 0
Block == 1 .. NumGpuBlocks - 1

Pool == [free   : Seq(Block),
         ref    : [Block -> Nat],
         hash   : [Block -> Key \cup {NoHash}],
         extra  : [Block -> SUBSET Key],
         map    : [Key -> SUBSET Block],
         watch  : SUBSET Block,
         stored : [Key -> Int]]

NewPool == [free   |-> [i \in 1 .. NumGpuBlocks - 1 |-> i],
            ref    |-> [b \in Block |-> 0],
            hash   |-> [b \in Block |-> NoHash],
            extra  |-> [b \in Block |-> {}],
            map    |-> [k \in Key |-> {}],
            watch  |-> {},
            stored |-> [k \in Key |-> 0]]

Elems(q) == {q[i] : i \in DOMAIN q}
NoDuplicates(q) == \A i, j \in DOMAIN q : q[i] = q[j] => i = j

\* The elements of q that are in S, in the order of q: SelectSeq, with the
\* j-th survivor found by its rank.
Keep(q, S) ==
  LET kept    == {i \in DOMAIN q : q[i] \in S}
      rank(i) == Cardinality({m \in kept : m <= i})
  IN  [j \in 1 .. Cardinality(kept) |-> q[CHOOSE i \in kept : rank(i) = j]]

-----------------------------------------------------------------------------
(* Prefix-cache metadata *)

\* Every key under which a block is registered.
HashesOf(p, b) == {k \in Key : k = p.hash[b] \/ k \in p.extra[b]}

\* Faulty variant of RemoveHashes: only the primary key leaves the map.
RemovePrimaryHash(p, S) ==
  [p EXCEPT !.hash  = [b \in Block |-> IF b \in S THEN NoHash ELSE p.hash[b]],
            !.extra = [b \in Block |-> IF b \in S THEN {} ELSE p.extra[b]],
            !.map   = [k \in Key |-> {b \in p.map[k] : ~ (b \in S /\ k = p.hash[b])}]]

\* _remove_cached_block_hashes of every block of S: every key of the block is
\* popped, and reset_hash clears the primary one.
RemoveHashes(p, S) ==
  [p EXCEPT !.hash  = [b \in Block |-> IF b \in S THEN NoHash ELSE p.hash[b]],
            !.extra = [b \in Block |-> IF b \in S THEN {} ELSE p.extra[b]],
            !.map   = [k \in Key |-> {b \in p.map[k] :
                                        ~ (b \in S /\ k \in HashesOf(p, b))}]]

\* _emit_block_removed_events for the keys that RemoveHashes(p, S) pops.
EmitRemoved(p, S) ==
  [k \in Key |-> p.stored[k]
       - Cardinality({b \in S \cap p.map[k] : k \in HashesOf(p, b)})]

\* Faulty variant of MaybeEvictCachedBlocks: no event is emitted.
EvictSilently(p, S) == RemoveHashes(p, S)

\* _maybe_evict_cached_block on every block of S.
MaybeEvictCachedBlocks(p, S) ==
  [RemoveHashes(p, S) EXCEPT !.stored = EmitRemoved(p, S)]

\* _insert_block_hash(f[b], b) for every block b of f's domain: the key is the
\* primary hash if there is none, an additional one otherwise.
InsertHashes(p, f) ==
  LET new == {b \in DOMAIN f : f[b] # p.hash[b] /\ b \notin p.map[f[b]]}
  IN  [p EXCEPT
        !.hash  = [b \in Block |-> IF b \in new /\ p.hash[b] = NoHash
                                   THEN f[b] ELSE p.hash[b]],
        !.extra = [b \in Block |-> IF b \in new /\ p.hash[b] # NoHash
                                   THEN p.extra[b] \cup {f[b]} ELSE p.extra[b]],
        !.map   = [k \in Key |-> p.map[k] \cup {b \in new : f[b] = k}]]

\* The assertion in cache_full_blocks: a block that already has a hash is
\* promoted from a shorter (partial) prefix.
MayCacheFullBlocks(p, f) ==
  \A b \in DOMAIN f :
    p.hash[b] # NoHash => KeyTokens[p.hash[b]] < KeyTokens[f[b]]

\* cache_full_blocks, where f gives the key of each block that is neither null
\* nor masked out.
CacheFullBlocks(p, f) ==
  LET hashed   == {b \in DOMAIN f : p.hash[b] # NoHash}
      promoted == MaybeEvictCachedBlocks(p, hashed)
  IN  [InsertHashes(promoted, f) EXCEPT
         !.stored = [k \in Key |-> promoted.stored[k]
                                   + Cardinality({b \in DOMAIN f : f[b] = k})]]

\* Faulty variant of CachePartialBlock: an outgrown key stays the primary one.
CachePartialBlockBeside(p, b, k, replaceExisting) ==
  LET already == ~ replaceExisting /\ (k = p.hash[b] \/ b \in p.map[k])
      base    == IF replaceExisting THEN MaybeEvictCachedBlocks(p, {b}) ELSE p
  IN  [InsertHashes(base, [x \in {b} |-> k]) EXCEPT
         !.stored = [x \in Key |-> IF x = k /\ ~ already
                                   THEN base.stored[x] + 1 ELSE base.stored[x]]]

\* cache_partial_block
CachePartialBlock(p, b, k, replaceExisting) ==
  LET already == ~ replaceExisting /\ (k = p.hash[b] \/ b \in p.map[k])
      outgrown == p.hash[b] # NoHash /\ KeyTokens[p.hash[b]] < KeyTokens[k]
      base    == IF replaceExisting \/ (~ already /\ outgrown)
                 THEN MaybeEvictCachedBlocks(p, {b}) ELSE p
  IN  [InsertHashes(base, [x \in {b} |-> k]) EXCEPT
         !.stored = [x \in Key |-> IF x = k /\ ~ already
                                   THEN base.stored[x] + 1 ELSE base.stored[x]]]

\* move_block_hashes: the entries stay live, so no event is emitted.
MoveBlockHashes(p, src, dst) ==
  LET moved == HashesOf(p, src)
      bare  == RemoveHashes(p, {src})
  IN  [bare EXCEPT !.hash  = [bare.hash EXCEPT ![dst] = p.hash[src]],
                   !.extra = [bare.extra EXCEPT ![dst] = p.extra[src]],
                   !.map   = [k \in Key |-> bare.map[k] \cup
                               (IF k \in moved /\ src \in p.map[k]
                                THEN {dst} ELSE {})]]

-----------------------------------------------------------------------------
(* Allocation *)

\* get_new_blocks: the first n of the free queue, with whatever they cached
\* evicted and their watchers told.
NewBlocks(p, n) == SubSeq(p.free, 1, n)

\* Faulty variants of GetNewBlocks: watchers are not told, or the keys stay.
GetNewBlocksUntold(p, n) ==
  LET new  == Elems(NewBlocks(p, n))
      base == IF EnableCaching THEN MaybeEvictCachedBlocks(p, new) ELSE p
  IN  [base EXCEPT !.free = SubSeq(p.free, n + 1, Len(p.free)),
                   !.ref  = [b \in Block |-> IF b \in new THEN p.ref[b] + 1
                                             ELSE p.ref[b]]]

GetNewBlocksStillHashed(p, n) ==
  LET new == Elems(NewBlocks(p, n))
  IN  [p EXCEPT !.free  = SubSeq(p.free, n + 1, Len(p.free)),
                !.watch = p.watch \ new,
                !.ref   = [b \in Block |-> IF b \in new THEN p.ref[b] + 1
                                           ELSE p.ref[b]]]

GetNewBlocks(p, n) ==
  LET new  == Elems(NewBlocks(p, n))
      base == IF EnableCaching THEN MaybeEvictCachedBlocks(p, new) ELSE p
  IN  [base EXCEPT !.free  = SubSeq(p.free, n + 1, Len(p.free)),
                   !.watch = p.watch \ new,
                   !.ref   = [b \in Block |-> IF b \in new THEN p.ref[b] + 1
                                              ELSE p.ref[b]]]

\* Faulty variants of Touch: a free block is not counted, or stays in the queue.
TouchUncounted(p, S) ==
  [p EXCEPT !.free = Keep(p.free, Block \ {b \in S : p.ref[b] = 0}),
            !.ref  = [b \in Block |-> IF b \in S /\ p.ref[b] # 0 THEN p.ref[b] + 1
                                      ELSE p.ref[b]]]

TouchStillQueued(p, S) ==
  [p EXCEPT !.ref = [b \in Block |-> IF b \in S THEN p.ref[b] + 1 ELSE p.ref[b]]]

\* touch
Touch(p, S) ==
  [p EXCEPT !.free = Keep(p.free, Block \ {b \in S : p.ref[b] = 0}),
            !.ref  = [b \in Block |-> IF b \in S THEN p.ref[b] + 1
                                      ELSE p.ref[b]]]

\* The blocks of S whose last reference is dropped.
Released(p, S) == {b \in S \cap Block : p.ref[b] = 1}

\* Faulty variant of DropRefs: the reference is dropped twice.
DropRefsTwice(p, S) == [b \in Block |-> IF b \in S THEN p.ref[b] - 2 ELSE p.ref[b]]

DropRefs(p, S) == [b \in Block |-> IF b \in S THEN p.ref[b] - 1 ELSE p.ref[b]]

\* Faulty variant of FreeBlocks: every released block goes to the end.
FreeBlocksLast(p, ordered) ==
  LET S == Elems(ordered)
  IN  [p EXCEPT !.ref  = DropRefs(p, S),
                !.free = p.free \o Keep(ordered, Released(p, S))]

\* free_blocks: blocks that can serve no hit are reused first, cached ones
\* last, each in the order given.
FreeBlocks(p, ordered) ==
  LET S        == Elems(ordered)
      released == Released(p, S)
      first    == {b \in released : p.hash[b] = NoHash \/ ~ EnableCaching}
  IN  [p EXCEPT !.ref  = DropRefs(p, S),
                !.free = Keep(ordered, first) \o p.free
                           \o Keep(ordered, released \ first)]

\* unpin_blocks
UnpinBlocks(p, ordered) ==
  LET S == Elems(ordered)
  IN  [p EXCEPT !.ref   = DropRefs(p, S),
                !.watch = p.watch \cup S,
                !.free  = p.free \o Keep(ordered, Released(p, S))]

\* reset_prefix_cache succeeds when only the null block is in use.
MayResetPrefixCache(p) == NumGpuBlocks - Len(p.free) = 1

ResetPrefixCache(p) ==
  [p EXCEPT !.hash   = [b \in Block |-> NoHash],
            !.extra  = [b \in Block |-> {}],
            !.map    = [k \in Key |-> {}],
            !.watch  = {},
            !.stored = [k \in Key |-> 0]]

-----------------------------------------------------------------------------
(* What a pool keeps true of itself, named for the properties of the modules  *)
(* that contain one.                                                          *)

\* The free queue lists every unreferenced block once and nothing else.
QueueOK(p) == /\ NoDuplicates(p.free)
              /\ Elems(p.free) = {b \in Block : p.ref[b] = 0}

\* The map and the keys recorded on the blocks agree in both directions, and a
\* block has additional keys only beside a primary one.
MapOK(p) == /\ \A k \in Key, b \in Block : b \in p.map[k] <=> k \in HashesOf(p, b)
            /\ \A b \in Block : p.extra[b] # {} => p.hash[b] # NoHash
            /\ \A b \in Block : p.hash[b] \notin p.extra[b]

\* The primary key of a block is the longest.
PrimaryOK(p) == \A b \in Block : \A k \in p.extra[b] :
                  KeyTokens[k] <= KeyTokens[p.hash[b]]

\* The event stream accounts for every entry of the map.
EventsOK(p) == \A k \in Key : p.stored[k] = Cardinality(p.map[k])
=============================================================================
