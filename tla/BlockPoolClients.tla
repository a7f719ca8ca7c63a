--------------------------- MODULE BlockPoolClients ---------------------------
(***************************************************************************)
(* The block pool under every legal sequence of calls.  A client stands    *)
(* for whatever holds references on the scheduler's side: a request's      *)
(* block table, the copy-on-write retention list, a connector's pin, the   *)
(* HiSparse coordinator.  A client holds at most one reference to a block  *)
(* (a block table names a block once) and calls the pool only in the       *)
(* states where its callers do.                                            *)
(***************************************************************************)
EXTENDS BlockPool

CONSTANT Client

ASSUME ClientAssumption == IsFiniteSet(Client)

VARIABLES pool,
          held,   \* the blocks each client has a reference to
          fresh   \* blocks handed out as new since they were last unpinned:
                  \* what they cached before has been overwritten

vars == <<pool, held, fresh>>

Init == /\ pool = NewPool
        /\ held = [c \in Client |-> {}]
        /\ fresh = {}

\* Every order in which the blocks of S can be listed.
Orders(S) == {q \in [1 .. Cardinality(S) -> S] : Elems(q) = S}

Hashed == {b \in Block : pool.hash[b] # NoHash}

\* get_new_blocks, whose callers ask for no more than get_num_free_blocks().
DoGetNewBlocks(c) ==
  \E n \in 1 .. Len(pool.free) :
    LET new == Elems(NewBlocks(pool, n))
    IN  /\ pool' = GetNewBlocks(pool, n)
        /\ held' = [held EXCEPT ![c] = @ \cup new]
        /\ fresh' = fresh \cup new

\* touch of blocks that a lookup returned or that another client has.
DoTouch(c) ==
  \E S \in SUBSET (Block \ held[c]) :
    /\ S # {}
    /\ \A b \in S : b \in Hashed \/ pool.ref[b] > 0
    /\ pool' = Touch(pool, S)
    /\ held' = [held EXCEPT ![c] = @ \cup S]
    /\ UNCHANGED fresh

DoFreeBlocks(c) ==
  \E S \in SUBSET held[c] : \E ordered \in Orders(S) :
    /\ S # {}
    /\ pool' = FreeBlocks(pool, ordered)
    /\ held' = [held EXCEPT ![c] = @ \ S]
    /\ UNCHANGED fresh

DoUnpinBlocks(c) ==
  \E S \in SUBSET held[c] : \E ordered \in Orders(S) :
    /\ S # {}
    /\ pool' = UnpinBlocks(pool, ordered)
    /\ held' = [held EXCEPT ![c] = @ \ S]
    /\ fresh' = fresh \ S

\* cache_full_blocks on blocks the client holds.
DoCacheFullBlocks(c) ==
  /\ EnableCaching
  /\ \E S \in SUBSET held[c] : \E f \in [S -> Key] :
       /\ S # {}
       /\ MayCacheFullBlocks(pool, f)
       /\ pool' = CacheFullBlocks(pool, f)
  /\ UNCHANGED <<held, fresh>>

DoCachePartialBlock(c) ==
  /\ EnableCaching
  /\ \E b \in held[c], k \in Key, replaceExisting \in BOOLEAN :
       pool' = CachePartialBlock(pool, b, k, replaceExisting)
  /\ UNCHANGED <<held, fresh>>

\* move_block_hashes to a private copy the client has just allocated.
DoMoveBlockHashes(c) ==
  /\ EnableCaching
  /\ \E src \in Hashed, dst \in held[c] \ Hashed :
       pool' = MoveBlockHashes(pool, src, dst)
  /\ UNCHANGED <<held, fresh>>

DoEvictBlocks ==
  /\ \E S \in SUBSET Block : S # {} /\ pool' = MaybeEvictCachedBlocks(pool, S)
  /\ UNCHANGED <<held, fresh>>

DoResetPrefixCache ==
  /\ MayResetPrefixCache(pool)
  /\ pool' = ResetPrefixCache(pool)
  /\ UNCHANGED <<held, fresh>>

Next == \/ \E c \in Client : \/ DoGetNewBlocks(c)
                             \/ DoTouch(c)
                             \/ DoFreeBlocks(c)
                             \/ DoUnpinBlocks(c)
                             \/ DoCacheFullBlocks(c)
                             \/ DoCachePartialBlock(c)
                             \/ DoMoveBlockHashes(c)
        \/ DoEvictBlocks
        \/ DoResetPrefixCache

Spec == Init /\ [][Next]_vars

-----------------------------------------------------------------------------
TypeOK == /\ pool \in Pool
          /\ held \in [Client -> SUBSET Block]
          /\ fresh \in SUBSET Block

\* A reference count is the number of holders: no reference is leaked by a
\* call, and none is dropped twice.
RefCountsHolders ==
  \A b \in Block : pool.ref[b] = Cardinality({c \in Client : b \in held[c]})

\* The free queue lists every unreferenced block once and nothing else, so a
\* block in use is never handed out and a free one is never lost, although
\* touch, free_blocks and unpin_blocks move blocks in and out of its middle.
FreeQueueIsUnreferenced == QueueOK(pool)

\* cached_block_hash_to_block and the keys recorded on the blocks agree in
\* both directions, and a block has additional keys only beside a primary one:
\* promotion, eviction and moving leave no key pointing to a block whose
\* contents it no longer names.
MapMatchesHashes == MapOK(pool)

\* The primary key of a block is its longest prefix: cache_partial_block keeps
\* a shorter one beside it and replaces it by a longer one.
PrimaryKeyIsLongest == PrimaryOK(pool)

\* Replaying the KV cache events gives, for every key, the number of blocks
\* that a lookup could return: an event is emitted for every entry that
\* appears or disappears, and for no other.
EventsMirrorCache == EventsOK(pool)

\* A block released with unpin_blocks is read until its watcher is called: it
\* is never handed out as new while it is watched.
WatchedNotOverwritten == pool.watch \cap fresh = {}
=============================================================================
