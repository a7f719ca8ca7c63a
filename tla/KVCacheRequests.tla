--------------------------- MODULE KVCacheRequests ---------------------------
(***************************************************************************)
(* The KV cache manager under every order in which requests may be         *)
(* admitted, grown, preempted and finished.  It is the scheduler reduced   *)
(* to the calls it makes on the manager; module Scheduler has the rest.    *)
(***************************************************************************)
EXTENDS KVCacheManager

CONSTANT Prompt   \* the tokens a request may arrive with

ASSUME PromptAssumption ==
  \A t \in Prompt : t \in Seq(Token) /\ Len(t) \in 1 .. MaxModelLen

ASSUME EveryPrefixAssumption ==
  UNION {[1 .. i * BlockSize -> Token] : i \in 1 .. MaxModelLen \div BlockSize}
    \subseteq Key

VARIABLES kv,
          status,  \* "WAITING", "RUNNING", or "NONE" when the slot has no request
          toks,    \* all_token_ids: the prompt and the output so far
          comp     \* num_computed_tokens

vars == <<kv, status, toks, comp>>

Init == /\ kv = NewManager
        /\ status = [r \in Req |-> "NONE"]
        /\ toks = [r \in Req |-> <<>>]
        /\ comp = [r \in Req |-> 0]

\* add_request
Arrive(r) ==
  /\ status[r] = "NONE"
  /\ \E t \in Prompt : toks' = [toks EXCEPT ![r] = t]
  /\ status' = [status EXCEPT ![r] = "WAITING"]
  /\ UNCHANGED <<kv, comp>>

\* A waiting request gets its hits and slots for some of its remaining tokens.
Admit(r) ==
  /\ status[r] = "WAITING"
  /\ \E hits \in GetComputedBlocks(kv, toks[r]),
        mustFit \in BOOLEAN, watermark \in {0, WatermarkBlocks} :
       \E n \in Len(hits) * BlockSize + 1 .. Len(toks[r]) :
         /\ CanAllocateSlots(kv, r, hits, n, Len(toks[r]), mustFit, watermark)
         /\ kv' = AllocateSlots(kv, r, toks[r], hits, n)
         /\ comp' = [comp EXCEPT ![r] = n]
  /\ status' = [status EXCEPT ![r] = "RUNNING"]
  /\ UNCHANGED toks

\* A running request gets slots for more of its tokens.
Grow(r) ==
  /\ status[r] = "RUNNING"
  /\ \E n \in comp[r] + 1 .. Len(toks[r]) :
       /\ CanAllocateSlots(kv, r, <<>>, n, Len(toks[r]), FALSE, 0)
       /\ kv' = AllocateSlots(kv, r, toks[r], <<>>, n)
       /\ comp' = [comp EXCEPT ![r] = n]
  /\ UNCHANGED <<status, toks>>

\* A token is sampled once all tokens are computed.
Sample(r) ==
  /\ status[r] = "RUNNING"
  /\ comp[r] = Len(toks[r])
  /\ Len(toks[r]) < MaxModelLen
  /\ \E t \in Token : toks' = [toks EXCEPT ![r] = Append(@, t)]
  /\ UNCHANGED <<kv, status, comp>>

\* _preempt_request: the blocks are freed and the tokens kept.
Preempt(r) ==
  /\ status[r] = "RUNNING"
  /\ kv' = Free(kv, r)
  /\ status' = [status EXCEPT ![r] = "WAITING"]
  /\ comp' = [comp EXCEPT ![r] = 0]
  /\ UNCHANGED toks

\* A request stops or is aborted, whether or not it was ever admitted, and is
\* forgotten.
Finish(r) ==
  /\ status[r] # "NONE"
  /\ kv' = Free(kv, r)
  /\ status' = [status EXCEPT ![r] = "NONE"]
  /\ toks' = [toks EXCEPT ![r] = <<>>]
  /\ comp' = [comp EXCEPT ![r] = 0]

\* reset_prefix_cache, which succeeds when no block is in use.
Reset ==
  /\ MayResetPrefixCache(kv.pool)
  /\ kv' = [kv EXCEPT !.pool = ResetPrefixCache(@)]
  /\ UNCHANGED <<status, toks, comp>>

Next == \/ \E r \in Req : \/ Arrive(r)
                          \/ Admit(r)
                          \/ Grow(r)
                          \/ Sample(r)
                          \/ Preempt(r)
                          \/ Finish(r)
        \/ Reset

Spec == Init /\ [][Next]_vars

-----------------------------------------------------------------------------
TypeOK ==
  /\ kv \in [pool : Pool, table : [Req -> Seq(Block)], ncached : [Req -> Nat]]
  /\ status \in [Req -> {"WAITING", "RUNNING", "NONE"}]
  /\ toks \in [Req -> Seq(Token)]
  /\ comp \in [Req -> 0 .. MaxModelLen]

\* A block is referenced once for each block table it is in, and no table names
\* a block twice: allocate_slots, with its touch before the allocation, and free
\* leak no reference and drop none twice, and keep the state well typed.
TablesHoldReferences == TypeOK /\ TablesOK(kv)

\* A block table never reaches into another request's prefix: every block of it
\* that is registered is registered under the request's own tokens, whoever
\* computed it, and the blocks it is still filling are registered nowhere.
TableKeysAreOwn == KeysOK(kv, toks)

\* The slots of the computed tokens of a running request are in its table, and
\* the table has no block beyond them.
TableCoversComputed ==
  \A r \in Req : Len(kv.table[r]) = IF status[r] = "RUNNING"
                                    THEN NumBlocks(comp[r]) ELSE 0

\* Passing the capacity check of allocate_slots means that get_new_blocks, which
\* runs after the hits have left the free queue, finds enough blocks.
CheckedCapacitySuffices ==
  \A r \in Req : status[r] = "WAITING" =>
    \A hits \in GetComputedBlocks(kv, toks[r]) :
      \A n \in Len(hits) * BlockSize + 1 .. Len(toks[r]) :
        CanAllocateSlots(kv, r, hits, n, Len(toks[r]), FALSE, 0) =>
          NumBlocks(n) - Len(hits) <=
            Len(AddLocalComputedBlocks(kv, r, hits).pool.free)

\* free_blocks: a block that can serve a hit is reused only when no block that
\* can serve none is free.
UncachedReusedFirst == EvictionOK(kv)

\* find_longest_cache_hit stops at the first missing key: "A missing block
\* implies every later block misses too" although blocks are evicted one by one.
LaterBlocksMissToo == ChainOK(kv)
=============================================================================
