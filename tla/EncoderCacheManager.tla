------------------------ MODULE EncoderCacheManager ------------------------
(***************************************************************************)
(* EncoderCacheManager (vllm/v1/core/encoder_cache_manager.py) and         *)
(* _try_schedule_encoder_inputs of the scheduler, which uses it, as        *)
(* operators on the manager's state:                                       *)
(*   present      the keys of cached (and of num_embeds_by_hash)           *)
(*   cached       the requests that reference each item                    *)
(*   freeable     the present items nobody references, oldest first        *)
(*   freed        the items evicted since get_freed_mm_hashes              *)
(*   slots        num_free_slots                                           *)
(*   reclaimable  num_freeable_slots                                       *)
(*   ids, refs    request_cached_ids and request_hash_refs                 *)
(*                                                                         *)
(* An item's placeholders are all embeddings (is_embed is None), and equal *)
(* identifiers have equal sizes, so that no request is rejected for a      *)
(* mismatch.                                                               *)
(***************************************************************************)
EXTENDS Integers, Sequences, FiniteSets

CONSTANTS Req,
          Hash,                 \* identifiers of multimodal items
          Embeds,               \* embeddings of each item
          Features,             \* mm_features of each request, by position
          NumTokens,            \* prompt length of each request
          CacheSize             \* encoder_cache_size

\* Items of a prompt are disjoint and in order, the prompt ends with text, and
\* compute_mm_encoder_budget makes room for the largest item.
ASSUME EncoderAssumption ==
  /\ Embeds \in [Hash -> Nat \ {0}]
  /\ CacheSize \in Nat /\ \A h \in Hash : Embeds[h] <= CacheSize
  /\ Features \in [Req -> Seq([hash : Hash, start : Nat])]
  /\ NumTokens \in [Req -> Nat]
  /\ \A r \in Req : \A i \in DOMAIN Features[r] :
       LET end == Features[r][i].start + Embeds[Features[r][i].hash]
       IN  /\ end < NumTokens[r]
           /\ \A j \in i + 1 .. Len(Features[r]) : end <= Features[r][j].start

HashOf(r, i) == Features[r][i].hash
Start(r, i) == Features[r][i].start
End(r, i) == Start(r, i) + Embeds[HashOf(r, i)]

NewCache == [present |-> {}, cached |-> [h \in Hash |-> {}], freeable |-> <<>>,
             freed |-> {}, slots |-> CacheSize, reclaimable |-> CacheSize,
             ids |-> [r \in Req |-> {}],
             refs |-> [r \in Req |-> [h \in Hash |-> 0]]]

AddCachedInputId(c, r, i) ==
  IF i \in c.ids[r] THEN c
  ELSE [c EXCEPT !.ids[r] = @ \cup {i}, !.refs[r][HashOf(r, i)] = @ + 1]

\* Faulty variant of Reference: the item stays freeable.
ReferenceStillFreeable(c, r, i) ==
  AddCachedInputId([c EXCEPT !.cached[HashOf(r, i)] = @ \cup {r}], r, i)

\* check_and_update_cache of an item that is present.
Reference(c, r, i) ==
  LET h    == HashOf(r, i)
      kept == IF c.cached[h] # {} THEN c
              ELSE [c EXCEPT !.freeable = SelectSeq(@, LAMBDA x : x # h),
                             !.reclaimable = @ - Embeds[h]]
  IN  AddCachedInputId([kept EXCEPT !.cached[h] = @ \cup {r}], r, i)

\* The answer of can_allocate, pending embeddings being scheduled already.
CanAllocate(c, r, i, budget, pending) ==
  LET need == Embeds[HashOf(r, i)] + pending
  IN  /\ Embeds[HashOf(r, i)] <= budget
      /\ need <= c.slots \/ need <= c.reclaimable

\* The free slots once the n oldest freeable items are evicted.
SlotsAfter(c, n) ==
  LET f[m \in 0 .. n] == IF m = 0 THEN c.slots ELSE f[m - 1] + Embeds[c.freeable[m]]
  IN  f[n]

\* Faulty variant of EvictCount: one item too few.
EvictCountShort(c, need) ==
  CHOOSE n \in 0 .. Len(c.freeable) :
    /\ n > 0 => SlotsAfter(c, n) < need
    /\ n = Len(c.freeable) \/ SlotsAfter(c, n + 1) >= need

\* How many items can_allocate evicts for a number of embeddings: as few as do.
EvictCount(c, need) ==
  CHOOSE n \in 0 .. Len(c.freeable) :
    /\ SlotsAfter(c, n) >= need
    /\ \A m \in 0 .. n - 1 : SlotsAfter(c, m) < need

\* Faulty variants of EvictFor: the room is not counted as free, or the worker is
\* not told.
EvictUncounted(c, need) ==
  LET n    == EvictCount(c, need)
      gone == {c.freeable[m] : m \in 1 .. n}
  IN  [c EXCEPT !.present = @ \ gone, !.freed = @ \cup gone,
                !.freeable = SubSeq(@, n + 1, Len(@))]

EvictUntold(c, need) ==
  LET n    == EvictCount(c, need)
      gone == {c.freeable[m] : m \in 1 .. n}
  IN  [c EXCEPT !.present = @ \ gone, !.slots = SlotsAfter(c, n),
                !.freeable = SubSeq(@, n + 1, Len(@))]

\* The eviction in can_allocate: the oldest freeable items go.
EvictFor(c, need) ==
  LET n    == EvictCount(c, need)
      gone == {c.freeable[m] : m \in 1 .. n}
  IN  [c EXCEPT !.present = @ \ gone, !.freed = @ \cup gone,
                !.slots = SlotsAfter(c, n),
                !.freeable = SubSeq(@, n + 1, Len(@))]

Allocate(c, r, i) ==
  LET h == HashOf(r, i)
  IN  AddCachedInputId([c EXCEPT !.present = @ \cup {h},
                                 !.cached[h] = @ \cup {r},
                                 !.slots = @ - Embeds[h],
                                 !.reclaimable = @ - Embeds[h]], r, i)

\* Faulty variant of FreeEncoderInput: the reference goes with the first
\* occurrence.
FreeFirstOccurrence(c, r, i) ==
  LET h == HashOf(r, i)
      d == IF i \in c.ids[r]
           THEN [c EXCEPT !.ids[r] = @ \ {i}, !.refs[r][h] = @ - 1] ELSE c
  IN  IF d.cached[h] = {} THEN d
      ELSE IF d.cached[h] \ {r} # {} THEN [d EXCEPT !.cached[h] = @ \ {r}]
      ELSE [d EXCEPT !.cached[h] = {}, !.freeable = Append(@, h),
                     !.reclaimable = @ + Embeds[h]]

\* The reference goes with the last occurrence of the item in the request.
FreeEncoderInput(c, r, i) ==
  LET h == HashOf(r, i)
      d == IF i \in c.ids[r]
           THEN [c EXCEPT !.ids[r] = @ \ {i}, !.refs[r][h] = @ - 1] ELSE c
  IN  IF d.cached[h] = {} \/ d.refs[r][h] > 0 THEN d
      ELSE IF d.cached[h] \ {r} # {} THEN [d EXCEPT !.cached[h] = @ \ {r}]
      ELSE [d EXCEPT !.cached[h] = {}, !.freeable = Append(@, h),
                     !.reclaimable = @ + Embeds[h]]

\* free_encoder_input of the inputs of r in S, in ascending order.
FreeInputs(c, r, S) ==
  LET f[i \in 0 .. Len(Features[r])] ==
        IF i = 0 THEN c
        ELSE IF i \in S THEN FreeEncoderInput(f[i - 1], r, i) ELSE f[i - 1]
  IN  f[Len(Features[r])]

Free(c, r) == FreeInputs(c, r, c.ids[r])

\* _free_encoder_inputs: the inputs whose tokens are all computed.
FreeComputed(c, r, computed) ==
  FreeInputs(c, r, {i \in c.ids[r] : End(r, i) <= computed})

\* get_freed_mm_hashes: an item evicted and allocated again is kept.
Freed(c) == c.freed \ c.present

-----------------------------------------------------------------------------
\* _try_schedule_encoder_inputs for tokens comp + 1 .. comp + n of r, one turn
\* of its loop for each input in the window; whole is disable_chunked_mm_input.
TryInput(t, r, comp, window, whole, i) ==
  LET h == HashOf(r, i)
  IN  IF t.stop \/ End(r, i) <= comp \/ Start(r, i) >= window THEN t
      ELSE IF whole /\ comp <= Start(r, i) /\ comp + t.n < End(r, i)
      THEN [t EXCEPT !.n = Start(r, i) - comp, !.stop = TRUE]
      ELSE IF h \in {HashOf(r, j) : j \in t.sched}
      THEN [t EXCEPT !.dup = @ \cup {i}]
      ELSE IF h \in t.c.present THEN [t EXCEPT !.c = Reference(@, r, i)]
      ELSE IF ~ CanAllocate(t.c, r, i, t.budget, t.pending)
      THEN [t EXCEPT !.n = IF comp < Start(r, i) THEN Start(r, i) - comp ELSE 0,
                     !.stop = TRUE]
      ELSE [t EXCEPT !.c = EvictFor(@, Embeds[h] + t.pending),
                     !.pending = @ + Embeds[h], !.budget = @ - Embeds[h],
                     !.sched = @ \cup {i}]

TryScheduleEncoderInputs(c, r, comp, n, budget, whole) ==
  LET f[i \in 0 .. Len(Features[r])] ==
        IF i = 0
        THEN [c |-> c, n |-> n, budget |-> budget, pending |-> 0,
              sched |-> {}, dup |-> {}, stop |-> FALSE]
        ELSE TryInput(f[i - 1], r, comp, comp + n, whole, i)
  IN  f[Len(Features[r])]

\* _allocate_encoder_inputs: the scheduled inputs, then their duplicates.
AllocateInputs(c, r, sched, dup) ==
  LET a[i \in 0 .. Len(Features[r])] ==
        IF i = 0 THEN c
        ELSE IF i \in sched THEN Allocate(a[i - 1], r, i) ELSE a[i - 1]
      d[i \in 0 .. Len(Features[r])] ==
        IF i = 0 THEN a[Len(Features[r])]
        ELSE IF i \in dup THEN Reference(d[i - 1], r, i) ELSE d[i - 1]
  IN  d[Len(Features[r])]
=============================================================================
