--------------------------- MODULE BlockPoolProofs ---------------------------
(***************************************************************************)
(* Proofs about the block pool: what its operators do to the free queue,   *)
(* the reference counts and the prefix-cache map, and that the invariants  *)
(* of BlockPoolClients hold for any number of blocks, keys and clients.    *)
(***************************************************************************)
EXTENDS BlockPoolClients, FiniteSetTheorems, TLAPS

-----------------------------------------------------------------------------
(* Sequences *)

\* The ranks of a finite set of positions are 1 .. its cardinality: distinct
\* positions have distinct ranks, and every rank is taken.
LEMMA RankBijection ==
  ASSUME NEW n \in Nat, NEW K \in SUBSET (1 .. n)
  PROVE  LET rank(i) == Cardinality({m \in K : m <= i})
         IN  /\ Cardinality(K) \in Nat
             /\ \A i \in K : rank(i) \in 1 .. Cardinality(K)
             /\ \A i, j \in K : rank(i) = rank(j) => i = j
             /\ \A r \in 1 .. Cardinality(K) : \E i \in K : rank(i) = r
<1> DEFINE below(i) == {m \in K : m <= i}
           rank(i) == Cardinality(below(i))
           N == Cardinality(K)
<1>1. IsFiniteSet(K) /\ N \in Nat
  <2>1. IsFiniteSet(1 .. n)
    BY FS_Interval
  <2>2. IsFiniteSet(K)
    BY <2>1, FS_Subset, Zenon
  <2> QED BY <2>2, FS_CardinalityType
<1>2. \A i \in K : IsFiniteSet(below(i)) /\ rank(i) \in 1 .. N
  <2> SUFFICES ASSUME NEW i \in K
               PROVE  IsFiniteSet(below(i)) /\ rank(i) \in 1 .. N
    OBVIOUS
  <2>1. below(i) \in SUBSET K /\ i \in below(i)
    OBVIOUS
  <2>2. IsFiniteSet(below(i)) /\ rank(i) <= N
    BY <1>1, <2>1, FS_Subset
  <2>3. rank(i) \in Nat /\ rank(i) # 0
    BY <2>1, <2>2, FS_CardinalityType, FS_EmptySet
  <2> HIDE DEF rank, below, N
  <2> QED BY <1>1, <2>2, <2>3
<1>3. \A i, j \in K : i < j => rank(i) # rank(j)
  <2> SUFFICES ASSUME NEW i \in K, NEW j \in K, i < j
               PROVE  rank(i) # rank(j)
    OBVIOUS
  <2>1. j \in below(j) /\ j \notin below(i)
    OBVIOUS
  <2>2. below(i) \in SUBSET below(j)
    <3>1. \A m \in K : m \in Int /\ i \in Int /\ j \in Int
      OBVIOUS
    <3>2. \A m \in K : m <= i => m <= j
      BY <3>1
    <3> QED BY <3>2, Zenon
  <2>3. IsFiniteSet(below(j))
    BY <1>2
  <2> QED BY <2>1, <2>2, <2>3, FS_Subset
<1>4. \A i, j \in K : rank(i) = rank(j) => i = j
  <2> HIDE DEF rank, below
  <2> QED BY <1>3
<1>5. \A r \in 1 .. N : \E i \in K : rank(i) = r
  <2> DEFINE f == [i \in K |-> rank(i)]
  <2>1. f \in Injection(K, 1 .. N)
    <3> HIDE DEF rank, N
    <3> QED BY <1>2, <1>4, Zenon DEF Injection, IsInjective
  <2>2. IsFiniteSet(1 .. N) /\ Cardinality(1 .. N) = N
    BY <1>1, FS_Interval
  <2>3. f \in Surjection(K, 1 .. N)
    BY <2>1, <2>2, FS_Injection
  <2> HIDE DEF rank, N
  <2> QED BY <2>3, Zenon DEF Surjection
<1> QED BY <1>1, <1>2, <1>4, <1>5

\* Keep(q, S) is the part of q in S: it has exactly those elements, and repeats
\* none that q does not repeat.
LEMMA KeepProperties ==
  ASSUME NEW T, NEW q \in Seq(T), NEW S
  PROVE  /\ Keep(q, S) \in Seq(T)
         /\ Elems(Keep(q, S)) = Elems(q) \cap S
         /\ NoDuplicates(q) => NoDuplicates(Keep(q, S))
<1> DEFINE kept == {i \in DOMAIN q : q[i] \in S}
           rank(i) == Cardinality({m \in kept : m <= i})
           N == Cardinality(kept)
           pos(r) == CHOOSE i \in kept : rank(i) = r
<1>1. DOMAIN q = 1 .. Len(q) /\ Len(q) \in Nat /\ kept \in SUBSET (1 .. Len(q))
  OBVIOUS
<1>2. /\ N \in Nat
      /\ \A i \in kept : rank(i) \in 1 .. N
      /\ \A i, j \in kept : rank(i) = rank(j) => i = j
      /\ \A r \in 1 .. N : \E i \in kept : rank(i) = r
  <2> HIDE DEF kept
  <2> QED BY <1>1, RankBijection, Zenon
<1>3. Keep(q, S) = [r \in 1 .. N |-> q[pos(r)]]
  BY DEF Keep
<1> HIDE DEF rank, N
<1>4. \A r \in 1 .. N : pos(r) \in kept /\ rank(pos(r)) = r
  BY <1>2
<1>5. \A i \in kept : pos(rank(i)) = i
  BY <1>2, <1>4
<1> HIDE DEF pos
<1>6. Keep(q, S) \in Seq(T) /\ DOMAIN Keep(q, S) = 1 .. N
  BY <1>1, <1>2, <1>3, <1>4
<1>7. Elems(Keep(q, S)) \subseteq Elems(q) \cap S
  BY <1>3, <1>4, <1>6 DEF Elems
<1>8. ASSUME NEW x \in Elems(q) \cap S
      PROVE  x \in Elems(Keep(q, S))
  <2>1. PICK i \in kept : x = q[i]
    BY DEF Elems
  <2>2. rank(i) \in 1 .. N /\ Keep(q, S)[rank(i)] = x
    BY <1>2, <1>3, <1>5, <2>1
  <2> QED BY <1>6, <2>2 DEF Elems
<1>9. ASSUME NoDuplicates(q)
      PROVE  NoDuplicates(Keep(q, S))
  BY <1>3, <1>4, <1>6, <1>9 DEF NoDuplicates
<1> QED BY <1>6, <1>7, <1>8, <1>9

\* A listing of a finite set repeats nothing.
LEMMA OrdersProperties ==
  ASSUME NEW S, IsFiniteSet(S), NEW q \in Orders(S)
  PROVE  q \in Seq(S) /\ Elems(q) = S /\ NoDuplicates(q)
<1> DEFINE n == Cardinality(S)
<1>1. n \in Nat
  BY FS_CardinalityType
<1>2. q \in [1 .. n -> S] /\ Elems(q) = S
  BY DEF Orders
<1>3. q \in Surjection(1 .. n, S)
  BY <1>2 DEF Surjection, Elems
<1>4. IsFiniteSet(1 .. n) /\ Cardinality(1 .. n) = n
  BY <1>1, FS_Interval
<1>5. q \in Injection(1 .. n, S)
  BY <1>3, <1>4, FS_Surjection
<1> HIDE DEF n
<1> QED BY <1>1, <1>2, <1>5 DEF Injection, IsInjective, NoDuplicates

\* Two sequences without duplicates and without common elements concatenate
\* to one without duplicates.
LEMMA ConcatNoDuplicates ==
  ASSUME NEW T, NEW p \in Seq(T), NEW q \in Seq(T)
  PROVE  /\ p \o q \in Seq(T)
         /\ Elems(p \o q) = Elems(p) \cup Elems(q)
         /\ NoDuplicates(p) /\ NoDuplicates(q) /\ Elems(p) \cap Elems(q) = {}
              => NoDuplicates(p \o q)
<1>1. /\ p \o q \in Seq(T)
      /\ DOMAIN (p \o q) = 1 .. Len(p) + Len(q)
      /\ \A i \in 1 .. Len(p) + Len(q) :
           (p \o q)[i] = IF i <= Len(p) THEN p[i] ELSE q[i - Len(p)]
  OBVIOUS
<1>2. Elems(p \o q) = Elems(p) \cup Elems(q)
  <2>1. Elems(p \o q) \subseteq Elems(p) \cup Elems(q)
    BY <1>1 DEF Elems
  <2>2. ASSUME NEW i \in DOMAIN p PROVE p[i] \in Elems(p \o q)
    BY <1>1 DEF Elems
  <2>3. ASSUME NEW i \in DOMAIN q PROVE q[i] \in Elems(p \o q)
    <3>1. i + Len(p) \in 1 .. Len(p) + Len(q) /\ (p \o q)[i + Len(p)] = q[i]
      BY <1>1
    <3> QED BY <1>1, <3>1 DEF Elems
  <2> QED BY <2>1, <2>2, <2>3, Zenon DEF Elems
<1>3. ASSUME NoDuplicates(p), NoDuplicates(q), Elems(p) \cap Elems(q) = {}
      PROVE  NoDuplicates(p \o q)
  <2> SUFFICES ASSUME NEW i \in 1 .. Len(p) + Len(q),
                      NEW j \in 1 .. Len(p) + Len(q),
                      (p \o q)[i] = (p \o q)[j], i <= j
               PROVE  i = j
    BY <1>1 DEF NoDuplicates
  <2>1. CASE j <= Len(p)
    BY <1>1, <1>3, <2>1 DEF NoDuplicates
  <2>2. CASE i > Len(p)
    <3>1. i - Len(p) \in DOMAIN q /\ j - Len(p) \in DOMAIN q
      BY <2>2
    <3>2. q[i - Len(p)] = q[j - Len(p)]
      BY <1>1, <2>2
    <3> QED BY <1>3, <3>1, <3>2 DEF NoDuplicates
  <2>3. CASE i <= Len(p) /\ j > Len(p)
    <3>1. i \in DOMAIN p /\ j - Len(p) \in DOMAIN q
      BY <2>3
    <3>2. p[i] = q[j - Len(p)]
      BY <1>1, <2>3
    <3> QED BY <1>3, <3>1, <3>2 DEF Elems
  <2> QED BY <2>1, <2>2, <2>3
<1> QED BY <1>1, <1>2, <1>3

-----------------------------------------------------------------------------
(* Prefix-cache metadata *)

\* A set of blocks is finite.
LEMMA BlocksFinite == \A S \in SUBSET Block : IsFiniteSet(S) /\ Cardinality(S) \in Nat
<1>1. IsFiniteSet(Block)
  BY NumGpuBlocksAssumption, FS_Interval DEF Block
<1> QED BY <1>1, FS_Subset, FS_CardinalityType

\* Removing the keys of a set of blocks empties them and keeps the map exact.
LEMMA RemoveHashesProperties ==
  ASSUME NEW p \in Pool, MapOK(p), NEW S \in SUBSET Block
  PROVE  LET r == RemoveHashes(p, S) IN
         /\ r \in Pool /\ MapOK(r)
         /\ r.free = p.free /\ r.ref = p.ref /\ r.watch = p.watch
         /\ \A b \in Block : /\ b \in S => r.hash[b] = NoHash /\ r.extra[b] = {}
                             /\ b \notin S => /\ r.hash[b] = p.hash[b]
                                              /\ r.extra[b] = p.extra[b]
         /\ PrimaryOK(p) => PrimaryOK(r)
         /\ r.map = [k \in Key |-> p.map[k] \ S]
<1> DEFINE r == RemoveHashes(p, S)
<1>1. /\ r \in Pool
      /\ r.free = p.free /\ r.ref = p.ref /\ r.watch = p.watch
      /\ r.hash  = [b \in Block |-> IF b \in S THEN NoHash ELSE p.hash[b]]
      /\ r.extra = [b \in Block |-> IF b \in S THEN {} ELSE p.extra[b]]
      /\ r.map   = [k \in Key |-> {b \in p.map[k] :
                                     ~ (b \in S /\ k \in HashesOf(p, b))}]
  BY Zenon DEF RemoveHashes, Pool
<1>2. r.map = [k \in Key |-> p.map[k] \ S]
  BY <1>1 DEF MapOK, Pool
<1> HIDE DEF r
<1>3. MapOK(r)
  BY <1>1, <1>2, KeyAssumption DEF MapOK, HashesOf, Pool
<1>4. PrimaryOK(p) => PrimaryOK(r)
  BY <1>1 DEF PrimaryOK
<1> QED BY <1>1, <1>2, <1>3, <1>4 DEF r

\* Evicting blocks keeps the map exact and emits one event per entry removed.
LEMMA EvictProperties ==
  ASSUME NEW p \in Pool, MapOK(p), NEW S \in SUBSET Block
  PROVE  LET r == MaybeEvictCachedBlocks(p, S) IN
         /\ r \in Pool /\ MapOK(r)
         /\ r.free = p.free /\ r.ref = p.ref /\ r.watch = p.watch
         /\ \A b \in Block : /\ b \in S => r.hash[b] = NoHash /\ r.extra[b] = {}
                             /\ b \notin S => /\ r.hash[b] = p.hash[b]
                                              /\ r.extra[b] = p.extra[b]
         /\ PrimaryOK(p) => PrimaryOK(r)
         /\ EventsOK(p) => EventsOK(r)
<1> DEFINE m == RemoveHashes(p, S)
           r == MaybeEvictCachedBlocks(p, S)
           gone(k) == {b \in S \cap p.map[k] : k \in HashesOf(p, b)}
<1>1. r = [m EXCEPT !.stored = EmitRemoved(p, S)]
  BY DEF MaybeEvictCachedBlocks
<1>2. \A k \in Key : /\ gone(k) = S \cap p.map[k]
                     /\ Cardinality(gone(k)) \in Nat
                     /\ Cardinality(p.map[k] \ S)
                          = Cardinality(p.map[k]) - Cardinality(gone(k))
  <2> SUFFICES ASSUME NEW k \in Key
               PROVE  /\ gone(k) = S \cap p.map[k]
                      /\ Cardinality(gone(k)) \in Nat
                      /\ Cardinality(p.map[k] \ S)
                           = Cardinality(p.map[k]) - Cardinality(gone(k))
    BY Zenon
  <2>1. gone(k) = S \cap p.map[k]
    BY DEF MapOK, Pool
  <2>2. p.map[k] \in SUBSET Block /\ gone(k) \in SUBSET Block
    BY DEF Pool
  <2>3. S \cap p.map[k] = p.map[k] \cap S
    OBVIOUS
  <2> DEFINE M == p.map[k]
  <2>4. IsFiniteSet(M) /\ Cardinality(gone(k)) \in Nat
    BY <2>2, BlocksFinite, Zenon
  <2> HIDE DEF M
  <2>5. Cardinality(M \ S) = Cardinality(M) - Cardinality(M \cap S)
    BY <2>4, FS_Difference
  <2> QED BY <2>1, <2>3, <2>4, <2>5, Zenon DEF M
<1>3. EmitRemoved(p, S) = [k \in Key |-> p.stored[k] - Cardinality(gone(k))]
  BY DEF EmitRemoved
<1> HIDE DEF gone
<1>4. EmitRemoved(p, S) \in [Key -> Int]
  <2>1. \A k \in Key : p.stored[k] \in Int
    BY DEF Pool
  <2>2. ASSUME NEW k \in Key
        PROVE  p.stored[k] - Cardinality(gone(k)) \in Int
    <3>1. Cardinality(gone(k)) \in Nat /\ p.stored[k] \in Int
      BY <1>2, <2>1, Zenon
    <3> QED BY <3>1
  <2> QED BY <1>3, <2>2
<1>5. /\ m \in Pool /\ MapOK(m) /\ m.map = [k \in Key |-> p.map[k] \ S]
      /\ m.free = p.free /\ m.ref = p.ref /\ m.watch = p.watch
      /\ \A b \in Block : /\ b \in S => m.hash[b] = NoHash /\ m.extra[b] = {}
                          /\ b \notin S => /\ m.hash[b] = p.hash[b]
                                           /\ m.extra[b] = p.extra[b]
      /\ PrimaryOK(p) => PrimaryOK(m)
  BY RemoveHashesProperties
<1> HIDE DEF m
<1>6. /\ r \in Pool
      /\ r.stored = EmitRemoved(p, S)
      /\ r.free = m.free /\ r.ref = m.ref /\ r.watch = m.watch
      /\ r.hash = m.hash /\ r.extra = m.extra /\ r.map = m.map
  BY <1>1, <1>4, <1>5, Zenon DEF Pool
<1>7. MapOK(r)
  BY <1>5, <1>6 DEF MapOK, HashesOf
<1>8. EventsOK(p) => EventsOK(r)
  BY <1>2, <1>3, <1>5, <1>6 DEF EventsOK
<1>9. PrimaryOK(p) => PrimaryOK(r)
  BY <1>5, <1>6 DEF PrimaryOK
<1> HIDE DEF r
<1> QED BY <1>5, <1>6, <1>7, <1>8, <1>9 DEF r

\* Registering keys: a block without a key takes the new one as primary.
LEMMA InsertHashesProperties ==
  ASSUME NEW p \in Pool, MapOK(p), NEW S \in SUBSET Block, NEW f \in [S -> Key]
  PROVE  LET r == InsertHashes(p, f) IN
         /\ r \in Pool /\ MapOK(r)
         /\ r.free = p.free /\ r.ref = p.ref /\ r.watch = p.watch
         /\ r.stored = p.stored
         /\ r.map = [k \in Key |-> p.map[k] \cup {b \in S : f[b] = k}]
         /\ PrimaryOK(p) /\ (\A b \in S : p.hash[b] # NoHash =>
                                KeyTokens[f[b]] <= KeyTokens[p.hash[b]])
              => PrimaryOK(r)
<1> DEFINE new == {b \in DOMAIN f : f[b] # p.hash[b] /\ b \notin p.map[f[b]]}
           hash == [b \in Block |-> IF b \in new /\ p.hash[b] = NoHash
                                    THEN f[b] ELSE p.hash[b]]
           extra == [b \in Block |-> IF b \in new /\ p.hash[b] # NoHash
                                     THEN p.extra[b] \cup {f[b]} ELSE p.extra[b]]
           map == [k \in Key |-> p.map[k] \cup {b \in new : f[b] = k}]
           r == InsertHashes(p, f)
<1>0. /\ hash \in [Block -> Key \cup {NoHash}]
      /\ extra \in [Block -> SUBSET Key]
      /\ map \in [Key -> SUBSET Block]
  BY DEF Pool
<1>1. /\ r.free = p.free /\ r.ref = p.ref /\ r.watch = p.watch
      /\ r.stored = p.stored
      /\ r.hash = hash /\ r.extra = extra /\ r.map = map
      /\ r \in Pool
  <2>1. r = [p EXCEPT !.hash = hash, !.extra = extra, !.map = map]
    BY DEF InsertHashes
  <2> HIDE DEF hash, extra, map, r
  <2> QED BY <1>0, <2>1, Zenon DEF Pool
<1>2. r.map = [k \in Key |-> p.map[k] \cup {b \in S : f[b] = k}]
  <2>1. \A b \in S : b \notin new => b \in p.map[f[b]]
    BY DEF MapOK, HashesOf
  <2>2. \A k \in Key : p.map[k] \cup {b \in new : f[b] = k}
                       = p.map[k] \cup {b \in S : f[b] = k}
    BY <2>1
  <2> QED BY <1>1, <2>2
<1> HIDE DEF r
<1>3. MapOK(r)
  <2>1. ASSUME NEW k \in Key, NEW b \in Block
        PROVE  b \in r.map[k] <=> k \in HashesOf(r, b)
    <3>1. CASE b \in new /\ p.hash[b] = NoHash
      BY <1>1, <3>1, KeyAssumption DEF MapOK, HashesOf, Pool
    <3>2. CASE b \in new /\ p.hash[b] # NoHash
      BY <1>1, <3>2 DEF MapOK, HashesOf, Pool
    <3>3. CASE b \notin new
      BY <1>1, <3>3 DEF MapOK, HashesOf, Pool
    <3> QED BY <3>1, <3>2, <3>3
  <2>2. \A b \in Block : r.extra[b] # {} => r.hash[b] # NoHash
    BY <1>1, KeyAssumption DEF MapOK, Pool
  <2>3. \A b \in Block : r.hash[b] \notin r.extra[b]
    BY <1>1 DEF MapOK, Pool
  <2> QED BY <2>1, <2>2, <2>3 DEF MapOK
<1>4. ASSUME PrimaryOK(p),
             \A b \in S : p.hash[b] # NoHash =>
                          KeyTokens[f[b]] <= KeyTokens[p.hash[b]]
      PROVE  PrimaryOK(r)
  <2> SUFFICES ASSUME NEW b \in Block, NEW k \in r.extra[b]
               PROVE  KeyTokens[k] <= KeyTokens[r.hash[b]]
    BY DEF PrimaryOK
  <2>1. CASE b \in new /\ p.hash[b] = NoHash
    BY <1>1, <2>1 DEF MapOK
  <2>2. CASE b \in new /\ p.hash[b] # NoHash
    BY <1>1, <1>4, <2>2 DEF PrimaryOK
  <2>3. CASE b \notin new
    BY <1>1, <1>4, <2>3 DEF PrimaryOK
  <2> QED BY <2>1, <2>2, <2>3
<1> QED BY <1>1, <1>2, <1>3, <1>4 DEF r

\* The part of a pool that is not prefix-cache metadata.
SameQueue(p, r) == r.free = p.free /\ r.ref = p.ref /\ r.watch = p.watch

\* The four facts about the metadata that every call preserves.
MetadataOK(p) == MapOK(p) /\ PrimaryOK(p) /\ EventsOK(p)

\* Caching full blocks, the promoted ones included, leaves exactly one key on
\* each of them.
LEMMA CacheFullBlocksProperties ==
  ASSUME NEW p \in Pool, MetadataOK(p), NEW S \in SUBSET Block, NEW f \in [S -> Key]
  PROVE  LET r == CacheFullBlocks(p, f) IN
         r \in Pool /\ MetadataOK(r) /\ SameQueue(p, r)
<1> DEFINE hashed == {b \in DOMAIN f : p.hash[b] # NoHash}
           q == MaybeEvictCachedBlocks(p, hashed)
           i == InsertHashes(q, f)
           put(k) == {b \in DOMAIN f : f[b] = k}
           stored == [k \in Key |-> q.stored[k] + Cardinality(put(k))]
           r == CacheFullBlocks(p, f)
<1>1. hashed \in SUBSET Block /\ DOMAIN f = S
  OBVIOUS
<1>2. /\ q \in Pool /\ MetadataOK(q) /\ SameQueue(p, q)
      /\ \A b \in S : q.hash[b] = NoHash /\ q.extra[b] = {}
  <2>1. \A b \in S : b \notin hashed => p.hash[b] = NoHash /\ p.extra[b] = {}
    BY DEF MetadataOK, MapOK
  <2> HIDE DEF hashed, q
  <2>2. /\ q \in Pool /\ MapOK(q) /\ SameQueue(p, q)
        /\ PrimaryOK(p) => PrimaryOK(q)
        /\ EventsOK(p) => EventsOK(q)
        /\ \A b \in Block : /\ b \in hashed => q.hash[b] = NoHash /\ q.extra[b] = {}
                            /\ b \notin hashed => /\ q.hash[b] = p.hash[b]
                                                  /\ q.extra[b] = p.extra[b]
    BY <1>1, EvictProperties DEF MetadataOK, SameQueue, q
  <2>3. MetadataOK(q)
    BY <2>2, Zenon DEF MetadataOK
  <2>4. ASSUME NEW b \in S PROVE q.hash[b] = NoHash /\ q.extra[b] = {}
    <3>1. b \in Block
      OBVIOUS
    <3>2. CASE b \in hashed
      BY <2>2, <3>1, <3>2
    <3>3. CASE b \notin hashed
      BY <2>1, <2>2, <3>1, <3>3
    <3> QED BY <3>2, <3>3
  <2> QED BY <2>2, <2>3, <2>4
<1> HIDE DEF hashed, q
<1>3. /\ i \in Pool /\ MapOK(i) /\ PrimaryOK(i) /\ SameQueue(q, i)
      /\ i.map = [k \in Key |-> q.map[k] \cup {b \in S : f[b] = k}]
  BY <1>2, InsertHashesProperties DEF MetadataOK, SameQueue
<1>4. r = [i EXCEPT !.stored = stored]
  BY DEF CacheFullBlocks, q, hashed
<1>5. ASSUME NEW k \in Key
      PROVE  /\ Cardinality(put(k)) \in Nat
             /\ q.stored[k] + Cardinality(put(k)) \in Int
             /\ q.stored[k] + Cardinality(put(k)) = Cardinality(i.map[k])
  <2>1. put(k) \in SUBSET Block /\ q.map[k] \in SUBSET Block
    BY <1>1, <1>2 DEF Pool
  <2>2. q.map[k] \cap put(k) = {}
    <3>1. \A b \in put(k) : b \in S /\ b \in Block
      BY <1>1
    <3>2. \A b \in S : k \notin HashesOf(q, b)
      BY <1>2, KeyAssumption DEF HashesOf
    <3>3. \A b \in Block : b \in q.map[k] <=> k \in HashesOf(q, b)
      BY <1>2 DEF MetadataOK, MapOK
    <3> HIDE DEF put
    <3> QED BY <3>1, <3>2, <3>3
  <2>3. i.map[k] = q.map[k] \cup put(k)
    BY <1>1, <1>3
  <2> HIDE DEF put, i
  <2>4. /\ IsFiniteSet(q.map[k]) /\ IsFiniteSet(put(k))
        /\ Cardinality(q.map[k]) \in Nat /\ Cardinality(put(k)) \in Nat
    BY <2>1, BlocksFinite
  <2>5. Cardinality(i.map[k])
          = Cardinality(q.map[k]) + Cardinality(put(k))
            - Cardinality(q.map[k] \cap put(k))
    BY <2>3, <2>4, FS_Union
  <2>6. Cardinality(q.map[k] \cap put(k)) = 0
    BY <2>2, FS_EmptySet
  <2>7. q.stored[k] = Cardinality(q.map[k])
    BY <1>2 DEF MetadataOK, EventsOK
  <2> QED BY <2>4, <2>5, <2>6, <2>7
<1> HIDE DEF put, i
<1>6. stored \in [Key -> Int] /\ \A k \in Key : stored[k] = Cardinality(i.map[k])
  BY <1>5
<1> HIDE DEF stored, r
<1>7. /\ r \in Pool /\ r.stored = stored
      /\ r.free = i.free /\ r.ref = i.ref /\ r.watch = i.watch
      /\ r.hash = i.hash /\ r.extra = i.extra /\ r.map = i.map
  BY <1>3, <1>4, <1>6, Zenon DEF Pool
<1>8. MapOK(r) /\ PrimaryOK(r)
  BY <1>3, <1>7 DEF MapOK, PrimaryOK, HashesOf
<1>9. EventsOK(r)
  BY <1>6, <1>7 DEF EventsOK
<1>10. SameQueue(p, r)
  BY <1>2, <1>3, <1>7 DEF SameQueue
<1> QED BY <1>7, <1>8, <1>9, <1>10 DEF r, MetadataOK

\* A partial entry, whether it is new, already there, replaces every entry of
\* the block, or outgrows them.
LEMMA CachePartialBlockProperties ==
  ASSUME NEW p \in Pool, MetadataOK(p), NEW b \in Block, NEW k \in Key,
         NEW rep \in BOOLEAN
  PROVE  LET r == CachePartialBlock(p, b, k, rep) IN
         r \in Pool /\ MetadataOK(r) /\ SameQueue(p, r)
<1> DEFINE already == ~ rep /\ (k = p.hash[b] \/ b \in p.map[k])
           outgrown == p.hash[b] # NoHash /\ KeyTokens[p.hash[b]] < KeyTokens[k]
           q == IF rep \/ (~ already /\ outgrown)
                THEN MaybeEvictCachedBlocks(p, {b}) ELSE p
           f == [x \in {b} |-> k]
           i == InsertHashes(q, f)
           stored == [x \in Key |-> IF x = k /\ ~ already
                                    THEN q.stored[x] + 1 ELSE q.stored[x]]
           r == CachePartialBlock(p, b, k, rep)
<1>1. /\ q \in Pool /\ MetadataOK(q) /\ SameQueue(p, q)
      /\ q.hash[b] # NoHash => KeyTokens[k] <= KeyTokens[q.hash[b]]
      /\ b \in q.map[k] <=> already
  <2>1. CASE rep \/ (~ already /\ outgrown)
    <3> DEFINE e == MaybeEvictCachedBlocks(p, {b})
    <3>1. q = e /\ ~ already
      BY <2>1
    <3>2. /\ e \in Pool /\ MetadataOK(e) /\ SameQueue(p, e)
          /\ e.hash[b] = NoHash /\ e.extra[b] = {}
      <4> DEFINE S == {b}
      <4>1. S \in SUBSET Block /\ b \in S /\ e = MaybeEvictCachedBlocks(p, S)
        OBVIOUS
      <4> HIDE DEF e, q, already, S
      <4>2. MapOK(p)
        BY DEF MetadataOK
      <4>3. /\ e \in Pool /\ MapOK(e) /\ SameQueue(p, e)
            /\ PrimaryOK(p) => PrimaryOK(e)
            /\ EventsOK(p) => EventsOK(e)
            /\ e.hash[b] = NoHash /\ e.extra[b] = {}
        BY <4>1, <4>2, EvictProperties DEF SameQueue
      <4>4. MetadataOK(e)
        BY <4>3, Zenon DEF MetadataOK
      <4> QED BY <4>3, <4>4
    <3> HIDE DEF e, q, already
    <3>3. b \notin e.map[k]
      BY <3>2, KeyAssumption DEF MetadataOK, MapOK, HashesOf
    <3> QED BY <3>1, <3>2, <3>3
  <2>2. CASE ~ (rep \/ (~ already /\ outgrown))
    <3>1. q = p
      BY <2>2
    <3>2. b \in p.map[k] <=> already
      BY <2>2 DEF MetadataOK, MapOK, HashesOf
    <3>3. ASSUME p.hash[b] # NoHash
          PROVE  KeyTokens[k] <= KeyTokens[p.hash[b]]
      <4>1. /\ p.hash[b] \in Key /\ KeyTokens[k] \in Nat
            /\ KeyTokens[p.hash[b]] \in Nat
        BY <3>3, KeyAssumption DEF Pool
      <4>2. CASE already
        <5>1. k = p.hash[b] \/ k \in p.extra[b]
          BY <3>2, <4>2 DEF MetadataOK, MapOK, HashesOf
        <5> QED BY <4>1, <5>1 DEF MetadataOK, PrimaryOK
      <4>3. CASE ~ already
        BY <2>2, <3>3, <4>1, <4>3
      <4> QED BY <4>2, <4>3
    <3>4. SameQueue(p, p)
      BY DEF SameQueue
    <3> HIDE DEF q, already
    <3> QED BY <3>1, <3>2, <3>3, <3>4
  <2> QED BY <2>1, <2>2
<1>2. r = [i EXCEPT !.stored = stored]
  BY DEF CachePartialBlock
<1> HIDE DEF q, already
<1>3. /\ i \in Pool /\ MapOK(i) /\ PrimaryOK(i) /\ SameQueue(q, i)
      /\ i.map = [x \in Key |-> q.map[x] \cup {y \in {b} : f[y] = x}]
  BY <1>1, InsertHashesProperties DEF MetadataOK, SameQueue
<1>4. ASSUME NEW x \in Key
      PROVE  stored[x] \in Int /\ stored[x] = Cardinality(i.map[x])
  <2>1. /\ q.map[x] \in SUBSET Block /\ q.stored[x] \in Int
        /\ q.stored[x] = Cardinality(q.map[x])
    BY <1>1 DEF Pool, MetadataOK, EventsOK
  <2>2. CASE x = k /\ ~ already
    <3>1. i.map[x] = q.map[x] \cup {b} /\ b \notin q.map[x]
      BY <1>1, <1>3, <2>2
    <3>2. Cardinality(i.map[x]) = Cardinality(q.map[x]) + 1
      BY <2>1, <3>1, BlocksFinite, FS_AddElement
    <3> QED BY <2>1, <2>2, <3>2
  <2>3. CASE ~ (x = k /\ ~ already)
    <3>1. i.map[x] = q.map[x]
      <4>1. i.map[x] = q.map[x] \cup {y \in {b} : f[y] = x}
        BY <1>3
      <4>2. CASE x # k
        BY <4>1, <4>2, Zenon
      <4>3. CASE x = k
        BY <1>1, <2>3, <4>1, <4>3, Zenon
      <4> QED BY <4>2, <4>3
    <3> QED BY <2>1, <2>3, <3>1
  <2> QED BY <2>2, <2>3
<1> HIDE DEF i
<1>5. stored \in [Key -> Int] /\ \A x \in Key : stored[x] = Cardinality(i.map[x])
  BY <1>4
<1> HIDE DEF stored, r
<1>6. /\ r \in Pool /\ r.stored = stored
      /\ r.free = i.free /\ r.ref = i.ref /\ r.watch = i.watch
      /\ r.hash = i.hash /\ r.extra = i.extra /\ r.map = i.map
  BY <1>2, <1>3, <1>5, Zenon DEF Pool
<1>7. MapOK(r) /\ PrimaryOK(r)
  BY <1>3, <1>6 DEF MapOK, PrimaryOK, HashesOf
<1>8. EventsOK(r)
  BY <1>5, <1>6 DEF EventsOK
<1>9. SameQueue(p, r)
  BY <1>1, <1>3, <1>6 DEF SameQueue
<1> QED BY <1>6, <1>7, <1>8, <1>9 DEF r, MetadataOK

\* Moving the entries of a block to a bare one changes the size of no entry.
LEMMA MoveBlockHashesProperties ==
  ASSUME NEW p \in Pool, MetadataOK(p), NEW src \in Block, NEW dst \in Block,
         p.hash[src] # NoHash, p.hash[dst] = NoHash
  PROVE  LET r == MoveBlockHashes(p, src, dst) IN
         r \in Pool /\ MetadataOK(r) /\ SameQueue(p, r)
<1> DEFINE bare  == RemoveHashes(p, {src})
           moved == HashesOf(p, src)
           hash  == [bare.hash EXCEPT ![dst] = p.hash[src]]
           extra == [bare.extra EXCEPT ![dst] = p.extra[src]]
           map   == [k \in Key |-> bare.map[k] \cup
                       (IF k \in moved /\ src \in p.map[k] THEN {dst} ELSE {})]
           r == MoveBlockHashes(p, src, dst)
<1>1. /\ src # dst /\ p.extra[dst] = {}
      /\ \A k \in Key : src \in p.map[k] <=> k \in moved
      /\ \A k \in Key : dst \notin p.map[k]
  BY KeyAssumption DEF MetadataOK, MapOK, HashesOf, Pool
<1>2. /\ bare \in Pool /\ SameQueue(p, bare)
      /\ bare.stored = p.stored
      /\ bare.map = [k \in Key |-> p.map[k] \ {src}]
      /\ \A b \in Block : b # src => /\ bare.hash[b] = p.hash[b]
                                     /\ bare.extra[b] = p.extra[b]
      /\ bare.hash[src] = NoHash /\ bare.extra[src] = {}
  <2> DEFINE S == {src}
  <2>1. S \in SUBSET Block /\ \A b \in Block : b \in S <=> b = src
    OBVIOUS
  <2>2. MapOK(p)
    BY DEF MetadataOK
  <2>3. RemoveHashes(p, S).stored = p.stored
    BY DEF RemoveHashes, Pool
  <2> HIDE DEF S
  <2>4. LET q == RemoveHashes(p, S) IN
        /\ q \in Pool /\ SameQueue(p, q)
        /\ q.stored = p.stored
        /\ q.map = [k \in Key |-> p.map[k] \ S]
        /\ \A b \in Block : b # src => /\ q.hash[b] = p.hash[b]
                                       /\ q.extra[b] = p.extra[b]
        /\ q.hash[src] = NoHash /\ q.extra[src] = {}
    BY <2>1, <2>2, <2>3, RemoveHashesProperties DEF SameQueue
  <2> QED BY <2>4 DEF S
<1>3. r = [bare EXCEPT !.hash = hash, !.extra = extra, !.map = map]
  BY DEF MoveBlockHashes
<1> HIDE DEF bare, moved
<1>4. /\ hash \in [Block -> Key \cup {NoHash}]
      /\ extra \in [Block -> SUBSET Key]
      /\ map \in [Key -> SUBSET Block]
  BY <1>2 DEF Pool
<1>5. /\ hash[dst] = p.hash[src] /\ extra[dst] = p.extra[src]
      /\ hash[src] = NoHash /\ extra[src] = {}
      /\ \A b \in Block : b # src /\ b # dst => /\ hash[b] = p.hash[b]
                                                /\ extra[b] = p.extra[b]
  BY <1>1, <1>2 DEF Pool
<1>6. \A k \in Key : map[k] = IF k \in moved THEN (p.map[k] \ {src}) \cup {dst}
                              ELSE p.map[k]
  BY <1>1, <1>2
<1> HIDE DEF hash, extra, map, r
<1>7. /\ r \in Pool /\ r.stored = p.stored /\ SameQueue(p, r)
      /\ r.hash = hash /\ r.extra = extra /\ r.map = map
  BY <1>2, <1>3, <1>4, Zenon DEF Pool, SameQueue
<1>8. MapOK(r)
  <2>1. ASSUME NEW k \in Key, NEW b \in Block
        PROVE  b \in r.map[k] <=> k \in HashesOf(r, b)
    <3>1. CASE b = src
      <4>1. k \notin HashesOf(r, src)
        BY <1>5, <1>7, KeyAssumption DEF HashesOf
      <4>2. src \notin r.map[k]
        BY <1>1, <1>6, <1>7, Zenon
      <4> QED BY <3>1, <4>1, <4>2
    <3>2. CASE b = dst
      <4>1. k \in HashesOf(r, dst) <=> k \in moved
        BY <1>5, <1>7 DEF HashesOf, moved
      <4> QED BY <1>1, <1>6, <1>7, <3>2, <4>1, Zenon
    <3>3. CASE b # src /\ b # dst
      <4>1. b \in r.map[k] <=> b \in p.map[k]
        BY <1>6, <1>7, <3>3, Zenon
      <4>2. k \in HashesOf(r, b) <=> k \in HashesOf(p, b)
        BY <1>5, <1>7, <3>3 DEF HashesOf
      <4> QED BY <4>1, <4>2 DEF MetadataOK, MapOK
    <3> QED BY <3>1, <3>2, <3>3
  <2>2. \A b \in Block : r.extra[b] # {} => r.hash[b] # NoHash
    BY <1>5, <1>7 DEF MetadataOK, MapOK
  <2>3. \A b \in Block : r.hash[b] \notin r.extra[b]
    BY <1>5, <1>7 DEF MetadataOK, MapOK
  <2> QED BY <2>1, <2>2, <2>3 DEF MapOK
<1>9. PrimaryOK(r)
  BY <1>5, <1>7 DEF MetadataOK, PrimaryOK
<1>10. EventsOK(r)
  <2> SUFFICES ASSUME NEW k \in Key
               PROVE  Cardinality(map[k]) = Cardinality(p.map[k])
    BY <1>7 DEF MetadataOK, EventsOK
  <2>1. CASE k \notin moved
    BY <1>6, <2>1, Zenon
  <2>2. CASE k \in moved
    <3> DEFINE M == p.map[k]
    <3>1. IsFiniteSet(M) /\ Cardinality(M) \in Nat
      BY BlocksFinite DEF Pool
    <3>2. src \in M /\ dst \notin M \ {src} /\ map[k] = (M \ {src}) \cup {dst}
      BY <1>1, <1>6, <2>2, Zenon
    <3> HIDE DEF M
    <3>3. IsFiniteSet(M \ {src}) /\ Cardinality(M \ {src}) = Cardinality(M) - 1
      BY <3>1, <3>2, FS_RemoveElement
    <3>4. Cardinality((M \ {src}) \cup {dst}) = Cardinality(M \ {src}) + 1
      BY <3>2, <3>3, FS_AddElement, Zenon
    <3>5. Cardinality(map[k]) = Cardinality(M)
      BY <3>1, <3>2, <3>3, <3>4
    <3> QED BY <3>5 DEF M
  <2> QED BY <2>1, <2>2
<1> QED BY <1>7, <1>8, <1>9, <1>10 DEF r, MetadataOK

-----------------------------------------------------------------------------
(* Allocation *)

\* get_new_blocks hands out blocks that nobody references, and leaves them
\* without a key when caching is on.
LEMMA GetNewBlocksProperties ==
  ASSUME NEW p \in Pool, QueueOK(p), MetadataOK(p), NEW n \in 0 .. Len(p.free)
  PROVE  LET r   == GetNewBlocks(p, n)
             new == Elems(NewBlocks(p, n))
         IN  /\ r \in Pool /\ QueueOK(r) /\ MetadataOK(r)
             /\ new \in SUBSET Block
             /\ \A b \in new : p.ref[b] = 0
             /\ r.ref = [b \in Block |-> IF b \in new THEN 1 ELSE p.ref[b]]
             /\ r.watch = p.watch \ new
<1> DEFINE new == Elems(NewBlocks(p, n))
           base == IF EnableCaching THEN MaybeEvictCachedBlocks(p, new) ELSE p
           ref == [b \in Block |-> IF b \in new THEN p.ref[b] + 1 ELSE p.ref[b]]
           rest == SubSeq(p.free, n + 1, Len(p.free))
           r == GetNewBlocks(p, n)
<1>1. /\ p.free \in Seq(Block) /\ Len(p.free) \in Nat
      /\ p.ref \in [Block -> Nat] /\ p.watch \in SUBSET Block
  BY DEF Pool
<1>2. /\ NewBlocks(p, n) \in Seq(Block)
      /\ DOMAIN NewBlocks(p, n) = 1 .. n
      /\ \A i \in 1 .. n : NewBlocks(p, n)[i] = p.free[i]
  BY <1>1 DEF NewBlocks
<1>3. /\ rest \in Seq(Block)
      /\ DOMAIN rest = 1 .. Len(p.free) - n
      /\ \A i \in 1 .. Len(p.free) - n : rest[i] = p.free[n + i]
  BY <1>1
<1>4. new = {p.free[i] : i \in 1 .. n}
  BY <1>2 DEF Elems
<1>5. new \in SUBSET Block /\ \A b \in new : p.ref[b] = 0
  <2>1. \A i \in 1 .. n : p.free[i] \in Elems(p.free)
    BY <1>1 DEF Elems
  <2>2. new \subseteq Elems(p.free)
    BY <1>4, <2>1
  <2> QED BY <2>2 DEF QueueOK
<1>6. r = [base EXCEPT !.free = rest, !.watch = p.watch \ new, !.ref = ref]
  BY DEF GetNewBlocks
<1> HIDE DEF new, rest, r
<1>7. /\ ref = [b \in Block |-> IF b \in new THEN 1 ELSE p.ref[b]]
      /\ ref \in [Block -> Nat]
  BY <1>1, <1>5
<1>8. base \in Pool /\ MetadataOK(base)
  <2>1. CASE EnableCaching
    <3> DEFINE e == MaybeEvictCachedBlocks(p, new)
    <3>1. MapOK(p)
      BY DEF MetadataOK
    <3>2. /\ e \in Pool /\ MapOK(e)
          /\ PrimaryOK(p) => PrimaryOK(e)
          /\ EventsOK(p) => EventsOK(e)
      BY <1>5, <3>1, EvictProperties
    <3> HIDE DEF e
    <3>3. MetadataOK(e)
      BY <3>2, Zenon DEF MetadataOK
    <3> QED BY <2>1, <3>2, <3>3 DEF e
  <2>2. CASE ~ EnableCaching
    BY <2>2
  <2> QED BY <2>1, <2>2
<1> HIDE DEF base, ref
<1>9. /\ r \in Pool /\ r.free = rest /\ r.ref = ref /\ r.watch = p.watch \ new
      /\ r.hash = base.hash /\ r.extra = base.extra
      /\ r.map = base.map /\ r.stored = base.stored
  BY <1>1, <1>3, <1>6, <1>7, <1>8, ZenonT(30) DEF Pool
<1>10. MetadataOK(r)
  BY <1>8, <1>9 DEF MetadataOK, MapOK, PrimaryOK, EventsOK, HashesOf
<1>11. NoDuplicates(rest)
  <2> SUFFICES ASSUME NEW i \in 1 .. Len(p.free) - n,
                      NEW j \in 1 .. Len(p.free) - n, rest[i] = rest[j]
               PROVE  i = j
    BY <1>3 DEF NoDuplicates
  <2>1. n + i \in DOMAIN p.free /\ n + j \in DOMAIN p.free
    BY <1>1
  <2>2. n + i = n + j
    BY <1>3, <2>1 DEF QueueOK, NoDuplicates
  <2> QED BY <1>1, <2>2
<1>12. Elems(rest) = Elems(p.free) \ new
  <2>1. ASSUME NEW i \in 1 .. Len(p.free) - n
        PROVE  rest[i] \in Elems(p.free) \ new
    <3>1. n + i \in DOMAIN p.free /\ rest[i] = p.free[n + i]
      BY <1>1, <1>3
    <3>2. \A j \in 1 .. n : p.free[j] # p.free[n + i]
      BY <1>1, <3>1 DEF QueueOK, NoDuplicates
    <3> QED BY <1>4, <3>1, <3>2 DEF Elems
  <2>2. ASSUME NEW i \in DOMAIN p.free, p.free[i] \notin new
        PROVE  p.free[i] \in Elems(rest)
    <3>1. PICK j \in 1 .. Len(p.free) - n : i = n + j
      <4>1. i \in 1 .. Len(p.free) /\ i > n
        BY <1>1, <1>4, <2>2
      <4>2. i - n \in 1 .. Len(p.free) - n /\ i = n + (i - n)
        BY <1>1, <4>1
      <4> QED BY <4>2
    <3>2. rest[j] = p.free[i]
      BY <1>3, <3>1
    <3> QED BY <1>3, <3>1, <3>2 DEF Elems
  <2> QED BY <1>3, <2>1, <2>2 DEF Elems
<1>13. QueueOK(r)
  <2>1. {b \in Block : ref[b] = 0} = {b \in Block : p.ref[b] = 0} \ new
    BY <1>5, <1>7
  <2> QED BY <1>9, <1>11, <1>12, <2>1 DEF QueueOK
<1> QED BY <1>5, <1>7, <1>9, <1>10, <1>13 DEF r, new

\* touch takes the blocks it references out of the free queue, wherever they
\* are in it.
LEMMA TouchProperties ==
  ASSUME NEW p \in Pool, QueueOK(p), MetadataOK(p), NEW S \in SUBSET Block
  PROVE  LET r == Touch(p, S)
         IN  /\ r \in Pool /\ QueueOK(r) /\ MetadataOK(r)
             /\ r.ref = [b \in Block |-> IF b \in S THEN p.ref[b] + 1 ELSE p.ref[b]]
             /\ r.watch = p.watch /\ r.hash = p.hash /\ r.map = p.map
<1> DEFINE U == Block \ {b \in S : p.ref[b] = 0}
           free == Keep(p.free, U)
           ref == [b \in Block |-> IF b \in S THEN p.ref[b] + 1 ELSE p.ref[b]]
           r == Touch(p, S)
<1>1. p.free \in Seq(Block) /\ p.ref \in [Block -> Nat]
  BY DEF Pool
<1>2. r = [p EXCEPT !.free = free, !.ref = ref]
  BY DEF Touch
<1>3. free \in Seq(Block) /\ Elems(free) = Elems(p.free) \cap U /\ NoDuplicates(free)
  BY <1>1, KeepProperties DEF QueueOK
<1>4. ref \in [Block -> Nat]
  BY <1>1
<1>5. {b \in Block : ref[b] = 0} = {b \in Block : p.ref[b] = 0} \cap U
  BY <1>1
<1> HIDE DEF U, free, ref, r
<1>6. /\ r \in Pool /\ r.free = free /\ r.ref = ref /\ r.watch = p.watch
      /\ r.hash = p.hash /\ r.extra = p.extra
      /\ r.map = p.map /\ r.stored = p.stored
  BY <1>2, <1>3, <1>4, Zenon DEF Pool
<1>7. MetadataOK(r)
  BY <1>6 DEF MetadataOK, MapOK, PrimaryOK, EventsOK, HashesOf
<1>8. QueueOK(r)
  BY <1>3, <1>5, <1>6 DEF QueueOK
<1> QED BY <1>6, <1>7, <1>8 DEF r, ref

\* Dropping references: the released blocks are exactly those that become
\* unreferenced.
LEMMA DropRefsProperties ==
  ASSUME NEW p \in Pool, NEW S \in SUBSET Block, \A b \in S : p.ref[b] > 0
  PROVE  /\ DropRefs(p, S) \in [Block -> Nat]
         /\ Released(p, S) \in SUBSET S
         /\ {b \in Block : DropRefs(p, S)[b] = 0}
              = {b \in Block : p.ref[b] = 0} \cup Released(p, S)
         /\ Released(p, S) \cap {b \in Block : p.ref[b] = 0} = {}
<1>1. p.ref \in [Block -> Nat]
  BY DEF Pool
<1> QED BY <1>1 DEF DropRefs, Released

\* free_blocks returns each released block to one end of the queue, once.
LEMMA FreeBlocksProperties ==
  ASSUME NEW p \in Pool, QueueOK(p), MetadataOK(p), NEW o \in Seq(Block),
         NoDuplicates(o), \A b \in Elems(o) : p.ref[b] > 0
  PROVE  LET r == FreeBlocks(p, o)
         IN  /\ r \in Pool /\ QueueOK(r) /\ MetadataOK(r)
             /\ r.ref = DropRefs(p, Elems(o))
             /\ r.watch = p.watch /\ r.hash = p.hash /\ r.map = p.map
<1> DEFINE S == Elems(o)
           released == Released(p, S)
           first == {b \in released : p.hash[b] = NoHash \/ ~ EnableCaching}
           last == released \ first
           head == Keep(o, first)
           tail == Keep(o, last)
           free == head \o p.free \o tail
           r == FreeBlocks(p, o)
<1>1. r = [p EXCEPT !.ref = DropRefs(p, S), !.free = free]
  BY DEF FreeBlocks
<1>2. S \in SUBSET Block
  BY DEF Elems
<1>3. p.free \in Seq(Block)
  BY DEF Pool
<1>4. /\ released \in SUBSET S
      /\ released = first \cup last /\ first \cap last = {}
      /\ DropRefs(p, S) \in [Block -> Nat]
      /\ {b \in Block : DropRefs(p, S)[b] = 0} = Elems(p.free) \cup released
      /\ released \cap Elems(p.free) = {}
  BY <1>2, DropRefsProperties DEF QueueOK
<1> HIDE DEF S, released, first, last
<1>5. /\ head \in Seq(Block) /\ NoDuplicates(head) /\ Elems(head) = first
      /\ tail \in Seq(Block) /\ NoDuplicates(tail) /\ Elems(tail) = last
  <2>1. /\ head \in Seq(Block) /\ NoDuplicates(head) /\ Elems(head) = S \cap first
        /\ tail \in Seq(Block) /\ NoDuplicates(tail) /\ Elems(tail) = S \cap last
    BY KeepProperties DEF S
  <2> HIDE DEF head, tail
  <2> QED BY <1>4, <2>1
<1> HIDE DEF head, tail
<1>6. /\ head \o p.free \in Seq(Block) /\ NoDuplicates(head \o p.free)
      /\ Elems(head \o p.free) = first \cup Elems(p.free)
  BY <1>3, <1>4, <1>5, ConcatNoDuplicates DEF QueueOK
<1>7. free \in Seq(Block) /\ NoDuplicates(free) /\ Elems(free) = Elems(p.free) \cup released
  <2>1. Elems(head \o p.free) \cap Elems(tail) = {}
    BY <1>4, <1>5, <1>6
  <2> DEFINE hp == head \o p.free
  <2>0. /\ hp \in Seq(Block) /\ NoDuplicates(hp) /\ tail \in Seq(Block)
        /\ NoDuplicates(tail) /\ Elems(hp) \cap Elems(tail) = {}
    BY <1>5, <1>6, <2>1
  <2> HIDE DEF hp
  <2>2. /\ hp \o tail \in Seq(Block) /\ NoDuplicates(hp \o tail)
        /\ Elems(hp \o tail) = Elems(hp) \cup Elems(tail)
    BY <2>0, ConcatNoDuplicates
  <2>3. Elems(hp) \cup Elems(tail) = Elems(p.free) \cup released
    BY <1>4, <1>5, <1>6 DEF hp
  <2> QED BY <2>2, <2>3 DEF hp
<1> HIDE DEF free, r
<1>8. /\ r \in Pool /\ r.free = free /\ r.ref = DropRefs(p, S)
      /\ r.watch = p.watch /\ r.hash = p.hash /\ r.extra = p.extra
      /\ r.map = p.map /\ r.stored = p.stored
  BY <1>1, <1>4, <1>7, ZenonT(30) DEF Pool
<1>9. MetadataOK(r)
  BY <1>8 DEF MetadataOK, MapOK, PrimaryOK, EventsOK, HashesOf
<1>10. QueueOK(r)
  BY <1>4, <1>7, <1>8 DEF QueueOK
<1> QED BY <1>8, <1>9, <1>10 DEF r, S

\* unpin_blocks is free_blocks that always appends, and watches the blocks.
LEMMA UnpinBlocksProperties ==
  ASSUME NEW p \in Pool, QueueOK(p), MetadataOK(p), NEW o \in Seq(Block),
         NoDuplicates(o), \A b \in Elems(o) : p.ref[b] > 0
  PROVE  LET r == UnpinBlocks(p, o)
         IN  /\ r \in Pool /\ QueueOK(r) /\ MetadataOK(r)
             /\ r.ref = DropRefs(p, Elems(o))
             /\ r.watch = p.watch \cup Elems(o)
<1> DEFINE S == Elems(o)
           released == Released(p, S)
           tail == Keep(o, released)
           free == p.free \o tail
           r == UnpinBlocks(p, o)
<1>1. r = [p EXCEPT !.ref = DropRefs(p, S), !.watch = p.watch \cup S, !.free = free]
  BY DEF UnpinBlocks
<1>2. S \in SUBSET Block
  BY DEF Elems
<1>3. p.free \in Seq(Block)
  BY DEF Pool
<1>4. /\ released \in SUBSET S
      /\ DropRefs(p, S) \in [Block -> Nat]
      /\ {b \in Block : DropRefs(p, S)[b] = 0} = Elems(p.free) \cup released
      /\ Elems(p.free) \cap released = {}
  BY <1>2, DropRefsProperties DEF QueueOK
<1> HIDE DEF S, released
<1>5. tail \in Seq(Block) /\ NoDuplicates(tail) /\ Elems(tail) = released
  <2>1. tail \in Seq(Block) /\ NoDuplicates(tail) /\ Elems(tail) = S \cap released
    BY KeepProperties DEF S
  <2> HIDE DEF tail
  <2> QED BY <1>4, <2>1
<1> HIDE DEF tail
<1>6. free \in Seq(Block) /\ NoDuplicates(free) /\ Elems(free) = Elems(p.free) \cup released
  BY <1>3, <1>4, <1>5, ConcatNoDuplicates DEF QueueOK
<1> HIDE DEF free, r
<1>7. /\ r \in Pool /\ r.free = free /\ r.ref = DropRefs(p, S)
      /\ r.watch = p.watch \cup S /\ r.hash = p.hash /\ r.extra = p.extra
      /\ r.map = p.map /\ r.stored = p.stored
  BY <1>1, <1>2, <1>4, <1>6, ZenonT(30) DEF Pool
<1>8. MetadataOK(r)
  BY <1>7 DEF MetadataOK, MapOK, PrimaryOK, EventsOK, HashesOf
<1>9. QueueOK(r)
  BY <1>4, <1>6, <1>7 DEF QueueOK
<1> QED BY <1>7, <1>8, <1>9 DEF r, S

\* reset_prefix_cache empties the metadata and leaves the queue alone.
LEMMA ResetPrefixCacheProperties ==
  ASSUME NEW p \in Pool, QueueOK(p)
  PROVE  LET r == ResetPrefixCache(p)
         IN  /\ r \in Pool /\ QueueOK(r) /\ MetadataOK(r)
             /\ r.ref = p.ref /\ r.watch = {}
<1> DEFINE hash == [b \in Block |-> NoHash]
           extra == [b \in Block |-> {}]
           map == [k \in Key |-> {}]
           stored == [k \in Key |-> 0]
           r == ResetPrefixCache(p)
<1>0. /\ hash \in [Block -> Key \cup {NoHash}] /\ extra \in [Block -> SUBSET Key]
      /\ map \in [Key -> SUBSET Block] /\ stored \in [Key -> Int]
  OBVIOUS
<1>1. /\ r \in Pool /\ r.free = p.free /\ r.ref = p.ref /\ r.watch = {}
      /\ r.hash = hash /\ r.extra = extra /\ r.map = map /\ r.stored = stored
  <2>1. r = [p EXCEPT !.hash = hash, !.extra = extra, !.map = map,
                      !.watch = {}, !.stored = stored]
    BY DEF ResetPrefixCache
  <2> HIDE DEF hash, extra, map, stored, r
  <2> QED BY <1>0, <2>1, Zenon DEF Pool
<1> HIDE DEF r
<1>2. MapOK(r) /\ PrimaryOK(r)
  BY <1>1, KeyAssumption DEF MapOK, PrimaryOK, HashesOf
<1>3. EventsOK(r)
  BY <1>1, FS_EmptySet DEF EventsOK
<1>4. QueueOK(r)
  BY <1>1 DEF QueueOK
<1> QED BY <1>1, <1>2, <1>3, <1>4 DEF r, MetadataOK

\* The pool the constructor builds is free, without keys and without events.
LEMMA NewPoolProperties ==
  /\ NewPool \in Pool /\ QueueOK(NewPool) /\ MetadataOK(NewPool)
  /\ \A b \in Block : NewPool.ref[b] = 0
  /\ NewPool.watch = {}
<1> DEFINE r == NewPool
           free == [i \in 1 .. NumGpuBlocks - 1 |-> i]
           ref == [b \in Block |-> 0]
           hash == [b \in Block |-> NoHash]
           extra == [b \in Block |-> {}]
           map == [k \in Key |-> {}]
           stored == [k \in Key |-> 0]
<1>0. free \in Seq(Block)
  BY NumGpuBlocksAssumption DEF Block
<1>1. /\ ref \in [Block -> Nat]
      /\ hash \in [Block -> Key \cup {NoHash}] /\ extra \in [Block -> SUBSET Key]
      /\ map \in [Key -> SUBSET Block] /\ stored \in [Key -> Int]
  OBVIOUS
<1>2. /\ r \in Pool /\ r.free = free /\ r.ref = ref /\ r.watch = {}
      /\ r.hash = hash /\ r.extra = extra /\ r.map = map /\ r.stored = stored
  <2>1. r = [free |-> free, ref |-> ref, hash |-> hash, extra |-> extra,
             map |-> map, watch |-> {}, stored |-> stored]
    BY DEF NewPool
  <2> HIDE DEF free, ref, hash, extra, map, stored, r
  <2> QED BY <1>0, <1>1, <2>1 DEF Pool
<1> HIDE DEF r
<1>3. MapOK(r) /\ PrimaryOK(r)
  BY <1>2, KeyAssumption DEF MapOK, PrimaryOK, HashesOf
<1>4. EventsOK(r)
  BY <1>2, FS_EmptySet DEF EventsOK
<1>5. QueueOK(r)
  BY <1>2 DEF QueueOK, NoDuplicates, Elems, Block
<1> QED BY <1>2, <1>3, <1>4, <1>5 DEF r, MetadataOK

-----------------------------------------------------------------------------
(* The invariant of BlockPoolClients *)

\* The conjunction of the invariants is inductive: handing out a block rests on
\* the free queue being exact, the queue on the counts, and the counts on
\* every client dropping only what it holds.
IInv == /\ TypeOK
        /\ RefCountsHolders
        /\ FreeQueueIsUnreferenced
        /\ MapMatchesHashes
        /\ PrimaryKeyIsLongest
        /\ EventsMirrorCache
        /\ WatchedNotOverwritten

Holders(h, b) == {c \in Client : b \in h[c]}

\* The holders of a block are finitely many, so that they can be counted.
LEMMA HoldersFinite ==
  ASSUME NEW h, NEW b
  PROVE  IsFiniteSet(Holders(h, b)) /\ Cardinality(Holders(h, b)) \in Nat
<1>1. Holders(h, b) \in SUBSET Client
  BY DEF Holders
<1> QED BY <1>1, ClientAssumption, FS_Subset, FS_CardinalityType

\* A client that takes one more reference to each block of S.
LEMMA TakeReferences ==
  ASSUME NEW h \in [Client -> SUBSET Block], NEW c \in Client,
         NEW S \in SUBSET Block, S \cap h[c] = {}, NEW b \in Block,
         NEW g \in [Client -> SUBSET Block], g[c] = h[c] \cup S,
         \A d \in Client \ {c} : g[d] = h[d]
  PROVE  Cardinality(Holders(g, b)) =
           IF b \in S THEN Cardinality(Holders(h, b)) + 1
           ELSE Cardinality(Holders(h, b))
<1>1. CASE b \in S
  <2>1. Holders(g, b) = Holders(h, b) \cup {c} /\ c \notin Holders(h, b)
    BY <1>1 DEF Holders
  <2> QED BY <1>1, <2>1, HoldersFinite, FS_AddElement, Zenon
<1>2. CASE b \notin S
  <2>1. Holders(g, b) = Holders(h, b)
    BY <1>2 DEF Holders
  <2> QED BY <1>2, <2>1
<1> QED BY <1>1, <1>2

\* A client that drops one reference to each block of S.
LEMMA DropReferences ==
  ASSUME NEW h \in [Client -> SUBSET Block], NEW c \in Client,
         NEW S \in SUBSET h[c], NEW b \in Block,
         NEW g \in [Client -> SUBSET Block], g[c] = h[c] \ S,
         \A d \in Client \ {c} : g[d] = h[d]
  PROVE  /\ Cardinality(Holders(g, b)) =
              IF b \in S THEN Cardinality(Holders(h, b)) - 1
              ELSE Cardinality(Holders(h, b))
         /\ b \in S => Cardinality(Holders(h, b)) > 0
<1>1. CASE b \in S
  <2>1. Holders(g, b) = Holders(h, b) \ {c} /\ c \in Holders(h, b)
    BY <1>1 DEF Holders
  <2>2. Cardinality(Holders(g, b)) = Cardinality(Holders(h, b)) - 1
    <3>1. IsFiniteSet(Holders(h, b))
      BY HoldersFinite
    <3>2. Cardinality(Holders(h, b) \ {c}) = Cardinality(Holders(h, b)) - 1
      BY <2>1, <3>1, FS_RemoveElement, Zenon
    <3> QED BY <2>1, <3>2
  <2>3. Cardinality(Holders(h, b)) > 0
    BY <2>1, HoldersFinite, FS_EmptySet
  <2> QED BY <1>1, <2>2, <2>3
<1>2. CASE b \notin S
  <2>1. Holders(g, b) = Holders(h, b)
    BY <1>2 DEF Holders
  <2> QED BY <1>2, <2>1
<1> QED BY <1>1, <1>2

\* The inductive invariant holds of the pool the constructor builds.
LEMMA InvariantInit == Init => IInv
<1> SUFFICES ASSUME Init PROVE IInv
  OBVIOUS
<1>1. TypeOK
  BY NewPoolProperties DEF Init, TypeOK
<1>2. RefCountsHolders
  <2> SUFFICES ASSUME NEW b \in Block
               PROVE  pool.ref[b] = Cardinality({c \in Client : b \in held[c]})
    BY DEF RefCountsHolders
  <2>1. {c \in Client : b \in held[c]} = {}
    BY DEF Init
  <2> QED BY <2>1, NewPoolProperties, FS_EmptySet DEF Init
<1>3. QueueOK(pool) /\ MetadataOK(pool) /\ pool.watch = {}
  BY NewPoolProperties DEF Init
<1> QED BY <1>1, <1>2, <1>3 DEF IInv, FreeQueueIsUnreferenced, MapMatchesHashes,
           PrimaryKeyIsLongest, EventsMirrorCache, WatchedNotOverwritten, MetadataOK

\* Every call of the pool keeps the inductive invariant.
LEMMA InvariantNext == IInv /\ [Next]_vars => IInv'
<1> SUFFICES ASSUME IInv, [Next]_vars PROVE IInv'
  OBVIOUS
<1>1. /\ pool \in Pool /\ QueueOK(pool) /\ MetadataOK(pool)
      /\ held \in [Client -> SUBSET Block] /\ fresh \in SUBSET Block
      /\ \A b \in Block : pool.ref[b] = Cardinality(Holders(held, b))
      /\ pool.watch \cap fresh = {}
  BY DEF IInv, TypeOK, RefCountsHolders, FreeQueueIsUnreferenced, MapMatchesHashes,
         PrimaryKeyIsLongest, EventsMirrorCache, WatchedNotOverwritten, MetadataOK,
         Holders
<1>2. ASSUME pool' \in Pool, QueueOK(pool'), MetadataOK(pool'),
             held' \in [Client -> SUBSET Block], fresh' \in SUBSET Block,
             \A b \in Block : pool'.ref[b] = Cardinality(Holders(held', b)),
             pool'.watch \cap fresh' = {}
      PROVE  IInv'
  BY <1>2 DEF IInv, TypeOK, RefCountsHolders, FreeQueueIsUnreferenced,
         MapMatchesHashes, PrimaryKeyIsLongest, EventsMirrorCache,
         WatchedNotOverwritten, MetadataOK, Holders
<1>3. ASSUME NEW c \in Client, DoGetNewBlocks(c) PROVE IInv'
  <2>1. PICK n \in 1 .. Len(pool.free) :
          /\ pool' = GetNewBlocks(pool, n)
          /\ held' = [held EXCEPT ![c] = @ \cup Elems(NewBlocks(pool, n))]
          /\ fresh' = fresh \cup Elems(NewBlocks(pool, n))
    BY <1>3, ZenonT(30) DEF DoGetNewBlocks
  <2> DEFINE new == Elems(NewBlocks(pool, n))
  <2>2. /\ pool' \in Pool /\ QueueOK(pool') /\ MetadataOK(pool')
        /\ new \in SUBSET Block /\ \A b \in new : pool.ref[b] = 0
        /\ pool'.ref = [b \in Block |-> IF b \in new THEN 1 ELSE pool.ref[b]]
        /\ pool'.watch = pool.watch \ new
    <3>1. n \in 0 .. Len(pool.free)
      BY <1>1 DEF Pool
    <3> QED BY <1>1, <2>1, <3>1, GetNewBlocksProperties
  <2> HIDE DEF new
  <2>3. new \cap held[c] = {}
    <3> SUFFICES ASSUME NEW b \in new, b \in held[c] PROVE FALSE
      OBVIOUS
    <3>1. c \in Holders(held, b) /\ b \in Block
      BY <2>2 DEF Holders
    <3>2. Cardinality(Holders(held, b)) = 0
      BY <1>1, <2>2, <3>1
    <3> QED BY <3>1, <3>2, HoldersFinite, FS_EmptySet
  <2>4. held' \in [Client -> SUBSET Block] /\ fresh' \in SUBSET Block
    BY <1>1, <2>1, <2>2 DEF new
  <2>5. ASSUME NEW b \in Block
        PROVE  pool'.ref[b] = Cardinality(Holders(held', b))
    <3>1. Cardinality(Holders(held', b)) = IF b \in new
              THEN Cardinality(Holders(held, b)) + 1 ELSE Cardinality(Holders(held, b))
      <4>1. /\ held \in [Client -> SUBSET Block] /\ new \in SUBSET Block
            /\ new \cap held[c] = {}
            /\ held' \in [Client -> SUBSET Block]
            /\ held'[c] = held[c] \cup new
            /\ \A d \in Client \ {c} : held'[d] = held[d]
        BY <1>1, <2>1, <2>2, <2>3 DEF new
      <4> QED BY <4>1, TakeReferences
    <3> QED BY <1>1, <2>2, <3>1
  <2>6. pool'.watch \cap fresh' = {}
    BY <1>1, <2>1, <2>2 DEF new
  <2> QED BY <1>2, <2>2, <2>4, <2>5, <2>6
<1>4. ASSUME NEW c \in Client, DoTouch(c) PROVE IInv'
  <2>1. PICK S \in SUBSET (Block \ held[c]) :
          /\ pool' = Touch(pool, S)
          /\ held' = [held EXCEPT ![c] = @ \cup S]
          /\ fresh' = fresh
    BY <1>4, Zenon DEF DoTouch
  <2>2. S \in SUBSET Block /\ S \cap held[c] = {}
    OBVIOUS
  <2>3. /\ pool' \in Pool /\ QueueOK(pool') /\ MetadataOK(pool')
        /\ pool'.ref = [b \in Block |-> IF b \in S THEN pool.ref[b] + 1
                                        ELSE pool.ref[b]]
        /\ pool'.watch = pool.watch
    BY <1>1, <2>1, <2>2, TouchProperties
  <2>4. held' \in [Client -> SUBSET Block]
    BY <1>1, <2>1
  <2>5. ASSUME NEW b \in Block
        PROVE  pool'.ref[b] = Cardinality(Holders(held', b))
    <3>1. Cardinality(Holders(held', b)) = IF b \in S
              THEN Cardinality(Holders(held, b)) + 1 ELSE Cardinality(Holders(held, b))
      <4>1. /\ held \in [Client -> SUBSET Block] /\ S \in SUBSET Block
            /\ S \cap held[c] = {}
            /\ held' \in [Client -> SUBSET Block]
            /\ held'[c] = held[c] \cup S
            /\ \A d \in Client \ {c} : held'[d] = held[d]
        BY <1>1, <2>1, <2>2
      <4> QED BY <4>1, TakeReferences
    <3> QED BY <1>1, <2>3, <3>1
  <2> QED BY <1>1, <1>2, <2>1, <2>3, <2>4, <2>5, Zenon
<1>5. ASSUME NEW c \in Client, NEW S \in SUBSET held[c], NEW o \in Orders(S),
             held' = [held EXCEPT ![c] = @ \ S]
      PROVE  /\ o \in Seq(Block) /\ NoDuplicates(o) /\ Elems(o) = S
             /\ \A b \in Elems(o) : pool.ref[b] > 0
             /\ held' \in [Client -> SUBSET Block]
             /\ \A b \in Block : DropRefs(pool, S)[b] = Cardinality(Holders(held', b))
  <2>1. S \in SUBSET Block /\ IsFiniteSet(S)
    BY <1>1, BlocksFinite
  <2>2. o \in Seq(Block) /\ NoDuplicates(o) /\ Elems(o) = S
    BY <2>1, OrdersProperties
  <2>3. ASSUME NEW b \in Block
        PROVE  /\ b \in S => pool.ref[b] > 0
               /\ DropRefs(pool, S)[b] = Cardinality(Holders(held', b))
    <3>1. /\ Cardinality(Holders(held', b)) = IF b \in S
               THEN Cardinality(Holders(held, b)) - 1 ELSE Cardinality(Holders(held, b))
          /\ b \in S => Cardinality(Holders(held, b)) > 0
      <4>1. /\ held \in [Client -> SUBSET Block]
            /\ held' \in [Client -> SUBSET Block]
            /\ held'[c] = held[c] \ S
            /\ \A d \in Client \ {c} : held'[d] = held[d]
        BY <1>1, <1>5
      <4> QED BY <4>1, DropReferences
    <3> QED BY <1>1, <3>1 DEF DropRefs
  <2>4. held' \in [Client -> SUBSET Block]
    BY <1>1, <1>5
  <2> QED BY <2>1, <2>2, <2>3, <2>4
<1>6. ASSUME NEW c \in Client, DoFreeBlocks(c) PROVE IInv'
  <2>1. PICK S \in SUBSET held[c] : \E o \in Orders(S) :
          /\ pool' = FreeBlocks(pool, o)
          /\ held' = [held EXCEPT ![c] = @ \ S]
          /\ fresh' = fresh
    BY <1>6, Zenon DEF DoFreeBlocks
  <2>2. PICK o \in Orders(S) :
          /\ pool' = FreeBlocks(pool, o)
          /\ held' = [held EXCEPT ![c] = @ \ S]
          /\ fresh' = fresh
    BY <2>1
  <2>3. /\ o \in Seq(Block) /\ NoDuplicates(o) /\ Elems(o) = S
        /\ \A b \in Elems(o) : pool.ref[b] > 0
        /\ held' \in [Client -> SUBSET Block]
        /\ \A b \in Block : DropRefs(pool, S)[b] = Cardinality(Holders(held', b))
    BY <1>5, <2>2, ZenonT(30)
  <2>4. /\ pool' \in Pool /\ QueueOK(pool') /\ MetadataOK(pool')
        /\ pool'.ref = DropRefs(pool, S) /\ pool'.watch = pool.watch
    BY <1>1, <2>2, <2>3, FreeBlocksProperties
  <2> QED BY <1>1, <1>2, <2>2, <2>3, <2>4, Zenon
<1>7. ASSUME NEW c \in Client, DoUnpinBlocks(c) PROVE IInv'
  <2>1. PICK S \in SUBSET held[c] : \E o \in Orders(S) :
          /\ pool' = UnpinBlocks(pool, o)
          /\ held' = [held EXCEPT ![c] = @ \ S]
          /\ fresh' = fresh \ S
    BY <1>7, Zenon DEF DoUnpinBlocks
  <2>2. PICK o \in Orders(S) :
          /\ pool' = UnpinBlocks(pool, o)
          /\ held' = [held EXCEPT ![c] = @ \ S]
          /\ fresh' = fresh \ S
    BY <2>1
  <2>3. /\ o \in Seq(Block) /\ NoDuplicates(o) /\ Elems(o) = S
        /\ \A b \in Elems(o) : pool.ref[b] > 0
        /\ held' \in [Client -> SUBSET Block]
        /\ \A b \in Block : DropRefs(pool, S)[b] = Cardinality(Holders(held', b))
    BY <1>5, <2>2, ZenonT(30)
  <2>4. /\ pool' \in Pool /\ QueueOK(pool') /\ MetadataOK(pool')
        /\ pool'.ref = DropRefs(pool, S) /\ pool'.watch = pool.watch \cup S
    BY <1>1, <2>2, <2>3, UnpinBlocksProperties
  <2>5. fresh' \in SUBSET Block /\ pool'.watch \cap fresh' = {}
    BY <1>1, <2>2, <2>4
  <2> QED BY <1>2, <2>3, <2>4, <2>5
<1>8. ASSUME pool' \in Pool, MetadataOK(pool'), SameQueue(pool, pool'),
             UNCHANGED <<held, fresh>>
      PROVE  IInv'
  <2>1. QueueOK(pool')
    BY <1>1, <1>8 DEF QueueOK, SameQueue
  <2> QED BY <1>1, <1>2, <1>8, <2>1 DEF SameQueue
<1>9. ASSUME NEW c \in Client, DoCacheFullBlocks(c) PROVE IInv'
  <2>1. PICK S \in SUBSET held[c] : \E f \in [S -> Key] : pool' = CacheFullBlocks(pool, f)
    BY <1>9 DEF DoCacheFullBlocks
  <2>2. S \in SUBSET Block
    BY <1>1
  <2>3. pool' \in Pool /\ MetadataOK(pool') /\ SameQueue(pool, pool')
    BY <1>1, <2>1, <2>2, CacheFullBlocksProperties
  <2> QED BY <1>8, <1>9, <2>3 DEF DoCacheFullBlocks
<1>10. ASSUME NEW c \in Client, DoCachePartialBlock(c) PROVE IInv'
  <2>1. PICK b \in held[c], k \in Key, rep \in BOOLEAN :
          pool' = CachePartialBlock(pool, b, k, rep)
    BY <1>10 DEF DoCachePartialBlock
  <2>2. b \in Block
    BY <1>1
  <2>3. pool' \in Pool /\ MetadataOK(pool') /\ SameQueue(pool, pool')
    BY <1>1, <2>1, <2>2, CachePartialBlockProperties
  <2> QED BY <1>8, <1>10, <2>3 DEF DoCachePartialBlock
<1>11. ASSUME NEW c \in Client, DoMoveBlockHashes(c) PROVE IInv'
  <2>1. PICK src \in Hashed, dst \in held[c] \ Hashed :
          pool' = MoveBlockHashes(pool, src, dst)
    BY <1>11 DEF DoMoveBlockHashes
  <2>2. /\ src \in Block /\ dst \in Block
        /\ pool.hash[src] # NoHash /\ pool.hash[dst] = NoHash
    BY <1>1 DEF Hashed
  <2>3. pool' \in Pool /\ MetadataOK(pool') /\ SameQueue(pool, pool')
    BY <1>1, <2>1, <2>2, MoveBlockHashesProperties
  <2> QED BY <1>8, <1>11, <2>3 DEF DoMoveBlockHashes
<1>12. ASSUME DoEvictBlocks PROVE IInv'
  <2>1. PICK S \in SUBSET Block : pool' = MaybeEvictCachedBlocks(pool, S)
    BY <1>12 DEF DoEvictBlocks
  <2>2. MapOK(pool)
    BY <1>1 DEF MetadataOK
  <2>3. /\ pool' \in Pool /\ MapOK(pool') /\ SameQueue(pool, pool')
        /\ PrimaryOK(pool) => PrimaryOK(pool')
        /\ EventsOK(pool) => EventsOK(pool')
    BY <1>1, <2>1, <2>2, EvictProperties DEF SameQueue
  <2>4. MetadataOK(pool')
    BY <1>1, <2>3, Zenon DEF MetadataOK
  <2> QED BY <1>8, <1>12, <2>3, <2>4 DEF DoEvictBlocks
<1>13. ASSUME DoResetPrefixCache PROVE IInv'
  <2>1. /\ pool' \in Pool /\ QueueOK(pool') /\ MetadataOK(pool')
        /\ pool'.ref = pool.ref /\ pool'.watch = {}
    BY <1>1, <1>13, ResetPrefixCacheProperties DEF DoResetPrefixCache
  <2> QED BY <1>1, <1>2, <1>13, <2>1 DEF DoResetPrefixCache
<1>14. ASSUME UNCHANGED vars PROVE IInv'
  BY <1>1, <1>2, <1>14 DEF vars
<1> QED BY <1>3, <1>4, <1>6, <1>7, <1>9, <1>10, <1>11, <1>12, <1>13, <1>14 DEF Next

\* Every invariant of BlockPoolClients holds in every reachable state, whatever
\* the number of blocks, keys and clients.
THEOREM PoolInvariant == Spec => []IInv
BY InvariantInit, InvariantNext, PTL DEF Spec

\* Reference counts never drift from the references held (get_new_blocks,
\* touch, free_blocks, unpin_blocks).
THEOREM RefCountsAlwaysHolders == Spec => []RefCountsHolders
<1>1. IInv => RefCountsHolders
  BY DEF IInv
<1> QED BY <1>1, PoolInvariant, PTL

\* A block in use is never in the free queue, and a free block is never lost
\* (FreeKVCacheBlockQueue under every mix of calls).
THEOREM FreeQueueAlwaysExact == Spec => []FreeQueueIsUnreferenced
<1>1. IInv => FreeQueueIsUnreferenced
  BY DEF IInv
<1> QED BY <1>1, PoolInvariant, PTL

\* The prefix-cache map never names a block for a prefix the block has lost
\* (cache_full_blocks, cache_partial_block, move_block_hashes, eviction, reset).
THEOREM MapAlwaysMatchesHashes == Spec => []MapMatchesHashes
<1>1. IInv => MapMatchesHashes
  BY DEF IInv
<1> QED BY <1>1, PoolInvariant, PTL

\* The KV event stream stays an exact account of the prefix cache.
THEOREM EventsAlwaysMirrorCache == Spec => []EventsMirrorCache
<1>1. IInv => EventsMirrorCache
  BY DEF IInv
<1> QED BY <1>1, PoolInvariant, PTL

\* A block that is still read after unpin_blocks is not handed out behind the
\* reader's back.
THEOREM WatchedNeverOverwritten == Spec => []WatchedNotOverwritten
<1>1. IInv => WatchedNotOverwritten
  BY DEF IInv
<1> QED BY <1>1, PoolInvariant, PTL

\* The primary key of a block is always the longest prefix registered for it.
THEOREM PrimaryKeyAlwaysLongest == Spec => []PrimaryKeyIsLongest
<1>1. IInv => PrimaryKeyIsLongest
  BY DEF IInv
<1> QED BY <1>1, PoolInvariant, PTL
=============================================================================
