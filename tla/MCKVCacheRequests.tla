-------------------------- MODULE MCKVCacheRequests --------------------------
(* KVCacheRequests for TLC: two requests at a time, with equal prompts or    *)
(* prompts that part in the second block, on too few blocks for both.        *)
EXTENDS KVCacheRequests, TLC

CONSTANTS r1, r2

MCReq == {r1, r2}
MCToken == {0, 1}
MCPrompt == {<<0, 0, 0>>, <<0, 0>>}
MCKey == UNION {[1 .. i * BlockSize -> MCToken] : i \in 1 .. MaxModelLen \div BlockSize}
MCKeyTokens == [k \in MCKey |-> Len(k)]
Symmetry == Permutations(MCReq)
=============================================================================
