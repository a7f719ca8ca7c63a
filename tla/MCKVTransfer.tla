----------------------------- MODULE MCKVTransfer -----------------------------
(* KVTransfer for TLC: two requests with a common first block. *)
EXTENDS KVTransfer, TLC

CONSTANTS r1, r2

MCReq == {r1, r2}
MCToken == {0, 1}
MCRank == (r1 :> 1 @@ r2 :> 0)

\* All of r1's prompt can be loaded, and the first block of r2's.
MCPrompt == (r1 :> <<0, 0, 0, 0>> @@ r2 :> <<0, 0, 1>>)
MCRemote == (r1 :> 4 @@ r2 :> 2)

\* Asynchronous FCFS with two steps in flight, and the plain step().
MCPolicies == {[async |-> TRUE, priority |-> FALSE, longPrefill |-> 0,
                reserveFullIsl |-> FALSE, maxInFlight |-> 2, resets |-> FALSE]}
MCPlainStep == {[async |-> FALSE, priority |-> FALSE, longPrefill |-> 0,
                 reserveFullIsl |-> FALSE, maxInFlight |-> 1, resets |-> FALSE]}

\* Loads between the steps, under both policies, and loads inside the step.
MCConfigs ==
  {[async |-> TRUE, deferLoads |-> d, recompute |-> d, sends |-> ~ d, failures |-> 1] :
     d \in BOOLEAN} \cup
  {[async |-> FALSE, deferLoads |-> FALSE, recompute |-> FALSE, sends |-> FALSE,
    failures |-> 0]}

\* A load inside the step that fails, under the default policy.
MCFailing == {[async |-> FALSE, deferLoads |-> FALSE, recompute |-> FALSE,
               sends |-> FALSE, failures |-> 1]}

\* The prefixes that occur: those of a prompt and what may be sampled after it.
MCKey ==
  {k \in UNION {[1 .. n * BlockSize -> MCToken] : n \in 1 .. MaxModelLen \div BlockSize} :
     \E r \in MCReq : \A i \in DOMAIN k \cap DOMAIN MCPrompt[r] : k[i] = MCPrompt[r][i]}
MCKeyTokens == [k \in MCKey |-> Len(k)]
=============================================================================
