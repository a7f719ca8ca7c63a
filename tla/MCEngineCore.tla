----------------------------- MODULE MCEngineCore -----------------------------
(* EngineCore for TLC: two requests on fewer blocks than both come to need.   *)
EXTENDS EngineCore, TLC

CONSTANTS r1, r2

MCReq == {r1, r2}
MCToken == {0, 1}

\* The prompts share their first block, and both requests come to need three.
\* Under PRIORITY r2 fills its second block while r1 has room left in its own: r1 is
\* in the batch when it has to make room.
MCShared == (r1 :> <<0, 0>> @@ r2 :> <<0, 0, 1, 0>>)
\* A prompt of several chunks beside a short one.
MCLong == (r1 :> <<0, 0, 0, 0, 0, 0, 0, 0, 0>> @@ r2 :> <<1, 1>>)

\* Under PRIORITY r2 goes before r1.
MCRank == (r1 :> 1 @@ r2 :> 0)

\* The policies, from asynchronous FCFS with prefills cut in chunks.
Fcfs == [async |-> TRUE, priority |-> FALSE, longPrefill |-> 2,
         reserveFullIsl |-> FALSE, maxInFlight |-> 2, resets |-> TRUE]
Pipelined == [Fcfs EXCEPT !.async = FALSE, !.maxInFlight = 3, !.reserveFullIsl = TRUE,
                          !.resets = FALSE]
Prioritized == [Fcfs EXCEPT !.priority = TRUE, !.longPrefill = 0, !.resets = FALSE]

MCPolicies == {Fcfs, Pipelined, Prioritized}
MCFcfs == {Fcfs}
MCPriorityCut == {[Fcfs EXCEPT !.async = FALSE, !.priority = TRUE, !.maxInFlight = 1]}

\* The prefixes that occur: a request goes on with 0 and stops at Eos.
Text(r, n, last) ==
  [i \in 1 .. n |-> IF i <= Len(Prompt[r]) THEN Prompt[r][i]
                    ELSE IF i = n THEN last ELSE 0]
MCKey == {Text(r, n * BlockSize, last) :
            r \in MCReq, n \in 1 .. MaxModelLen \div BlockSize, last \in {0, Eos}}
MCKeyTokens == [k \in MCKey |-> Len(k)]
=============================================================================
