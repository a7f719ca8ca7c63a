------------------------ MODULE MCEncoderScheduling ------------------------
(***************************************************************************)
(* Two requests and three items.  r1 repeats an item, and a chunk may end  *)
(* inside the second occurrence; r2 shares an item with it; the cache      *)
(* holds two of the three items at most.                                   *)
(***************************************************************************)
EXTENDS EncoderScheduling, TLC

CONSTANTS r1, r2, imgA, imgB, imgC

MCReq == {r1, r2}
MCHash == {imgA, imgB, imgC}
MCEmbeds == imgA :> 2 @@ imgB :> 1 @@ imgC :> 2
MCFeatures ==
  r1 :> << [hash |-> imgA, start |-> 0], [hash |-> imgB, start |-> 2],
           [hash |-> imgA, start |-> 3] >> @@
  r2 :> << [hash |-> imgB, start |-> 0], [hash |-> imgC, start |-> 1] >>
MCNumTokens == r1 :> 6 @@ r2 :> 4
MCRank == r1 :> 0 @@ r2 :> 1

\* FCFS that may split an item over steps, and PRIORITY that may not.
MCPriority == {[priority |-> TRUE, whole |-> TRUE]}
MCPolicies == {[priority |-> FALSE, whole |-> FALSE]} \cup MCPriority
=============================================================================
