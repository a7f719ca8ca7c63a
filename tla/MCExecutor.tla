----------------------------- MODULE MCExecutor -----------------------------
(* Two workers, the output rank being the second, and two batches in flight.  *)
EXTENDS Executor

\* With fault tolerance two calls fail, of a step, a utility or the recovery, or
\* one does and a worker dies.
Tolerant == [ft |-> TRUE, async |-> TRUE, aggregate |-> TRUE,
             failing |-> Kinds, failures |-> 2, late |-> StepKinds, timeouts |-> 0,
             deaths |-> 0]
\* Without it the engine ends when a step fails or is late, or a worker dies.
Plain == [Tolerant EXCEPT !.ft = FALSE, !.failing = StepKinds, !.failures = 1]

MCConfigs ==
  {Tolerant, [Tolerant EXCEPT !.failures = 1, !.deaths = 1],
   [Plain EXCEPT !.timeouts = 1],
   [Plain EXCEPT !.async = FALSE, !.aggregate = FALSE, !.deaths = 1]}

\* Without fault tolerance, where a utility call fails.
MCFailingUtility == {[Plain EXCEPT !.failing = {"utility"}]}
=============================================================================
