-------------------------- MODULE ExecutorInvariant ---------------------------
(***************************************************************************)
(* The invariant behind the theorems of ExecutorProofs, facts about what   *)
(* it is made of, and the steps other than giving and reading answers.     *)
(*                                                                         *)
(* In the code an answer carries nothing that says which call it is for    *)
(* (reading does not look at the field call of the model); that the head   *)
(* of a response queue belongs to the future being read has to follow from *)
(* the order of everything before it.  The invariant therefore says what   *)
(* each worker still has in its queues: in order, the calls it has taken   *)
(* and whose answer nobody has read (Owed), no more and no less.           *)
(***************************************************************************)
EXTENDS Executor, SequenceTheorems, WellFoundedInduction, TLAPS

Config == [ft : BOOLEAN, async : BOOLEAN, aggregate : BOOLEAN, failing : SUBSET Kinds,
           failures : Nat, late : SUBSET (Kinds \ {"command"}), timeouts : Nat,
           deaths : Nat]
Answer == [call : Nat, ok : BOOLEAN, none : BOOLEAN]
Result == [rank : Worker, call : Nat, none : BOOLEAN]
Call == [kind : Kinds, state : {"pending", "ok", "error"}, answers : SUBSET Result]
Process == [alive : BOOLEAN, taken : Nat, ran : BOOLEAN,
            outputs : Seq(Answer), answers : Seq(Answer)]

\* The faults considered: calls may fail and workers die.
Reliable == conf.ft /\ conf.timeouts = 0

Types ==
  /\ conf \in Config /\ Reliable
  /\ calls \in Seq(Call) /\ drained \in Nat
  /\ reading \in [call : Nat, left : SUBSET Worker, failed : BOOLEAN]
  /\ worker \in [Worker -> Process]
  /\ \A w \in Worker : worker[w].taken <= Len(calls)

EngineState == [status : {"HEALTHY", "DIAGNOSING", "UNHEALTHY", "DEAD"},
                doing : {"idle", "step", "utility", "mask", "paused", "command",
                         "drain", "ended"},
                want : Nat, batches : Seq(Nat)]

\* The engine waits for calls that were made.
EngineOK ==
  /\ engine \in EngineState
  /\ engine.want <= Len(calls)
  /\ \A k \in 1 .. Len(engine.batches) : engine.batches[k] \in 1 .. Len(calls)

\* The future being read is the last one drained, and those before it have their
\* result.
FutureOK ==
  /\ drained <= Len(calls)
  /\ \/ reading = NoFuture
     \/ /\ reading.call = drained /\ drained > 0
        /\ reading.left # {} /\ reading.left \subseteq Replying(calls[drained].kind)
  /\ \A i \in 1 .. Len(calls) :
       calls[i].state = "pending" <=> i > drained \/ i = reading.call

Ranks(i) == {a.rank : a \in calls[i].answers}

ResultsOK ==
  \A i \in 1 .. Len(calls) :
    /\ i > drained => calls[i].answers = {}
    /\ \A a \in calls[i].answers : a.call = i
    /\ calls[i].state = "ok" => Ranks(i) = Replying(calls[i].kind)
    /\ i = reading.call /\ ~ reading.failed =>
         Ranks(i) = Replying(calls[i].kind) \ reading.left

\* The answer of w to call i has been read.
Read(w, i) == i <= drained /\ ~ (i = reading.call /\ w \in reading.left)

\* w has taken call i, and its answer has not been read.
Owed(w, i) == /\ i \in 1 .. worker[w].taken
              /\ w \in Replying(calls[i].kind)
              /\ ~ Read(w, i)

\* Nobody has read an answer that was not given.
TakenOK == \A w \in Worker : \A i \in 1 .. drained :
             w \in Replying(calls[i].kind) /\ Read(w, i) => i <= worker[w].taken

Holds(q, i) == \E k \in 1 .. Len(q) : q[k].call = i
Ascending(q) == \A j, k \in 1 .. Len(q) : j < k => q[j].call < q[k].call
Before(p, q) == \A j \in 1 .. Len(p), k \in 1 .. Len(q) : p[j].call < q[k].call

AnswersOK(w) ==
  /\ \A i \in Nat : Owed(w, i) <=> Holds(worker[w].answers, i)
                                     \/ Holds(worker[w].outputs, i)
  /\ Ascending(worker[w].answers) /\ Ascending(worker[w].outputs)
  /\ Before(worker[w].answers, worker[w].outputs)
  /\ ~ conf.async => worker[w].outputs = <<>>

QueuesOK == \A w \in Worker : AnswersOK(w)

Good == Types /\ EngineOK /\ FutureOK /\ ResultsOK /\ TakenOK /\ QueuesOK
IInv == executor = "up" => Good

-----------------------------------------------------------------------------
(* Queues of answers *)

\* An answer later than all others goes to the end.
LEMMA AppendToQueue ==
  ASSUME NEW q \in Seq(Answer), NEW a \in Answer
  PROVE  /\ Append(q, a) \in Seq(Answer)
         /\ \A i : Holds(Append(q, a), i) <=> Holds(q, i) \/ i = a.call
         /\ Ascending(q) /\ (\A k \in 1 .. Len(q) : q[k].call < a.call)
              => Ascending(Append(q, a))
         /\ \A p \in Seq(Answer) :
              Before(p, q) /\ (\A k \in 1 .. Len(p) : p[k].call < a.call)
                => Before(p, Append(q, a))
         /\ \A p \in Seq(Answer) :
              Before(q, p) /\ (\A k \in 1 .. Len(p) : a.call < p[k].call)
                => Before(Append(q, a), p)
<1>1. /\ Append(q, a) \in Seq(Answer) /\ Len(q) \in Nat
      /\ Len(Append(q, a)) = Len(q) + 1
      /\ \A k \in 1 .. Len(q) : Append(q, a)[k] = q[k]
      /\ Append(q, a)[Len(q) + 1] = a
  OBVIOUS
<1>2. \A k \in 1 .. Len(Append(q, a)) : k \in 1 .. Len(q) \/ k = Len(q) + 1
  BY <1>1
<1> HIDE DEF Answer
<1>3. ASSUME NEW i PROVE Holds(Append(q, a), i) <=> Holds(q, i) \/ i = a.call
  BY <1>1, <1>2 DEF Holds
<1>4. Ascending(q) /\ (\A k \in 1 .. Len(q) : q[k].call < a.call)
        => Ascending(Append(q, a))
  BY <1>1, <1>2 DEF Ascending
<1>5. ASSUME NEW p \in Seq(Answer)
      PROVE  /\ Before(p, q) /\ (\A k \in 1 .. Len(p) : p[k].call < a.call)
                  => Before(p, Append(q, a))
             /\ Before(q, p) /\ (\A k \in 1 .. Len(p) : a.call < p[k].call)
                  => Before(Append(q, a), p)
  BY <1>1, <1>2 DEF Before
<1> QED BY <1>1, <1>3, <1>4, <1>5

\* The head is taken from a queue in ascending order.
LEMMA TakeFromQueue ==
  ASSUME NEW q \in Seq(Answer), q # <<>>, Ascending(q)
  PROVE  /\ Tail(q) \in Seq(Answer) /\ Head(q) \in Answer
         /\ Holds(q, Head(q).call)
         /\ Ascending(Tail(q))
         /\ \A k \in 1 .. Len(Tail(q)) : Head(q).call < Tail(q)[k].call
         /\ \A i : Holds(Tail(q), i) <=> Holds(q, i) /\ i # Head(q).call
         /\ \A p : Before(p, q) => /\ Before(p, Tail(q))
                                   /\ \A k \in 1 .. Len(p) : p[k].call < Head(q).call
<1>1. /\ Tail(q) \in Seq(Answer) /\ Head(q) \in Answer /\ Len(q) \in Nat \ {0}
      /\ Len(Tail(q)) = Len(q) - 1 /\ Head(q) = q[1]
      /\ \A k \in 1 .. Len(q) - 1 : Tail(q)[k] = q[k + 1]
      /\ \A k \in 1 .. Len(q) : q[k].call \in Nat
  <2>1. \A k \in 1 .. Len(q) : q[k] \in Answer
    OBVIOUS
  <2>2. \A k \in 1 .. Len(q) : q[k].call \in Nat
    BY <2>1 DEF Answer
  <2>3. /\ Tail(q) \in Seq(Answer) /\ Head(q) \in Answer /\ Len(q) \in Nat \ {0}
        /\ Len(Tail(q)) = Len(q) - 1 /\ Head(q) = q[1]
    BY HeadTailProperties, EmptySeq
  <2>4. \A k \in 1 .. Len(q) - 1 : Tail(q)[k] = q[k + 1]
    BY <2>3, HeadTailProperties
  <2> QED BY <2>2, <2>3, <2>4
<1>2. /\ 1 \in 1 .. Len(q)
      /\ \A k \in 1 .. Len(Tail(q)) : k + 1 \in 1 .. Len(q) /\ k + 1 > 1
      /\ \A k \in 1 .. Len(q) : k = 1 \/ k - 1 \in 1 .. Len(Tail(q))
  BY <1>1
<1>3. \A k \in 1 .. Len(Tail(q)) : Head(q).call < Tail(q)[k].call
  BY <1>1, <1>2 DEF Ascending
<1>4. Ascending(Tail(q))
  BY <1>1, <1>2 DEF Ascending
<1>5. ASSUME NEW i PROVE Holds(Tail(q), i) <=> Holds(q, i) /\ i # Head(q).call
  <2>1. CASE Holds(Tail(q), i)
    <3>1. PICK k \in 1 .. Len(Tail(q)) : Tail(q)[k].call = i
      BY <2>1 DEF Holds
    <3>2. q[k + 1].call = i /\ k + 1 \in 1 .. Len(q)
      BY <1>1, <1>2, <3>1
    <3>3. i # Head(q).call
      BY <1>1, <1>3, <3>1, <3>2
    <3> QED BY <2>1, <3>2, <3>3 DEF Holds
  <2>2. CASE Holds(q, i) /\ i # Head(q).call
    <3>1. PICK k \in 1 .. Len(q) : q[k].call = i
      BY <2>2 DEF Holds
    <3>2. k # 1
      BY <1>1, <2>2, <3>1
    <3>3. k - 1 \in 1 .. Len(Tail(q)) /\ Tail(q)[k - 1].call = i
      BY <1>1, <1>2, <3>1, <3>2
    <3> QED BY <2>2, <3>3, Zenon DEF Holds
  <2> QED BY <2>1, <2>2
<1>6. ASSUME NEW p, Before(p, q)
      PROVE  /\ Before(p, Tail(q))
             /\ \A k \in 1 .. Len(p) : p[k].call < Head(q).call
  BY <1>1, <1>2, <1>6 DEF Before
<1>7. Holds(q, Head(q).call)
  BY <1>1, <1>2 DEF Holds
<1> QED BY <1>1, <1>3, <1>4, <1>5, <1>6, <1>7

-----------------------------------------------------------------------------
(* Facts about the operators of Executor *)

\* get_response reads the queues in the order of the ranks: the next one is one of
\* those left.
LEMMA NextRankIsLeft ==
  ASSUME reading.left \subseteq Worker, reading.left # {}
  PROVE  NextRank \in reading.left
<1>1. Worker \subseteq Nat
  BY ExecutorAssumption DEF Worker
<1> DEFINE R == {ss \in Nat \X Nat : ss[1] < ss[2]}
<1>2. IsWellFoundedOn(R, Nat)
  BY NatLessThanWellFounded, Zenon DEF OpToRel
<1>3. PICK w \in reading.left : \A v \in reading.left : <<v, w>> \notin R
  BY <1>1, <1>2, WFMin
<1>4. ASSUME NEW v \in reading.left, ~ (w <= v) PROVE FALSE
  <2>1. v \in Nat /\ w \in Nat
    BY <1>1, Zenon
  <2>2. v < w
    BY <2>1, <1>4
  <2>3. <<v, w>> \in R
    BY <2>1, <2>2
  <2> QED BY <1>3, <2>3
<1> QED BY <1>4 DEF NextRank

\* What a call may do to the faults still to come.
LEMMA AfterFailureConfig ==
  ASSUME conf \in Config, NEW kind, NEW ok \in Outcomes(kind)
  PROVE  /\ ok \in BOOLEAN
         /\ AfterFailure(ok) \in Config
         /\ \A f \in {"ft", "async", "aggregate", "timeouts"} :
              AfterFailure(ok)[f] = conf[f]
<1>1. ok \in BOOLEAN /\ (ok \/ conf.failures > 0)
  BY Zenon DEF Outcomes, MayFail
<1>2. CASE ok
  BY <1>1, <1>2 DEF AfterFailure
<1>3. CASE ~ ok
  <2>1. conf.failures - 1 \in Nat
    BY <1>1, <1>3 DEF Config
  <2>2. AfterFailure(ok) = [conf EXCEPT !.failures = conf.failures - 1]
    BY <1>3 DEF AfterFailure
  <2> QED BY <1>1, <2>1, <2>2 DEF Config
<1> QED BY <1>1, <1>2, <1>3

\* The workers a call reads from are workers.
LEMMA ReplyingWorkers == \A kind : Replying(kind) \subseteq Worker
  BY ExecutorAssumption DEF Replying

\* The answer at the head of the queue of the next rank is for the call being read:
\* what the whole argument is about.
LEMMA HeadIsForReading ==
  ASSUME Types, FutureOK, TakenOK, QueuesOK, reading # NoFuture,
         NEW w \in reading.left, worker[w].answers # <<>>
  PROVE  /\ Head(worker[w].answers).call = reading.call
         /\ reading.call <= worker[w].taken
         /\ \A k \in 2 .. Len(worker[w].answers) : worker[w].answers[k].call # reading.call
         /\ ~ Holds(worker[w].outputs, reading.call)
<1> DEFINE A == worker[w].answers
           O == worker[w].outputs
           d == reading.call
<1>1. /\ w \in Worker /\ d = drained /\ d \in 1 .. Len(calls)
      /\ w \in Replying(calls[d].kind)
  BY DEF FutureOK, Types
<1>2. /\ A \in Seq(Answer) /\ O \in Seq(Answer) /\ worker[w].taken \in Nat
      /\ Len(A) \in Nat /\ Len(O) \in Nat /\ 1 \in 1 .. Len(A) /\ Head(A) = A[1]
      /\ \A k \in 1 .. Len(A) : A[k].call \in Nat
      /\ \A k \in 1 .. Len(O) : O[k].call \in Nat
  <2>1. A \in Seq(Answer) /\ O \in Seq(Answer) /\ worker[w].taken \in Nat
    BY <1>1 DEF Types, Process
  <2>2. /\ \A k \in 1 .. Len(A) : A[k] \in Answer
        /\ \A k \in 1 .. Len(O) : O[k] \in Answer
        /\ Len(A) \in Nat /\ Len(O) \in Nat /\ 1 \in 1 .. Len(A) /\ Head(A) = A[1]
    BY <2>1, EmptySeq
  <2> QED BY <2>1, <2>2 DEF Answer
<1>3. /\ \A i \in Nat : Owed(w, i) <=> Holds(A, i) \/ Holds(O, i)
      /\ Ascending(A) /\ Before(A, O)
  BY <1>1 DEF QueuesOK, AnswersOK
<1>4. Owed(w, A[1].call)
  BY <1>2, <1>3 DEF Holds
<1>5. A[1].call >= d /\ A[1].call <= worker[w].taken
  BY <1>1, <1>2, <1>4 DEF Owed, Read, Types
<1>6. d \in 1 .. worker[w].taken
  BY <1>1, <1>2, <1>5
<1>7. Owed(w, d)
  BY <1>1, <1>6 DEF Owed, Read
<1>8. Holds(A, d) \/ Holds(O, d)
  BY <1>1, <1>3, <1>7
<1>9. A[1].call = d
  <2> HIDE DEF A, O, d
  <2>1. CASE Holds(A, d)
    BY <1>1, <1>2, <1>3, <1>5, <2>1 DEF Holds, Ascending
  <2>2. CASE Holds(O, d)
    BY <1>1, <1>2, <1>3, <1>5, <2>2 DEF Holds, Before
  <2> QED BY <1>8, <2>1, <2>2
<1>10. \A k \in 2 .. Len(A) : A[k].call # d
  <2> HIDE DEF A, O, d
  <2> QED BY <1>2, <1>3, <1>9 DEF Ascending
<1>11. ~ Holds(O, d)
  <2> HIDE DEF A, O, d
  <2> QED BY <1>2, <1>3, <1>9 DEF Holds, Before
<1>12. Head(A).call = d /\ d <= worker[w].taken
  BY <1>2, <1>6, <1>9
<1> QED BY <1>10, <1>11, <1>12

-----------------------------------------------------------------------------
(* One lemma for each kind of step *)

\* Initially nothing has been called.
LEMMA InitGood == Init /\ Reliable => Good
<1> SUFFICES ASSUME Init, Reliable PROVE Good
  OBVIOUS
<1>1. conf \in Config
  BY ExecutorAssumption DEF Init, Config
<1>2. /\ calls = <<>> /\ Len(calls) = 0 /\ drained = 0 /\ reading = NoFuture
      /\ engine = [status |-> "HEALTHY", doing |-> "idle", want |-> 0, batches |-> <<>>]
      /\ \A w \in Worker : /\ worker[w].taken = 0
                           /\ worker[w].outputs = <<>> /\ worker[w].answers = <<>>
  BY DEF Init
<1>3. worker \in [Worker -> Process]
  BY DEF Init, Process
<1>4. Types
  BY <1>1, <1>2, <1>3 DEF Types, NoFuture
<1>5. EngineOK
  BY <1>2 DEF EngineOK, EngineState
<1>6. FutureOK /\ ResultsOK /\ TakenOK
  BY <1>2 DEF FutureOK, ResultsOK, TakenOK
<1>7. QueuesOK
  BY <1>2 DEF QueuesOK, AnswersOK, Owed, Holds, Ascending, Before
<1> QED BY <1>4, <1>5, <1>6, <1>7 DEF Good

\* A step of the engine that calls nothing changes only what it waits for.
LEMMA LocalStep ==
  ASSUME Good, UNCHANGED <<calls, drained, reading, worker>>, EngineOK',
         conf' \in Config, Reliable',
         conf'.async = conf.async, conf'.aggregate = conf.aggregate
  PROVE  Good'
<1>1. \A kind : Replying(kind)' = Replying(kind)
  BY DEF Replying
<1>2. Types'
  BY DEF Good, Types
<1>3. FutureOK' /\ ResultsOK'
  BY <1>1 DEF Good, FutureOK, ResultsOK, Ranks
<1>4. TakenOK'
  BY <1>1 DEF Good, TakenOK, Read
<1>5. QueuesOK'
  BY <1>1 DEF Good, QueuesOK, AnswersOK, Owed, Read
<1> QED BY <1>2, <1>3, <1>4, <1>5 DEF Good

\* A worker dies: its answers stay in its queues.
LEMMA DieStep ==
  ASSUME Good, NEW w \in Worker, Die(w)
  PROVE  Good'
<1>1. /\ conf' \in Config /\ Reliable'
      /\ conf'.async = conf.async /\ conf'.aggregate = conf.aggregate
  <2>1. conf \in Config /\ conf.deaths \in Nat /\ conf.deaths > 0 /\ Reliable
    BY DEF Good, Types, Die, Config
  <2>2. conf' = [conf EXCEPT !.deaths = conf.deaths - 1] /\ conf.deaths - 1 \in Nat
    BY <2>1 DEF Die
  <2> QED BY <2>1, <2>2 DEF Config, Reliable
<1>2. /\ worker' \in [Worker -> Process]
      /\ \A v \in Worker : /\ worker'[v].taken = worker[v].taken
                           /\ worker'[v].outputs = worker[v].outputs
                           /\ worker'[v].answers = worker[v].answers
  BY Zenon DEF Good, Types, Die, Process
<1>3. UNCHANGED <<calls, drained, reading, engine>>
  BY DEF Die
<1>4. \A kind : Replying(kind)' = Replying(kind)
  BY <1>1 DEF Replying
<1>5. Types' /\ EngineOK'
  BY <1>1, <1>2, <1>3 DEF Good, Types, EngineOK
<1>6. FutureOK' /\ ResultsOK'
  BY <1>3, <1>4 DEF Good, FutureOK, ResultsOK, Ranks
<1>7. TakenOK'
  BY <1>2, <1>3, <1>4 DEF Good, TakenOK, Read
<1>8. \A v \in Worker, i \in Nat : Owed(v, i)' <=> Owed(v, i)
  BY <1>2, <1>3, <1>4 DEF Owed, Read
<1>9. QueuesOK'
  BY <1>1, <1>2, <1>8 DEF Good, QueuesOK, AnswersOK
<1> QED BY <1>5, <1>6, <1>7, <1>9 DEF Good

\* collective_rpc: the new calls come behind all others.
LEMMA SubmitStep ==
  ASSUME Good, NEW kinds \in Seq(Kinds), Submit(kinds),
         UNCHANGED <<conf, drained, reading, worker>>
  PROVE  /\ Len(calls') = Len(calls) + Len(kinds)
         /\ Types' /\ FutureOK' /\ ResultsOK' /\ TakenOK' /\ QueuesOK'
<1> DEFINE n == Len(calls)
           new == [i \in DOMAIN kinds |-> NewCall(kinds[i])]
<1>1. /\ new \in Seq(Call) /\ Len(new) = Len(kinds) /\ Len(kinds) \in Nat
      /\ \A i \in 1 .. Len(kinds) : new[i] = NewCall(kinds[i])
  <2>1. Len(kinds) \in Nat /\ DOMAIN kinds = 1 .. Len(kinds)
    OBVIOUS
  <2>2. \A i \in 1 .. Len(kinds) : NewCall(kinds[i]) \in Call
    BY <2>1 DEF NewCall, Call
  <2>3. new \in [1 .. Len(kinds) -> Call]
    BY <2>1, <2>2
  <2>4. new \in Seq(Call)
    BY <2>1, <2>3, SeqDef
  <2>5. Len(new) = Len(kinds)
    BY <2>1, <2>3, <2>4, LenProperties
  <2> QED BY <2>1, <2>4, <2>5
<1>2. calls \in Seq(Call) /\ n \in Nat /\ calls' = calls \o new
  BY DEF Good, Types, Submit
<1> HIDE DEF new
<1>3. /\ calls' \in Seq(Call) /\ Len(calls') = n + Len(kinds)
      /\ \A i \in 1 .. n : calls'[i] = calls[i]
      /\ \A i \in 1 .. Len(calls') : i > n => calls'[i] = NewCall(kinds[i - n])
  <2>1. /\ calls' \in Seq(Call) /\ Len(calls') = n + Len(kinds)
        /\ \A i \in 1 .. n + Len(kinds) :
             calls'[i] = IF i <= n THEN calls[i] ELSE new[i - n]
    <3>1. new \in Seq(Call) /\ Len(new) = Len(kinds)
      BY <1>1
    <3>2. /\ calls \o new \in Seq(Call) /\ Len(calls \o new) = Len(calls) + Len(new)
          /\ \A i \in 1 .. Len(calls) + Len(new) :
               (calls \o new)[i] = IF i <= Len(calls) THEN calls[i] ELSE new[i - Len(calls)]
      BY <1>2, <3>1, ConcatProperties, Zenon
    <3> QED BY <1>2, <3>1, <3>2
  <2>2. \A i \in 1 .. n : calls'[i] = calls[i]
    BY <1>2, <2>1
  <2>3. ASSUME NEW i \in 1 .. Len(calls'), i > n PROVE calls'[i] = NewCall(kinds[i - n])
    <3>1. i - n \in 1 .. Len(kinds) /\ calls'[i] = new[i - n]
      BY <1>2, <2>1, <2>3
    <3> QED BY <1>1, <3>1, Zenon
  <2> QED BY <1>1, <1>2, <2>1, <2>2, <2>3
<1>4. \A i \in 1 .. Len(calls') : i > n => /\ calls'[i].state = "pending"
                                          /\ calls'[i].answers = {}
  BY <1>3 DEF NewCall
<1>5. /\ drained \in Nat /\ drained <= n /\ reading.call \in Nat /\ reading.call <= n
      /\ \A w \in Worker : worker[w].taken \in Nat /\ worker[w].taken <= n
  BY <1>2 DEF Good, Types, FutureOK, NoFuture, Process
<1>6. \A i \in 1 .. n : Replying(calls[i].kind)' = Replying(calls[i].kind)
  BY <1>3 DEF Replying
<1>7. Types'
  BY <1>1, <1>2, <1>3, <1>5 DEF Good, Types, Reliable
<1>8. FutureOK'
  <2>1. (drained <= Len(calls))'
    BY <1>1, <1>2, <1>3, <1>5
  <2>2. ASSUME reading # NoFuture
        PROVE  (/\ reading.call = drained /\ drained > 0 /\ reading.left # {}
                /\ reading.left \subseteq Replying(calls[drained].kind))'
    <3>1. /\ reading.call = drained /\ drained \in 1 .. n /\ reading.left # {}
          /\ reading.left \subseteq Replying(calls[drained].kind)
      BY <1>2, <1>5, <2>2 DEF Good, FutureOK
    <3> QED BY <1>3, <3>1 DEF Replying
  <2>3. ASSUME NEW i \in 1 .. Len(calls')
        PROVE  (calls[i].state = "pending" <=> i > drained \/ i = reading.call)'
    <3>1. CASE i \in 1 .. n
      BY <1>3, <3>1 DEF Good, FutureOK
    <3>2. CASE i > n
      BY <1>2, <1>4, <1>5, <3>2
    <3> QED BY <1>2, <3>1, <3>2
  <2> QED BY <2>1, <2>2, <2>3 DEF FutureOK
<1>9. ResultsOK'
  <2> SUFFICES ASSUME NEW i \in 1 .. Len(calls')
               PROVE  (/\ i > drained => calls[i].answers = {}
                       /\ \A a \in calls[i].answers : a.call = i
                       /\ calls[i].state = "ok" => Ranks(i) = Replying(calls[i].kind)
                       /\ i = reading.call /\ ~ reading.failed =>
                            Ranks(i) = Replying(calls[i].kind) \ reading.left)'
    BY DEF ResultsOK
  <2>1. CASE i \in 1 .. n
    BY <1>3, <1>6, <2>1, Zenon DEF Good, ResultsOK, Ranks
  <2>2. CASE i > n
    <3>1. calls'[i].state = "pending" /\ calls'[i].answers = {}
      BY <1>4, <2>2
    <3>2. Len(calls') \in Nat
      BY <1>1, <1>2, <1>3
    <3>3. i # reading.call
      BY <1>2, <1>5, <2>2, <3>2
    <3> QED BY <3>1, <3>3
  <2> QED BY <1>2, <2>1, <2>2
<1>10. TakenOK'
  BY <1>2, <1>5, <1>6 DEF Good, TakenOK, Read
<1>11. \A w \in Worker, i \in Nat : Owed(w, i)' <=> Owed(w, i)
  BY <1>2, <1>5, <1>6 DEF Owed, Read
<1>12. QueuesOK'
  BY <1>11 DEF Good, QueuesOK, AnswersOK
<1> QED BY <1>3, <1>7, <1>8, <1>9, <1>10, <1>12

\* FutureWrapper.result takes the next future: nothing has been read of it.
LEMMA PopStep ==
  ASSUME Good, PopFuture
  PROVE  Good'
<1> DEFINE d == drained + 1
<1>1. /\ reading = NoFuture /\ drained' = d
      /\ reading' = [call |-> d, failed |-> FALSE, left |-> Replying(calls[d].kind)]
      /\ UNCHANGED <<conf, calls, worker, executor, engine>>
  BY DEF PopFuture
<1>2. drained \in Nat /\ Len(calls) \in Nat /\ reading.call = 0 /\ reading.left = {}
  BY <1>1 DEF Good, Types, NoFuture
<1>3. d \in 1 .. Len(calls)
  BY <1>2 DEF PopFuture, Waits, Good, EngineOK, EngineState, FutureOK
<1>4. \A kind : Replying(kind)' = Replying(kind)
  BY <1>1 DEF Replying
<1>5. Replying(calls[d].kind) # {} /\ Replying(calls[d].kind) \subseteq Worker
  BY ReplyingWorkers, ExecutorAssumption, Zenon DEF Replying, Worker
<1>6. Types' /\ EngineOK'
  BY <1>1, <1>2, <1>5 DEF Good, Types, EngineOK, Reliable
<1>7. FutureOK'
  BY <1>1, <1>2, <1>3, <1>4, <1>5 DEF Good, FutureOK
<1>8. ResultsOK'
  <2>1. Ranks(d) = {}
    BY <1>2, <1>3 DEF Good, ResultsOK, Ranks
  <2> QED BY <1>1, <1>2, <1>3, <1>4, <2>1 DEF Good, ResultsOK, Ranks
<1>9. TakenOK'
  BY <1>1, <1>2, <1>4 DEF Good, TakenOK, Read
<1>10. \A w \in Worker, i \in Nat : Owed(w, i)' <=> Owed(w, i)
  BY <1>1, <1>2, <1>4 DEF Owed, Read
<1>11. QueuesOK'
  BY <1>1, <1>10 DEF Good, QueuesOK, AnswersOK
<1> QED BY <1>6, <1>7, <1>8, <1>9, <1>11 DEF Good
=============================================================================
