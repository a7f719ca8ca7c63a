--------------------------- MODULE ExecutorAnswers ----------------------------
(***************************************************************************)
(* The steps of a worker keep the invariant of ExecutorInvariant: taking a *)
(* call and answering it, and handing on the output of an answer.          *)
(***************************************************************************)
EXTENDS ExecutorInvariant

\* worker_busy_loop takes the next call: if it is to be answered its answer cannot have
\* been read before, and comes behind those of all calls before it.
LEMMA RpcStep ==
  ASSUME Good, NEW w \in Worker, ExecuteWorkerRpc(w)
  PROVE  Good'
<1> DEFINE c == worker[w].taken + 1
           kind == calls[c].kind
           none == kind = "execute" \/ (kind = "sample" /\ ~ worker[w].ran)
           A == worker[w].answers
           O == worker[w].outputs
<1>1. PICK ok :
        LET a == [call |-> c, ok |-> ok, none |-> none]
            s == [worker[w] EXCEPT !.taken = c,
                    !.ran = IF kind \in StepKinds THEN kind = "execute" /\ ok ELSE @]
        IN  /\ ok \in Outcomes(kind)
            /\ worker' = [worker EXCEPT ![w] =
                 IF w \in Replying(kind) THEN HandleOutput(s, a) ELSE s]
            /\ conf' = AfterFailure(ok)
  BY Zenon DEF ExecuteWorkerRpc
<1> DEFINE a == [call |-> c, ok |-> ok, none |-> none]
           s == [worker[w] EXCEPT !.taken = c,
                   !.ran = IF kind \in StepKinds THEN kind = "execute" /\ ok ELSE @]
           P == IF w \in Replying(kind) THEN HandleOutput(s, a) ELSE s
<1>2. /\ UNCHANGED <<calls, drained, reading, executor, engine>>
      /\ worker[w] \in Process /\ worker[w].taken \in Nat /\ worker[w].taken < Len(calls)
      /\ A \in Seq(Answer) /\ O \in Seq(Answer) /\ drained \in Nat
      /\ Len(calls) \in Nat /\ c \in 1 .. Len(calls) /\ c \in Nat
  BY DEF ExecuteWorkerRpc, Good, Types, Process
<1>3. /\ ok \in BOOLEAN /\ conf' \in Config /\ Reliable'
      /\ conf'.async = conf.async /\ conf'.aggregate = conf.aggregate
  BY <1>1, AfterFailureConfig DEF Good, Types, Reliable
<1>4. a \in Answer /\ a.call = c
  BY <1>2, <1>3 DEF Answer
<1>5. /\ s \in Process /\ s.taken = c /\ s.outputs = O /\ s.answers = A
  BY <1>2, <1>3, Zenon DEF Process
<1>6. worker' = [worker EXCEPT ![w] = P]
  BY <1>1
<1> HIDE DEF a, s, kind, none
<1>7. /\ P \in Process /\ P.taken = c
      /\ \/ w \notin Replying(kind) /\ P.outputs = O /\ P.answers = A
         \/ /\ w \in Replying(kind) /\ conf.async
            /\ P.outputs = Append(O, a) /\ P.answers = A
         \/ /\ w \in Replying(kind) /\ ~ conf.async
            /\ P.outputs = O /\ P.answers = Append(A, a)
  BY <1>2, <1>4, <1>5, AppendToQueue, Zenon DEF HandleOutput, Process
<1> HIDE DEF P
<1>8. /\ worker' \in [Worker -> Process] /\ worker'[w] = P
      /\ \A v \in Worker \ {w} : worker'[v] = worker[v]
  BY <1>6, <1>7 DEF Good, Types
<1>9. \A i : Replying(calls[i].kind)' = Replying(calls[i].kind)
  BY <1>2, <1>3 DEF Replying
<1>10. w \in Replying(kind) => ~ Read(w, c)
  <2>1. TakenOK
    BY DEF Good
  <2> QED BY <1>2, <2>1 DEF TakenOK, Read, kind
<1>11. \A v \in Worker \ {w} : \A i \in Nat : Owed(v, i)' <=> Owed(v, i)
  BY <1>2, <1>8, <1>9 DEF Owed, Read
<1>12. \A i \in Nat : Owed(w, i)' <=> Owed(w, i) \/ (i = c /\ w \in Replying(kind))
  <2> SUFFICES ASSUME NEW i \in Nat
               PROVE  Owed(w, i)' <=> Owed(w, i) \/ (i = c /\ w \in Replying(kind))
    OBVIOUS
  <2>1. Read(w, i)' <=> Read(w, i)
    BY <1>2 DEF Read
  <2>2. i \in 1 .. worker'[w].taken <=> i \in 1 .. worker[w].taken \/ i = c
    BY <1>2, <1>7, <1>8
  <2>3. c \notin 1 .. worker[w].taken
    BY <1>2
  <2> QED BY <1>9, <1>10, <2>1, <2>2, <2>3, Zenon DEF Owed, kind
<1>13. /\ \A k \in 1 .. Len(A) : A[k].call \in Nat /\ A[k].call < c
       /\ \A k \in 1 .. Len(O) : O[k].call \in Nat /\ O[k].call < c
  <2>1. /\ \A k \in 1 .. Len(A) : A[k].call \in Nat
        /\ \A k \in 1 .. Len(O) : O[k].call \in Nat
    <3>1. /\ \A k \in 1 .. Len(A) : A[k] \in Answer
          /\ \A k \in 1 .. Len(O) : O[k] \in Answer
      BY <1>2, ElementOfSeq
    <3> QED BY <3>1 DEF Answer
  <2>2. /\ \A k \in 1 .. Len(A) : Owed(w, A[k].call)
        /\ \A k \in 1 .. Len(O) : Owed(w, O[k].call)
    <3>1. \A i \in Nat : Owed(w, i) <=> Holds(A, i) \/ Holds(O, i)
      BY DEF Good, QueuesOK, AnswersOK
    <3> HIDE DEF A, O
    <3> QED BY <2>1, <3>1 DEF Holds
  <2>3. \A i \in Nat : Owed(w, i) => i < c
    BY <1>2 DEF Owed
  <2> HIDE DEF A, O, c
  <2> QED BY <2>1, <2>2, <2>3
<1>14. Types' /\ EngineOK'
  <2>1. \A v \in Worker : worker'[v].taken <= Len(calls)
    BY <1>2, <1>7, <1>8 DEF Good, Types
  <2> QED BY <1>2, <1>3, <1>8, <2>1 DEF Good, Types, EngineOK
<1>15. FutureOK' /\ ResultsOK'
  BY <1>2, <1>9, ZenonT(40) DEF Good, FutureOK, ResultsOK, Ranks
<1>16. TakenOK'
  BY <1>2, <1>7, <1>8, <1>9 DEF Good, TakenOK, Read
<1>17. ASSUME NEW v \in Worker \ {w} PROVE AnswersOK(v)'
  BY <1>3, <1>8, <1>11 DEF Good, QueuesOK, AnswersOK
<1>18. AnswersOK(w)'
  <2>1. /\ AnswersOK(w) /\ worker'[w].answers = P.answers /\ worker'[w].outputs = P.outputs
    BY <1>8 DEF Good, QueuesOK
  <2>2. CASE w \notin Replying(kind)
    BY <1>3, <1>7, <1>12, <2>1, <2>2 DEF AnswersOK
  <2>3. CASE w \in Replying(kind) /\ conf.async
    <3>1. P.outputs = Append(O, a) /\ P.answers = A
      BY <1>7, <2>3
    <3>2. /\ Ascending(Append(O, a)) /\ Before(A, Append(O, a))
          /\ \A i : Holds(Append(O, a), i) <=> Holds(O, i) \/ i = c
      <4>1. /\ Ascending(O) /\ Before(A, O)
            /\ \A k \in 1 .. Len(O) : O[k].call < a.call
            /\ \A k \in 1 .. Len(A) : A[k].call < a.call
        BY <1>4, <1>13, <2>1 DEF AnswersOK
      <4> HIDE DEF A, O, c
      <4> QED BY <1>2, <1>4, <4>1, AppendToQueue, ZenonT(40)
    <3> QED BY <1>3, <1>12, <2>1, <2>3, <3>1, <3>2 DEF AnswersOK
  <2>4. CASE w \in Replying(kind) /\ ~ conf.async
    <3>1. P.outputs = O /\ P.answers = Append(A, a) /\ O = <<>> /\ Ascending(O)
      BY <1>7, <2>1, <2>4 DEF AnswersOK
    <3>2. Before(Append(A, a), O)
      BY <3>1 DEF Before
    <3>3. /\ Ascending(Append(A, a))
          /\ \A i : Holds(Append(A, a), i) <=> Holds(A, i) \/ i = c
      <4>1. Ascending(A) /\ \A k \in 1 .. Len(A) : A[k].call < a.call
        BY <1>4, <1>13, <2>1 DEF AnswersOK
      <4> HIDE DEF A, c
      <4> QED BY <1>2, <1>4, <4>1, AppendToQueue, ZenonT(40)
    <3> QED BY <1>3, <1>12, <2>1, <2>4, <3>1, <3>2, <3>3 DEF AnswersOK
  <2> QED BY <2>2, <2>3, <2>4
<1>19. QueuesOK'
  BY <1>17, <1>18, Zenon DEF QueuesOK
<1> QED BY <1>14, <1>15, <1>16, <1>19 DEF Good

\* async_output_busy_loop hands on the oldest output: the order stays the same.
LEMMA OutputStep ==
  ASSUME Good, NEW w \in Worker, EnqueueOutput(w)
  PROVE  Good'
<1> DEFINE A == worker[w].answers
           O == worker[w].outputs
           a == Head(O)
<1>1. PICK ok :
        /\ ok \in IF a.ok /\ ~ a.none THEN Outcomes(calls[a.call].kind) ELSE {a.ok}
        /\ worker' = [worker EXCEPT ![w].outputs = Tail(@),
                                    ![w].answers = Append(@, [a EXCEPT !.ok = ok])]
        /\ conf' = IF a.ok THEN AfterFailure(ok) ELSE conf
  BY Zenon DEF EnqueueOutput
<1> DEFINE b == [a EXCEPT !.ok = ok]
<1>2. /\ UNCHANGED <<calls, drained, reading, executor, engine>>
      /\ worker[w] \in Process /\ A \in Seq(Answer) /\ O \in Seq(Answer) /\ O # <<>>
      /\ conf \in Config /\ Reliable /\ AnswersOK(w)
  BY DEF EnqueueOutput, Good, Types, Process, QueuesOK
<1>3. /\ Tail(O) \in Seq(Answer) /\ a \in Answer
      /\ Ascending(Tail(O)) /\ \A k \in 1 .. Len(Tail(O)) : a.call < Tail(O)[k].call
      /\ \A i : Holds(Tail(O), i) <=> Holds(O, i) /\ i # a.call
      /\ Holds(O, a.call)
      /\ Before(A, Tail(O)) /\ \A k \in 1 .. Len(A) : A[k].call < a.call
  BY <1>2, TakeFromQueue DEF AnswersOK
<1>4. /\ ok \in BOOLEAN /\ conf' \in Config /\ Reliable'
      /\ conf'.async = conf.async /\ conf'.aggregate = conf.aggregate
  <2>1. CASE a.ok /\ ~ a.none
    BY <1>1, <1>2, <2>1, AfterFailureConfig DEF Reliable
  <2>2. CASE ~ a.ok
    BY <1>1, <1>2, <1>3, <2>2 DEF Answer, Reliable
  <2>3. CASE a.ok /\ a.none
    BY <1>1, <1>2, <1>3, <2>3 DEF Answer, Reliable, AfterFailure
  <2> QED BY <1>3, <2>1, <2>2, <2>3, Zenon DEF Answer
<1>5. b \in Answer /\ b.call = a.call
  BY <1>3, <1>4 DEF Answer
<1> HIDE DEF a, b
<1>6. /\ worker' \in [Worker -> Process]
      /\ \A v \in Worker : worker'[v].taken = worker[v].taken
      /\ \A v \in Worker \ {w} : worker'[v] = worker[v]
      /\ worker'[w].outputs = Tail(O) /\ worker'[w].answers = Append(A, b)
  <2>1. worker' = [worker EXCEPT ![w] = [worker[w] EXCEPT !.outputs = Tail(O),
                                                           !.answers = Append(A, b)]]
    BY <1>1, <1>2, Zenon DEF Good, Types, Process, a, b
  <2>2. Append(A, b) \in Seq(Answer)
    BY <1>2, <1>5, AppendToQueue
  <2>3. [worker[w] EXCEPT !.outputs = Tail(O), !.answers = Append(A, b)] \in Process
    BY <1>2, <1>3, <2>2, Zenon DEF Process
  <2> QED BY <1>2, <2>1, <2>3 DEF Good, Types, Process
<1>7. \A i : Replying(calls[i].kind)' = Replying(calls[i].kind)
  BY <1>2, <1>4 DEF Replying
<1>8. \A v \in Worker, i \in Nat : Owed(v, i)' <=> Owed(v, i)
  BY <1>2, <1>6, <1>7 DEF Owed, Read
<1>9. Types' /\ EngineOK'
  BY <1>2, <1>4, <1>6, Zenon DEF Good, Types, EngineOK
<1>10. FutureOK' /\ ResultsOK'
  BY <1>2, <1>7, ZenonT(40) DEF Good, FutureOK, ResultsOK, Ranks
<1>11. TakenOK'
  BY <1>2, <1>6, <1>7 DEF Good, TakenOK, Read
<1>12. ASSUME NEW v \in Worker \ {w} PROVE AnswersOK(v)'
  BY <1>4, <1>6, <1>8 DEF Good, QueuesOK, AnswersOK
<1>13. AnswersOK(w)'
  <2>1. /\ Ascending(Append(A, b)) /\ Before(Append(A, b), Tail(O))
        /\ \A i : Holds(Append(A, b), i) <=> Holds(A, i) \/ i = a.call
    <3>1. Ascending(A)
      BY <1>2 DEF AnswersOK
    <3>2. /\ \A k \in 1 .. Len(A) : A[k].call < b.call
          /\ \A k \in 1 .. Len(Tail(O)) : b.call < Tail(O)[k].call
      BY <1>3, <1>5
    <3> HIDE DEF A, O
    <3> QED BY <1>2, <1>3, <1>5, <3>1, <3>2, AppendToQueue, ZenonT(40)
  <2>2. conf.async
    BY <1>2 DEF AnswersOK
  <2> QED BY <1>2, <1>3, <1>4, <1>6, <1>8, <2>1, <2>2 DEF AnswersOK
<1>14. QueuesOK'
  BY <1>12, <1>13, Zenon DEF QueuesOK
<1> QED BY <1>9, <1>10, <1>11, <1>14 DEF Good
=============================================================================
