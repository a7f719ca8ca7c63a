-------------------------- MODULE ExecutorResponses ---------------------------
(***************************************************************************)
(* Reading an answer keeps the invariant of ExecutorInvariant.             *)
(***************************************************************************)
EXTENDS ExecutorInvariant

\* get_response takes one answer: it is the one to the call being read, and a failure
\* does not keep the others from being read.
LEMMA ReadStep ==
  ASSUME Good, executor = "up", ReadResponse
  PROVE  Good'
<1>1. /\ Types /\ EngineOK /\ FutureOK /\ ResultsOK /\ TakenOK /\ QueuesOK
      /\ conf \in Config /\ Reliable /\ calls \in Seq(Call) /\ Len(calls) \in Nat
      /\ drained \in Nat
      /\ reading \in [call : Nat, left : SUBSET Worker, failed : BOOLEAN]
      /\ reading # NoFuture
  BY DEF Good, Types, ReadResponse
<1> DEFINE d == reading.call
<1>2. /\ d = drained /\ d \in 1 .. Len(calls) /\ reading.left # {}
      /\ reading.left \subseteq Worker /\ reading.left \subseteq Replying(calls[d].kind)
      /\ calls[d] \in Call
  BY <1>1 DEF FutureOK
<1>3. PICK w \in reading.left : w = NextRank
  BY <1>2, NextRankIsLeft
<1> DEFINE A == worker[w].answers
           O == worker[w].outputs
           a == Head(A)
           left == reading.left \ {w}
           failed == reading.failed \/ ~ a.ok
           got == calls[d].answers \cup
                    IF a.ok THEN {[rank |-> w, call |-> a.call, none |-> a.none]} ELSE {}
           state == IF failed \/ ~ Aggregates(got) THEN "error" ELSE "ok"
<1>4. /\ w \in Worker /\ A # <<>>
      /\ worker' = [worker EXCEPT ![w].answers = Tail(@)]
      /\ UNCHANGED <<conf, drained, executor, engine>>
      /\ \/ (RaisesAtOnce(a) \/ left = {}) /\ Resolve(state, got)
         \/ /\ ~ RaisesAtOnce(a) /\ left # {}
            /\ calls' = [calls EXCEPT ![d].answers = got]
            /\ reading' = [reading EXCEPT !.left = left, !.failed = failed]
  BY <1>2, <1>3, Zenon DEF ReadResponse
<1>5. /\ worker[w] \in Process /\ A \in Seq(Answer) /\ O \in Seq(Answer) /\ AnswersOK(w)
      /\ worker[w].taken \in Nat
  BY <1>1, <1>2, <1>4 DEF Types, Process, QueuesOK
<1>6. a.call = d /\ d <= worker[w].taken /\ ~ Holds(O, d)
  BY <1>1, <1>2, <1>4, HeadIsForReading, Zenon
<1>7. /\ Tail(A) \in Seq(Answer) /\ a \in Answer /\ Ascending(Tail(A))
      /\ \A i : Holds(Tail(A), i) <=> Holds(A, i) /\ i # d
      /\ \A p : Before(A, p) => Before(Tail(A), p)
  <2>1. Ascending(A)
    BY <1>5 DEF AnswersOK
  <2>2. /\ Tail(A) \in Seq(Answer) /\ a \in Answer /\ Ascending(Tail(A))
        /\ \A i : Holds(Tail(A), i) <=> Holds(A, i) /\ i # a.call
    BY <1>1, <1>4, <1>5, <2>1, TakeFromQueue, Zenon
  <2>3. /\ Len(A) \in Nat /\ Len(Tail(A)) = Len(A) - 1
        /\ \A k \in 1 .. Len(Tail(A)) : Tail(A)[k] = A[k + 1] /\ k + 1 \in 1 .. Len(A)
    <3>1. /\ Len(A) \in Nat /\ Len(Tail(A)) = Len(A) - 1
          /\ \A k \in 1 .. Len(Tail(A)) : Tail(A)[k] = A[k + 1]
      BY <1>4, <1>5, HeadTailProperties
    <3> HIDE DEF A
    <3> QED BY <3>1
  <2>4. ASSUME NEW p, Before(A, p) PROVE Before(Tail(A), p)
    BY <2>3, <2>4 DEF Before
  <2> QED BY <1>6, <2>2, <2>4
<1>8. ~ RaisesAtOnce(a)
  BY <1>1 DEF RaisesAtOnce, Reliable
<1>9. /\ failed \in BOOLEAN
      /\ got \subseteq Result /\ \A x \in got : x.call = d
      /\ a.ok => {x.rank : x \in got} = Ranks(d) \cup {w}
  <2>1. calls[d].answers \subseteq Result /\ \A x \in calls[d].answers : x.call = d
    <3>1. calls[d].answers \subseteq Result
      BY <1>2, Zenon DEF Call
    <3> QED BY <1>1, <1>2, <3>1 DEF ResultsOK
  <2>2. [rank |-> w, call |-> a.call, none |-> a.none] \in Result
    BY <1>2, <1>4, <1>7 DEF Result, Answer
  <2>3. failed \in BOOLEAN
    BY <1>1, <1>7 DEF Answer
  <2> HIDE DEF a, d
  <2> QED BY <1>6, <2>1, <2>2, <2>3 DEF Ranks
<1> HIDE DEF failed, got, A, O, a
<1>10. /\ state \in {"error", "ok"} /\ (state = "ok" => ~ failed)
  OBVIOUS
<1>11. /\ calls' \in Seq(Call) /\ Len(calls') = Len(calls)
       /\ \A i \in 1 .. Len(calls) : i # d => calls'[i] = calls[i]
       /\ calls'[d].kind = calls[d].kind /\ calls'[d].answers = got
       /\ calls'[d].state = IF left = {} THEN state ELSE calls[d].state
  <2> DEFINE new == [calls[d] EXCEPT !.state = IF left = {} THEN state ELSE @,
                                     !.answers = got]
  <2>1. calls' = [calls EXCEPT ![d] = new]
    <3>1. CASE left = {}
      BY <1>1, <1>2, <1>4, <1>8, <3>1, Zenon DEF Resolve
    <3>2. CASE left # {}
      BY <1>1, <1>2, <1>4, <1>8, <3>2, Zenon DEF Call
    <3> QED BY <3>1, <3>2
  <2>2. new \in Call
    BY <1>2, <1>9, <1>10, Zenon DEF Call
  <2>3. /\ new.kind = calls[d].kind /\ new.answers = got
        /\ new.state = IF left = {} THEN state ELSE calls[d].state
    BY <1>2 DEF Call
  <2> HIDE DEF new, state
  <2> QED BY <1>1, <1>2, <2>1, <2>2, <2>3, ExceptSeq
<1>12. /\ reading' \in [call : Nat, left : SUBSET Worker, failed : BOOLEAN]
       /\ left = {} => reading' = NoFuture
       /\ left = {} => reading'.call = 0
       /\ left # {} => reading'.call = d /\ reading'.left = left /\ reading'.failed = failed
  <2>1. CASE left = {}
    <3>1. reading' = NoFuture
      BY <1>4, <1>8, <2>1 DEF Resolve
    <3> QED BY <2>1, <3>1, Zenon DEF NoFuture
  <2>2. CASE left # {}
    <3>1. reading' = [reading EXCEPT !.left = left, !.failed = failed]
      BY <1>4, <1>8, <2>2
    <3>2. left \in SUBSET Worker
      BY <1>2
    <3> HIDE DEF left
    <3> QED BY <1>1, <1>9, <2>2, <3>1, <3>2, Zenon
  <2> QED BY <2>1, <2>2
<1> HIDE DEF state
<1>13. /\ worker' \in [Worker -> Process]
       /\ \A v \in Worker : /\ worker'[v].taken = worker[v].taken
                            /\ worker'[v].outputs = worker[v].outputs
       /\ \A v \in Worker \ {w} : worker'[v] = worker[v]
       /\ worker'[w].answers = Tail(A)
  <2>1. worker' = [worker EXCEPT ![w] = [worker[w] EXCEPT !.answers = Tail(A)]]
    BY <1>1, <1>4 DEF A
  <2>2. [worker[w] EXCEPT !.answers = Tail(A)] \in Process
    BY <1>5, <1>7, Zenon DEF Process
  <2>3. worker \in [Worker -> Process]
    BY <1>1 DEF Types
  <2>4. /\ worker' \in [Worker -> Process]
        /\ worker'[w] = [worker[w] EXCEPT !.answers = Tail(A)]
        /\ \A v \in Worker \ {w} : worker'[v] = worker[v]
    BY <1>4, <2>1, <2>2, <2>3, Zenon
  <2>5. /\ worker'[w].taken = worker[w].taken /\ worker'[w].outputs = worker[w].outputs
        /\ worker'[w].answers = Tail(A)
    BY <1>5, <2>4 DEF Process
  <2> QED BY <1>4, <2>4, <2>5
<1>14. \A i \in 1 .. Len(calls) : Replying(calls[i].kind)' = Replying(calls[i].kind)
  BY <1>1, <1>4, <1>11 DEF Replying
<1>15. \A v \in Worker, i \in Nat \ {0} : Read(v, i)' <=> Read(v, i) \/ (v = w /\ i = d)
  BY <1>1, <1>2, <1>4, <1>12 DEF Read, NoFuture
<1>16. \A v \in Worker, i \in Nat : Owed(v, i)' <=> Owed(v, i) /\ ~ (v = w /\ i = d)
  <2> SUFFICES ASSUME NEW v \in Worker, NEW i \in 1 .. worker[v].taken
               PROVE  Owed(v, i)' <=> Owed(v, i) /\ ~ (v = w /\ i = d)
    BY <1>13 DEF Owed
  <2>1. worker[v].taken \in Nat /\ worker[v].taken <= Len(calls)
    BY <1>1 DEF Types, Process
  <2>2. i \in 1 .. Len(calls) /\ i \in Nat \ {0}
    BY <1>1, <2>1
  <2> QED BY <1>13, <1>14, <1>15, <2>2 DEF Owed
<1>17. Types' /\ EngineOK'
  BY <1>1, <1>4, <1>11, <1>12, <1>13 DEF Types, EngineOK, Reliable
<1>18. FutureOK'
  <2>1. CASE left = {}
    <3>1. calls'[d].state # "pending" /\ reading'.call = 0 /\ reading' = NoFuture
      BY <1>10, <1>11, <1>12, <2>1
    <3>2. ASSUME NEW i \in 1 .. Len(calls)
          PROVE  calls'[i].state = "pending" <=> i > drained \/ i = 0
      <4>1. CASE i = d
        BY <1>2, <3>1, <4>1
      <4>2. CASE i # d
        BY <1>1, <1>2, <1>11, <4>2 DEF FutureOK
      <4> QED BY <4>1, <4>2
    <3> QED BY <1>1, <1>2, <1>4, <1>11, <3>1, <3>2 DEF FutureOK
  <2>2. CASE left # {}
    BY <1>1, <1>2, <1>4, <1>11, <1>12, <1>14, <2>2 DEF FutureOK
  <2> QED BY <2>1, <2>2
<1>19. ResultsOK'
  <2> SUFFICES ASSUME NEW i \in 1 .. Len(calls)
               PROVE  (/\ i > drained => calls[i].answers = {}
                       /\ \A x \in calls[i].answers : x.call = i
                       /\ calls[i].state = "ok" => Ranks(i) = Replying(calls[i].kind)
                       /\ i = reading.call /\ ~ reading.failed =>
                            Ranks(i) = Replying(calls[i].kind) \ reading.left)'
    BY <1>11 DEF ResultsOK
  <2>1. CASE i # d
    <3>1. calls'[i] = calls[i] /\ Ranks(i)' = Ranks(i) /\ drained' = drained
      BY <1>4, <1>11, <2>1 DEF Ranks
    <3>2. i # reading'.call
      BY <1>2, <1>12, <2>1
    <3> QED BY <1>1, <1>14, <3>1, <3>2 DEF ResultsOK
  <2>2. CASE i = d
    <3>1. ~ failed => Ranks(i)' = Replying(calls[d].kind) \ left
      <4>1. ~ failed => a.ok /\ ~ reading.failed
        BY DEF failed
      <4>2. ~ reading.failed => Ranks(d) = Replying(calls[d].kind) \ reading.left
        BY <1>1, <1>2 DEF ResultsOK
      <4>3. a.ok => Ranks(i)' = Ranks(d) \cup {w}
        BY <1>9, <1>11, <2>2, Zenon DEF Ranks
      <4> QED BY <1>2, <1>4, <4>1, <4>2, <4>3
    <3>2. Replying(calls[i].kind)' = Replying(calls[d].kind)
      BY <1>2, <1>14, <2>2
    <3>3. calls[d].state = "pending"
      BY <1>1, <1>2 DEF FutureOK
    <3>4. CASE left = {}
      <4>1. calls'[i].state = "ok" => Ranks(i)' = Replying(calls[d].kind)
        BY <1>10, <1>11, <2>2, <3>1, <3>4, Zenon
      <4>2. i # reading'.call /\ ~ (i > drained') /\ \A x \in calls'[i].answers : x.call = i
        BY <1>1, <1>2, <1>4, <1>9, <1>11, <1>12, <2>2, <3>4
      <4> QED BY <3>2, <4>1, <4>2
    <3>5. CASE left # {}
      BY <1>1, <1>2, <1>4, <1>9, <1>11, <1>12, <2>2, <3>1, <3>2, <3>3, <3>5
    <3> QED BY <3>4, <3>5
  <2> QED BY <2>1, <2>2
<1>20. TakenOK'
  BY <1>1, <1>2, <1>4, <1>6, <1>13, <1>14, <1>15 DEF TakenOK, FutureOK
<1>21. ASSUME NEW v \in Worker \ {w} PROVE AnswersOK(v)'
  BY <1>1, <1>4, <1>13, <1>16 DEF QueuesOK, AnswersOK
<1>22. AnswersOK(w)'
  <2>1. \A i \in Nat : Owed(w, i)' <=> Owed(w, i) /\ i # d
    BY <1>4, <1>16
  <2>2. /\ worker'[w].answers = Tail(A) /\ worker'[w].outputs = O /\ conf' = conf
        /\ \A i \in Nat : Owed(w, i) <=> Holds(A, i) \/ Holds(O, i)
        /\ Ascending(O) /\ Before(A, O) /\ (~ conf.async => O = <<>>)
    BY <1>4, <1>5, <1>13 DEF AnswersOK, A, O
  <2>3. \A i \in Nat : Owed(w, i)' <=> Holds(Tail(A), i) \/ Holds(O, i)
    BY <1>6, <1>7, <2>1, <2>2
  <2> QED BY <1>7, <2>2, <2>3 DEF AnswersOK
<1>23. QueuesOK'
  BY <1>21, <1>22, Zenon DEF QueuesOK
<1> QED BY <1>17, <1>18, <1>19, <1>20, <1>23, Zenon DEF Good
=============================================================================
