-------------------------- MODULE MessageQueueProofs --------------------------
(***************************************************************************)
(* Proofs about MessageQueue for any number of readers, chunks and         *)
(* messages: no chunk is written while it is read, and for the readers     *)
(* that wait without a deadline the ring implements BroadcastQueue.        *)
(*                                                                         *)
(* The argument: a reader is at most MaxChunks behind the writer, and the  *)
(* flags of a chunk say "written and unread" exactly for the chunks        *)
(* between the reader and the writer.  The writer passes its check only    *)
(* when no reader is a whole round behind, and readers only catch up.      *)
(***************************************************************************)
EXTENDS MessageQueue, TLAPS

\* Chunks a reader is behind the writer.
Lag(r) == sent - taken[r]

\* Steps around the ring from chunk i to chunk j.
Dist(i, j) == IF j >= i THEN j - i ELSE j - i + MaxChunks

Unread(i, r) == Dist(rd[r].idx, i) < Lag(r)

\* What the chunk of message m holds.
Content(m) == IF m \in Large THEN Overflow ELSE m

WriterPc == {"idle", "sum", "blocked", "clear", "begin", "fill", "reset", "send", "notify"}
ReaderPc == {"idle", "flag", "written", "wait", "parked", "cancelled", "read", "ack",
             "socket"}

QTypeOK ==
  /\ written \in [Slot -> {0, 1}]
  /\ readFlag \in [Slot -> [Reader -> {0, 1}]]
  /\ data \in [Slot -> Int]
  /\ socket \in [Reader -> Seq(Nat)]
  /\ w \in [pc : WriterPc, idx : Slot, todo : SUBSET Reader, seen : SUBSET Reader]
  /\ rd \in [Reader -> [pc : ReaderPc, idx : Slot, flag : {0, 1}, value : Int]]
  /\ sent \in Nat
  /\ taken \in [Reader -> Nat]
  /\ got \in [Reader -> Int]

\* Where the readers are, relative to the writer.
RingOK ==
  \A r \in Reader :
    /\ Lag(r) \in 0 .. MaxChunks
    /\ IF Lag(r) = MaxChunks THEN rd[r].idx = w.idx ELSE Dist(rd[r].idx, w.idx) = Lag(r)

\* What the flags and the contents of the chunks say.
FlagsOK ==
  \A r \in Reader, i \in Slot :
    IF Unread(i, r)
    THEN /\ written[i] = 1 /\ readFlag[i][r] = 0
         /\ data[i] = Content(taken[r] + Dist(rd[r].idx, i) + 1)
    ELSE written[i] = 0 \/ readFlag[i][r] = 1

WriterOK ==
  /\ w.pc = "sum" => \A r \in w.seen : Lag(r) < MaxChunks
  /\ w.pc \in {"clear", "begin", "fill", "reset"} => \A r \in Reader : Lag(r) < MaxChunks
  /\ w.pc \in {"begin", "fill", "reset"} => written[w.idx] = 0
  /\ w.pc = "reset" => /\ data[w.idx] = Content(sent + 1)
                       /\ \A r \in Reader \ w.todo : readFlag[w.idx][r] = 0
  /\ w.pc = "send" => sent \in Large

ReaderOK ==
  \A r \in Reader :
    /\ rd[r].pc = "written" /\ rd[r].flag = 0 => readFlag[rd[r].idx][r] = 0
    /\ rd[r].pc \in {"read", "ack"} => Lag(r) > 0
    /\ rd[r].pc = "ack" => rd[r].value = Content(taken[r] + 1)

\* A patient reader has got what it has taken, except the message it waits for.
GotOK ==
  \A r \in Patient :
    IF rd[r].pc = "socket" THEN taken[r] \in Large /\ got[r] = taken[r] - 1
    ELSE got[r] = taken[r]

\* Large messages up to this one have been handed to the sockets.
Handed == IF w.pc = "send" THEN sent - 1 ELSE sent

\* The socket of a patient reader holds the large messages it has not got.
SocketOK ==
  \A r \in Patient :
    /\ got[r] <= Handed
    /\ \A k \in 1 .. Len(socket[r]) : socket[r][k] \in Large /\ got[r] < socket[r][k]
                                      /\ socket[r][k] <= Handed
    /\ \A j, k \in 1 .. Len(socket[r]) : j < k => socket[r][j] < socket[r][k]
    /\ \A m \in Large : got[r] < m /\ m <= Handed =>
         \E k \in 1 .. Len(socket[r]) : socket[r][k] = m

RingInv == QTypeOK /\ RingOK /\ FlagsOK /\ WriterOK /\ ReaderOK
QueueInv == RingInv /\ GotOK /\ SocketOK

-----------------------------------------------------------------------------
\* One chunk on, the distance to every chunk but the one left is one less.
LEMMA NextIdxDist ==
  ASSUME NEW i \in Slot, NEW j \in Slot
  PROVE  /\ NextIdx(i) \in Slot
         /\ Dist(i, j) \in 0 .. MaxChunks - 1
         /\ Dist(i, j) = 0 <=> i = j
         /\ i # j => Dist(NextIdx(i), j) = Dist(i, j) - 1
         /\ Dist(NextIdx(i), i) = MaxChunks - 1
         /\ Dist(j, i) < MaxChunks - 1 => Dist(j, NextIdx(i)) = Dist(j, i) + 1
         /\ Dist(j, i) = MaxChunks - 1 => NextIdx(i) = j
BY QueueAssumption DEF Slot, NextIdx, Dist

\* In a new ring nothing is written and no reader has anything to read.
LEMMA InitRingInv == Init => RingInv
<1> SUFFICES ASSUME Init PROVE RingInv
  OBVIOUS
<1>1. 0 \in Slot /\ MaxChunks \in Nat \ {0}
  BY QueueAssumption DEF Slot
<1>2. QTypeOK
  BY <1>1 DEF Init, QTypeOK, Writer0, Reader0, WriterPc, ReaderPc, Torn
<1>3. ASSUME NEW r \in Reader
      PROVE  Lag(r) = 0 /\ rd[r].idx = 0 /\ w.idx = 0
  <2>1. rd[r] = Reader0 /\ taken[r] = 0 /\ sent = 0 /\ w = Writer0
    BY DEF Init
  <2> QED BY <2>1 DEF Lag, Reader0, Writer0
<1>4. RingOK /\ FlagsOK
  <2>1. Dist(0, 0) = 0 /\ \A i \in Slot : ~ Dist(0, i) < 0 /\ written[i] = 0
    <3>1. \A i \in Slot : written[i] = 0
      BY DEF Init
    <3> QED BY <1>1, <3>1 DEF Dist, Slot
  <2>2. ASSUME NEW r \in Reader
        PROVE  /\ Lag(r) \in 0 .. MaxChunks
               /\ IF Lag(r) = MaxChunks THEN rd[r].idx = w.idx
                  ELSE Dist(rd[r].idx, w.idx) = Lag(r)
    BY <1>1, <1>3, <2>1
  <2>3. ASSUME NEW r \in Reader, NEW i \in Slot
        PROVE  ~ Unread(i, r)
    <3>1. rd[r].idx = 0 /\ Lag(r) = 0
      BY <1>3
    <3> QED BY <2>1, <3>1 DEF Unread
  <2>4. RingOK
    BY <2>2, Zenon DEF RingOK
  <2>5. FlagsOK
    BY <2>1, <2>3 DEF FlagsOK
  <2> QED BY <2>4, <2>5
<1>5. WriterOK /\ ReaderOK
  BY <1>1 DEF Init, WriterOK, ReaderOK, Writer0, Reader0
<1> QED BY <1>2, <1>4, <1>5 DEF RingInv

\* Steps of the writer that change only its own locals and sockets.
LEMMA WriterLocalStep ==
  ASSUME RingInv,
         Enqueue \/ (\E r \in Reader : SumFlag(r)) \/ CheckWritable \/ RetryWrite
           \/ SendLarge \/ Notify
  PROVE  RingInv'
<1> USE QueueAssumption DEF RingInv
<1>1. /\ w'.idx = w.idx
      /\ UNCHANGED <<written, readFlag, data, rd, sent, taken, got>>
  BY Zenon DEF Enqueue, SumFlag, CheckWritable, RetryWrite, SendLarge, Notify, QTypeOK
<1>2. QTypeOK'
  <2>1. w' \in [pc : WriterPc, idx : Slot, todo : SUBSET Reader, seen : SUBSET Reader]
    <3>1. CASE Enqueue
      BY <3>1, Zenon DEF QTypeOK, Enqueue, WriterPc
    <3>2. ASSUME NEW r \in Reader, SumFlag(r)
          PROVE  w' \in [pc : WriterPc, idx : Slot, todo : SUBSET Reader,
                         seen : SUBSET Reader]
      BY <3>2, Zenon DEF QTypeOK, SumFlag
    <3>3. CASE CheckWritable \/ RetryWrite
      BY <3>3, Zenon DEF QTypeOK, CheckWritable, RetryWrite, WriterPc
    <3>4. CASE SendLarge \/ Notify
      BY <3>4, Zenon DEF QTypeOK, SendLarge, Notify, WriterPc
    <3> QED BY <3>1, <3>2, <3>3, <3>4
  <2>2. socket' \in [Reader -> Seq(Nat)]
    <3>1. CASE SendLarge
      BY <3>1 DEF QTypeOK, SendLarge
    <3>2. CASE ~ SendLarge
      BY <3>2, Zenon DEF QTypeOK, Enqueue, SumFlag, CheckWritable, RetryWrite, Notify
    <3> QED BY <3>1, <3>2
  <2> QED BY <1>1, <2>1, <2>2 DEF QTypeOK
<1>3. RingOK' /\ ReaderOK' /\ FlagsOK'
  BY <1>1 DEF RingOK, ReaderOK, FlagsOK, Lag, Dist, Unread, Content
<1>4. WriterOK'
  <2>1. CASE Enqueue \/ RetryWrite \/ SendLarge \/ Notify
    BY <2>1, Zenon DEF WriterOK, QTypeOK, Enqueue, RetryWrite, SendLarge, Notify
  <2>2. ASSUME NEW r \in Reader, SumFlag(r) PROVE WriterOK'
    <3>1. readFlag[w.idx][r] = 1 => Lag(r) < MaxChunks
      <4>1. w.idx \in Slot /\ rd[r].idx \in Slot
        BY DEF QTypeOK
      <4> QED BY <4>1, NextIdxDist DEF FlagsOK, RingOK, Unread
    <3> QED BY <1>1, <2>2, <3>1, Zenon DEF SumFlag, WriterOK, QTypeOK, Lag
  <2>3. CASE CheckWritable
    <3>1. ASSUME ~ Blocked, NEW r \in Reader PROVE Lag(r) < MaxChunks
      <4>1. w.idx \in Slot /\ rd[r].idx \in Slot
        BY DEF QTypeOK
      <4>2. CASE written[w.idx] = 0
        BY <4>1, <4>2, NextIdxDist DEF FlagsOK, RingOK, Unread
      <4>3. CASE w.seen = Reader
        BY <2>3, <4>3 DEF WriterOK, CheckWritable
      <4> QED BY <3>1, <4>1, <4>2, <4>3 DEF Blocked, QTypeOK
    <3> QED BY <1>1, <2>3, <3>1 DEF CheckWritable, WriterOK, QTypeOK, Lag
  <2> QED BY <2>1, <2>2, <2>3
<1> QED BY <1>2, <1>3, <1>4

\* Steps of the writer that change a chunk that no reader has still to read.
LEMMA WriterChunkStep ==
  ASSUME RingInv,
         ClearWritten \/ BeginFill \/ EndFill \/ (\E r \in Reader : ResetFlag(r))
  PROVE  RingInv'
<1> USE QueueAssumption DEF RingInv
<1>1. /\ w'.idx = w.idx /\ w.idx \in Slot
      /\ UNCHANGED <<rd, sent, taken, got>>
      /\ \A i \in Slot \ {w.idx} : /\ written'[i] = written[i] /\ data'[i] = data[i]
                                   /\ readFlag'[i] = readFlag[i]
  BY Zenon DEF ClearWritten, BeginFill, EndFill, ResetFlag, QTypeOK
<1>2. QTypeOK'
  <2>1. CASE ClearWritten
    BY <2>1, Zenon DEF QTypeOK, ClearWritten, WriterPc
  <2>2. CASE BeginFill
    <3>1. Torn \in Int
      BY DEF Torn
    <3> QED BY <2>2, <3>1, Zenon DEF QTypeOK, BeginFill, WriterPc
  <2>3. CASE EndFill
    <3>1. (IF sent + 1 \in Large THEN Overflow ELSE sent + 1) \in Int
      BY DEF Overflow, QTypeOK
    <3>2. data' \in [Slot -> Int]
      BY <2>3, <3>1 DEF QTypeOK, EndFill
    <3> QED BY <2>3, <3>2, Zenon DEF QTypeOK, EndFill, WriterPc
  <2>4. ASSUME NEW r \in Reader, ResetFlag(r) PROVE QTypeOK'
    BY <2>4, Zenon DEF QTypeOK, ResetFlag
  <2> QED BY <2>1, <2>2, <2>3, <2>4
<1>3. RingOK'
  BY <1>1 DEF RingOK, Lag, Dist
<1>4. written'[w.idx] = 0
  BY <1>1 DEF ClearWritten, BeginFill, EndFill, ResetFlag, WriterOK, QTypeOK
<1>5. \A r \in Reader : ~ Unread(w.idx, r)
  <2>1. \A r \in Reader : Lag(r) < MaxChunks
    BY Zenon DEF ClearWritten, BeginFill, EndFill, ResetFlag, WriterOK
  <2> SUFFICES ASSUME NEW r \in Reader PROVE ~ Dist(rd[r].idx, w.idx) < Lag(r)
    BY Zenon DEF Unread
  <2>2. Lag(r) \in 0 .. MaxChunks /\ Dist(rd[r].idx, w.idx) = Lag(r)
    BY <2>1 DEF RingOK
  <2> QED BY <2>2
<1>6. FlagsOK'
  <2> SUFFICES ASSUME NEW r \in Reader, NEW i \in Slot
               PROVE  IF Unread(i, r)'
                      THEN /\ written'[i] = 1 /\ readFlag'[i][r] = 0
                           /\ data'[i] = Content(taken'[r] + Dist(rd'[r].idx, i) + 1)
                      ELSE written'[i] = 0 \/ readFlag'[i][r] = 1
    BY DEF FlagsOK, Dist, Content
  <2>1. Unread(i, r)' <=> Unread(i, r)
    BY <1>1 DEF Unread, Dist, Lag
  <2>2. CASE i = w.idx
    BY <1>4, <1>5, <2>1, <2>2
  <2>3. CASE i # w.idx
    BY <1>1, <2>1, <2>3 DEF FlagsOK
  <2> QED BY <2>2, <2>3
<1>7. WriterOK'
  <2>1. CASE ClearWritten
    BY <1>1, <1>4, <2>1 DEF WriterOK, Lag, ClearWritten, QTypeOK
  <2>2. CASE BeginFill
    BY <1>1, <1>4, <2>2 DEF WriterOK, Lag, BeginFill, QTypeOK
  <2>3. CASE EndFill
    BY <1>1, <1>4, <2>3 DEF WriterOK, Lag, EndFill, Content, QTypeOK
  <2>4. ASSUME NEW r \in Reader, ResetFlag(r) PROVE WriterOK'
    BY <1>1, <1>4, <2>4 DEF WriterOK, Lag, ResetFlag, Content, QTypeOK
  <2> QED BY <2>1, <2>2, <2>3, <2>4
<1>8. ReaderOK'
  BY <1>1 DEF ReaderOK, Lag, Content, QTypeOK, ClearWritten, BeginFill, EndFill, ResetFlag
<1> QED BY <1>2, <1>3, <1>6, <1>7, <1>8

\* The chunk that is published becomes unread for every reader.
LEMMA PublishStep ==
  ASSUME RingInv, Publish
  PROVE  RingInv'
<1> USE QueueAssumption DEF RingInv
<1>1. /\ w.idx \in Slot /\ w'.idx = NextIdx(w.idx) /\ w'.idx \in Slot
      /\ sent' = sent + 1
      /\ UNCHANGED <<data, readFlag, rd, taken, got>>
  BY NextIdxDist DEF Publish, QTypeOK
<1>2. QTypeOK'
  <2>1. w' \in [pc : WriterPc, idx : Slot, todo : SUBSET Reader, seen : SUBSET Reader]
    BY <1>1, Zenon DEF QTypeOK, Publish, WriterPc
  <2>2. written' \in [Slot -> {0, 1}] /\ socket' = socket
    BY DEF QTypeOK, Publish
  <2> QED BY <1>1, <2>1, <2>2 DEF QTypeOK
<1>3. \A r \in Reader : /\ Lag(r) \in 0 .. MaxChunks - 1 /\ Lag(r)' = Lag(r) + 1
                        /\ Dist(rd[r].idx, w.idx) = Lag(r) /\ rd[r].idx \in Slot
                        /\ readFlag[w.idx][r] = 0
  <2> SUFFICES ASSUME NEW r \in Reader
               PROVE  /\ Lag(r) \in 0 .. MaxChunks - 1 /\ Lag(r)' = Lag(r) + 1
                      /\ Dist(rd[r].idx, w.idx) = Lag(r) /\ rd[r].idx \in Slot
                      /\ readFlag[w.idx][r] = 0
    OBVIOUS
  <2>1. Lag(r) < MaxChunks /\ readFlag[w.idx][r] = 0
    BY DEF Publish, WriterOK
  <2>2. Lag(r)' = Lag(r) + 1 /\ rd[r].idx \in Slot
    BY <1>1 DEF Lag, QTypeOK
  <2>3. Lag(r) \in 0 .. MaxChunks - 1 /\ Dist(rd[r].idx, w.idx) = Lag(r)
    BY <2>1 DEF RingOK
  <2> QED BY <2>1, <2>2, <2>3
<1>4. RingOK'
  <2> SUFFICES ASSUME NEW r \in Reader
               PROVE  /\ Lag(r)' \in 0 .. MaxChunks
                      /\ IF Lag(r)' = MaxChunks THEN rd[r].idx = w'.idx
                         ELSE Dist(rd[r].idx, w'.idx) = Lag(r)'
    BY <1>1 DEF RingOK, Dist
  <2> QED BY <1>1, <1>3, NextIdxDist
<1>5. FlagsOK'
  <2> SUFFICES ASSUME NEW r \in Reader, NEW i \in Slot
               PROVE  IF Unread(i, r)'
                      THEN /\ written'[i] = 1 /\ readFlag'[i][r] = 0
                           /\ data'[i] = Content(taken'[r] + Dist(rd'[r].idx, i) + 1)
                      ELSE written'[i] = 0 \/ readFlag'[i][r] = 1
    BY DEF FlagsOK, Dist, Content
  <2>1. CASE i = w.idx
    <3>1. Unread(i, r)' /\ written'[i] = 1 /\ readFlag'[i][r] = 0
      BY <1>1, <1>3, <2>1 DEF Unread, Dist, Publish, QTypeOK
    <3>2. data'[i] = Content(sent + 1) /\ taken[r] + Dist(rd[r].idx, i) = sent
      BY <1>1, <1>3, <2>1 DEF Publish, WriterOK, Lag, QTypeOK
    <3> QED BY <1>1, <3>1, <3>2
  <2>2. CASE i # w.idx
    <3>1. Dist(rd[r].idx, i) # Dist(rd[r].idx, w.idx)
      BY <1>1, <1>3, <2>2 DEF Dist, Slot
    <3>2. Unread(i, r)' <=> Unread(i, r)
      BY <1>1, <1>3, <3>1, NextIdxDist DEF Unread, Dist
    <3>3. written'[i] = written[i]
      BY <2>2 DEF Publish, QTypeOK
    <3> QED BY <1>1, <3>2, <3>3 DEF FlagsOK
  <2> QED BY <2>1, <2>2
<1>6. WriterOK'
  BY <1>1 DEF WriterOK, Publish, QTypeOK
<1>7. ReaderOK'
  BY <1>1, <1>3 DEF ReaderOK, Content, Lag
<1> QED BY <1>2, <1>4, <1>5, <1>6, <1>7

\* Steps of a reader that leave the chunk to be read where it is.
LEMMA ReaderLocalStep ==
  ASSUME RingInv, NEW q \in Reader,
         Dequeue(q) \/ LoadReadFlag(q) \/ LoadWritten(q) \/ Wait(q) \/ Wake(q) \/ Load(q)
           \/ Recv(q) \/ RecvTimeout(q) \/ Shutdown(q)
  PROVE  RingInv'
<1> USE QueueAssumption DEF RingInv
<1> DEFINE Locals == [pc : ReaderPc, idx : Slot, flag : {0, 1}, value : Int]
           Frame == /\ UNCHANGED <<written, readFlag, data, w, sent, taken>>
                    /\ rd' \in [Reader -> Locals] /\ rd'[q].idx = rd[q].idx
                    /\ \A r \in Reader \ {q} : rd'[r] = rd[r]
<1>2. /\ rd \in [Reader -> Locals] /\ rd[q] \in Locals /\ rd[q].idx \in Slot
      /\ readFlag[rd[q].idx][q] \in {0, 1} /\ data[rd[q].idx] \in Int
  BY DEF QTypeOK
<1>1. Frame
  <2>1. CASE Dequeue(q)
    BY <1>2, <2>1, Zenon DEF Dequeue, QTypeOK, ReaderPc
  <2>2. CASE LoadReadFlag(q)
    BY <1>2, <2>2, Zenon DEF LoadReadFlag, QTypeOK, ReaderPc
  <2>3. CASE LoadWritten(q)
    BY <1>2, <2>3, Zenon DEF LoadWritten, QTypeOK, ReaderPc
  <2>4. CASE Wait(q)
    <3>1. PICK p \in ReaderPc : rd' = [rd EXCEPT ![q].pc = p]
      BY <2>4 DEF Wait, ReaderPc
    <3> QED BY <1>2, <2>4, <3>1 DEF Wait
  <2>5. CASE Wake(q)
    BY <1>2, <2>5, Zenon DEF Wake, QTypeOK, ReaderPc
  <2>6. CASE Load(q)
    BY <1>2, <2>6, Zenon DEF Load, QTypeOK, ReaderPc
  <2>7. CASE Recv(q)
    BY <1>2, <2>7, Zenon DEF Recv, QTypeOK, ReaderPc
  <2>8. CASE RecvTimeout(q)
    BY <1>2, <2>8, Zenon DEF RecvTimeout, QTypeOK, ReaderPc
  <2>9. CASE Shutdown(q)
    BY <1>2, <2>9 DEF Shutdown, QTypeOK, ReaderPc
  <2> HIDE DEF Frame
  <2> QED BY <2>1, <2>2, <2>3, <2>4, <2>5, <2>6, <2>7, <2>8, <2>9
<1>a. \A r \in Reader : rd'[r].idx = rd[r].idx
  BY <1>1
<1>3. QTypeOK'
  <2>2. socket' \in [Reader -> Seq(Nat)] /\ got' \in [Reader -> Int]
    <3>1. CASE Recv(q)
      BY <3>1 DEF QTypeOK, Recv
    <3>2. CASE ~ Recv(q)
      BY <3>2 DEF QTypeOK, Dequeue, LoadReadFlag, LoadWritten, Wait, Wake, Load,
                  RecvTimeout, Shutdown
    <3> QED BY <3>1, <3>2
  <2> QED BY <1>1, <2>2 DEF QTypeOK
<1>4. RingOK'
  BY <1>1, <1>a DEF RingOK, Lag, Dist
<1>5. FlagsOK'
  BY <1>1, <1>a DEF FlagsOK, Unread, Lag, Dist, Content
<1>6. WriterOK'
  BY <1>1 DEF WriterOK, Lag, Content
<1>7. ReaderOK'
  <2>1. ASSUME NEW r \in Reader, r # q
        PROVE  /\ rd'[r].pc = "written" /\ rd'[r].flag = 0 => readFlag'[rd'[r].idx][r] = 0
               /\ rd'[r].pc \in {"read", "ack"} => Lag(r)' > 0
               /\ rd'[r].pc = "ack" => rd'[r].value = Content(taken'[r] + 1)
    BY <1>1, <2>1 DEF ReaderOK, Lag
  <2>2. readFlag[rd[q].idx][q] \in {0, 1} /\ Lag(q)' = Lag(q)
    BY <1>1, <1>2 DEF QTypeOK, Lag
  <2>3. rd'[q].pc = "written" /\ rd'[q].flag = 0 => readFlag'[rd'[q].idx][q] = 0
    BY <1>1 DEF ReaderOK, QTypeOK, Dequeue, LoadReadFlag, LoadWritten, Wait, Wake, Load,
                Recv, RecvTimeout, Shutdown
  <2>4. rd'[q].pc \in {"read", "ack"} => Lag(q)' > 0
    <3>1. CASE LoadWritten(q) /\ Readable(q)
      <4>1. Unread(rd[q].idx, q)
        <5>1. written[rd[q].idx] = 1 /\ readFlag[rd[q].idx][q] = 0
          BY <3>1 DEF LoadWritten, Readable, ReaderOK
        <5> QED BY <1>2, <5>1 DEF FlagsOK
      <4>2. Dist(rd[q].idx, rd[q].idx) = 0
        BY <1>2, NextIdxDist, ZenonT(30)
      <4> QED BY <2>2, <4>1, <4>2 DEF Unread
    <3>2. CASE ~ (LoadWritten(q) /\ Readable(q))
      <4>1. rd'[q].pc \in {"read", "ack"} => rd[q].pc \in {"read", "ack"}
        <5>1. CASE Load(q)
          BY <5>1 DEF Load
        <5>2. CASE LoadWritten(q)
          BY <3>2, <5>2 DEF QTypeOK, LoadWritten
        <5>3. CASE Wait(q) \/ Wake(q)
          BY <5>3 DEF QTypeOK, Wait, Wake
        <5>4. CASE ~ (Load(q) \/ LoadWritten(q) \/ Wait(q) \/ Wake(q))
          BY <5>4 DEF QTypeOK, Dequeue, LoadReadFlag, Recv, RecvTimeout, Shutdown
        <5> QED BY <5>1, <5>2, <5>3, <5>4
      <4> QED BY <2>2, <4>1 DEF ReaderOK
    <3> QED BY <3>1, <3>2
  <2>5. rd'[q].pc = "ack" => rd'[q].value = Content(taken'[q] + 1)
    <3>1. CASE Load(q)
      <4>0. Dist(rd[q].idx, rd[q].idx) = 0
        BY <1>2, NextIdxDist, ZenonT(30)
      <4>1. Lag(q) > 0 /\ Dist(rd[q].idx, rd[q].idx) = 0
        BY <3>1, <4>0 DEF Load, ReaderOK
      <4>2. data[rd[q].idx] = Content(taken[q] + 0 + 1)
        BY <1>2, <4>1 DEF FlagsOK, Unread
      <4>3. taken[q] + 0 + 1 = taken'[q] + 1
        BY <1>1 DEF QTypeOK
      <4>4. rd'[q].value = data[rd[q].idx]
        BY <3>1 DEF Load, QTypeOK
      <4> QED BY <4>2, <4>3, <4>4
    <3>2. CASE ~ Load(q)
      BY <1>1, <3>2 DEF ReaderOK, QTypeOK, Dequeue, LoadReadFlag, LoadWritten, Wait, Wake,
                        Recv, RecvTimeout, Shutdown
    <3> QED BY <3>1, <3>2
  <2> HIDE DEF RingInv
  <2> QED BY <2>1, <2>3, <2>4, <2>5 DEF ReaderOK, Content
<1> QED BY <1>3, <1>4, <1>5, <1>6, <1>7

\* The chunk that is acknowledged is read, and the reader is one chunk on.
LEMMA AcknowledgeStep ==
  ASSUME RingInv, NEW q \in Reader, Acknowledge(q)
  PROVE  RingInv'
<1> USE QueueAssumption DEF RingInv
<1>1. /\ rd[q] \in [pc : ReaderPc, idx : Slot, flag : {0, 1}, value : Int]
      /\ rd[q].idx \in Slot /\ w.idx \in Slot
      /\ UNCHANGED <<written, data, socket, w, sent>>
      /\ taken'[q] = taken[q] + 1
      /\ rd'[q].idx = NextIdx(rd[q].idx) /\ rd'[q].idx \in Slot
      /\ rd'[q].pc \in {"socket", "idle"}
      /\ \A r \in Reader \ {q} : rd'[r] = rd[r] /\ taken'[r] = taken[r]
  BY NextIdxDist DEF Acknowledge, QTypeOK
<1>2. /\ readFlag'[rd[q].idx][q] = 1
      /\ \A i \in Slot, r \in Reader : i # rd[q].idx \/ r # q => readFlag'[i][r] = readFlag[i][r]
  BY <1>1 DEF Acknowledge, QTypeOK
<1>3. QTypeOK'
  <2>1. rd' \in [Reader -> [pc : ReaderPc, idx : Slot, flag : {0, 1}, value : Int]]
    BY <1>1, ZenonT(30) DEF Acknowledge, QTypeOK, ReaderPc
  <2>2. taken' \in [Reader -> Nat] /\ got' \in [Reader -> Int]
    BY <1>1 DEF Acknowledge, QTypeOK
  <2>3. readFlag' \in [Slot -> [Reader -> {0, 1}]]
    BY <1>1 DEF Acknowledge, QTypeOK
  <2> QED BY <1>1, <2>1, <2>2, <2>3 DEF QTypeOK
<1>4. /\ Lag(q) \in 1 .. MaxChunks /\ Lag(q)' = Lag(q) - 1
      /\ \A r \in Reader \ {q} : Lag(r)' = Lag(r)
  <2>1. Lag(q) \in 0 .. MaxChunks /\ Lag(q) > 0
    BY DEF Acknowledge, ReaderOK, RingOK
  <2>2. /\ Lag(q)' = Lag(q) - 1
        /\ \A r \in Reader \ {q} : Lag(r)' = Lag(r)
    BY <1>1 DEF Acknowledge, Lag, QTypeOK
  <2> QED BY <2>1, <2>2
<1>5. RingOK'
  <2>1. /\ Lag(q)' \in 0 .. MaxChunks
        /\ IF Lag(q)' = MaxChunks THEN rd'[q].idx = w'.idx
           ELSE Dist(rd'[q].idx, w'.idx) = Lag(q)'
    <3>1. CASE Lag(q) = MaxChunks
      BY <1>1, <1>4, <3>1, NextIdxDist DEF RingOK
    <3>2. CASE Lag(q) # MaxChunks
      BY <1>1, <1>4, <3>2, NextIdxDist DEF RingOK
    <3> QED BY <3>1, <3>2
  <2>2. ASSUME NEW r \in Reader, r # q
        PROVE  /\ Lag(r)' \in 0 .. MaxChunks
               /\ IF Lag(r)' = MaxChunks THEN rd'[r].idx = w'.idx
                  ELSE Dist(rd'[r].idx, w'.idx) = Lag(r)'
    BY <1>1, <1>4, <2>2 DEF RingOK
  <2> QED BY <2>1, <2>2 DEF RingOK, Dist
<1>6. FlagsOK'
  <2> SUFFICES ASSUME NEW r \in Reader, NEW i \in Slot
               PROVE  IF Unread(i, r)'
                      THEN /\ written'[i] = 1 /\ readFlag'[i][r] = 0
                           /\ data'[i] = Content(taken'[r] + Dist(rd'[r].idx, i) + 1)
                      ELSE written'[i] = 0 \/ readFlag'[i][r] = 1
    BY DEF FlagsOK, Dist, Content
  <2>1. CASE r # q
    <3>1. Unread(i, r)' <=> Unread(i, r)
      BY <1>1, <1>4, <2>1 DEF Unread, Dist
    <3> QED BY <1>1, <1>2, <2>1, <3>1 DEF FlagsOK
  <2>2. CASE r = q /\ i = rd[q].idx
    <3>1. Dist(rd'[q].idx, i) = MaxChunks - 1
      BY <1>1, <2>2, NextIdxDist
    <3>2. ~ Unread(i, r)'
      BY <1>4, <2>2, <3>1 DEF Unread, Dist
    <3> QED BY <1>2, <2>2, <3>2
  <2>3. CASE r = q /\ i # rd[q].idx
    <3>1. Dist(rd'[q].idx, i) = Dist(rd[q].idx, i) - 1 /\ Dist(rd[q].idx, i) \in Int
      BY <1>1, <2>3, NextIdxDist
    <3>2. Unread(i, r)' <=> Unread(i, r)
      BY <1>4, <2>3, <3>1 DEF Unread, Dist
    <3>3. taken'[q] + Dist(rd'[q].idx, i) + 1 = taken[q] + Dist(rd[q].idx, i) + 1
      BY <1>1, <3>1 DEF QTypeOK
    <3> QED BY <1>1, <1>2, <2>3, <3>2, <3>3 DEF FlagsOK
  <2> QED BY <2>1, <2>2, <2>3
<1>7. WriterOK'
  <2>1. \A r \in Reader : Lag(r)' <= Lag(r) /\ Lag(r) \in Int /\ Lag(r)' \in Int
    <3>1. \A r \in Reader : Lag(r) \in Int
      BY DEF QTypeOK, Lag
    <3> QED BY <1>4, <3>1
  <2>2. w.pc = "reset" => \A r \in Reader \ w.todo : readFlag'[w.idx][r] = 0
    <3>1. w.pc = "reset" => rd[q].idx # w.idx
      <4>1. w.pc = "reset" => Lag(q) < MaxChunks
        BY DEF WriterOK
      <4> QED BY <1>1, <1>4, <4>1, NextIdxDist DEF RingOK
    <3> QED BY <1>1, <1>2, <3>1 DEF WriterOK
  <2>3. w.pc = "sum" => \A r \in w.seen : r \in Reader
    BY DEF QTypeOK
  <2>4. w.pc = "sum" => \A r \in w.seen : Lag(r)' < MaxChunks
    BY <2>1, <2>3 DEF WriterOK
  <2>5. w.pc \in {"clear", "begin", "fill", "reset"} => \A r \in Reader : Lag(r)' < MaxChunks
    BY <2>1 DEF WriterOK
  <2> QED BY <1>1, <2>2, <2>4, <2>5 DEF WriterOK, Content, Lag
<1>8. ReaderOK'
  <2>1. ASSUME NEW r \in Reader, r # q
        PROVE  /\ rd'[r].pc = "written" /\ rd'[r].flag = 0 => readFlag'[rd'[r].idx][r] = 0
               /\ rd'[r].pc \in {"read", "ack"} => Lag(r)' > 0
               /\ rd'[r].pc = "ack" => rd'[r].value = Content(taken'[r] + 1)
    <3>1. rd'[r] = rd[r] /\ rd[r].idx \in Slot
      BY <1>1, <2>1 DEF QTypeOK
    <3> QED BY <1>1, <1>2, <1>4, <2>1, <3>1 DEF ReaderOK
  <2>2. rd'[q].pc \notin {"written", "read", "ack"}
    BY <1>1
  <2> HIDE DEF RingInv
  <2> QED BY <2>1, <2>2 DEF ReaderOK, Content
<1> QED BY <1>3, <1>5, <1>6, <1>7, <1>8

\* Every step of the writer and of the readers keeps the ring's invariant.
LEMMA RingInvStep ==
  ASSUME RingInv, [Next]_vars
  PROVE  RingInv'
<1>1. CASE UNCHANGED vars
  <2> USE <1>1 DEF vars
  <2>1. QTypeOK' /\ RingOK'
    BY DEF RingInv, QTypeOK, RingOK, Lag, Dist
  <2>2. FlagsOK' /\ WriterOK' /\ ReaderOK'
    BY DEF RingInv, FlagsOK, WriterOK, ReaderOK, Lag, Dist, Unread, Content
  <2> QED BY <2>1, <2>2 DEF RingInv
<1>2. CASE Enqueue \/ WriterStep
  BY <1>2, WriterLocalStep, WriterChunkStep, PublishStep DEF WriterStep
<1>3. ASSUME NEW r \in Reader, ReaderStep(r) \/ Shutdown(r) PROVE RingInv'
  BY <1>3, ReaderLocalStep, AcknowledgeStep DEF ReaderStep
<1> QED BY <1>1, <1>2, <1>3 DEF Next

\* The flags of every chunk say exactly what each reader has still to read, and
\* the writer never passes its check while a reader is a whole round behind.
THEOREM RingInvariant == Spec => []RingInv
<1>1. Init => RingInv
  BY InitRingInv
<1>2. RingInv /\ [Next]_vars => RingInv'
  BY RingInvStep
<1> QED BY <1>1, <1>2, PTL DEF Spec

\* acquire_write never hands out a chunk that acquire_read has handed out: their
\* unsynchronized checks of the flags exclude each other.
THEOREM WriterExcludesReaders == Spec => []NoOverlap
<1>1. RingInv => NoOverlap
  <2> SUFFICES ASSUME RingInv, NEW r \in Reader,
                      rd[r].pc \in {"read", "ack"}, rd[r].idx = w.idx,
                      w.pc \in {"clear", "begin", "fill", "reset"}
               PROVE  FALSE
    BY Zenon DEF NoOverlap
  <2>1. Lag(r) > 0 /\ Lag(r) < MaxChunks /\ w.idx \in Slot
    BY DEF RingInv, WriterOK, ReaderOK, QTypeOK
  <2>2. Dist(rd[r].idx, w.idx) = Lag(r) /\ Dist(w.idx, w.idx) = 0
    <3>1. Dist(w.idx, w.idx) = 0
      BY <2>1, NextIdxDist, Zenon
    <3> QED BY <2>1, <3>1, QueueAssumption DEF RingInv, RingOK
  <2> QED BY <2>1, <2>2
<1> QED BY <1>1, RingInvariant, PTL

-----------------------------------------------------------------------------
(* What the readers get *)

\* At first nothing has been sent, so nobody has got anything.
LEMMA InitQueueInv == Init => GotOK /\ SocketOK
<1> SUFFICES ASSUME Init PROVE GotOK /\ SocketOK
  OBVIOUS
<1>1. ASSUME NEW r \in Patient
      PROVE  /\ rd[r].pc = "idle" /\ got[r] = 0 /\ taken[r] = 0 /\ socket[r] = <<>>
             /\ w.pc = "idle" /\ sent = 0
  <2>1. r \in Reader /\ rd[r] = Reader0 /\ w = Writer0
    BY DEF Init, Patient
  <2> QED BY <2>1 DEF Init, Reader0, Writer0
<1> QED BY <1>1, QueueAssumption DEF GotOK, SocketOK, Handed

\* Every step keeps what the readers have got, and what is in their sockets, in
\* line with what they have taken from the ring.
LEMMA QueueInvStep ==
  ASSUME QueueInv, [Next]_vars
  PROVE  (GotOK /\ SocketOK)'
<1> USE QueueAssumption
<1> DEFINE Good(r) ==
             /\ IF rd[r].pc = "socket" THEN taken[r] \in Large /\ got[r] = taken[r] - 1
                ELSE got[r] = taken[r]
             /\ got[r] <= Handed
             /\ \A k \in 1 .. Len(socket[r]) :
                  socket[r][k] \in Large /\ got[r] < socket[r][k] /\ socket[r][k] <= Handed
             /\ \A j, k \in 1 .. Len(socket[r]) : j < k => socket[r][j] < socket[r][k]
             /\ \A m \in Large : got[r] < m /\ m <= Handed =>
                  \E k \in 1 .. Len(socket[r]) : socket[r][k] = m
<1> SUFFICES ASSUME NEW r \in Patient PROVE Good(r)'
  BY DEF GotOK, SocketOK, Handed
<1>0. /\ r \in Reader /\ taken[r] \in Nat /\ got[r] \in Int
      /\ sent \in Nat /\ socket[r] \in Seq(Nat) /\ Large \subseteq Nat
      /\ Handed \in Int
  BY DEF QueueInv, RingInv, QTypeOK, Patient, Handed
<1>1. /\ r \in Reader /\ Good(r) /\ QTypeOK /\ taken[r] \in Nat /\ got[r] \in Int
      /\ sent \in Nat /\ socket[r] \in Seq(Nat) /\ Large \subseteq Nat
      /\ Handed \in Int
  BY <1>0 DEF QueueInv, RingInv, GotOK, SocketOK
<1>a. \A m \in Large : got[r] < m /\ m <= Handed =>
        \E k \in 1 .. Len(socket[r]) : socket[r][k] = m
  BY <1>1
<1>b. \A k \in 1 .. Len(socket[r]) :
        /\ socket[r][k] \in Nat /\ socket[r][k] \in Large
        /\ got[r] < socket[r][k] /\ socket[r][k] <= Handed
  BY <1>1
<1>c. \A j, k \in 1 .. Len(socket[r]) : j < k => socket[r][j] < socket[r][k]
  BY <1>1
<1>d. /\ got[r] <= Handed
      /\ IF rd[r].pc = "socket" THEN taken[r] \in Large /\ got[r] = taken[r] - 1
         ELSE got[r] = taken[r]
  BY <1>1
<1>2. CASE rd'[r] = rd[r] /\ taken'[r] = taken[r] /\ got'[r] = got[r]
           /\ socket'[r] = socket[r] /\ Handed' = Handed
  BY <1>1, <1>2
<1>3. CASE UNCHANGED vars
  BY <1>2, <1>3 DEF vars, Handed
<1>4. CASE Enqueue \/ (\E q \in Reader : SumFlag(q) \/ ResetFlag(q)) \/ CheckWritable
           \/ RetryWrite \/ ClearWritten \/ BeginFill \/ EndFill \/ Notify
  <2>1. UNCHANGED <<rd, taken, got, socket, sent>> /\ w.pc # "send" /\ w'.pc # "send"
    BY <1>1, <1>4, ZenonT(30) DEF QTypeOK, Enqueue, SumFlag, ResetFlag, CheckWritable, RetryWrite,
                      ClearWritten, BeginFill, EndFill, Notify
  <2> QED BY <1>2, <2>1 DEF Handed
<1>5. CASE Publish
  <2>1. /\ UNCHANGED <<rd, taken, got, socket>> /\ Handed = sent
        /\ Handed' = IF sent + 1 \in Large THEN sent ELSE sent + 1
    BY <1>1, <1>5 DEF Publish, Handed, QTypeOK
  <2>2. Handed' >= Handed /\ \A m \in Large : m <= Handed' => m <= Handed
    <3>1. CASE sent + 1 \in Large
      BY <1>0, <2>1, <3>1
    <3>2. CASE sent + 1 \notin Large
      <4>1. ASSUME NEW m \in Large, m <= sent + 1 PROVE m <= sent
        BY <1>0, <3>2, <4>1
      <4> QED BY <1>0, <2>1, <3>2, <4>1
    <3> QED BY <3>1, <3>2
  <2>3. Handed' \in Int
    BY <1>0, <2>1
  <2>4. /\ got[r] <= Handed'
        /\ \A k \in 1 .. Len(socket[r]) : socket[r][k] <= Handed'
    BY <1>0, <1>b, <1>d, <2>2, <2>3
  <2> QED BY <1>a, <1>b, <1>c, <1>d, <2>1, <2>2, <2>4, Zenon
<1>6. CASE SendLarge
  <2>1. /\ UNCHANGED <<rd, taken, got, sent>> /\ Handed = sent - 1 /\ Handed' = sent
        /\ socket'[r] = Append(socket[r], sent) /\ sent \in Large
    BY <1>1, <1>6 DEF SendLarge, Handed, QTypeOK, QueueInv, RingInv, WriterOK
  <2>2. /\ Len(socket'[r]) = Len(socket[r]) + 1
        /\ \A k \in 1 .. Len(socket[r]) : socket'[r][k] = socket[r][k]
        /\ socket'[r][Len(socket[r]) + 1] = sent
    BY <1>0, <2>1
  <2>3. \A k \in 1 .. Len(socket[r]) + 1 : k \in 1 .. Len(socket[r]) \/ k = Len(socket[r]) + 1
    BY <1>0
  <2>4. \A m \in Large : got[r] < m /\ m <= sent =>
          \E k \in 1 .. Len(socket[r]) + 1 : socket'[r][k] = m
    <3>1. SUFFICES ASSUME NEW m \in Large, got[r] < m, m <= sent
                   PROVE  \E k \in 1 .. Len(socket[r]) + 1 : socket'[r][k] = m
      OBVIOUS
    <3>2. CASE m = sent
      BY <1>0, <2>2, <3>2
    <3>3. CASE m # sent
      <4>1. PICK k \in 1 .. Len(socket[r]) : socket[r][k] = m
        <5>1. got[r] < m /\ m <= Handed
          BY <1>0, <2>1, <3>1, <3>3
        <5> QED BY <1>a, <5>1
      <4>2. k \in 1 .. Len(socket[r]) + 1 /\ socket'[r][k] = m
        BY <1>0, <2>2, <4>1
      <4> QED BY <4>2
    <3> QED BY <3>2, <3>3
  <2>5. \A k \in 1 .. Len(socket[r]) : socket[r][k] \in Nat /\ socket[r][k] < sent
    BY <1>0, <1>b, <2>1
  <2>6. got[r] < sent
    BY <1>0, <1>d, <2>1
  <2>7. \A k \in 1 .. Len(socket[r]) + 1 :
          socket'[r][k] \in Large /\ got[r] < socket'[r][k] /\ socket'[r][k] <= sent
    BY <1>0, <1>b, <2>1, <2>2, <2>3, <2>5, <2>6
  <2>8. \A j, k \in 1 .. Len(socket[r]) + 1 : j < k => socket'[r][j] < socket'[r][k]
    <3> SUFFICES ASSUME NEW j \in 1 .. Len(socket[r]) + 1,
                        NEW k \in 1 .. Len(socket[r]) + 1, j < k
                 PROVE  socket'[r][j] < socket'[r][k]
      OBVIOUS
    <3>1. j \in 1 .. Len(socket[r])
      BY <1>0
    <3> QED BY <1>0, <1>c, <2>2, <2>3, <2>5, <3>1, Zenon
  <2>9. /\ got'[r] <= Handed'
        /\ IF rd'[r].pc = "socket" THEN taken'[r] \in Large /\ got'[r] = taken'[r] - 1
           ELSE got'[r] = taken'[r]
    BY <1>0, <1>d, <2>1, <2>6
  <2>10. 1 .. Len(socket'[r]) = 1 .. Len(socket[r]) + 1
    BY <2>2
  <2>11. /\ \A k \in 1 .. Len(socket'[r]) :
              socket'[r][k] \in Large /\ got'[r] < socket'[r][k] /\ socket'[r][k] <= Handed'
         /\ \A j, k \in 1 .. Len(socket'[r]) : j < k => socket'[r][j] < socket'[r][k]
         /\ \A m \in Large : got'[r] < m /\ m <= Handed' =>
              \E k \in 1 .. Len(socket'[r]) : socket'[r][k] = m
    BY <2>1, <2>4, <2>7, <2>8, <2>10, Zenon
  <2> QED BY <2>9, <2>11
<1>7. ASSUME NEW q \in Reader, ReaderStep(q) \/ Shutdown(q), q # r
      PROVE  Good(r)'
  <2>1. /\ rd'[r] = rd[r] /\ taken'[r] = taken[r] /\ got'[r] = got[r]
        /\ socket'[r] = socket[r] /\ w' = w /\ sent' = sent
    <3>1. CASE Acknowledge(q) \/ Recv(q)
      BY <1>1, <1>7, <3>1 DEF Acknowledge, Recv, QTypeOK
    <3>2. CASE ~ (Acknowledge(q) \/ Recv(q))
      BY <1>1, <1>7, <3>2 DEF ReaderStep, Dequeue, LoadReadFlag, LoadWritten, Wait, Wake,
                              Load, RecvTimeout, Shutdown, QTypeOK
    <3> QED BY <3>1, <3>2
  <2> QED BY <1>2, <2>1 DEF Handed
<1>8. CASE Dequeue(r) \/ LoadReadFlag(r) \/ LoadWritten(r) \/ Wait(r) \/ Wake(r) \/ Load(r)
           \/ RecvTimeout(r) \/ Shutdown(r)
  <2>1. /\ taken'[r] = taken[r] /\ got'[r] = got[r]
        /\ socket'[r] = socket[r] /\ w' = w /\ sent' = sent
    BY <1>1, <1>8 DEF Dequeue, LoadReadFlag, LoadWritten, Wait, Wake, Load, RecvTimeout,
                      Shutdown, QTypeOK
  <2>2. rd'[r].pc = "socket" <=> rd[r].pc = "socket"
    BY <1>1, <1>8 DEF Dequeue, LoadReadFlag, LoadWritten, Wait, Wake, Load, RecvTimeout,
                      Shutdown, QTypeOK, Patient
  <2>3. Handed' = Handed
    BY <2>1 DEF Handed
  <2> QED BY <1>1, <2>1, <2>2, <2>3, Zenon
<1>9. CASE Acknowledge(r)
  <2>1. /\ taken'[r] = taken[r] + 1 /\ socket'[r] = socket[r] /\ Handed' = Handed
        /\ rd[r].pc = "ack" /\ rd[r].value = Content(taken[r] + 1) /\ taken[r] + 1 <= sent
        /\ rd'[r].pc = IF rd[r].value = Overflow THEN "socket" ELSE "idle"
        /\ got'[r] = IF rd[r].value = Overflow THEN got[r] ELSE rd[r].value
    BY <1>1, <1>9 DEF Acknowledge, QTypeOK, QueueInv, RingInv, ReaderOK, Lag, Handed
  <2>2. rd[r].value = Overflow <=> taken[r] + 1 \in Large
    BY <1>1, <2>1 DEF Content, Overflow
  <2>3. CASE taken[r] + 1 \in Large
    BY <1>1, <2>1, <2>2, <2>3
  <2>4. CASE taken[r] + 1 \notin Large
    <3>1. got'[r] = got[r] + 1 /\ rd'[r].pc = "idle"
      BY <1>1, <2>1, <2>2, <2>4 DEF Content
    <3>2. got[r] + 1 <= Handed
      BY <1>1, <2>1, <2>4 DEF Handed, QueueInv, RingInv, WriterOK
    <3>3. \A m \in Large : got[r] < m => got[r] + 1 < m
      BY <1>1, <2>1, <2>4
    <3> QED BY <1>1, <2>1, <3>1, <3>2, <3>3
  <2> QED BY <2>3, <2>4
<1>10. CASE Recv(r)
  <2>1. /\ rd[r].pc = "socket" /\ socket[r] # <<>> /\ got'[r] = Head(socket[r])
        /\ socket'[r] = Tail(socket[r]) /\ Handed' = Handed /\ taken'[r] = taken[r]
        /\ rd'[r].pc = "idle"
    BY <1>1, <1>10 DEF Recv, QTypeOK, Handed
  <2>2. /\ 1 \in 1 .. Len(socket[r]) /\ Head(socket[r]) = socket[r][1]
        /\ Len(Tail(socket[r])) = Len(socket[r]) - 1
        /\ \A k \in 1 .. Len(socket[r]) - 1 : Tail(socket[r])[k] = socket[r][k + 1]
        /\ \A k \in 1 .. Len(socket[r]) - 1 : k + 1 \in 1 .. Len(socket[r])
        /\ Len(socket[r]) \in Nat
    BY <1>1, <2>1
  <2>3. Head(socket[r]) = taken[r]
    <3>1. /\ socket[r][1] \in Nat /\ got[r] < socket[r][1] /\ socket[r][1] <= Handed
          /\ taken[r] \in Large /\ got[r] = taken[r] - 1
      BY <1>b, <1>d, <2>1, <2>2
    <3>2. got[r] < taken[r] /\ taken[r] <= Handed
      BY <1>0, <3>1
    <3>3. PICK k \in 1 .. Len(socket[r]) : socket[r][k] = taken[r]
      BY <1>a, <3>1, <3>2
    <3>4. k = 1 \/ socket[r][1] < taken[r]
      BY <1>c, <2>2, <3>3
    <3> QED BY <1>0, <2>2, <3>1, <3>3, <3>4
  <2>4. ASSUME NEW m \in Large, taken[r] < m, m <= Handed
        PROVE  \E k \in 1 .. Len(socket[r]) - 1 : Tail(socket[r])[k] = m
    <3>1. PICK k \in 1 .. Len(socket[r]) : socket[r][k] = m
      <4>1. got[r] < m
        BY <1>0, <1>d, <2>1, <2>4
      <4> QED BY <1>a, <2>4, <4>1
    <3>2. k # 1
      BY <1>0, <2>2, <2>3, <2>4, <3>1
    <3>3. k - 1 \in 1 .. Len(socket[r]) - 1 /\ (k - 1) + 1 = k
      BY <2>2, <3>2
    <3> QED BY <2>2, <3>1, <3>3, Zenon
  <2>5. \A k \in 1 .. Len(socket[r]) - 1 : 1 < k + 1 /\ socket[r][1] < socket[r][k + 1]
    BY <1>c, <2>2
  <2>6. \A j, k \in 1 .. Len(socket[r]) - 1 : j < k => socket[r][j + 1] < socket[r][k + 1]
    BY <1>c, <2>2
  <2> QED BY <1>0, <1>b, <2>1, <2>2, <2>3, <2>4, <2>5, <2>6
<1> HIDE DEF Good
<1>11. CASE \E q \in Reader : ReaderStep(q) \/ Shutdown(q)
  BY <1>7, <1>8, <1>9, <1>10, <1>11 DEF ReaderStep
<1> QED BY <1>3, <1>4, <1>5, <1>6, <1>11 DEF Next, WriterStep

\* For the readers without deadline, what they have got and what is in their
\* sockets follow from what they have taken.
THEOREM QueueInvariant == Spec => []QueueInv
<1>1. Init => QueueInv
  BY InitRingInv, InitQueueInv DEF QueueInv
<1>2. QueueInv /\ [Next]_vars => QueueInv'
  BY RingInvStep, QueueInvStep DEF QueueInv
<1> QED BY <1>1, <1>2, PTL DEF Spec

\* The ring implements the abstract queue: publishing a chunk is Send, returning
\* from dequeue is Deliver, and every other step changes nothing.
LEMMA RefinementStep ==
  ASSUME QueueInv, QueueInv', [Next]_vars
  PROVE  [Queue!QueueNext]_(Queue!queueVars)
<1> USE QueueAssumption
<1> DEFINE G == [r \in Patient |-> got[r]]
<1>1. /\ QTypeOK /\ Patient \subseteq Reader /\ sent \in Nat
      /\ \A r \in Patient : taken[r] \in Nat /\ got[r] \in Int
  BY DEF QueueInv, RingInv, QTypeOK, Patient
<1>2. CASE sent' = sent /\ got' = got
  BY <1>2 DEF Queue!queueVars
<1>3. CASE Publish
  <2>1. sent' = sent + 1 /\ got' = got /\ \A r \in Reader : Lag(r) < MaxChunks
    BY <1>3 DEF Publish, QueueInv, RingInv, WriterOK
  <2>2. ASSUME NEW r \in Patient PROVE sent - G[r] <= MaxChunks
    <3>1. sent - taken[r] < MaxChunks /\ got[r] >= taken[r] - 1
      BY <1>1, <2>1 DEF Lag, QueueInv, GotOK
    <3> QED BY <1>1, <3>1
  <2> QED BY <2>1, <2>2 DEF Queue!QueueNext, Queue!Send
<1>4. ASSUME NEW r \in Reader, r \in Deadline, Acknowledge(r) \/ Recv(r)
      PROVE  UNCHANGED Queue!queueVars
  <2>1. sent' = sent /\ \A q \in Patient : got'[q] = got[q]
    BY <1>1, <1>4 DEF Acknowledge, Recv, Patient, QTypeOK
  <2> QED BY <2>1 DEF Queue!queueVars
<1>5. ASSUME NEW r \in Patient, Acknowledge(r) \/ Recv(r)
      PROVE  [Queue!QueueNext]_(Queue!queueVars)
  <2>1. /\ sent' = sent /\ \A q \in Patient \ {r} : got'[q] = got[q]
        /\ got'[r] \in Int
    BY <1>1, <1>5, Zenon DEF Acknowledge, Recv, QTypeOK, QueueInv, RingInv
  <2>2. CASE got'[r] = got[r]
    BY <2>1, <2>2 DEF Queue!queueVars
  <2>3. CASE got'[r] # got[r]
    <3>1. got'[r] = got[r] + 1 /\ got'[r] <= sent
      <4>0. got'[r] <= sent'
        <5>1. got'[r] <= Handed' /\ sent' \in Nat
          BY DEF QueueInv, SocketOK, RingInv, QTypeOK
        <5>2. CASE w'.pc = "send"
          BY <2>1, <5>1, <5>2 DEF Handed
        <5>3. CASE w'.pc # "send"
          BY <5>1, <5>3 DEF Handed
        <5> QED BY <5>2, <5>3
      <4>1. /\ Acknowledge(r) => /\ rd[r].pc # "socket" /\ taken'[r] = taken[r] + 1
                                 /\ rd'[r].pc = "idle" \/ rd'[r].pc = "socket"
            /\ Recv(r) => rd[r].pc = "socket" /\ taken'[r] = taken[r] /\ rd'[r].pc = "idle"
        <5>1. rd[r] \in [pc : ReaderPc, idx : Slot, flag : {0, 1}, value : Int] /\ r \in Reader
          BY <1>1 DEF QTypeOK
        <5>2. rd \in [Reader -> [pc : ReaderPc, idx : Slot, flag : {0, 1}, value : Int]]
              /\ taken \in [Reader -> Nat]
          BY <1>1 DEF QTypeOK
        <5>3. ASSUME Acknowledge(r)
              PROVE  /\ rd[r].pc # "socket" /\ taken'[r] = taken[r] + 1
                     /\ rd'[r].pc = "idle" \/ rd'[r].pc = "socket"
          BY <5>1, <5>2, <5>3 DEF Acknowledge
        <5>4. ASSUME Recv(r)
              PROVE  rd[r].pc = "socket" /\ taken'[r] = taken[r] /\ rd'[r].pc = "idle"
          BY <5>1, <5>2, <5>4 DEF Recv
        <5> QED BY <1>5, <5>3, <5>4
      <4>2. /\ got[r] = IF rd[r].pc = "socket" THEN taken[r] - 1 ELSE taken[r]
            /\ got'[r] = IF rd'[r].pc = "socket" THEN taken'[r] - 1 ELSE taken'[r]
        BY DEF QueueInv, GotOK
      <4> QED BY <1>1, <1>5, <2>1, <2>3, <4>0, <4>1, <4>2
    <3>2. Queue!Deliver(r)
      <4>1. G[r] < sent
        BY <1>1, <3>1
      <4>2. G' = [G EXCEPT ![r] = @ + 1]
        BY <2>1, <3>1, Zenon
      <4> QED BY <2>1, <4>1, <4>2 DEF Queue!Deliver
    <3> QED BY <3>2 DEF Queue!QueueNext
  <2> QED BY <2>2, <2>3
<1>6. CASE UNCHANGED vars \/ Enqueue \/ (WriterStep /\ ~ Publish)
  BY <1>2, <1>6, Zenon DEF vars, Enqueue, WriterStep, SumFlag, ResetFlag, CheckWritable,
                    RetryWrite, ClearWritten, BeginFill, EndFill, SendLarge, Notify
<1>7. ASSUME NEW r \in Reader, ReaderStep(r) \/ Shutdown(r)
      PROVE  [Queue!QueueNext]_(Queue!queueVars)
  <2>1. CASE Acknowledge(r) \/ Recv(r)
    BY <1>4, <1>5, <2>1 DEF Patient
  <2>2. CASE ~ (Acknowledge(r) \/ Recv(r))
    BY <1>2, <1>7, <2>2 DEF ReaderStep, Dequeue, LoadReadFlag, LoadWritten, Wait, Wake,
                            Load, RecvTimeout, Shutdown
  <2> QED BY <2>1, <2>2
<1> QED BY <1>3, <1>6, <1>7 DEF Next

\* MessageQueue implements BroadcastQueue for every reader without deadline, with
\* any number of chunks and readers, and whatever messages are too large.
THEOREM ImplementsBroadcastQueue == Spec => IsBroadcastQueue
<1>1. Init => Queue!QueueInit
  BY DEF Init, Queue!QueueInit, Patient
<1>2. QueueInv /\ QueueInv' /\ [Next]_vars => [Queue!QueueNext]_(Queue!queueVars)
  BY RefinementStep
<1> QED BY <1>1, <1>2, QueueInvariant, PTL DEF Spec, IsBroadcastQueue, Queue!QueueSpec

=============================================================================
