----------------------------- MODULE MessageQueue -----------------------------
(***************************************************************************)
(* MessageQueue and ShmRingBuffer (vllm/distributed/device_communicators/  *)
(* shm_broadcast.py): one writer and several local readers over a ring of  *)
(* chunks in shared memory, without locks.  Each chunk has a written flag  *)
(* and a read flag for each reader.                                        *)
(*                                                                         *)
(* A message is its position in the order of enqueue; those in Large do    *)
(* not fit in a chunk and go through the writer's socket.  Every access to *)
(* a flag is a step of its own.  memory_fence() orders the accesses around *)
(* it; the writer's stores between two fences become visible in program    *)
(* order, as on x86.  The sockets are external: reliable and in order for  *)
(* large messages, while a notification may be lost.                       *)
(***************************************************************************)
EXTENDS Integers, Sequences

CONSTANTS Reader,     \* local readers
          MaxChunks,  \* chunks in the ring
          Large,      \* messages that do not fit in a chunk
          Deadline,   \* readers that call dequeue with a timeout
          MaxSent     \* bound: messages enqueued

ASSUME QueueAssumption == /\ MaxChunks \in Nat \ {0}
                          /\ MaxSent \in Nat
                          /\ Large \subseteq Nat
                          /\ Deadline \subseteq Reader

VARIABLES written,    \* metadata_buffer[0] of each chunk
          readFlag,   \* metadata_buffer[1 + rank] of each chunk
          data,       \* what each chunk holds
          socket,     \* local_socket of each reader, messages not yet received
          ping,       \* local_notify_socket of each reader holds a notification
          stopping,   \* shutting_down of each reader
          w,          \* the writer's locals
          rd,         \* each reader's locals
          sent,       \* messages published
          taken,      \* chunks each reader has marked as read
          got         \* the last message dequeue returned to each reader

vars == <<written, readFlag, data, socket, ping, stopping, w, rd, sent, taken, got>>

Slot == 0 .. MaxChunks - 1

\* Contents of a chunk that is being written, and of one that only says that
\* the message is in the socket.
Torn == -1
Overflow == 0

\* pc is where acquire_write and enqueue are, idx current_idx, todo the readers
\* whose flag is still to be read or reset, seen those whose flag was set.
Writer0 == [pc |-> "idle", idx |-> 0, todo |-> {}, seen |-> {}]

\* pc is where dequeue is, idx current_idx, flag the read flag as last loaded,
\* value what was loaded from the chunk.
Reader0 == [pc |-> "idle", idx |-> 0, flag |-> 0, value |-> Torn]

Init == /\ written = [i \in Slot |-> 0]
        /\ readFlag = [i \in Slot |-> [r \in Reader |-> 0]]
        /\ data = [i \in Slot |-> Torn]
        /\ socket = [r \in Reader |-> <<>>]
        /\ ping = [r \in Reader |-> 0]
        /\ stopping = [r \in Reader |-> 0]
        /\ w = Writer0
        /\ rd = [r \in Reader |-> Reader0]
        /\ sent = 0
        /\ taken = [r \in Reader |-> 0]
        /\ got = [r \in Reader |-> 0]

\* (current_idx + 1) % max_chunks
NextIdx(i) == IF i + 1 = MaxChunks THEN 0 ELSE i + 1

-----------------------------------------------------------------------------
(* The writer: enqueue and acquire_write *)

Enqueue == /\ w.pc = "idle" /\ sent < MaxSent
           /\ w' = [w EXCEPT !.pc = "sum", !.todo = Reader, !.seen = {}]
           /\ UNCHANGED <<written, readFlag, data, socket, ping, stopping, rd, sent,
                          taken, got>>

\* sum(metadata_buffer[1:]), one flag at a time
SumFlag(r) ==
  /\ w.pc = "sum" /\ r \in w.todo
  /\ w' = [w EXCEPT !.todo = @ \ {r},
                    !.seen = IF readFlag[w.idx][r] = 1 THEN @ \cup {r} ELSE @]
  /\ UNCHANGED <<written, readFlag, data, socket, ping, stopping, rd, sent, taken, got>>

\* Faulty variant of Blocked: a reader that has not read does not count.
BlockedUnlessRead == written[w.idx] = 1 /\ w.seen = {}

\* not check(): the chunk is written and not read by all.
Blocked == written[w.idx] = 1 /\ w.seen # Reader

CheckWritable ==
  /\ w.pc = "sum" /\ w.todo = {}
  /\ w' = [w EXCEPT !.pc = IF Blocked THEN "blocked" ELSE "clear"]
  /\ UNCHANGED <<written, readFlag, data, socket, ping, stopping, rd, sent, taken, got>>

\* The loop of acquire_write, which raises TimeoutError after its timeout.
RetryWrite ==
  /\ w.pc = "blocked"
  /\ \/ w' = [w EXCEPT !.pc = "sum", !.todo = Reader, !.seen = {}]
     \/ w' = [w EXCEPT !.pc = "idle"]
  /\ UNCHANGED <<written, readFlag, data, socket, ping, stopping, rd, sent, taken, got>>

ClearWritten ==
  /\ w.pc = "clear"
  /\ written' = [written EXCEPT ![w.idx] = 0]
  /\ w' = [w EXCEPT !.pc = "begin"]
  /\ UNCHANGED <<readFlag, data, socket, ping, stopping, rd, sent, taken, got>>

BeginFill ==
  /\ w.pc = "begin"
  /\ data' = [data EXCEPT ![w.idx] = Torn]
  /\ w' = [w EXCEPT !.pc = "fill"]
  /\ UNCHANGED <<written, readFlag, socket, ping, stopping, rd, sent, taken, got>>

EndFill ==
  /\ w.pc = "fill"
  /\ data' = [data EXCEPT ![w.idx] = IF sent + 1 \in Large THEN Overflow ELSE sent + 1]
  /\ w' = [w EXCEPT !.pc = "reset", !.todo = Reader]
  /\ UNCHANGED <<written, readFlag, socket, ping, stopping, rd, sent, taken, got>>

\* Faulty variant of ResetFlag: the chunk is marked as written first.
ResetFlagLate(r) ==
  /\ w.pc = "reset" /\ r \in w.todo
  /\ readFlag' = [readFlag EXCEPT ![w.idx][r] = 0]
  /\ written' = [written EXCEPT ![w.idx] = 1]
  /\ w' = [w EXCEPT !.todo = @ \ {r}]
  /\ UNCHANGED <<data, socket, ping, stopping, rd, sent, taken, got>>

ResetFlag(r) ==
  /\ w.pc = "reset" /\ r \in w.todo
  /\ readFlag' = [readFlag EXCEPT ![w.idx][r] = 0]
  /\ w' = [w EXCEPT !.todo = @ \ {r}]
  /\ UNCHANGED <<written, data, socket, ping, stopping, rd, sent, taken, got>>

\* The written flag is set between two fences.
Publish ==
  /\ w.pc = "reset" /\ w.todo = {}
  /\ written' = [written EXCEPT ![w.idx] = 1]
  /\ sent' = sent + 1
  /\ w' = [w EXCEPT !.pc = IF sent + 1 \in Large THEN "send" ELSE "notify",
                    !.idx = NextIdx(@)]
  /\ UNCHANGED <<readFlag, data, socket, ping, stopping, rd, taken, got>>

\* local_socket.send_multipart, after the chunk has been published
SendLarge ==
  /\ w.pc = "send"
  /\ socket' = [r \in Reader |-> Append(socket[r], sent)]
  /\ w' = [w EXCEPT !.pc = "notify"]
  /\ UNCHANGED <<written, readFlag, data, ping, stopping, rd, sent, taken, got>>

\* SpinCondition.notify: the socket keeps one notification and may drop it.
Notify ==
  /\ w.pc = "notify"
  /\ \E told \in SUBSET Reader :
       ping' = [r \in Reader |-> IF r \in told THEN 1 ELSE ping[r]]
  /\ w' = [w EXCEPT !.pc = "idle"]
  /\ UNCHANGED <<written, readFlag, data, socket, stopping, rd, sent, taken, got>>

WriterStep == \/ \E r \in Reader : SumFlag(r) \/ ResetFlag(r)
              \/ CheckWritable \/ RetryWrite \/ ClearWritten \/ BeginFill \/ EndFill
              \/ Publish \/ SendLarge \/ Notify

-----------------------------------------------------------------------------
(* A reader: dequeue, acquire_read, _wait_until_readable, SpinCondition.wait *)

Dequeue(r) ==
  /\ rd[r].pc = "idle"
  /\ rd' = [rd EXCEPT ![r].pc = "flag"]
  /\ UNCHANGED <<written, readFlag, data, socket, ping, stopping, w, sent, taken, got>>

LoadReadFlag(r) ==
  /\ rd[r].pc = "flag"
  /\ rd' = [rd EXCEPT ![r].pc = "written", ![r].flag = readFlag[rd[r].idx][r]]
  /\ UNCHANGED <<written, readFlag, data, socket, ping, stopping, w, sent, taken, got>>

\* check_readable(), with the read flag that was loaded before
Readable(r) == written[rd[r].idx] = 1 /\ rd[r].flag = 0

LoadWritten(r) ==
  /\ rd[r].pc = "written"
  /\ rd' = [rd EXCEPT ![r].pc = IF Readable(r) THEN "read" ELSE "wait"]
  /\ UNCHANGED <<written, readFlag, data, socket, ping, stopping, w, sent, taken, got>>

\* A reader that has read lately tries again at once; timeout_ms() raises
\* TimeoutError past the deadline; otherwise the reader waits for an event.
Wait(r) ==
  /\ rd[r].pc = "wait"
  /\ \/ rd' = [rd EXCEPT ![r].pc = IF stopping[r] = 1 THEN "cancelled" ELSE "flag"]
     \/ rd' = [rd EXCEPT ![r].pc = "parked"]
     \/ r \in Deadline /\ rd' = [rd EXCEPT ![r].pc = "idle"]
  /\ UNCHANGED <<written, readFlag, data, socket, ping, stopping, w, sent, taken, got>>

\* Faulty variant of Rechecks: an idle reader waits until it is notified.
NeverRechecks == FALSE

\* An idle reader looks again after SHM_READER_RECHECK_INTERVAL_MS.
Rechecks == TRUE

Wake(r) ==
  /\ rd[r].pc = "parked"
  /\ Rechecks \/ ping[r] = 1 \/ stopping[r] = 1
  /\ ping' = [ping EXCEPT ![r] = 0]
  /\ rd' = [rd EXCEPT ![r].pc = IF stopping[r] = 1 THEN "cancelled" ELSE "flag"]
  /\ UNCHANGED <<written, readFlag, data, socket, stopping, w, sent, taken, got>>

Load(r) ==
  /\ rd[r].pc = "read"
  /\ rd' = [rd EXCEPT ![r].pc = "ack", ![r].value = data[rd[r].idx]]
  /\ UNCHANGED <<written, readFlag, data, socket, ping, stopping, w, sent, taken, got>>

\* The read flag is set and the reader goes on; dequeue returns unless the
\* message is in the socket.
Acknowledge(r) ==
  /\ rd[r].pc = "ack"
  /\ readFlag' = [readFlag EXCEPT ![rd[r].idx][r] = 1]
  /\ taken' = [taken EXCEPT ![r] = @ + 1]
  /\ rd' = [rd EXCEPT ![r].pc = IF rd[r].value = Overflow THEN "socket" ELSE "idle",
                      ![r].idx = NextIdx(@)]
  /\ got' = [got EXCEPT ![r] = IF rd[r].value = Overflow THEN @ ELSE rd[r].value]
  /\ UNCHANGED <<written, data, socket, ping, stopping, w, sent>>

Recv(r) ==
  /\ rd[r].pc = "socket" /\ socket[r] # <<>>
  /\ got' = [got EXCEPT ![r] = Head(socket[r])]
  /\ socket' = [socket EXCEPT ![r] = Tail(@)]
  /\ rd' = [rd EXCEPT ![r].pc = "idle"]
  /\ UNCHANGED <<written, readFlag, data, ping, stopping, w, sent, taken>>

\* recv raises TimeoutError: the chunk is read, the message stays in the socket.
RecvTimeout(r) ==
  /\ rd[r].pc = "socket" /\ r \in Deadline /\ socket[r] = <<>>
  /\ rd' = [rd EXCEPT ![r].pc = "idle"]
  /\ UNCHANGED <<written, readFlag, data, socket, ping, stopping, w, sent, taken, got>>

ReaderStep(r) == \/ Dequeue(r) \/ LoadReadFlag(r) \/ LoadWritten(r) \/ Wait(r)
                 \/ Wake(r) \/ Load(r) \/ Acknowledge(r) \/ Recv(r) \/ RecvTimeout(r)

\* shutdown() by another thread of the reader's process
Shutdown(r) ==
  /\ stopping[r] = 0
  /\ stopping' = [stopping EXCEPT ![r] = 1]
  /\ UNCHANGED <<written, readFlag, data, socket, ping, w, rd, sent, taken, got>>

Next == \/ Enqueue
        \/ WriterStep
        \/ \E r \in Reader : ReaderStep(r) \/ Shutdown(r)

Spec == Init /\ [][Next]_vars

-----------------------------------------------------------------------------
\* Every process keeps running; whether it enqueues is the caller's choice.
FairSpec == /\ Spec
            /\ WF_vars(WriterStep)
            /\ \A r \in Reader : WF_vars(ReaderStep(r))

-----------------------------------------------------------------------------
\* A chunk is never written while a reader reads it: between the checks of the
\* flags and the accesses to the chunk nothing can change that makes them wrong.
NoOverlap ==
  \A r \in Reader :
    ~ /\ rd[r].pc \in {"read", "ack"} /\ rd[r].idx = w.idx
      /\ w.pc \in {"clear", "begin", "fill", "reset"}

Patient == Reader \ Deadline

Queue == INSTANCE BroadcastQueue
           WITH Receiver <- Patient, Capacity <- MaxChunks,
                got <- [r \in Patient |-> got[r]]

\* For the readers that wait without a deadline the ring is the queue it
\* promises to be: all messages, whole, in order and once, whatever their size,
\* and whatever the other readers do.
IsBroadcastQueue == Queue!QueueSpec

\* A message that is published reaches every reader that waits without deadline
\* unless the reader is shut down, although notifications may be lost.
EveryMessageArrives ==
  \A r \in Patient, i \in 1 .. MaxSent :
    sent >= i ~> (got[r] >= i \/ stopping[r] = 1)
=============================================================================
