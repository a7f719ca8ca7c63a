---------------------------- MODULE BroadcastQueue ----------------------------
(***************************************************************************)
(* What a MessageQueue (vllm/distributed/device_communicators/             *)
(* shm_broadcast.py) promises to a reader that waits without a deadline:   *)
(* "a queue where only one will `enqueue` and multiple will `dequeue`".    *)
(* Message i is the i-th that was enqueued; every reader gets them all, in *)
(* order and once, and a reader that does not read stops the writer.       *)
(***************************************************************************)
EXTENDS Integers

CONSTANTS Receiver,   \* the readers the promise is made to
          Capacity    \* max_chunks

VARIABLES sent,       \* number of messages enqueued
          got         \* the last message each reader got

queueVars == <<sent, got>>

QueueInit == sent = 0 /\ got = [r \in Receiver |-> 0]

\* A reader may have taken the message it is at out of the ring.
Send == /\ \A r \in Receiver : sent - got[r] <= Capacity
        /\ sent' = sent + 1
        /\ UNCHANGED got

Deliver(r) == /\ got[r] < sent
              /\ got' = [got EXCEPT ![r] = @ + 1]
              /\ UNCHANGED sent

QueueNext == Send \/ \E r \in Receiver : Deliver(r)

QueueSpec == QueueInit /\ [][QueueNext]_queueVars
=============================================================================
