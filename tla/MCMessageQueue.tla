---------------------------- MODULE MCMessageQueue ----------------------------
(* MessageQueue for TLC: the ring wraps, and large messages follow small ones. *)
EXTENDS MessageQueue

CONSTANTS r1, r2

MCReader == {r1, r2}
MCDeadline == {r2}
MCLarge == {1, 2}
=============================================================================
