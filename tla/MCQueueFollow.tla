---------------------------- MODULE MCQueueFollow ----------------------------
(* A small instance of QueueFollow.                                         *)
EXTENDS QueueFollow

CONSTANTS r1, r2, r3, s1, s2

\* A session of three robots, and one of two of them in the other order.
Queues == [s \in {s1, s2} |-> IF s = s1 THEN <<r1, r2, r3>> ELSE <<r2, r1>>]
===============================================================================
