------------------------------ MODULE MCCmdVel ------------------------------
(* Small instances of CmdVel: model values for callers and motions.         *)
EXTENDS CmdVel, TLC

CONSTANT Closers   \* the callers of the liveness run that call close()

Symmetry == Permutations(Callers) \cup Permutations(Motions)

(* The liveness run has one thread that closes, the shutdown handler, and the *)
(* odometry callbacks that meet its close(): one that gives the lock back     *)
(* before has changed nothing.                                                *)
ProgressNext ==
    /\ \/ \E c \in Callers : BeginCall(c) \/ ContinueCall(c)
       \/ \E m \in Motions : MotionStep(m)
       \/ OnOdom /\ \E c \in Closers : pc[c] = "close_lock"
    /\ \A c \in Callers \ Closers : pc'[c] \notin {"close_join", "close_lock"}

ProgressSpec == Init /\ [][ProgressNext]_vars /\ Fairness
=============================================================================
