----------------------------- MODULE RobotLease ------------------------------
(***************************************************************************)
(* What the patrol service promises about who drives: a robot code is held  *)
(* by at most one patrol run at a time, a run holds one code, it gets it    *)
(* once, and the goals the bridge gets are those of runs that hold a code.  *)
(* It does not promise that the chassis behind the bridge is the robot of   *)
(* the code: holders of different codes may send it goals in turn.          *)
(***************************************************************************)
CONSTANTS Robots, Runs, None

VARIABLES leases,  \* pairs of a robot code and the run that holds it
          spent,   \* runs that have had their lease
          goal     \* the run that sent the bridge its last goal

leaseVars == <<leases, spent, goal>>

Init == /\ leases = {}
        /\ spent = {}
        /\ goal = None

Acquire(r, w) ==
    /\ w \notin spent
    /\ \A lease \in leases : lease[1] # r
    /\ leases' = leases \cup {<<r, w>>}
    /\ spent' = spent \cup {w}
    /\ UNCHANGED goal

Drive(r, w) ==
    /\ <<r, w>> \in leases
    /\ goal' = w
    /\ UNCHANGED <<leases, spent>>

Release(r, w) ==
    /\ <<r, w>> \in leases
    /\ leases' = leases \ {<<r, w>>}
    /\ UNCHANGED <<spent, goal>>

\* The process that keeps the leases restarts.  The chassis keeps its goal.
Crash == /\ leases' = {}
         /\ UNCHANGED <<spent, goal>>

Next == \/ \E r \in Robots, w \in Runs : Acquire(r, w) \/ Drive(r, w) \/ Release(r, w)
        \/ Crash

Spec == Init /\ [][Next]_leaseVars
===============================================================================
