------------------------------- MODULE MCPatrol -------------------------------
(* Small instances of Patrol.                                               *)
EXTENDS Patrol, TLC

CONSTANTS t1, t2

\* Two tasks of one goal each.
ShortRoutes == [t \in {t1, t2} |-> 1]

\* One task of two goals.
OneRoute == [t \in {t1} |-> 2]

\* With equal routes, tasks and robots are interchangeable as well.
Symmetry == UNION {Permutations(Runs), Permutations(Callers),
                   Permutations(Tasks), Permutations(Robots)}
===============================================================================
