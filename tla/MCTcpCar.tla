------------------------------- MODULE MCTcpCar -------------------------------
(* A small instance of TcpCar: two connections, and frames that take the    *)
(* lights, the motion, the sound and the tracker through their handlers.    *)
EXTENDS TcpCar, TLC

CONSTANTS c1, c2

Framed(cmd, data) ==
    LET size == 2 * Len(data) + 2
    IN [wrapped |-> TRUE, type |-> 1, cmd |-> cmd, size |-> size, data |-> data,
        sum |-> Sum(<<1, cmd, size>> \o data) % 256]

\* Stop, left, an unknown direction; a vector, wheels; four effects, two of
\* which are refused; show, no show; a sound; tracking.
FewFrames ==
    {Framed(21, <<0>>), Framed(21, <<3>>), Framed(21, <<9>>), Framed(16, <<50, 200>>),
     Framed(48, <<1>>), Framed(48, <<6>>), Framed(48, <<9>>),
     Framed(49, <<>>), Framed(50, <<>>), Framed(51, <<1, 60>>), Framed(99, <<>>), Framed(100, <<>>),
     [Framed(21, <<1>>) EXCEPT !.sum = @ + 1]}

\* Nothing ahead, an obstacle beside, near, neither near nor far, too near.
FewScans == {{[at |-> 2, angle |-> 90]}, {[at |-> 3, angle |-> 10], [at |-> 9, angle |-> 0]},
             {[at |-> 6, angle |-> -30], [at |-> 0, angle |-> 5]}}

ThreeFramesOrScans ==
    {[frames |-> 3, scans |-> 0, close |-> FALSE], [frames |-> 2, scans |-> 0, close |-> TRUE],
     [frames |-> 1, scans |-> 4, close |-> FALSE], [frames |-> 0, scans |-> 7, close |-> FALSE]}

OneScene == <<2>>

Symmetry == Permutations(Conns)
===============================================================================
