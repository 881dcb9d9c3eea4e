------------------------------ MODULE MCLlmTasks ------------------------------
(* A small instance of LlmTasks: two robots, one of which has a second      *)
(* spelling, and the sentences that take the planner through its rules.     *)
EXTENDS LlmTasks, TLC

CONSTANTS x1, x2

Spellings == <<"robot1", "robot_001", "robot_002">>
NormalForm == [c \in {"robot1", "robot_001", "robot_002"} |->
                  IF c = "robot1" THEN "robot_001" ELSE c]

\* Clauses and sentences.
Said(moves, stops, codes, all, ticks, turn) ==
    [moves |-> moves, stops |-> stops, codes |-> codes, all |-> all,
     ticks |-> ticks, turn |-> turn, word |-> 0]
Sentence(clauses, topics) ==
    [clauses |-> clauses, topics |-> topics, ref |-> "unset", same |-> FALSE, generic |-> FALSE]
Ask(text, codes) == [text |-> text, codes |-> codes, llm |-> FALSE, auto |-> FALSE]
Raw(tool, robots, action) ==
    [tool |-> tool, robots |-> robots, action |-> action, ticks |-> 0, ref |-> "unset",
     object |-> FALSE]
ByRule(req) == [req |-> req, raws |-> <<>>]
ByModel(text, raws) == [req |-> [Ask(text, <<"robot_001">>) EXCEPT !.llm = TRUE], raws |-> raws]

Silent == Sentence(<<Said({}, {}, <<>>, FALSE, 0, FALSE)>>, {})

\* "robot1 forward 2 s, then robot_002 left, then turn right"
Compound == Sentence(<<Said({"forward"}, {}, <<"robot1">>, FALSE, 40, FALSE),
                       Said({"left"}, {}, <<"robot_002">>, FALSE, 0, FALSE),
                       Said({"rotate_right"}, {}, <<>>, FALSE, 0, FALSE)>>, {})
\* "all robots forward, then backward, then stop"
Together == Sentence(<<Said({"forward"}, {}, <<>>, TRUE, 0, FALSE),
                       Said({"backward"}, {}, <<>>, FALSE, 0, FALSE),
                       Said({}, {"stop"}, <<>>, FALSE, 0, FALSE)>>, {})
\* "stop, do not go forward"
Halting == Sentence(<<Said({"forward"}, {"stop"}, <<>>, FALSE, 0, FALSE)>>, {})
\* "turn round once, then backward"
Turning == Sentence(<<Said({"rotate_left"}, {}, <<>>, FALSE, 0, TRUE),
                      Said({"backward"}, {}, <<>>, FALSE, 0, FALSE)>>, {})

Hazard == Sentence(<<Said({}, {}, <<>>, FALSE, 0, FALSE)>>, {"hazard"})
Formation == Sentence(<<Said({}, {}, <<>>, FALSE, 0, FALSE)>>, {"formation"})
PatrolNamed == [Sentence(<<Said({}, {}, <<>>, FALSE, 0, FALSE)>>, {"patrol", "start_patrol"})
                   EXCEPT !.ref = "night"]
PatrolUnclear == [PatrolNamed EXCEPT !.ref = "tour"]
\* "the same as above", "is it ready", "escort it back"
Again == [Silent EXCEPT !.same = TRUE]
Search == [Silent EXCEPT !.topics = {"search"}]
Corridors == [Silent EXCEPT !.topics = {"corridor", "yield"}]
Status == [Silent EXCEPT !.topics = {"status"}]
Escort == [Silent EXCEPT !.topics = {"escort", "status"}]
Drive == [Silent EXCEPT !.generic = TRUE]

FirstRequests ==
    {ByRule(Ask(t, <<"robot_001">>)) :
        t \in {Compound, Halting, Hazard, PatrolNamed, PatrolUnclear, Silent,
              Again, Status, Escort, Search, Corridors}}
    \cup {ByRule(Ask(Together, <<"robot_001", "robot_002">>)),
          ByRule(Ask(Turning, <<"robot_001">>)),
          ByRule(Ask(Formation, <<"robot1", "robot_002">>)),
          ByRule([Ask(Silent, <<>>) EXCEPT !.auto = TRUE]),
          ByRule([Ask(Compound, <<>>) EXCEPT !.auto = TRUE]),
          ByModel(Drive, <<Raw("fleet.readiness", <<"robot_001">>, "none"),
                           Raw("fleet.motion", <<>>, "none"),
                           Raw("fleet.safety_stop", <<>>, "none")>>),
          ByModel(Silent, <<Raw("chassis.velocity", <<"robot_001">>, "none"),
                            Raw("fleet.nudge_forward", <<"robot_001">>, "none"),
                            Raw("fleet.plate_verify", <<"robot_001">>, "none"),
                            Raw("fleet.motion", <<"robot_001">>, "left")>>)}

SecondRequests == {ByRule(Ask(Halting, <<"robot_001">>))}

TwoRequests == <<FirstRequests, SecondRequests>>

TwoFleets == {[online |-> {"robot_001", "robot_002"}, ready |-> {"robot_002"}],
              [online |-> {}, ready |-> {}]}

SomeTasks == <<[code |-> "p1", whole |-> {"night"}, part |-> {"night", "tour"}],
               [code |-> "p2", whole |-> {}, part |-> {"night", "tour"}]>>

\* All sentences of two clauses over two actions, both kinds of stop words
\* and two robots.
TwoClauses ==
    LET clauses == {Said(m, w, c, FALSE, 0, FALSE) :
                       m \in {{}, {"forward"}, {"forward", "left"}}, w \in SUBSET StopWords,
                       c \in {<<>>, <<"robot_002", "robot1">>}}
    IN {Sentence(<<c1, c2>>, {}) : c1 \in clauses, c2 \in clauses}

Symmetry == Permutations(Threads)
===============================================================================
