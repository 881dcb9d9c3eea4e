------------------------------ MODULE LlmPlanner ------------------------------
(***************************************************************************)
(* How a sentence becomes a plan: the planner of                            *)
(* backend/apps/web_api/services/llm_task_service.py.                       *)
(*                                                                          *)
(* Nothing here has a state.  A sentence is what the planner looks for in   *)
(* it: its clauses in order, the topics its keywords name, the patrol task  *)
(* it refers to.  A clause is the action words, stop words and robot codes  *)
(* that occur in it and the time it asks for.  A request is a sentence, the *)
(* robot codes the application sends along and two flags.  The answer of    *)
(* the language model is any sequence of raw steps.                         *)
(*                                                                          *)
(* Times are multiples of 50 milliseconds.  Codes are the spellings of a    *)
(* robot's code ("robot1", "robot_001"); Canonical is _normalize_robot_code.*)
(***************************************************************************)
EXTENDS Naturals, SequencesExt

CONSTANTS CodeOrder,    \* the spellings of the codes, in the order of strings
          Canonical,    \* the normal form of each
          DefaultRobot, \* "robot_001"
          TaskRefs,     \* the words a patrol task can be called by
          Unset         \* an argument that is missing

Codes == ToSet(CodeOrder)

ASSUME PlannerAssumption ==
    /\ CodeOrder \in Seq(Codes)
    /\ Canonical \in [Codes -> Codes]
    /\ \A c \in Codes : Canonical[Canonical[c]] = Canonical[c]
    /\ DefaultRobot \in Codes /\ Canonical[DefaultRobot] = DefaultRobot
    /\ Unset \notin TaskRefs \cup {"none"}

-----------------------------------------------------------------------------
(* The tools a step may name, and what each of them needs.                  *)

Queries == {"fleet.summary", "fleet.list_robots", "fleet.readiness"}

\* Tools that call the robots' ROS bridges.
DirectRosTools == {"fleet.motion", "fleet.nudge_forward", "fleet.safety_stop"}

\* Tools that send MQTT commands to the robots' agents.
DownlinkTools == {"fleet.rescue_approach", "fleet.rescue_search", "fleet.corridor_crawl",
                  "fleet.corridor_yield", "fleet.hazard_avoidance", "fleet.formation",
                  "fleet.plate_verify", "fleet.escort_return"}

\* Those of them that are about a thing the camera is to find.
ObjectTools == {"fleet.plate_verify", "fleet.escort_return"}

PatrolTaskTools == {"patrol.start_task", "patrol.stop_task", "patrol.runtime"}
PatrolTools == PatrolTaskTools \cup {"patrol.list_tasks"}

Tools == Queries \cup DirectRosTools \cup DownlinkTools \cup PatrolTools

ReadOnly == Queries \cup {"patrol.list_tasks", "patrol.runtime"}

NeedsConfirmation(tool) == tool \notin ReadOnly

\* The arguments the model must fill in; a motion may leave its robot out.
Required(tool) ==
    CASE tool \in ObjectTools -> {"robots", "object"}
      [] tool \in {"fleet.readiness", "fleet.safety_stop", "fleet.nudge_forward"}
                    \cup (DownlinkTools \ ObjectTools) -> {"robots"}
      [] tool = "fleet.motion" -> {"action"}
      [] tool \in PatrolTaskTools -> {"ref"}
      [] OTHER -> {}

-----------------------------------------------------------------------------
(* Numbers and names.                                                       *)

Second == 20
FullTurn == 7 * Second
Settle == 3
Clamp(t, low, high) == IF t < low THEN low ELSE IF t > high THEN high ELSE t
Bounded(t) == Clamp(t, 4, 30 * Second)

\* The words for actions, in the order they are looked for.
ActionOrder == <<"rotate_left", "rotate_right", "backward", "left", "right", "forward">>
Actions == ToSet(ActionOrder)
Rotations == {"rotate_left", "rotate_right"}

\* The stop words.  The rule that plans a stop knows only the first kind.
StopWords == {"stop", "halt"}

\* The place of the first element of s that is in S; 0 if there is none.
FirstIn(s, S) ==
    LET places == {i \in DOMAIN s : s[i] \in S}
    IN IF places = {} THEN 0 ELSE CHOOSE i \in places : \A j \in places : i <= j

\* The elements of s at these places, in their order.
Picked(s, places) ==
    LET picked[n \in 0..Len(s)] ==
            IF n = 0 THEN <<>>
            ELSE picked[n - 1] \o IF n \in places THEN <<s[n]>> ELSE <<>>
    IN picked[Len(s)]

Dedupe(s) == Picked(s, {i \in DOMAIN s : \A j \in 1..(i - 1) : s[j] # s[i]})

NormalCodes(s) == Dedupe([i \in DOMAIN s |-> Canonical[s[i]]])

OrDefault(s) == IF s = <<>> THEN <<DefaultRobot>> ELSE s

SortedOnline(online) == Picked(CodeOrder, {i \in DOMAIN CodeOrder : CodeOrder[i] \in online})

\* _motion_action_from_text: a clause with a stop word asks for no motion.
MotionAction_MutStopIgnored(clause) ==
    LET i == FirstIn(ActionOrder, clause.moves)
    IN IF i = 0 THEN "none" ELSE ActionOrder[i]

MotionAction(clause) ==
    LET i == FirstIn(ActionOrder, clause.moves)
    IN IF clause.stops # {} \/ i = 0 THEN "none" ELSE ActionOrder[i]

\* _duration_seconds: a number of seconds, a full turn, a word, or a second.
Duration(clause) ==
    IF clause.ticks # 0 THEN Bounded(clause.ticks)
    ELSE IF clause.turn THEN FullTurn
    ELSE IF clause.word # 0 THEN clause.word * Second
    ELSE Second

-----------------------------------------------------------------------------
(* What the searches for keywords and patterns find.                        *)

\* Kinds of keywords: of the rules, and of what is to become of a patrol.
Topics == {"robots", "patrol", "approach", "search", "corridor", "yield", "hazard", "formation",
           "plate", "escort", "status", "stop_patrol", "start_patrol"}

\* A part between separators: "then", a comma.  A time of 0 is not said.
AnyClause == [moves : SUBSET Actions, stops : SUBSET StopWords, codes : Seq(Codes),
              all : BOOLEAN, turn : BOOLEAN, ticks : Nat, word : 0..10]

\* same: "the same as above".  generic: a word like "go".  ref: the task's name.
AnySentence == [clauses : Seq(AnyClause) \ {<<>>}, topics : SUBSET Topics,
                ref : TaskRefs \cup {Unset}, same : BOOLEAN, generic : BOOLEAN]

AnyRequest == [text : AnySentence, codes : Seq(Codes), llm : BOOLEAN, auto : BOOLEAN]

\* A step as the model wrote it: aliases of the actions are already replaced.
AnyRawStep == [tool : STRING, robots : Seq(Codes), action : Actions \cup {"none"}, ticks : Nat,
               ref : TaskRefs \cup {Unset}, object : BOOLEAN]

\* What the planner reads of the fleet.
AnyFleet == [online : SUBSET Codes, ready : SUBSET Codes]

-----------------------------------------------------------------------------
(* Robots named by a sentence and by a request.                             *)

Clauses(text) == ToSet(text.clauses)

TextCodes(text) ==
    NormalCodes(FlattenSeq([i \in DOMAIN text.clauses |-> text.clauses[i].codes]))

NamesAll(text) == \E c \in Clauses(text) : c.all

RequestCodes(req, fleet) ==
    OrDefault(NormalCodes((IF NamesAll(req.text) THEN SortedOnline(fleet.online) ELSE <<>>)
                          \o TextCodes(req.text) \o req.codes))

\* _best_ready_robot_code looks the codes up as they are spelled.
BestReady(codes, fleet) ==
    LET wanted == OrDefault(codes)
        i == FirstIn(wanted, fleet.ready)
    IN IF i # 0 THEN wanted[i]
       ELSE IF fleet.online # {} THEN SortedOnline(fleet.online)[1]
       ELSE wanted[1]

-----------------------------------------------------------------------------
(* Steps.                                                                   *)

Step(tool, robots, action, ticks, turn, ref) ==
    [tool |-> tool, robots |-> robots, action |-> action, ticks |-> ticks,
     turn |-> turn, ref |-> ref, status |-> "planned"]

MotionStep(robots, action, ticks, turn) ==
    Step("fleet.motion", robots, action, ticks, turn, Unset)

RobotStep(tool, robots) == Step(tool, robots, "none", 0, FALSE, Unset)

PatrolStep(tool, ref) == Step(tool, <<>>, "none", 0, FALSE, ref)

ListPatrols == PatrolStep("patrol.list_tasks", Unset)

\* A step on a patrol task, or the list of tasks when the sentence names none.
OnTask(tool, text) == IF text.ref = Unset THEN ListPatrols ELSE PatrolStep(tool, text.ref)

\* _robot_codes_for_motion_clause
ClauseCodes(clause, contextCodes) ==
    IF clause.all THEN contextCodes ELSE NormalCodes(clause.codes)

\* _direct_motion_steps_from_text: one step for each clause that asks for a
\* motion.  A clause that names no robot means the robots of the one before.
DirectMotionSteps(req, fleet) ==
    LET context == RequestCodes(req, fleet)
        named == TextCodes(req.text)
        first == IF named # <<>> THEN named[1]
                 ELSE OrDefault(NormalCodes(req.codes) \o context)[1]
        clauses == req.text.clauses
        moving == {i \in DOMAIN clauses : MotionAction(clauses[i]) # "none"}
        own(i) == ClauseCodes(clauses[i], context)
        naming(i) == {j \in moving : j <= i /\ own(j) # <<>>}
        robots(i) == IF naming(i) = {} THEN <<first>> ELSE own(Max(naming(i)))
        step(i) == LET action == MotionAction(clauses[i])
                   IN MotionStep(robots(i), action, Duration(clauses[i]),
                                 action \in Rotations /\ clauses[i].turn)
    IN Picked([i \in DOMAIN clauses |-> step(i)], moving)

\* _same_operation_steps_from_text: "the same as above" is a fixed dance.
SameOperationSteps(req) ==
    LET target == OrDefault(TextCodes(req.text) \o NormalCodes(req.codes))[1]
    IN IF ~req.text.same THEN <<>>
       ELSE <<MotionStep(<<target>>, "forward", 2 * Second, FALSE),
              MotionStep(<<target>>, "rotate_left", FullTurn, TRUE),
              MotionStep(<<target>>, "rotate_right", FullTurn, TRUE)>>

-----------------------------------------------------------------------------
(* _plan_with_rules: the first rule that applies plans the whole sentence.  *)
(* direct and same are the steps of the two operators above.                *)

PatrolRule(text) ==
    CASE "stop_patrol" \in text.topics -> OnTask("patrol.stop_task", text)
      [] "stop_patrol" \notin text.topics /\ "status" \in text.topics ->
            OnTask("patrol.runtime", text)
      [] text.topics \cap {"stop_patrol", "status"} = {} /\ "start_patrol" \in text.topics ->
            OnTask("patrol.start_task", text)
      [] OTHER -> ListPatrols

\* The first robot the sentence names, or else one that is ready.
NamedRobot(req, fleet) ==
    LET named == TextCodes(req.text)
    IN IF named # <<>> THEN named[1] ELSE BestReady(req.codes, fleet)

\* Whether each rule applies, and its steps.
Rules(req, fleet, direct, same) ==
    LET text == req.text
        robot == NamedRobot(req, fleet)
        has(topic) == topic \in text.topics
        rule(on, steps) == [on |-> on, steps |-> steps]
    IN <<rule(has("robots"), <<RobotStep("fleet.list_robots", <<>>)>>),
         rule(has("patrol"), <<PatrolRule(text)>>),
         rule(has("approach"), <<RobotStep("fleet.rescue_approach", <<robot>>)>>),
         rule(has("search"), <<RobotStep("fleet.rescue_search", <<robot>>)>>),
         rule(has("corridor"), <<RobotStep("fleet.corridor_crawl", <<robot>>)>>),
         rule(has("yield"), <<RobotStep("fleet.corridor_yield", <<robot>>)>>),
         rule(has("hazard"), <<RobotStep("fleet.hazard_avoidance", <<robot>>)>>),
         rule(has("formation"),
              <<RobotStep("fleet.formation", IF req.codes # <<>> THEN req.codes ELSE <<robot>>)>>),
         rule(direct # <<>>, direct),
         rule(same # <<>>, same),
         rule(\E c \in Clauses(text) : "stop" \in c.stops,
              <<RobotStep("fleet.safety_stop", <<robot>>)>>),
         rule(has("plate"), <<RobotStep("fleet.plate_verify", <<robot>>)>>),
         rule(has("escort"), <<RobotStep("fleet.escort_return", <<robot>>)>>),
         rule(has("status"), <<RobotStep("fleet.readiness", <<robot>>)>>),
         rule(TRUE, <<RobotStep("fleet.summary", <<>>)>>)>>

RulePlan(req, fleet, direct, same) ==
    LET rules == Rules(req, fleet, direct, same)
    IN rules[FirstIn([i \in DOMAIN rules |-> rules[i].on], {TRUE})].steps

-----------------------------------------------------------------------------
(* The model's answer.  A raw step is a step as the model wrote it: any     *)
(* tool name, spellings of codes, arguments that may be missing.            *)

\* _fallback_robot_code_for_llm
FallbackRobot(req, fleet) ==
    LET named == TextCodes(req.text) \o NormalCodes(req.codes)
    IN IF named # <<>> THEN named[1] ELSE BestReady(<<>>, fleet)

\* _normalize_llm_arguments: what the model left out is taken from the request.
\* Words like "go" ask for a motion without naming one.
NormalizeMotion(raw, req, fleet) ==
    LET text == req.text
        stops == \E c \in Clauses(text) : c.stops # {}
        whole == [moves |-> UNION {c.moves : c \in Clauses(text)},
                  stops |-> IF stops THEN StopWords ELSE {}]
        heard == MotionAction(whole)
        action == IF raw.action # "none" THEN raw.action
                  ELSE IF heard # "none" THEN heard
                  ELSE IF text.generic /\ ~stops THEN "forward"
                  ELSE "none"
        turn == action \in Rotations /\ \E c \in Clauses(text) : c.turn
        ticks == IF turn /\ raw.ticks \in {0, Second} THEN FullTurn
                 ELSE IF raw.ticks = 0 THEN 0 ELSE Bounded(raw.ticks)
    IN MotionStep(IF raw.robots # <<>> THEN NormalCodes(raw.robots) ELSE RequestCodes(req, fleet),
                  action, ticks, turn)

Normalize(raw, req, fleet) ==
    CASE raw.tool = "fleet.motion" -> NormalizeMotion(raw, req, fleet)
      [] raw.tool = "fleet.safety_stop" ->
            RobotStep(raw.tool, IF raw.robots # <<>> THEN NormalCodes(raw.robots)
                                ELSE <<FallbackRobot(req, fleet)>>)
      [] raw.tool \in PatrolTaskTools ->
            PatrolStep(raw.tool, IF raw.ref # Unset THEN raw.ref ELSE req.text.ref)
      [] OTHER -> Step(raw.tool, raw.robots, raw.action, raw.ticks, FALSE, raw.ref)

Missing(raw, step) ==
    \/ "robots" \in Required(step.tool) /\ step.robots = <<>>
    \/ "action" \in Required(step.tool) /\ step.action = "none"
    \/ "ref" \in Required(step.tool) /\ step.ref = Unset
    \/ "object" \in Required(step.tool) /\ ~raw.object

\* _steps_from_llm: unknown tools and steps that lack an argument are dropped.
StepsFromLlm(raws, req, fleet) ==
    LET read == [i \in DOMAIN raws |-> Normalize(raws[i], req, fleet)]
    IN Picked(read, {i \in DOMAIN raws : raws[i].tool \in Tools /\ ~Missing(raws[i], read[i])})

-----------------------------------------------------------------------------
(* plan(): the model's steps, unless the sentence itself says the motions.  *)

PlanSteps(req, raws, fleet) ==
    LET same == SameOperationSteps(req)
        direct == DirectMotionSteps(req, fleet)
        asked == IF req.llm THEN StepsFromLlm(raws, req, fleet) ELSE <<>>
    IN IF same # <<>> THEN same
       ELSE IF direct # <<>> THEN direct
       ELSE IF asked # <<>> THEN asked
       ELSE RulePlan(req, fleet, direct, same)

\* What _plan_with_llm is answered: the model's steps or, after any error of
\* the gateway, nothing.  Without a gateway it is not asked.
ModelAnswers(q) == IF q.req.llm THEN {q.raws, <<>>} ELSE {<<>>}

RequiresConfirmation_MutFirstStep(steps) == steps # <<>> /\ NeedsConfirmation(steps[1].tool)

RequiresConfirmation(steps) == \E i \in DOMAIN steps : NeedsConfirmation(steps[i].tool)

-----------------------------------------------------------------------------
(* _resolve_patrol_task: the task a reference means, or Unset.              *)
(* tasks is a sequence of [code, names]: the references its name contains   *)
(* are names.part, those its name equals names.whole.                       *)

ResolvePatrolTask(ref, tasks) ==
    LET codes == SelectSeq(tasks, LAMBDA t : t.code = ref)
        whole == SelectSeq(tasks, LAMBDA t : ref \in t.whole)
        part == SelectSeq(tasks, LAMBDA t : ref \in t.part)
    IN IF codes # <<>> THEN codes[1].code
       ELSE IF Len(whole) = 1 THEN whole[1].code
       ELSE IF whole = <<>> /\ Len(part) = 1 THEN part[1].code
       ELSE Unset

-----------------------------------------------------------------------------
(* The velocities of a step, as compensated_duration sends them.            *)

EffectiveTicks(ticks, robots) ==
    IF Len(robots) <= 1 \/ ticks < Second THEN ticks
    ELSE Clamp(ticks + 7, 0, 10 * Second)

\* _float_in_range(duration_seconds, 1.0, 0.2, 30.0) of a step.
StepTicks(step) == IF step.ticks = 0 THEN Second ELSE Bounded(step.ticks)

\* _step_execution_delay_seconds after a step that was executed: a motion is
\* given its time when a bridge took it; after a rotation, which has ended,
\* its nominal time is waited for again.
StepDelay_MutRequested(step, taken) ==
    IF step.tool # "fleet.motion" \/ taken = {} THEN 0
    ELSE StepTicks(step) + Settle

StepDelay(step, taken) ==
    IF step.tool # "fleet.motion" THEN 0
    ELSE IF step.turn THEN step.ticks
    ELSE IF taken = {} THEN 0
    ELSE EffectiveTicks(StepTicks(step), step.robots) + Settle
===============================================================================
