------------------------------- MODULE LlmTasks -------------------------------
(***************************************************************************)
(* Plans and their execution:                                               *)
(* backend/apps/web_api/services/llm_task_service.py.                       *)
(*                                                                          *)
(* A plan is made of a request (LlmPlanner), stored, and executed when its  *)
(* user confirms it.  An execution is a thread of the web API: it takes the *)
(* plan under the lock, runs its steps one after the other without the      *)
(* lock, and writes the plan back under the lock.  Plans are saved in a     *)
(* file each time, so that a restart finds them.                            *)
(*                                                                          *)
(* What the fleet, the bridges, the robot agents and the patrol service     *)
(* answer is a choice: Fleet, CmdVel and Patrol model them.  A robot has    *)
(* one motion, the last one its bridge took.  Time is the time motions and  *)
(* waits have left.                                                         *)
(***************************************************************************)
EXTENDS LlmPlanner, FiniteSets

CONSTANTS Threads,       \* the threads that execute plans
          Sentences,     \* sentences the planner is tried on
          Requests,      \* Requests[n]: what the n-th plan may be asked for
          Fleets,        \* the states of the fleet a planner may read
          PatrolTasks,   \* the rows of patrol_service.list_tasks
          MaxStored,     \* 100: plans kept
          MaxRuns,       \* bound: executions in a behaviour
          MaxFaults      \* bound: saves that fail, restarts

ASSUME TasksAssumption ==
    /\ IsFiniteSet(Threads)
    /\ Requests \in Seq(SUBSET [req : AnyRequest, raws : Seq(AnyRawStep)])
    /\ Sentences \subseteq AnySentence /\ Fleets \subseteq AnyFleet
    /\ MaxStored \in Nat \ {0} /\ MaxRuns \in Nat /\ MaxFaults \in Nat

Robots == {Canonical[c] : c \in Codes}
MaxPlans == Len(Requests)
NoPlan == 0

VARIABLES
    plans,    \* _plans: the stored plans, the oldest first
    file,     \* .run/llm_plans.json
    asked,    \* plans made so far
    \* the executions
    pc, held, \* where a thread is, the plan it took
    at,       \* the step it is at
    wait,     \* what is left of its sleep
    run,      \* the number of its execution
    grant,    \* whether its user confirmed, whether the plan had been written back
    runs,
    \* the robots
    motion,   \* of each robot: execution, step, tool, time left, acknowledged
    \* the history
    ran,      \* what the executions made robots and patrols do
    closed,   \* plans an execution has written back
    closedInFile, \* those of them the file knows
    faults

store == <<plans, file, asked>>
threads == <<pc, held, at, wait, run, grant, runs>>
history == <<ran, closed, closedInFile, faults>>
vars == <<store, threads, motion, history>>

Statuses == {"planned", "executed", "failed"}
Idle == [run |-> 0, step |-> 0, tool |-> "none", left |-> 0, acked |-> FALSE]
Empty == [id |-> NoPlan, steps |-> <<>>, confirm |-> FALSE]

AnyStep == [tool : Tools, robots : Seq(Codes), action : Actions \cup {"none"}, ticks : Nat,
            turn : BOOLEAN, ref : TaskRefs \cup {Unset}, status : Statuses]

AnyPlan == [id : 0..MaxPlans, steps : Seq(AnyStep), confirm : BOOLEAN]
PlanOK(p) == p \in AnyPlan /\ p.confirm = RequiresConfirmation(p.steps)

\* The store and the file hold a plan once.  The file holds MaxStored plans,
\* the store as many more as executions brought back after they were dropped.
StoreTypes ==
    /\ plans \in Seq(AnyPlan) /\ file \in Seq(AnyPlan)
    /\ \A s \in {plans, file} : \A i, j \in DOMAIN s :
          PlanOK(s[i]) /\ s[i].id # NoPlan /\ (s[i].id = s[j].id => i = j)
    /\ Len(file) <= MaxStored /\ Len(plans) <= MaxStored + runs
    /\ asked \in 0..MaxPlans /\ faults \in 0..MaxFaults
    /\ closedInFile \subseteq 1..MaxPlans /\ closed \subseteq 1..MaxPlans

ThreadTypes ==
    /\ pc \in [Threads -> {"idle", "step", "call", "sleep"}]
    /\ held \in [Threads -> AnyPlan] /\ at \in [Threads -> Nat] /\ wait \in [Threads -> Nat]
    /\ run \in [Threads -> 0..MaxRuns] /\ runs \in 0..MaxRuns
    /\ grant \in [Threads -> [confirmed : BOOLEAN, late : BOOLEAN]]
    /\ \A x \in Threads : PlanOK(held[x]) /\ at[x] <= Len(held[x].steps) + 1 /\ run[x] <= runs

MotionTypes ==
    /\ motion \in [Robots -> [run : 0..MaxRuns, step : Nat, tool : DirectRosTools \cup {"none"},
                              left : Nat, acked : BOOLEAN]]
    /\ \A r \in Robots : motion[r].run <= runs
    /\ ran \subseteq [plan : 1..MaxPlans, step : Nat, tool : Tools, confirmed : BOOLEAN,
                      late : BOOLEAN]

TypeOK == StoreTypes /\ ThreadTypes /\ MotionTypes

Init ==
    /\ plans = <<>> /\ file = <<>> /\ asked = 0
    /\ pc = [x \in Threads |-> "idle"] /\ held = [x \in Threads |-> Empty]
    /\ at = [x \in Threads |-> 0] /\ wait = [x \in Threads |-> 0]
    /\ run = [x \in Threads |-> 0] /\ runs = 0
    /\ grant = [x \in Threads |-> [confirmed |-> FALSE, late |-> FALSE]]
    /\ motion = [r \in Robots |-> Idle]
    /\ ran = {} /\ closed = {} /\ closedInFile = {} /\ faults = 0

-----------------------------------------------------------------------------
(* The store.                                                               *)

Newest_MutKeepsAll(s) == s

Newest(s) == IF Len(s) <= MaxStored THEN s ELSE SubSeq(s, Len(s) - MaxStored + 1, Len(s))

Index(id) == FirstIn([i \in DOMAIN plans |-> plans[i].id], {id})

\* A plan keeps its place; one that was dropped meanwhile comes back last.
Stored(p) == IF Index(p.id) = 0 THEN Append(plans, p) ELSE ReplaceAt(plans, Index(p.id), p)

\* _save_plans: an error is swallowed.
Save ==
    \/ file' = Newest(plans') /\ closedInFile' = closed' /\ UNCHANGED faults
    \/ faults < MaxFaults /\ faults' = faults + 1 /\ UNCHANGED <<file, closedInFile>>

-----------------------------------------------------------------------------
(* plan().                                                                  *)

NewPlan(steps) == [id |-> asked + 1, steps |-> steps, confirm |-> RequiresConfirmation(steps)]

\* _execute_plan: a plan that needs a confirmation is refused (409) without.
MayExecute(p, confirmed) == p.confirm => confirmed

StorePlan(p) ==
    /\ plans' = Newest(Append(plans, p))
    /\ closed' = IF \A i \in DOMAIN p.steps : p.steps[i].status # "planned"
                 THEN closed \cup {p.id} ELSE closed
    /\ Save

\* A plan that executes itself does so as its user had confirmed it, if it
\* needs no confirmation: only queries, each of which succeeds or fails.  One
\* that needs a confirmation is refused, and is not stored either.
Plan ==
    /\ asked < MaxPlans /\ asked' = asked + 1
    /\ \E q \in Requests[asked + 1], fleet \in Fleets : \E raws \in ModelAnswers(q) :
          LET p == NewPlan(PlanSteps(q.req, raws, fleet))
          IN IF ~q.req.auto THEN StorePlan(p)
             ELSE IF ~MayExecute(p, ~p.confirm)
             THEN UNCHANGED <<plans, file, closed, closedInFile, faults>>
             ELSE \E done \in [DOMAIN p.steps -> {"executed", "failed"}] :
                    StorePlan([p EXCEPT !.steps =
                       [i \in DOMAIN @ |-> [@[i] EXCEPT !.status = done[i]]]])
    /\ UNCHANGED <<threads, motion, ran>>

-----------------------------------------------------------------------------
(* execute(): the thread takes the plan.                                    *)

Take(x) ==
    /\ pc[x] = "idle" /\ runs < MaxRuns
    /\ \E i \in DOMAIN plans, confirmed \in BOOLEAN :
          /\ MayExecute(plans[i], confirmed)
          /\ held' = [held EXCEPT ![x] = plans[i]]
          /\ grant' = [grant EXCEPT ![x] = [confirmed |-> confirmed,
                                            late |-> plans[i].id \in closed]]
    /\ runs' = runs + 1 /\ run' = [run EXCEPT ![x] = runs + 1]
    /\ pc' = [pc EXCEPT ![x] = "step"] /\ at' = [at EXCEPT ![x] = 1]
    /\ UNCHANGED <<store, wait, motion, history>>

-----------------------------------------------------------------------------
(* _execute_plan: one step after the other, whatever became of the last.    *)

Current(x) == held[x].steps[at[x]]

\* Thread x is at a step of one of these tools that is still planned.
At(x, tools) ==
    /\ pc[x] = "step" /\ at[x] <= Len(held[x].steps)
    /\ Current(x).tool \in tools /\ Current(x).status = "planned"

Skip(x) ==
    /\ pc[x] = "step" /\ at[x] <= Len(held[x].steps) /\ Current(x).status # "planned"
    /\ at' = [at EXCEPT ![x] = @ + 1]
    /\ UNCHANGED <<store, pc, held, wait, run, grant, runs, motion, history>>

\* What an executed step leaves in the history.
Record(x) == ran' = ran \cup {[plan |-> held[x].id, step |-> at[x], tool |-> Current(x).tool,
                               confirmed |-> grant[x].confirmed, late |-> grant[x].late]}

Outcome_MutRetry(ok) == IF ok THEN "executed" ELSE "planned"

Outcome(ok) == IF ok THEN "executed" ELSE "failed"

\* The step has ended; the thread sleeps for delay and goes on with the next.
Finish(x, ok, delay) ==
    /\ held' = [held EXCEPT ![x].steps[at[x]].status = Outcome(ok)]
    /\ wait' = [wait EXCEPT ![x] = delay]
    /\ pc' = [pc EXCEPT ![x] = IF delay > 0 THEN "sleep" ELSE "step"]
    /\ at' = [at EXCEPT ![x] = IF delay > 0 THEN @ ELSE @ + 1]
    /\ UNCHANGED <<store, run, grant, runs, closed, closedInFile, faults>>

\* The robots at whose bridge a call arrives, and those whose answer comes
\* back.  A spelling that is not a code of the fleet has no bridge.
Calls(x) == {call \in (SUBSET Robots) \X (SUBSET Robots) :
                /\ call[2] \subseteq call[1]
                /\ call[1] \subseteq ToSet(OrDefault(Current(x).robots))}

\* The motion of the robots a call has reached.
Moves(x, call, ticks) ==
    motion' = [r \in Robots |->
        IF r \notin call[1] THEN motion[r]
        ELSE [run |-> run[x], step |-> at[x], tool |-> Current(x).tool, left |-> ticks,
              acked |-> r \in call[2]]]

\* _execute_patrol_list, _execute_patrol_runtime and the fleet's queries.
Query(x) ==
    /\ At(x, ReadOnly)
    /\ \E ok \in BOOLEAN : Finish(x, ok, 0)
    /\ UNCHANGED <<motion, ran>>

\* _execute_ros_stop
SafetyStop(x) ==
    /\ At(x, {"fleet.safety_stop"})
    /\ \E call \in Calls(x) : Moves(x, call, 0)
    /\ Record(x) /\ Finish(x, TRUE, 0)

\* _execute_ros_motion: the bridges start the motion and answer.
Motion(x) ==
    /\ At(x, {"fleet.motion"}) /\ ~Current(x).turn
    /\ \E call \in Calls(x) :
          /\ Moves(x, call, EffectiveTicks(StepTicks(Current(x)), Current(x).robots))
          /\ Finish(x, TRUE, StepDelay(Current(x), call[2]))
    /\ Record(x)

NudgeForward(x) ==
    /\ At(x, {"fleet.nudge_forward"})
    /\ \E call \in Calls(x) : Moves(x, call, StepTicks(Current(x)))
    /\ Record(x) /\ Finish(x, TRUE, 0)

\* _execute_ros_rotate_angle: the bridges answer when the rotation has ended.
Rotate(x) ==
    /\ At(x, {"fleet.motion"}) /\ Current(x).turn
    /\ \E call \in Calls(x) : Moves(x, call, FullTurn)
    /\ pc' = [pc EXCEPT ![x] = "call"] /\ Record(x)
    /\ UNCHANGED <<store, held, at, wait, run, grant, runs, closed, closedInFile, faults>>

RotateReturns(x) ==
    /\ pc[x] = "call"
    /\ \A r \in Robots : motion[r].run = run[x] /\ motion[r].step = at[x] => motion[r].left = 0
    /\ Finish(x, TRUE, StepDelay(Current(x), {}))
    /\ UNCHANGED <<motion, ran>>

\* _ensure_ready reads the fleet, which changes all the time; a spelling that
\* is not a code is never ready.
EnsureReady(x) == ToSet(OrDefault(Current(x).robots)) \subseteq Robots

\* Once all robots are ready, _publish_command sends one command to each.
\* What became of a command is in the result; the step counts as executed.
Downlink(x, tools) ==
    /\ At(x, tools)
    /\ \/ EnsureReady(x) /\ Record(x) /\ Finish(x, TRUE, 0)
       \/ UNCHANGED ran /\ Finish(x, FALSE, 0)
    /\ UNCHANGED motion

Rescue(x) == Downlink(x, {"fleet.rescue_approach", "fleet.rescue_search"})
Corridor(x) == Downlink(x, {"fleet.corridor_crawl", "fleet.corridor_yield"})
AvoidHazard(x) == Downlink(x, {"fleet.hazard_avoidance"})
VerifyOrEscort(x) == Downlink(x, {"fleet.plate_verify", "fleet.escort_return"})

\* The formation is registered besides (RegisterFormation in Fleet).
Form(x) == Downlink(x, {"fleet.formation"})

\* _execute_patrol_start, _execute_patrol_stop: the service may refuse.
PatrolCall(x) ==
    /\ At(x, {"patrol.start_task", "patrol.stop_task"})
    /\ \/ ResolvePatrolTask(Current(x).ref, PatrolTasks) # Unset /\ Record(x) /\ Finish(x, TRUE, 0)
       \/ UNCHANGED ran /\ Finish(x, FALSE, 0)
    /\ UNCHANGED motion

Wake(x) ==
    /\ pc[x] = "sleep" /\ wait[x] = 0
    /\ pc' = [pc EXCEPT ![x] = "step"] /\ at' = [at EXCEPT ![x] = @ + 1]
    /\ UNCHANGED <<store, held, wait, run, grant, runs, motion, history>>

\* Back in execute(): the plan is stored and saved under the lock.
WriteBack(x) ==
    /\ pc[x] = "step" /\ at[x] > Len(held[x].steps)
    /\ plans' = Stored(held[x]) /\ closed' = closed \cup {held[x].id} /\ Save
    /\ pc' = [pc EXCEPT ![x] = "idle"] /\ held' = [held EXCEPT ![x] = Empty]
    /\ at' = [at EXCEPT ![x] = 0] /\ run' = [run EXCEPT ![x] = 0]
    /\ UNCHANGED <<asked, wait, grant, runs, motion, ran>>

-----------------------------------------------------------------------------
(* Time and restarts.                                                       *)

Pending == {wait[x] : x \in Threads} \cup {motion[r].left : r \in Robots}

\* Time passes until a sleep or a motion ends.
Elapse ==
    /\ Pending # {0}
    /\ LET d == CHOOSE t \in Pending \ {0} : \A u \in Pending \ {0} : t <= u
           less(t) == IF t > d THEN t - d ELSE 0
       IN /\ wait' = [x \in Threads |-> less(wait[x])]
          /\ motion' = [r \in Robots |-> [motion[r] EXCEPT !.left = less(@)]]
    /\ UNCHANGED <<store, pc, held, at, run, grant, runs, history>>

\* The web API stops, and starts from the file; the robots go on.  When it
\* stops in the middle of a save, the file cannot be read and nothing is left.
Restart ==
    /\ faults < MaxFaults /\ faults' = faults + 1
    /\ \E found \in {file, <<>>} :
          /\ found # file => \E x \in Threads : pc[x] = "step" /\ at[x] > Len(held[x].steps)
          /\ plans' = found /\ file' = found
    /\ closed' = closedInFile
    /\ pc' = [x \in Threads |-> "idle"] /\ held' = [x \in Threads |-> Empty]
    /\ at' = [x \in Threads |-> 0] /\ wait' = [x \in Threads |-> 0]
    /\ run' = [x \in Threads |-> 0]
    /\ UNCHANGED <<asked, grant, runs, motion, ran, closedInFile>>

RunStep(x) ==
    \/ Skip(x) \/ Query(x) \/ SafetyStop(x) \/ Motion(x) \/ NudgeForward(x)
    \/ Rotate(x) \/ RotateReturns(x) \/ Rescue(x) \/ Corridor(x) \/ AvoidHazard(x)
    \/ VerifyOrEscort(x) \/ Form(x) \/ PatrolCall(x)
    \/ Wake(x) \/ WriteBack(x)

Next == Plan \/ Elapse \/ Restart \/ \E x \in Threads : Take(x) \/ RunStep(x)

Spec == Init /\ [][Next]_vars

-----------------------------------------------------------------------------
(* Properties.                                                              *)

\* Nothing moves, and no command or patrol starts or stops, before the user
\* confirmed the plan: not by a plan that executes itself, and not by one
\* whose first step needs no confirmation (plan, _execute_plan).
ConfirmedBeforeMoving ==
    \A e \in ran : NeedsConfirmation(e.tool) => e.confirmed

\* An execution that takes a plan another one has written back does nothing
\* more: no step is done again, and none that failed is tried again, also
\* after a restart, as far as the file was written (execute, _load_plans).
\* Two executions that both took the plan before either wrote it back do its
\* steps twice, and so does one after a restart in the midst of the first.
NoStepAfterWriteBack == \A e \in ran : ~e.late

\* A motion that a robot has acknowledged is not cut short by a later step of
\* the same execution: the thread sleeps for as long as the bridges were told
\* to move, which for several robots is longer than the plan says
\* (_step_execution_delay_seconds, compensated_duration).  A nudge has no such
\* sleep, nor has a motion of which no answer came back.
AcknowledgedMotionRunsOut ==
    [][\A r \in Robots :
         LET m == motion[r] IN
         (m.left > 0 /\ m.tool = "fleet.motion" /\ m.acked /\ motion'[r].run = m.run)
            => motion'[r].step = m.step]_vars

\* A clause that says stop plans no motion of the fleet, whatever actions it
\* names besides, and a sentence that says nothing but stop stops one robot: one it
\* names, if it names any (_motion_action_from_text, _plan_with_rules).  This
\* is about sentences the rules plan alone; the words halt, brake and their
\* like are heard as no motion, yet no rule plans a stop for them, and "the
\* same as above" is a fixed dance, whatever else is said.  The rules of
\* rescue, corridor and hazard come before the rule of stop: a sentence with
\* such a topic plans that.
\* The planner has no state: it is enough to try it before the first plan.
PlannerHearsStop == asked = 0 =>
    \A text \in Sentences, codes \in {<<>>, CodeOrder}, fleet \in Fleets :
        LET req == [text |-> text, codes |-> codes, llm |-> FALSE, auto |-> FALSE]
            steps == PlanSteps(req, <<>>, fleet)
            moving == {c \in Clauses(text) : c.moves # {} /\ c.stops = {}}
        IN ~text.same =>
           /\ \A k \in DOMAIN steps : steps[k].tool = "fleet.motion" =>
                  \E c \in moving : steps[k].action \in c.moves
           /\ text.topics = {} /\ moving = {} /\ (\E c \in Clauses(text) : "stop" \in c.stops) =>
                  /\ Len(steps) = 1 /\ steps[1].tool = "fleet.safety_stop"
                  /\ TextCodes(text) # <<>> => steps[1].robots[1] \in ToSet(TextCodes(text))
===============================================================================
