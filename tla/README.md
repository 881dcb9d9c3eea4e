# car10th in TLA+

car10th is the software of a patrol car for underground car parks: a FastAPI back end, a bridge
from HTTP and one from TCP to the ROS 2 chassis, an agent on each robot, and a mobile application.
This directory holds TLA+ specifications of its concurrent and distributed parts, the TLC models
that check them on small instances, and proofs for instances of every size.

Paths below are relative to `backend/` unless they start with `mobile_app/` or `docs/`.

## 1. The system

### 1.1 Components

| Component | Code | State it keeps | Operations | Talks to |
|---|---|---|---|---|
| Velocity publisher | `apps/ros_bridge/publishers/cmd_vel.py` | one slot for the active motion (event and thread), `_closed`, an odometry cache | timed motion, single message, stop, rotate by an angle, close | ROS topic `/cmd_vel` |
| ROS bridge service | `apps/ros_bridge/main.py`, `adapters`, `subscribers`, other publishers | latest map and pose | HTTP endpoints, one call each | publisher, ROS |
| TCP car bridge | `apps/tcp_car_bridge/main.py` | stop thread, tracking process | frames of the vehicle protocol | publisher, lights, audio |
| Light show, headlights, buzzer | `light_show.py`, `serial_hardware.py`, `audio_player.py` | one worker and its event each | start, stop, set effect, play | serial board |
| Obstacle monitor | `event_linkage.py` | blocked flag, time of the last warning, time since when the way is clear | one callback per laser scan | TCP bridge |
| Fleet registry | `apps/web_api/services/fleet_service.py`, `routers/fleet.py` | robots, commands, formations, in memory | create, publish, mark, acknowledge, expire, report, register a formation, readiness | MQTT client, agents |
| Robot agent | `apps/robot_agent/main.py` | formation, role, pose | execute a command, acknowledge it, report | MQTT, the robot's ROS bridge |
| MQTT client | `common/mqtt/client.py` | connection, subscriptions | start, stop, publish, deliver | broker |
| Patrol tasks | `apps/web_api/services/patrol_service.py` | rows in the database, a runtime table, a thread per run, the scheduler's jobs | create, update, delete, start, stop, synchronise the schedule | database, the robot's ROS bridge |
| Queue follow | `fleet_queue_follow_service.py` | one session, its thread, histories of poses | start, stop, a tick every interval | registry, teleoperation |
| Fleet teleoperation | `fleet_teleop_service.py`, `teleop_service.py` | none | the same call to several robots in parallel | ROS bridges |
| Language model tasks | `llm_task_service.py` | up to 100 plans | plan, confirm, execute | every control service |
| Inspection | `inspection_monitor_service.py`, `inspection_alarm_service.py`, `inspection_service.py` | a polling task, alarms in the database, pictures | start, stop, inspect once, raise an alarm, handle it | AI service, cloud files, database, MQTT |
| AI service | `apps/ai_service` | loaded detectors, subscriptions to cameras | capture, detect, unload | ROS |
| Robot and MQTT services | `robot_service.py`, `mqtt_service.py` | status per robot | control by request and by message, publication of statuses, heartbeat | MQTT client, teleoperation, AI service |
| Car finding, login, maps | `car_finding_service.py`, `auth_service.py`, `slam_service.py` | bindings and records in memory; users in the database | queries and forwarding | database, ROS bridge |
| Mobile application | `mobile_app/lib/data/repository.dart` | a chain of sends per robot | control, stop, queries | TCP bridge, back end |

### 1.2 How the parts interact

A velocity reaches a chassis along three ways that meet in the same publisher class: from the back
end through the robot's ROS bridge, from MQTT through the robot's agent and the same bridge, and
from the mobile application through the TCP bridge, which owns a publisher of its own. A patrol run
sends navigation goals through the ROS bridge. Commands to a fleet go through MQTT: the handler of
an HTTP request creates a command in the registry, publishes it, and marks it as published; the
agent executes it on its network thread and answers; the registry records the answer; a query that
finds a published command past its deadline makes it a timeout.

Nearly every component has several threads: handlers of requests on a pool, the network thread of
an MQTT client, workers of motions and runs, a scheduler. The locks are short, most operations are
several critical sections, and what was read in one is used in the next.

### 1.3 What is hard, and what makes it correct

| Component | Hard behaviour | Correct if |
|---|---|---|
| Publisher | workers poll an event outside the lock; calls cancel, join and register in separate steps; a rotation runs in its caller's thread | what is in the slot can be stopped; a cancelled motion sends a bounded number of messages; one that ends by itself leaves zeros; a motion never evicts its successor; only the deadlock of `close` keeps a call |
| Fleet | marking, answering and expiring race; messages are repeated, lost, late; agents and the API restart; stale reports | success is shown once recorded and never invented; commands settle; a formation is ready only when it is formed, and becomes so |
| Patrol | start, stop, update, delete and the end of a run race across a lock and a database; transactions fail | a live run can be stopped; one run per robot code, and goals come from its holder; final states stay; runs end |
| Queue follow | start, stop and the loop's tick race; a slow request outlives the join | the session on record is the one that runs; a replaced one sends at most what is left of its tick, and ends |
| TCP bridge | the stop runs in a thread of its own and is coalesced; frames of several connections interleave | a stop reaches every motion that runs |
| Lights | workers replace each other, up to two packets per scene, joins that time out | the last frame decides what the lights do |
| Obstacle monitor | cooldown, dwell and grace times; a lidar that flickers | a warning is not repeated at once |
| Language model tasks | free sentences, steps of two sources, two executions of a plan, a restart | nothing moves unconfirmed; a finished step is not done again; a stop is heard; a motion is not cut short by the next |
| Inspection | two inspections at once, each call may fail, a crash between two commits, detectors shared by threads | a risk is recorded, and once; its picture is kept |
| Robot and MQTT services | a status is read, then published; outages, a client that queues | the retained status catches up with the service's |
| Mobile application | sends queue behind a slow connection | a stop is sent after the motions asked for before it |

`PROJECT.json` lists each hazard at its line with the properties that cover it.

## 2. The specifications

| Module | What it is |
|---|---|
| `CmdVel` | the velocity publisher |
| `MotionSlot` | what its slot promises (abstract) |
| `CmdVelProofs` | theorems about `CmdVel` |
| `Fleet` | registry, request handlers, MQTT and agents together |
| `CommandLedger` | what the status of a command promises (abstract) |
| `FleetProofs` | theorems about `Fleet` |
| `Patrol` | patrol tasks, their runs and the database |
| `RobotLease` | what a robot code promises the run that holds it (abstract) |
| `PatrolProofs` | theorems about `Patrol` |
| `QueueFollow` | the queue follow service, its sessions and loops |
| `QueueFollowProofs` | theorems about `QueueFollow` |
| `LlmPlanner` | how a sentence, or the model's answer, becomes the steps of a plan: pure operators |
| `LlmTasks` | plans in store and file, their executions, the robots' motions; extends `LlmPlanner` |
| `LlmTasksProofs` | theorems about `LlmTasks` and `LlmPlanner` |
| `TcpCar` | the TCP bridge with its lights, sounds, tracker and obstacle monitor |
| `TcpCarProofs` | theorems about `TcpCar` |
| `MqttStatus` | commands to a robot, the cache of statuses, the MQTT client and the heartbeat |
| `MqttStatusProofs` | theorems about `MqttStatus` |
| `Inspection` | the inspection monitor, its alarms and pictures, the detectors of the AI service |
| `InspectionProofs` | theorems about `Inspection` |
| `MCCmdVel`, `MCFleet`, `MCPatrol`, `MCQueueFollow`, `MCLlmTasks`, `MCTcpCar`, `MCMqttStatus`, `MCInspection` | instances for TLC, with a `.cfg` for each run |

Operators named `X_MutY`, next to the definition `X`, are faulty versions of `X`, each with a bug
the code could plausibly have. No specification uses them. Replacing `X` by one of them must make
a named property fail, which shows that the property depends on the code.

### 2.1 CmdVel

A motion is the pair of an event and a thread, which the code always stores together. One action
is one critical section of `_lock`, or one unlocked access between two of them.

| Actions | Code |
|---|---|
| `PublishForDuration`, `Register`, `StartWorker` | `publish_for_duration`: cancel the active motion without waiting, register the new one, start its thread |
| `LoopEnter`, `LoopPublish`, `AfterLoop`, `SendZeros`, `ClearActive` | a worker: look at the event and the deadline; publish; after the loop send zeros unless cancelled; leave the slot if it is still there |
| `PublishOnce`, `OnceSend` | `publish_once`: cancel and join, then send |
| `Stop`, `StopSend` | `stop`: cancel, then zeros |
| `RotateAngle`, `RotateGiveUp`, `RotateZeroAngle`, `RotateRegister`, `RotateReturn` | `rotate_angle`, which runs its loop in the caller's thread |
| `JoinReturns`, `JoinRaises` | `Thread.join`, which times out, and raises for a thread not started yet |
| `Close`, `CloseLock`, `ShutdownReturns` | `close`: cancel and join; take the lock; shut the executor down while holding it |
| `OnOdom`, `SetLatestYaw` | an odometry callback of the executor begins; takes the lock to store its reading |

`twist` is the last message on the topic; `late` counts, per motion, the messages after its
cancellation; `stopped` says that a stop emptied the slot and nothing was asked for since. There is
no clock: a deadline may pass whenever the code looks at it, and `MaxPublishes` bounds the
iterations of a loop. The values of angles and odometry are left out: a rotation may end at any
reading. Of the executor's callbacks the model has one at a time (`callback`), and that
`shutdown` waits for it.

### 2.2 Fleet

A request addresses some robots in order; a command is a request and a robot. `Formations` are the
requests that send `set_formation`; the other endpoints of `routers/fleet.py` differ in payload.

| Actions | Code |
|---|---|
| `Accept` | an endpoint's checks, with the readiness of all robots for `Strict` requests |
| `CreateCommand`, `PublishJson`, `MarkPublished`, `MarkRefused`, `RegisterFormation` | the loop over the robots of a request: `create_command`, `publish_json`, `mark_command_published`, `register_formation` |
| `HandleAck`, `HandleReport` | `handle_robot_message` on the API's MQTT thread |
| `ExpireCommand`, `Silence` | a query that finds a deadline passed; time without a message from a robot |
| `TakeCommand`, `AnswerCommand`, `ReportAnswered` | the agent's network thread: apply a command; send the acknowledgement; fetch the pose and send a report |
| `DraftReport`, `SendReport` | the agent's main loop: build the report, fetch the pose, send |
| `StopAgent`, `ExitAgent`, `CrashAgent`, `StartAgent`, `RestartApi` | shutdown, crash and restart of the processes |
| `LoseDown`, `LoseUp`, `RepeatDown`, `RepeatUp` | the broker (external): QoS 1 and clean sessions |

`performed` remembers which results the executions of a command really had. `publish_json` may report a failure for a message that is delivered all the same.

### 2.3 Patrol

| Actions | Code |
|---|---|
| `CreateTask`, `UpdateCheck`, `UpdateWrite`, `DeleteCheck`, `DeleteWrite` | `create_task`, `update_task`, `delete_task`: the check of the runtime table and the transaction are separate |
| `StartRead`, `StartRefused`, `StartLock`, `MarkRunning` | `start_task`: read the row, check and enter the run under the lock and start its thread, write the row |
| `StopTask`, `MarkCancelled` | `stop_task`: set the event and the entry under the lock, write the row |
| `CheckCancelled`, `PublishGoal`, `PollCancelled`, `SampleFails`, `NearGoal`, `FarFromGoal`, `WaypointTimeout` | `_run_task`, `_drive_to_waypoint`, `_wait_until_arrived` |
| `RecordCompleted`, `RecordFailed`, `FinishRun` | the end of a run: write the row, then the entry; each may fail |
| `Crash` | a restart: the runtime table is gone, rows and robots' goals stay |

A route is the number of goals of its loops; `left` counts those to reach, `stable` the readings
near the goal in a row. `lateGoals` counts the goals a run sent after its cancellation,
`unrecorded` has the runs that failed and could not record it. The service posts every goal to
the one bridge of its settings (`slam_service.py`), whatever code the run holds: `goal` is the run
that bridge heard last, and two runs of different codes drive the same chassis in turn.

### 2.4 QueueFollow

A session is a queue of robots with the leader first, and a loop in a thread of its own.

| Actions | Code |
|---|---|
| `Start`, `Stop` | `start`, `stop` up to the end of its critical section, which takes the session out of the service (`TakeSession`) |
| `SetEvent`, `Join`, `HaltReturns` | the rest of `stop`: set the event, wait for the thread a second at most, stop the followers |
| `Register` | the critical section of `start`, which begins the loop |
| `TestEvent`, `EnterLoop`, `Tick`, `RecordPoses`, `TickFails` | `_run_loop` and the head of `_tick`: the event, then three comparisons of the session, each under the lock, and the poses recorded under the last |
| `Command`, `CallReturns` | a turn of the loop over the followers: a velocity or a stop, and its answer or time-out |
| `Arrive` | the robot's bridge (external) |

`late` counts the velocities a session sent to a robot while another session, or none, was on
record. Stops under way are not kept: nothing here depends on what they do at the robot.

### 2.5 LlmPlanner and LlmTasks

`LlmPlanner` has no state. A sentence is what the code's searches find in it: clauses with action
words, stop words, robot codes and times; topics; the patrol task it names.

| Operators | Code |
|---|---|
| `MotionAction`, `Duration`, `DirectMotionSteps`, `SameOperationSteps` | the steps the words themselves ask for, clause by clause |
| `RulePlan`, `PatrolRule`, `BestReady` | `_plan_with_rules`: the first rule that applies |
| `StepsFromLlm`, `Normalize`, `NormalizeMotion`, `Missing` | what is kept of the model's answer, and what it is completed with |
| `PlanSteps`, `RequiresConfirmation`, `ResolvePatrolTask` | `plan`'s choice among these, and two helpers |
| `EffectiveTicks`, `StepDelay` | the compensated duration of a motion, and the sleep after a step |

| Actions of `LlmTasks` | Code |
|---|---|
| `Plan` | `plan`: steps, storing, `auto_execute` |
| `Take`, `Skip`, `Finish`, `WriteBack` | `execute` and `_execute_plan`: take the plan under the lock, run the steps without it, write it back |
| `Query`, `SafetyStop`, `Motion`, `NudgeForward`, `Rotate`, `RotateReturns`, `Rescue`, `Corridor`, `AvoidHazard`, `VerifyOrEscort`, `Form`, `PatrolCall` | `_execute_step`, by tool |
| `Wake`, `Elapse` | the sleep between steps; time, until the next sleep or motion ends |
| `Restart` | a new process that reads the file, which a crash in the midst of a save leaves unreadable |

`ran` and `closed` remember what executions made robots do and which plans were written back.

### 2.6 TcpCar

A thread has a list of the steps left of its frame (`todo`); a step that finds more to do puts it
in front, an exception drops the rest. So the threads of connections, the scan thread, the closing
thread and the workers interleave between any two of them.

| Actions | Code |
|---|---|
| `Receive` with `ParseFrame`, `HandleFrame`, `HandleButton`, `HandleLightEffect`, ... | `main.py`: checksum, dispatch and handlers |
| `CheckShow`, `TakeShow`, `TakeEffect`, `Join`, `Register`, `Launch`, `Light` | `LightShow` and `HeadlightEffectController`: `start`, `stop`; packets of a scene |
| `NextScene`, `WritePacket`, `ClearSlot` | their workers |
| `CancelMotion`, `StartMotion`, `EndMotion`, `RequestMotionStop`, `StopWorker` | the bridge's calls of the velocity publisher, and the stop thread. A motion is one that runs, was told to stop, or is over; `CmdVel` has the rest |
| `Play`, `KillTrackers`, `StartTracker` | `audio_player.py`; the tracking process |
| `OnScan` | `ObstacleSoundLightMonitor._on_scan`, whose warning is the scan thread's `todo` |
| `Shutdown`, `CloseStep` | `close`, after which the process ends |

`want` remembers what the last frame asked of the lights, `owed` every motion that ran when a stop
was accepted, `displaced` those that lost the slot to a move which had cancelled before they
registered; `quiet`, `firstClear` and `clearSpan` the time since the last warning, since the first
clear scan after it, and between that and the last clear scan; `mixed` and `late` that two threads
were at the lights at once, or that a join ran out of time.

### 2.7 MqttStatus

| Actions | Code |
|---|---|
| `Receive`, `Call`, `ReadMode`, `UpdateStatus`, `WriteLog` | `dispatch_control`, from a request or on the network thread; the log of a request |
| `ReadStatus`, `PublishJson` | `publish_robot_status`: read the cache, then publish under the client's lock |
| `Beat`, `Each` | the heartbeat |
| `Start`, `Reconnect`, `OnConnect`, `OnDisconnect`, `SendQueued`, `StopHeartbeat`, `LoopStops` | the client's connection, with what paho does; the service's stop |
| `Outage`, `Return` | the broker (external) |

### 2.8 Inspection

| Actions | Code |
|---|---|
| `Start`, `Stop`, `LoopInspects`, `LoopSleeps`, `InspectOnce` | the monitor's task, and the requests that run beside it |
| `Capture`, `GetDetector`, `SwitchMode`, `Load`, `Detect`, `Answer` | the AI service: the picture, and the detectors all threads share |
| `Upload`, `Download`, `Discard`, `Delete` | the picture's way in `_inspect_once_sync`; each call may fail, and a transfer may end the inspection with an exception |
| `Check`, `Commit`, `Publish`, `Mark`, `MarkHandled` | `create_alarms_from_result`, with its two commits, and `mark_handled` |
| `Crash`, `MinutePasses` | a restart of the web API, which cancels nothing in the AI service; the clock, of which the key of an alarm has the minute |

`files` says where the picture of an inspection is kept; `together` remembers which pairs of
inspections stood between the check for duplicates and the commit at the same time. Detectors are
told apart by when they were loaded (`loads`): an inspection may still hold one that `_detectors`
no longer has.

## 3. The runs

All passing runs explore every reachable state of the instance.

| Run | Instance | Shows |
|---|---|---|
| `cmdvel_safety` | 2 callers, 2 motions of 2 messages | types; the slot holds only what can be stopped; bounded late messages; an uncancelled motion ends in zeros; refinement of `MotionSlot` |
| `cmdvel_progress` | 2 callers, one of which may close, 2 motions of 1 message, fair | every started motion ends and every call returns, unless `close` has caught a callback before its lock |
| `cmdvel_last_word` | 1 caller, 1 motion | *violated*: a velocity may follow the zeros of `stop()` |
| `fleet_commands` | a formation and a strict motion request for 1 robot, 2 handlers, a repetition or an outage, or a repetition and a restart of the API | types; success kept and never invented; a ready formation was carried out; refinement of `CommandLedger` |
| `fleet_progress` | 2 formations of 1 robot, 1 handler, an outage, fair | commands settle; the registry's formation catches up; without the outage the formation a robot stays in becomes ready |
| `patrol_safety` | 2 tasks of 1 goal, 2 robot codes, 2 callers, 2 runs, a crash | types; a live run can be stopped; one run per robot code; one late goal at most; refinement of `RobotLease` |
| `patrol_progress` | 1 task of 2 goals, 1 caller, 2 runs, a failing transaction, a crash, fair | a cancelled run ends; runs end and free their task and code, one failing transaction or not |
| `queue_sessions` | sessions of 3 robots and of 2 of them, 2 callers, fair | types; the session on record runs; one late velocity at most; a replaced session falls silent |
| `llm_plans` | 18 first requests, by rule and by model, and a second one; 2 threads, a fault, 2 robots with 3 spellings | types; nothing moves unconfirmed; no step of a plan that was written back; an acknowledged motion runs out; the planner hears a stop, tried on every sentence of two clauses |
| `tcp_car` | 2 connections, 13 frames, with and without the serial port | types; the lights follow the last frame; a stop is heard by all that moved; warnings are apart |
| `mqtt_status` | 1 robot, requests, messages and heartbeat, 3 commands, an outage, fair | types; the retained status catches up with the cache |
| `inspection_alarms` | 2 inspections, 2 tasks of the monitor, 3 settings, a minute that passes or a crash | types; a risk is recorded, and once a minute; an alarm keeps its picture |

### 3.1 Bounds

- Two callers and two motions of two messages: an eviction needs a motion in the slot and one that
  replaces it; more callers repeat the same pairs of critical sections. Two messages tell a loop
  that ends after its last one from one that goes on. In `cmdvel_progress` one caller may close, as
  only the shutdown handler does, and callbacks come only while it does: one that gives the lock
  back before has changed nothing. `cmdvel_safety` has neither restriction.
- Two handlers, two requests and one robot: every race in the registry is between two commands of
  a robot or between two writers of a command. A second robot multiplies the states by its
  reports, so the passing runs have one; that readiness joins several robots is proved
  (`ReadyFormed`). A formation of two robots was tried and has too many states for TLC.
- `MaxFaults`: one of each kind per behaviour; `fleet_commands` takes both only if the outage is a
  restart of the web API (`OneFault`). What it checks is proved for any faults. A lost message is an outage of the connection. A
  repetition doubles the whole channel. A second fault of a kind starts from a state that one has
  not made new.
- `MaxChannel` only keeps the main loop from filling a channel; it does not bound commands or
  answers. Reports are taken in order, so a longer row of equal reports adds nothing.
- Two tasks and two runs: the races are between two starts, and between a run and its successor.
  `HoldChecks` 2 tells a reading that is near from one that stays near. Failing transactions are
  in `patrol_progress`, with one caller and one robot code that two runs want; the invariants
  and the refinement are proved for any number of them.
- Two sessions and two callers: a session replaces another, also when both starts found none. A
  session of three robots has a second follower, whose turn comes after the first one's call.
  `MaxCalls` 1: a second velocity of a session to a robot waits for the one before, as the bridge
  is asked one at a time unless a call timed out.
- `llm_plans`: the first requests take the planner through its rules, the model's answers and
  their repair; the second, a stop that also names a motion, shows that a store of one plan drops
  the older one, which its execution then brings back. Two threads may hold one plan. Times count
  in steps of 50 ms and pass until the next sleep or motion ends, so that a sleep that ends
  before its motion is seen. One fault: a save that fails, or a restart.
- `tcp_car`: a behaviour has three frames, or two and the closing, or one and four scans of the
  lidar, or seven scans. Three frames are what a replaced worker needs (one is replaced, one replaces it, one looks
  for it); four scans are clear, clear a dwell later, obstacle, and one more. A second warning needs six:
  clear, clear, obstacle, and these once more; the seventh is a flicker between them. The gaps make up
  for `Cooldown` or fall short of it, so that the second warning is given or is too soon. A show has one scene of the 21 of the code: the end and the stop of a show come after any
  scene alike. Two connections interleave; a third adds no new pair.
- `mqtt_status`: a robot's messages do not touch another's. Three commands are two that overtake
  each other and one after the outage.
- `inspection_alarms`: two inspections overlap or follow each other; the monitor's second task
  runs beside the thread the first left behind. A risk is seen surely in two boxes, or faintly, or
  not. The settings are those of one host, of two, and with pictures downloaded. `Start` and `Stop`
  end with the inspections, as nothing reads what they would change then.
- The behaviours of `Patrol`, `LlmTasks`, `TcpCar`, `MqttStatus` and `Inspection` end with their
  runs, plans, frames, commands or inspections: those runs do not check deadlock.
  `CmdVel` may stop too, in the deadlock of `close`. `Fleet` and `QueueFollow` never stop, and
  there TLC checks deadlock.

### 3.2 Fairness

- `CmdVel`: the thread of a motion and a call that has begun are scheduled. Nothing makes anyone
  call. Joins have a timeout, so they return without the joined thread's help; the executor's
  `shutdown` has none, and returns when its callback has ended.
- `Fleet`: threads of handlers and agents run, what is not lost is delivered, systemd restarts an
  agent (`Restart=always` in `scripts/deploy_robot_agent.ps1`), and an operator keeps asking for the
  commands (the code evaluates a deadline only when asked). Faults and silence are never fair.
- `Patrol`: threads run. That a waypoint's deadline passes (`DeadlinesPass`, strong fairness, since
  the condition is looked at again and again, between samples) is a premise of `RunsEnd` only;
  `CancelledRunEnds` does not need it. `RunsEnd` lets off a run that a crash forgot, and one whose
  record of its failure failed too: the code has nothing that would bring them to an end.
- `QueueFollow`: loops and callers run, and a velocity under way arrives or is lost. Nothing makes
  anyone start or stop a session, and joins and calls have a timeout.
- `MqttStatus`: threads run, and paho's loop keeps trying to connect once the first connect has
  succeeded. Nobody makes the broker come back or the service start or stop: the property asks for
  both in its premise.
- `LlmTasks`, `TcpCar` and `Inspection` state safety only, without fairness.

## 4. What is proved

TLAPS proves the following for every set of callers, motions, robots, requests, handlers, tasks,
runs, sentences, frames and inspections, and every bound and duration, from the assumptions the
modules state on their constants (`CmdVelAssumption`, `FleetAssumption` and so on: identifiers are
distinct from the values that stand for none, bounds are natural numbers, the robots of a request
or a queue are not repeated, and what a module is given to try, such as requests or frames, is of
the form the code's schemas and parsers admit).

| Module | Theorems |
|---|---|
| `CmdVelProofs` | `TypeCorrect`, `OwnerStoppable`, `LateBounded`, `UncancelledStops`, `ClosedSilent`, `DeadlockFinal`, `SlotRefinement`, `SequentialClient` |
| `FleetProofs` | `TypeCorrect`, `SuccessKept`, `AckedPerformed`, `ReadyFormed`, `LedgerRefinement` |
| `PatrolProofs` | `TypeCorrect`, `LiveRunStoppable`, `OneRun`, `OneLateGoal`, `OutcomeFinal`, `StuckEntries`, `LeaseRefinement` |
| `QueueFollowProofs` | `TypeCorrect`, `CurrentRuns`, `LateBounded` |
| `LlmTasksProofs` | `TypeCorrect`, `Confirmed`, `DoneOnce`, `MotionRunsOut`, `StopIsPlanned` |
| `TcpCarProofs` | `TypeCorrect`, `StopHeard`, `WarningsApart`, `LightsFollow` |
| `MqttStatusProofs` | `TypeCorrect`, `KnownIsShown`, `NoLoopShowsNothing`, `OnlineStays`, `StopAndMessageBlock` |
| `InspectionProofs` | `TypeCorrect`, `RiskAlarmedOnce`, `PictureKept` |

Each module proves `Init => IInv`, `IInv /\ [Next]_vars => IInv'`, and what follows from `IInv`.

- **CmdVel.** That the owner of the slot can be stopped is not inductive: one must know which motion
  a call has in hand at each of its steps (`CallHolds`), that no two calls start the same motion
  (`StartsAreDistinct`), and that a thread past its registration is one that was registered
  (`OnlyRegistered`). `LateBudget` says how many messages a cancelled motion may still send at each
  point of its loop; `LastMessage` where a thread is while the chassis still obeys its motion.
  `SequentialClient` assumes a single caller and strengthens the invariant by what its calls
  leave behind.
- **Fleet.** A success stays on show because a command that its handler has not marked yet is
  pending or answered, never published (`BeingIssued`): only what is published can time out, and
  the mark keeps acked. For this each command has one handler (`OneHandlerPerRequest`) that has not
  come to it before (`NotYetIssued`). `UnderWay` says that every acknowledgement in a channel tells
  of an execution, through repetition, loss and restarts; so nothing acked was invented, and no
  formation is ready before it was formed.
- **Patrol.** A live run is the one its task's entry names (`LiveRunCanBeStopped`), because the
  entry is replaced under the same lock that finds no running one. Then two live runs with one robot
  code contradict the second check of that lock. `LateGoalsSound` says where a run is once it has sent a
  late goal: it does not come back to where goals are sent. The refinement reads the leases off the
  live runs; a goal is sent by a live run, hence under its lease.

- **QueueFollow.** Only a session taken out of the service has its event set (`ToldSound`), and the
  one a start registers was begun by nobody else (`CallersSound`); so the session on record runs.
  `LateSound` says where a loop is once it has sent a robot a late velocity: further on in the same
  tick, which visits each follower once, and no tick of a session off record sends again.
- **LlmTasks.** The planner comes first. `PlanStepsTypes` follows every path from a request to its
  plan, so that whatever the rules or the model make of it has a plan's form; `HearsStop` goes
  through the rules in their order (`FirstIn` finds the first that applies; `Least`, from the
  well-founded order of the numbers, stands for induction). The invariant of the executions then
  says of each thread that its plan was confirmed if it asks for it, that all steps before the one
  it is at are done, and that a late one found every step done (`Execution`); of the store and the
  file that they hold a plan once, and written back only when finished (`StoresSound`); and of an
  acknowledged motion that its execution is at its step, in the call or asleep for at least as long
  as the robot moves (`MotionsSound`). That sleep covers motion is where the compensated duration
  of several robots enters. That plans in excess of `MaxStored` are never more than executions
  (`StoreBounded`) bounds the store.
- **TcpCar.** The steps left of a frame name no frame but their own and each thing once
  (`FramesApart`), which every handler is shown to satisfy (`FrameSteps`) and every step to keep
  (`ThenGoes`, `RaiseGoes`). So a motion still to be started is none of those a stop was accepted for
  (`MotionsSound`), without which `StopIsHeard` is not inductive, and one that loses the slot while
  it runs is displaced (`SlotEmptied` has the other case); and a worker that was registered
  waits for its launch (`WorkersSound`). For the warnings, `MonitorSound` relates
  the monitor's three times to what is remembered: the flag is down only if two clear scans a dwell
  apart came since the last warning (`Lapse` is the arithmetic of capped times).
  The lights need an invariant of their own, `LightsSound`. At most one thread is at the lights
  (`Alone`), and of what it has left, and of the lights as they are (`View`), it says (`Sound`):
  a worker that is active is in its slot, or is waited for (`WorkerSlots`); a show ends in the dark
  and an effect only when it is told to (`WorkerStates`); the show and the effect are stopped before
  another worker begins or a lamp is lit, and what may raise an exception comes last (`Order`); and
  the last thing drawn is the scene that was asked for (`Purpose`, `Draw`). Every handler has this
  form when it begins (`FrameMeets`, `WarningMeets`, `CloseMeets`): the handlers are sequences put
  together of parts, and the lemmas about them go from the last step to the first (`OrderFirst`,
  `DrawsPrefixed`). Every step of the thread keeps it (`StepLights`), and every step of a worker
  keeps it for whatever the thread has left (`Turns`, `WorkerWrites`, `WorkerEnds`). With nothing
  left about the lights it says what the property says (`LightsAsAsked`).
  TLC, too, finds `LightsSound` invariant on the instance of the run.
- **MqttStatus.** Whatever is shown, queued or on its way belongs to a robot in the cache
  (`OnlyKnownAreShown`), and a client whose loop does not run has nothing to send (`ClientSound`).
  `StopDeadlocks` is about states the program does reach: in TLC's instance a start, a connection, a
  message and a stop lead there in seven steps.
- **Inspection.** An inspection that was sure of a risk has it before it or has its row, place by
  place (`SureRecorded`); two inspections before their commit stand there together, and what one is
  about to repeat is of such a one (`PendingSound`). `FilesSound` says where the picture is at each
  place, `RowsSound` that a row says the same as its inspection.

The refinement theorems map each step to a step of the abstract specification or to none.

Some theorems state what no run checks: `DeadlockFinal`, that the deadlock of `close` is never left;
`StuckEntries`, that only a failure that could not be recorded leaves an entry `running` behind;
`SequentialClient`, that with one caller at most one motion
is uncancelled (the runs have two callers); `ClosedSilent`, that nothing is published once the
publisher was destroyed; `OutcomeFinal`, that what a patrol run ended as is never taken back; and
four about `MqttStatus`: the broker shows only robots the service knows (`KnownIsShown`), nothing
when the client's loop does not run (`NoLoopShowsNothing`), a robot once online stays so in the
cache, as nothing in the service ever takes it for offline (`OnlineStays`), and the blockage of
`stop` is final (`StopAndMessageBlock`). TLC agreed with these four on the instance of `mqtt_status`.

Proof attempts corrected the models in places where TLC, on its instance, had nothing to object to:
guards of a CASE in `TcpCar` and in `LlmPlanner` overlapped, where TLA+ leaves the choice open and
the code has an order; detectors of `Inspection` had no identity of their own; and `MqttAssumption`
did not keep `None` apart from the statuses.

Left to TLC:

- liveness under fairness: `StartedMotionEnds`, `CallsReturn`, `CommandsSettle`,
  `FormationConverges`, `FormationBecomesReady`, `CancelledRunEnds`, `RunsEnd`,
  `ReplacedSessionFallsSilent`, `ShownStatusCatchesUp`. TLAPS has no rule for ENABLED here;
- the violated property, for which TLC gives the trace.

## 5. Where the code and the documents disagree

`cmdvel_last_word`: `docs/scenario_requirements.md:101` says that an emergency stop overrides every
motion. A worker past its test publishes once more, and a cancelled motion sends no zeros. The
publisher keeps weaker promises, which are proved: a stop is followed by at most one message of a
timed motion and two of a rotation, and an orphan ends by its own deadline, in zeros.

### 5.1 What the models show besides

These behaviours are in the models, and the properties above are stated so that they hold in spite
of them. No run is devoted to them.

- Publisher: of two concurrent timed motions the first is evicted without being cancelled, and no
  stop finds it. `rotate_angle` cancels the running motion before it looks for odometry, and without
  any gives up and sends no zeros. `close` waits for the executor while it holds the lock: an
  odometry callback that has begun and not yet stored its reading waits for that lock, and neither
  goes on, nor does any other call (`Deadlocked`; TLC reaches it with one caller).
- Fleet: the mark that follows a publish overwrites a `failed` answer
  (`docs/fleet_communication.md:567` says it shows); a report without a formation leaves the stored
  one, so a formation stays ready after a restart of its robot (`:236` asks for a match).
- Patrol: the mark `running` may come after the run has failed, and clears the reason
  (`docs/scenario_requirements.md:129` wants it recorded). All goals go to one bridge, so runs of
  two robot codes drive one chassis, each thinking it is its own. When the transaction that records
  a failure fails, the entry says `running` for good, which blocks its task and its code. After a
  restart the chassis keeps its goal.
- Queue follow: the one late velocity may reach a robot after the stop that was to end it.
- Language model tasks: two executions that both took a plan before either wrote it back do its
  steps twice, as does one after a restart in the midst of the first. A failed step does not end the
  execution. A plan that executes itself but needs a confirmation is refused and not stored. The
  words for halt and brake are heard as no motion, but no rule plans a stop for them, and the rules
  of rescue, corridor and hazard come before the rule of stop. `patrol`
  tools, motions and nudges do not ask whether the robot is ready, and a nudge is not waited for.
  When no robot is ready, the rules choose the first one online, whichever the request names.
- TCP bridge: a stop that comes while an earlier one publishes its zeros is dropped, and the stop
  thread may cancel the motion of a later frame. Of two moves that both cancel before either
  registers the second takes the slot of the first, which no stop reaches from then on. Two shows started at once leave one that no stop
  knows. A stop frame does not end the tracker; a tracking stop whose `pkill` times out does not stop
  the motion. The scenes of two connections mix. The dwell is counted from the first clear reading
  and an obstacle seen meanwhile does not reset it (`event_linkage.py:137`), so a flickering one may
  be warned of again after the cooldown; one that comes within the cooldown is never warned of.
- MQTT: a first connect that fails is never tried again, although
  `docs/scenario_requirements.md:283` wants MQTT to reconnect by itself. `stop` holds the lock while
  it joins a network thread that may be waiting for it; neither goes on from there. `capture_image`
  writes back a mode it read before, and so undoes a command in between. A robot that a command was
  carried out for is shown as online from then on, whether it is reachable or not.
- Inspection: two inspections at once record one risk twice, `dedup_key` being no unique key
  (`docs/scenario_requirements.md:285` wants duplicates removed). With downloads on, line 128 of
  `inspection_monitor_service.py` deletes the picture at the robot although neither upload nor
  download came through. A crash between the commits, or a refused message, leaves an alarm
  unpublished for ever. A detector that another thread unloads finds nothing.

## 6. Plan

1. `PatrolSchedule`: synchronisation of jobs against updates. The jobs are the enabled rows.
2. `ImageCapture`: subscriptions and the spin thread that outlives the join.
3. `MobileTcp`: the chain of sends per robot.
4. A refinement of the abstract specification of queue follow; `TcpCar`'s motions composed with
   `MotionSlot`.
5. Pure functions: slots of a formation, clamping of velocities, the angle controller of a rotation
   on a small grid of angles.

## 7. Not modelled, and why

- What a detector finds, and map building: numeric; the models choose.
- The keywords of a sentence as strings: the models choose what is found.
- Login, cloud files, maps, car finding: queries and forwarding, one database transaction each.
- The endpoints of the ROS bridge: one call each, of what `CmdVel` models or of ROS.
- The user interface of the mobile application, schema, deployment and scripts.
- The arithmetic of poses and formations, until the planned pure functions.
- Timing as such, but for the sleeps of `LlmTasks` and the counters of the obstacle monitor:
  deadlines are choices, so properties hold for every duration.
