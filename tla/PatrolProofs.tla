----------------------------- MODULE PatrolProofs -----------------------------
(***************************************************************************)
(* Proofs about Patrol, for any tasks, robots, callers, routes and bounds.  *)
(***************************************************************************)
EXTENDS Patrol, TLAPS

\* A run that is alive has a task and a robot; while it drives it has a goal
\* left to reach, and it has not been near it for long enough.
RunsSound ==
    \A w \in Runs :
        /\ wpc[w] = "unborn" <=> state[w] = "unborn"
        /\ wpc[w] \in Alive => taskOf[w] \in Tasks /\ holds[w] \in Robots
        /\ wpc[w] \in Driving => left[w] > 0
        /\ wpc[w] \in {"poll", "sample"} => stable[w] < HoldChecks

\* An entry is about a run of its own task.
EntriesSound ==
    \A t \in Tasks : entry[t] # None => /\ state[entry[t]] # "unborn"
                                        /\ taskOf[entry[t]] = t

\* A caller at work has a task, and one that is about to start it a robot.
CallersSound ==
    \A c \in Callers : /\ cpc[c] # "idle" => ctask[c] \in Tasks
                       /\ cpc[c] = "start_lock" => crobot[c] \in Robots

\* A run that has sent a goal after its cancellation does not come back to
\* where goals are sent.
LateGoalsSound ==
    \A w \in Runs :
        \/ lateGoals[w] = 0
        \/ /\ lateGoals[w] = 1
           /\ cancelled[w]
           /\ wpc[w] \in {"poll", "record_failed", "finish_failed", "dead"}

IInv == /\ TypeOK /\ RunsSound /\ EntriesSound /\ CallersSound /\ LateGoalsSound
        /\ LiveRunCanBeStopped /\ OneRunPerRobot

LEMMA Step == IInv /\ [Next]_vars => IInv'
<1> SUFFICES ASSUME IInv, [Next]_vars
             PROVE  IInv'
  OBVIOUS
<1>1. ASSUME NEW t \in Tasks, CreateTask(t)
      PROVE  IInv'
  <2>1. /\ RunsSound' /\ EntriesSound' /\ CallersSound' /\ LateGoalsSound'
        /\ LiveRunCanBeStopped' /\ OneRunPerRobot'
    BY <1>1 DEF IInv, RunsSound, EntriesSound, CallersSound, LateGoalsSound,
       LiveRunCanBeStopped, OneRunPerRobot, CreateTask, runtime, threads, callers, history
  <2>2. TypeOK'
    BY <1>1, PatrolAssumption DEF IInv, TypeOK, RunsSound, CallersSound, RowStatuses,
       FinalStates, CallerPc, Alive, Driving, Closing, CreateTask, runtime, threads, callers,
       history
  <2> QED
    BY <2>1, <2>2 DEF IInv
<1>2. ASSUME NEW c \in Callers, NEW t \in Tasks, UpdateCheck(c, t)
      PROVE  IInv'
  <2>1. /\ RunsSound' /\ EntriesSound' /\ LateGoalsSound' /\ LiveRunCanBeStopped'
        /\ OneRunPerRobot'
    BY <1>2 DEF IInv, RunsSound, EntriesSound, LateGoalsSound, LiveRunCanBeStopped,
       OneRunPerRobot, UpdateCheck, CallerGoto, database, runtime, threads, history
  <2>2. TypeOK'
    BY <1>2, PatrolAssumption DEF IInv, TypeOK, RunsSound, CallersSound, RowStatuses,
       FinalStates, CallerPc, Alive, Driving, Closing, UpdateCheck, CallerGoto, database,
       runtime, threads, history
  <2>3. CallersSound'
    BY <1>2, PatrolAssumption DEF IInv, TypeOK, CallersSound, UpdateCheck, CallerGoto,
       database, runtime, threads, history
  <2> QED
    BY <2>1, <2>2, <2>3 DEF IInv
<1>3. ASSUME NEW c \in Callers, NEW r \in Robots, UpdateWrite(c, r)
      PROVE  IInv'
  <2>1. /\ RunsSound' /\ EntriesSound' /\ LateGoalsSound' /\ LiveRunCanBeStopped'
        /\ OneRunPerRobot'
    BY <1>3 DEF IInv, RunsSound, EntriesSound, LateGoalsSound, LiveRunCanBeStopped,
       OneRunPerRobot, UpdateWrite, Return, CallerGoto, runtime, threads, history
  <2>2. TypeOK'
    BY <1>3, PatrolAssumption DEF IInv, TypeOK, RunsSound, CallersSound, RowStatuses,
       FinalStates, CallerPc, Alive, Driving, Closing, UpdateWrite, Return, CallerGoto,
       runtime, threads, history
  <2>3. CallersSound'
    BY <1>3, PatrolAssumption DEF IInv, TypeOK, CallersSound, UpdateWrite, Return, CallerGoto,
       runtime, threads, history
  <2> QED
    BY <2>1, <2>2, <2>3 DEF IInv
<1>4. ASSUME NEW c \in Callers, NEW t \in Tasks, DeleteCheck(c, t)
      PROVE  IInv'
  <2>1. /\ RunsSound' /\ EntriesSound' /\ LateGoalsSound' /\ LiveRunCanBeStopped'
        /\ OneRunPerRobot'
    BY <1>4 DEF IInv, RunsSound, EntriesSound, LateGoalsSound, LiveRunCanBeStopped,
       OneRunPerRobot, DeleteCheck, CallerGoto, database, runtime, threads, history
  <2>2. TypeOK'
    BY <1>4, PatrolAssumption DEF IInv, TypeOK, RunsSound, CallersSound, RowStatuses,
       FinalStates, CallerPc, Alive, Driving, Closing, DeleteCheck, CallerGoto, database,
       runtime, threads, history
  <2>3. CallersSound'
    BY <1>4, PatrolAssumption DEF IInv, TypeOK, CallersSound, DeleteCheck, CallerGoto,
       database, runtime, threads, history
  <2> QED
    BY <2>1, <2>2, <2>3 DEF IInv
<1>5. ASSUME NEW c \in Callers, DeleteWrite(c)
      PROVE  IInv'
  <2>1. /\ RunsSound' /\ EntriesSound' /\ LateGoalsSound' /\ LiveRunCanBeStopped'
        /\ OneRunPerRobot'
    BY <1>5 DEF IInv, RunsSound, EntriesSound, LateGoalsSound, LiveRunCanBeStopped,
       OneRunPerRobot, DeleteWrite, Return, CallerGoto, runtime, threads, history
  <2>2. TypeOK'
    BY <1>5, PatrolAssumption DEF IInv, TypeOK, RunsSound, CallersSound, RowStatuses,
       FinalStates, CallerPc, Alive, Driving, Closing, DeleteWrite, Return, CallerGoto,
       runtime, threads, history
  <2>3. CallersSound'
    BY <1>5, PatrolAssumption DEF IInv, TypeOK, CallersSound, DeleteWrite, Return, CallerGoto,
       runtime, threads, history
  <2> QED
    BY <2>1, <2>2, <2>3 DEF IInv
<1>6. ASSUME NEW c \in Callers, NEW t \in Tasks, StartRead(c, t)
      PROVE  IInv'
  <2>1. /\ RunsSound' /\ EntriesSound' /\ LateGoalsSound' /\ LiveRunCanBeStopped'
        /\ OneRunPerRobot'
    BY <1>6 DEF IInv, RunsSound, EntriesSound, LateGoalsSound, LiveRunCanBeStopped,
       OneRunPerRobot, StartRead, CallerGoto, database, runtime, threads, history
  <2>2. TypeOK'
    BY <1>6, PatrolAssumption DEF IInv, TypeOK, RunsSound, CallersSound, RowStatuses,
       FinalStates, CallerPc, Alive, Driving, Closing, StartRead, CallerGoto, database,
       runtime, threads, history
  <2>3. CallersSound'
    BY <1>6, PatrolAssumption DEF IInv, TypeOK, CallersSound, StartRead, CallerGoto, database,
       runtime, threads, history
  <2> QED
    BY <2>1, <2>2, <2>3 DEF IInv
<1>7. ASSUME NEW c \in Callers, NEW w \in Runs, StartLock(c, w)
      PROVE  IInv'
  <2>1. TypeOK'
    BY <1>7, PatrolAssumption DEF IInv, TypeOK, RunsSound, CallersSound, RowStatuses,
       FinalStates, CallerPc, Alive, Driving, Closing, StartLock, Launch, CallerGoto,
       database, history
  <2>2. RunsSound'
    <3>1. ctask[c] \in Tasks /\ crobot[c] \in Robots
      BY <1>7 DEF IInv, CallersSound, StartLock
    <3> Goals[ctask[c]] > 0
      BY <3>1, PatrolAssumption
    <3> wpc[w] = "unborn" /\ state[w] = "unborn"
      BY <1>7 DEF IInv, RunsSound, StartLock, Launch
    <3>2. /\ wpc' = [wpc EXCEPT ![w] = "check"] /\ state' = [state EXCEPT ![w] = "running"]
          /\ taskOf' = [taskOf EXCEPT ![w] = ctask[c]]
          /\ holds' = [holds EXCEPT ![w] = crobot[c]]
          /\ left' = [left EXCEPT ![w] = Goals[ctask[c]]] /\ stable' = stable
      BY <1>7 DEF StartLock, Launch
    <3> QED
      BY <1>7, <3>1, <3>2 DEF IInv, TypeOK, RunsSound, Alive, Driving, Closing
  <2>3. EntriesSound'
    BY <1>7, PatrolAssumption DEF IInv, TypeOK, RunsSound, EntriesSound, CallersSound,
       LiveRunCanBeStopped, FinalStates, Alive, Driving, Closing, StartLock, Launch,
       CallerGoto, database, history
  <2>4. CallersSound'
    BY <1>7, PatrolAssumption DEF IInv, TypeOK, CallersSound, StartLock, Launch, CallerGoto,
       database, history
  <2>5. LateGoalsSound'
    BY <1>7, PatrolAssumption DEF IInv, TypeOK, LateGoalsSound, RunsSound, StartLock, Launch,
       CallerGoto, database, history
  <2>6. LiveRunCanBeStopped'
    BY <1>7, PatrolAssumption DEF IInv, TypeOK, RunsSound, EntriesSound, CallersSound,
       LiveRunCanBeStopped, IsRunning, Alive, Driving, Closing, StartLock, Launch, CallerGoto,
       database, history
  <2>7. OneRunPerRobot'
    \* A live run holds its robot through the entry of its task.
    <3>1. \A v \in Runs : wpc[v] \in Alive => holds[v] # crobot[c]
      <4> SUFFICES ASSUME NEW v \in Runs, wpc[v] \in Alive
                   PROVE  holds[v] # crobot[c]
        OBVIOUS
      <4>1. /\ taskOf[v] \in Tasks /\ entry[taskOf[v]] = v /\ state[v] = "running"
            /\ v # None
        BY PatrolAssumption DEF IInv, RunsSound, LiveRunCanBeStopped
      <4>2. IsRunning(taskOf[v])
        BY <4>1 DEF IsRunning
      <4>3. ~RobotIsTaken(crobot[c])
        BY <1>7 DEF StartLock
      <4> QED
        BY <4>1, <4>2, <4>3 DEF RobotIsTaken
    <3>2. \A v \in Runs : /\ v # w => wpc'[v] = wpc[v] /\ holds'[v] = holds[v]
                          /\ v = w => holds'[v] = crobot[c]
      BY <1>7 DEF IInv, TypeOK, StartLock, Launch
    <3> QED
      BY <3>1, <3>2 DEF IInv, OneRunPerRobot
  <2> QED
    BY <2>1, <2>2, <2>3, <2>4, <2>5, <2>6, <2>7 DEF IInv
<1>8. ASSUME NEW c \in Callers, StartRefused(c)
      PROVE  IInv'
  <2>1. /\ RunsSound' /\ EntriesSound' /\ LateGoalsSound' /\ LiveRunCanBeStopped'
        /\ OneRunPerRobot'
    BY <1>8 DEF IInv, RunsSound, EntriesSound, LateGoalsSound, LiveRunCanBeStopped,
       OneRunPerRobot, StartRefused, Return, CallerGoto, database, runtime, threads, history
  <2>2. TypeOK'
    BY <1>8, PatrolAssumption DEF IInv, TypeOK, RunsSound, CallersSound, RowStatuses,
       FinalStates, CallerPc, Alive, Driving, Closing, StartRefused, Return, CallerGoto,
       database, runtime, threads, history
  <2>3. CallersSound'
    BY <1>8, PatrolAssumption DEF IInv, TypeOK, CallersSound, StartRefused, Return,
       CallerGoto, database, runtime, threads, history
  <2> QED
    BY <2>1, <2>2, <2>3 DEF IInv
<1>9. ASSUME NEW c \in Callers, NEW ok \in BOOLEAN, MarkRunning(c, ok)
      PROVE  IInv'
  <2>1. /\ RunsSound' /\ EntriesSound' /\ LateGoalsSound' /\ LiveRunCanBeStopped'
        /\ OneRunPerRobot'
    BY <1>9 DEF IInv, RunsSound, EntriesSound, LateGoalsSound, LiveRunCanBeStopped,
       OneRunPerRobot, MarkRunning, Mark, Return, CallerGoto, runtime, threads
  <2>2. TypeOK'
    BY <1>9, PatrolAssumption DEF IInv, TypeOK, RunsSound, CallersSound, RowStatuses,
       FinalStates, CallerPc, Alive, Driving, Closing, MarkRunning, Mark, Return, CallerGoto,
       runtime, threads
  <2>3. CallersSound'
    BY <1>9, PatrolAssumption DEF IInv, TypeOK, CallersSound, MarkRunning, Mark, Return,
       CallerGoto, runtime, threads
  <2> QED
    BY <2>1, <2>2, <2>3 DEF IInv
<1>10. ASSUME NEW c \in Callers, NEW t \in Tasks, StopTask(c, t)
      PROVE  IInv'
  <2>1. RunsSound' /\ EntriesSound' /\ LiveRunCanBeStopped' /\ OneRunPerRobot'
    BY <1>10 DEF IInv, RunsSound, EntriesSound, LiveRunCanBeStopped, OneRunPerRobot, StopTask,
       CallerGoto, database, runtime, history
  <2>2. TypeOK'
    BY <1>10, PatrolAssumption DEF IInv, TypeOK, RunsSound, CallersSound, RowStatuses,
       FinalStates, CallerPc, Alive, Driving, Closing, StopTask, CallerGoto, database,
       runtime, history
  <2>3. CallersSound'
    BY <1>10, PatrolAssumption DEF IInv, TypeOK, CallersSound, StopTask, CallerGoto, database,
       runtime, history
  <2>4. LateGoalsSound'
    BY <1>10, PatrolAssumption DEF IInv, TypeOK, LateGoalsSound, RunsSound, StopTask,
       CallerGoto, database, runtime, history
  <2> QED
    BY <2>1, <2>2, <2>3, <2>4 DEF IInv
<1>11. ASSUME NEW c \in Callers, NEW ok \in BOOLEAN, MarkCancelled(c, ok)
      PROVE  IInv'
  <2>1. /\ RunsSound' /\ EntriesSound' /\ LateGoalsSound' /\ LiveRunCanBeStopped'
        /\ OneRunPerRobot'
    BY <1>11 DEF IInv, RunsSound, EntriesSound, LateGoalsSound, LiveRunCanBeStopped,
       OneRunPerRobot, MarkCancelled, Mark, Return, CallerGoto, runtime, threads
  <2>2. TypeOK'
    BY <1>11, PatrolAssumption DEF IInv, TypeOK, RunsSound, CallersSound, RowStatuses,
       FinalStates, CallerPc, Alive, Driving, Closing, MarkCancelled, Mark, Return,
       CallerGoto, runtime, threads
  <2>3. CallersSound'
    BY <1>11, PatrolAssumption DEF IInv, TypeOK, CallersSound, MarkCancelled, Mark, Return,
       CallerGoto, runtime, threads
  <2> QED
    BY <2>1, <2>2, <2>3 DEF IInv
<1>12. ASSUME NEW w \in Runs, CheckCancelled(w)
      PROVE  IInv'
  <2>1. /\ taskOf[w] \in Tasks /\ entry[taskOf[w]] = w
        /\ wpc[w] = "check" /\ state[w] = "running"
        /\ \/ /\ wpc' = [wpc EXCEPT ![w] = "dead"]
              /\ state' = [state EXCEPT ![w] = "cancelled"]
           \/ /\ wpc' = [wpc EXCEPT ![w] = "publish"]
              /\ state' = state
        /\ UNCHANGED <<database, entry, holds, taskOf, cancelled, left, stable, callers,
                     history>>
    BY <1>12 DEF IInv, RunsSound, LiveRunCanBeStopped, Alive, Driving, CheckCancelled, Finish,
       RunGoto, database, callers, history, runtime
  <2>2. CallersSound'
    BY <1>12 DEF IInv, CallersSound, CheckCancelled, Finish, RunGoto, database, callers,
       history
  <2>3. TypeOK'
    BY <1>12, <2>1, PatrolAssumption DEF IInv, TypeOK, FinalStates, Alive, Driving, Closing,
       database, callers, history
  <2>4. RunsSound'
    BY <1>12, <2>1, PatrolAssumption DEF IInv, TypeOK, RunsSound, FinalStates, Alive, Driving,
       Closing, database, callers, history
  <2>5. EntriesSound'
    BY <1>12, <2>1, PatrolAssumption DEF IInv, TypeOK, EntriesSound, Alive, Driving, Closing,
       database, callers, history
  <2>6. LateGoalsSound'
    BY <1>12, <2>1, PatrolAssumption DEF IInv, TypeOK, LateGoalsSound, RunsSound,
       CheckCancelled, Finish, RunGoto, database, callers, history
  <2>7. LiveRunCanBeStopped'
    BY <1>12, <2>1, PatrolAssumption DEF IInv, TypeOK, RunsSound, LiveRunCanBeStopped, Alive,
       Driving, Closing, database, callers, history
  <2>8. OneRunPerRobot'
    BY <1>12, <2>1, PatrolAssumption DEF IInv, TypeOK, OneRunPerRobot, Alive, Driving,
       Closing, database, callers, history
  <2> QED
    BY <2>2, <2>3, <2>4, <2>5, <2>6, <2>7, <2>8 DEF IInv
<1>13. ASSUME NEW w \in Runs, NEW sent \in BOOLEAN, NEW ok \in BOOLEAN,
              PublishGoal(w, sent, ok)
      PROVE  IInv'
  <2>1. EntriesSound' /\ CallersSound'
    BY <1>13 DEF IInv, EntriesSound, CallersSound, PublishGoal, RunGoto, database, runtime,
       callers
  <2>2. TypeOK'
    BY <1>13, PatrolAssumption DEF IInv, TypeOK, RunsSound, CallersSound, RowStatuses,
       FinalStates, CallerPc, Alive, Driving, Closing, PublishGoal, RunGoto, database,
       runtime, callers
  <2>3. RunsSound'
    BY <1>13, PatrolAssumption DEF IInv, TypeOK, RunsSound, EntriesSound, CallersSound,
       LiveRunCanBeStopped, FinalStates, Alive, Driving, Closing, PublishGoal, RunGoto,
       database, runtime, callers
  <2>4. LateGoalsSound'
    BY <1>13, PatrolAssumption DEF IInv, TypeOK, LateGoalsSound, RunsSound, PublishGoal,
       RunGoto, database, runtime, callers
  <2>5. LiveRunCanBeStopped'
    BY <1>13, PatrolAssumption DEF IInv, TypeOK, RunsSound, EntriesSound, CallersSound,
       LiveRunCanBeStopped, IsRunning, Alive, Driving, Closing, PublishGoal, RunGoto,
       database, runtime, callers
  <2>6. OneRunPerRobot'
    BY <1>13, PatrolAssumption DEF IInv, TypeOK, RunsSound, LiveRunCanBeStopped,
       OneRunPerRobot, IsRunning, RobotIsTaken, Alive, Driving, Closing, PublishGoal, RunGoto,
       database, runtime, callers
  <2> QED
    BY <2>1, <2>2, <2>3, <2>4, <2>5, <2>6 DEF IInv
<1>14. ASSUME NEW w \in Runs, PollCancelled(w)
      PROVE  IInv'
  <2>1. /\ taskOf[w] \in Tasks /\ entry[taskOf[w]] = w
        /\ wpc[w] = "poll" /\ state[w] = "running"
        /\ \/ /\ wpc' = [wpc EXCEPT ![w] = "dead"]
              /\ state' = [state EXCEPT ![w] = "cancelled"]
           \/ /\ wpc' = [wpc EXCEPT ![w] = "sample"]
              /\ state' = state
        /\ UNCHANGED <<database, entry, holds, taskOf, cancelled, left, stable, callers,
                     history>>
    BY <1>14 DEF IInv, RunsSound, LiveRunCanBeStopped, Alive, Driving, PollCancelled, Finish,
       RunGoto, database, callers, history, runtime
  <2>2. CallersSound'
    BY <1>14 DEF IInv, CallersSound, PollCancelled, Finish, RunGoto, database, callers,
       history
  <2>3. TypeOK'
    BY <1>14, <2>1, PatrolAssumption DEF IInv, TypeOK, FinalStates, Alive, Driving, Closing,
       database, callers, history
  <2>4. RunsSound'
    BY <1>14, <2>1, PatrolAssumption DEF IInv, TypeOK, RunsSound, FinalStates, Alive, Driving,
       Closing, database, callers, history
  <2>5. EntriesSound'
    BY <1>14, <2>1, PatrolAssumption DEF IInv, TypeOK, EntriesSound, Alive, Driving, Closing,
       database, callers, history
  <2>6. LateGoalsSound'
    BY <1>14, <2>1, PatrolAssumption DEF IInv, TypeOK, LateGoalsSound, RunsSound,
       PollCancelled, Finish, RunGoto, database, callers, history
  <2>7. LiveRunCanBeStopped'
    BY <1>14, <2>1, PatrolAssumption DEF IInv, TypeOK, RunsSound, LiveRunCanBeStopped, Alive,
       Driving, Closing, database, callers, history
  <2>8. OneRunPerRobot'
    BY <1>14, <2>1, PatrolAssumption DEF IInv, TypeOK, OneRunPerRobot, Alive, Driving,
       Closing, database, callers, history
  <2> QED
    BY <2>2, <2>3, <2>4, <2>5, <2>6, <2>7, <2>8 DEF IInv
<1>15. ASSUME NEW w \in Runs, WaypointTimeout(w)
      PROVE  IInv'
  <2>1. EntriesSound' /\ CallersSound'
    BY <1>15 DEF IInv, EntriesSound, CallersSound, WaypointTimeout, RunGoto, database,
       runtime, callers, history
  <2>2. TypeOK'
    BY <1>15, PatrolAssumption DEF IInv, TypeOK, RunsSound, CallersSound, RowStatuses,
       FinalStates, CallerPc, Alive, Driving, Closing, WaypointTimeout, RunGoto, database,
       runtime, callers, history
  <2>3. RunsSound'
    BY <1>15, PatrolAssumption DEF IInv, TypeOK, RunsSound, EntriesSound, CallersSound,
       LiveRunCanBeStopped, FinalStates, Alive, Driving, Closing, WaypointTimeout, RunGoto,
       database, runtime, callers, history
  <2>4. LateGoalsSound'
    BY <1>15, PatrolAssumption DEF IInv, TypeOK, LateGoalsSound, RunsSound, WaypointTimeout,
       RunGoto, database, runtime, callers, history
  <2>5. LiveRunCanBeStopped'
    BY <1>15, PatrolAssumption DEF IInv, TypeOK, RunsSound, EntriesSound, CallersSound,
       LiveRunCanBeStopped, IsRunning, Alive, Driving, Closing, WaypointTimeout, RunGoto,
       database, runtime, callers, history
  <2>6. OneRunPerRobot'
    BY <1>15, PatrolAssumption DEF IInv, TypeOK, RunsSound, LiveRunCanBeStopped,
       OneRunPerRobot, IsRunning, RobotIsTaken, Alive, Driving, Closing, WaypointTimeout,
       RunGoto, database, runtime, callers, history
  <2> QED
    BY <2>1, <2>2, <2>3, <2>4, <2>5, <2>6 DEF IInv
<1>16. ASSUME NEW w \in Runs, NearGoal(w)
      PROVE  IInv'
  <2>1. EntriesSound' /\ CallersSound'
    BY <1>16 DEF IInv, EntriesSound, CallersSound, NearGoal, RunGoto, database, runtime,
       callers, history
  <2>2. TypeOK'
    BY <1>16, PatrolAssumption DEF IInv, TypeOK, RunsSound, CallersSound, RowStatuses,
       FinalStates, CallerPc, Alive, Driving, Closing, NearGoal, RunGoto, database, runtime,
       callers, history
  <2>3. RunsSound'
    BY <1>16, PatrolAssumption DEF IInv, TypeOK, RunsSound, EntriesSound, CallersSound,
       LiveRunCanBeStopped, FinalStates, Alive, Driving, Closing, NearGoal, RunGoto, database,
       runtime, callers, history
  <2>4. LateGoalsSound'
    BY <1>16, PatrolAssumption DEF IInv, TypeOK, LateGoalsSound, RunsSound, NearGoal, RunGoto,
       database, runtime, callers, history
  <2>5. LiveRunCanBeStopped'
    BY <1>16, PatrolAssumption DEF IInv, TypeOK, RunsSound, EntriesSound, CallersSound,
       LiveRunCanBeStopped, IsRunning, Alive, Driving, Closing, NearGoal, RunGoto, database,
       runtime, callers, history
  <2>6. OneRunPerRobot'
    BY <1>16, PatrolAssumption DEF IInv, TypeOK, RunsSound, LiveRunCanBeStopped,
       OneRunPerRobot, IsRunning, RobotIsTaken, Alive, Driving, Closing, NearGoal, RunGoto,
       database, runtime, callers, history
  <2> QED
    BY <2>1, <2>2, <2>3, <2>4, <2>5, <2>6 DEF IInv
<1>17. ASSUME NEW w \in Runs, FarFromGoal(w)
      PROVE  IInv'
  <2>1. EntriesSound' /\ CallersSound'
    BY <1>17 DEF IInv, EntriesSound, CallersSound, FarFromGoal, RunGoto, database, runtime,
       callers, history
  <2>2. TypeOK'
    BY <1>17, PatrolAssumption DEF IInv, TypeOK, RunsSound, CallersSound, RowStatuses,
       FinalStates, CallerPc, Alive, Driving, Closing, FarFromGoal, RunGoto, database,
       runtime, callers, history
  <2>3. RunsSound'
    BY <1>17, PatrolAssumption DEF IInv, TypeOK, RunsSound, EntriesSound, CallersSound,
       LiveRunCanBeStopped, FinalStates, Alive, Driving, Closing, FarFromGoal, RunGoto,
       database, runtime, callers, history
  <2>4. LateGoalsSound'
    BY <1>17, PatrolAssumption DEF IInv, TypeOK, LateGoalsSound, RunsSound, FarFromGoal,
       RunGoto, database, runtime, callers, history
  <2>5. LiveRunCanBeStopped'
    BY <1>17, PatrolAssumption DEF IInv, TypeOK, RunsSound, EntriesSound, CallersSound,
       LiveRunCanBeStopped, IsRunning, Alive, Driving, Closing, FarFromGoal, RunGoto,
       database, runtime, callers, history
  <2>6. OneRunPerRobot'
    BY <1>17, PatrolAssumption DEF IInv, TypeOK, RunsSound, LiveRunCanBeStopped,
       OneRunPerRobot, IsRunning, RobotIsTaken, Alive, Driving, Closing, FarFromGoal, RunGoto,
       database, runtime, callers, history
  <2> QED
    BY <2>1, <2>2, <2>3, <2>4, <2>5, <2>6 DEF IInv
<1>18. ASSUME NEW w \in Runs, SampleFails(w)
      PROVE  IInv'
  <2>1. EntriesSound' /\ CallersSound'
    BY <1>18 DEF IInv, EntriesSound, CallersSound, SampleFails, RunGoto, database, runtime,
       callers, history
  <2>2. TypeOK'
    BY <1>18, PatrolAssumption DEF IInv, TypeOK, RunsSound, CallersSound, RowStatuses,
       FinalStates, CallerPc, Alive, Driving, Closing, SampleFails, RunGoto, database,
       runtime, callers, history
  <2>3. RunsSound'
    BY <1>18, PatrolAssumption DEF IInv, TypeOK, RunsSound, EntriesSound, CallersSound,
       LiveRunCanBeStopped, FinalStates, Alive, Driving, Closing, SampleFails, RunGoto,
       database, runtime, callers, history
  <2>4. LateGoalsSound'
    BY <1>18, PatrolAssumption DEF IInv, TypeOK, LateGoalsSound, RunsSound, SampleFails,
       RunGoto, database, runtime, callers, history
  <2>5. LiveRunCanBeStopped'
    BY <1>18, PatrolAssumption DEF IInv, TypeOK, RunsSound, EntriesSound, CallersSound,
       LiveRunCanBeStopped, IsRunning, Alive, Driving, Closing, SampleFails, RunGoto,
       database, runtime, callers, history
  <2>6. OneRunPerRobot'
    BY <1>18, PatrolAssumption DEF IInv, TypeOK, RunsSound, LiveRunCanBeStopped,
       OneRunPerRobot, IsRunning, RobotIsTaken, Alive, Driving, Closing, SampleFails, RunGoto,
       database, runtime, callers, history
  <2> QED
    BY <2>1, <2>2, <2>3, <2>4, <2>5, <2>6 DEF IInv
<1>19. ASSUME NEW w \in Runs, NEW ok \in BOOLEAN, RecordCompleted(w, ok)
      PROVE  IInv'
  <2>1. EntriesSound' /\ CallersSound'
    BY <1>19 DEF IInv, EntriesSound, CallersSound, RecordCompleted, Mark, RunGoto, runtime,
       callers
  <2>2. TypeOK'
    BY <1>19, PatrolAssumption DEF IInv, TypeOK, RunsSound, CallersSound, RowStatuses,
       FinalStates, CallerPc, Alive, Driving, Closing, RecordCompleted, Mark, RunGoto,
       runtime, callers
  <2>3. RunsSound'
    BY <1>19, PatrolAssumption DEF IInv, TypeOK, RunsSound, EntriesSound, CallersSound,
       LiveRunCanBeStopped, FinalStates, Alive, Driving, Closing, RecordCompleted, Mark,
       RunGoto, runtime, callers
  <2>4. LateGoalsSound'
    BY <1>19, PatrolAssumption DEF IInv, TypeOK, LateGoalsSound, RunsSound, RecordCompleted,
       Mark, RunGoto, runtime, callers
  <2>5. LiveRunCanBeStopped'
    BY <1>19, PatrolAssumption DEF IInv, TypeOK, RunsSound, EntriesSound, CallersSound,
       LiveRunCanBeStopped, IsRunning, Alive, Driving, Closing, RecordCompleted, Mark,
       RunGoto, runtime, callers
  <2>6. OneRunPerRobot'
    BY <1>19, PatrolAssumption DEF IInv, TypeOK, RunsSound, LiveRunCanBeStopped,
       OneRunPerRobot, IsRunning, RobotIsTaken, Alive, Driving, Closing, RecordCompleted,
       Mark, RunGoto, runtime, callers
  <2> QED
    BY <2>1, <2>2, <2>3, <2>4, <2>5, <2>6 DEF IInv
<1>20. ASSUME NEW w \in Runs, NEW ok \in BOOLEAN, RecordFailed(w, ok)
      PROVE  IInv'
  <2>1. EntriesSound' /\ CallersSound'
    BY <1>20 DEF IInv, EntriesSound, CallersSound, RecordFailed, Mark, RunGoto, runtime,
       callers
  <2>2. TypeOK'
    BY <1>20, PatrolAssumption DEF IInv, TypeOK, RunsSound, CallersSound, RowStatuses,
       FinalStates, CallerPc, Alive, Driving, Closing, RecordFailed, Mark, RunGoto, runtime,
       callers
  <2>3. RunsSound'
    BY <1>20, PatrolAssumption DEF IInv, TypeOK, RunsSound, EntriesSound, CallersSound,
       LiveRunCanBeStopped, FinalStates, Alive, Driving, Closing, RecordFailed, Mark, RunGoto,
       runtime, callers
  <2>4. LateGoalsSound'
    BY <1>20, PatrolAssumption DEF IInv, TypeOK, LateGoalsSound, RunsSound, RecordFailed,
       Mark, RunGoto, runtime, callers
  <2>5. LiveRunCanBeStopped'
    BY <1>20, PatrolAssumption DEF IInv, TypeOK, RunsSound, EntriesSound, CallersSound,
       LiveRunCanBeStopped, IsRunning, Alive, Driving, Closing, RecordFailed, Mark, RunGoto,
       runtime, callers
  <2>6. OneRunPerRobot'
    BY <1>20, PatrolAssumption DEF IInv, TypeOK, RunsSound, LiveRunCanBeStopped,
       OneRunPerRobot, IsRunning, RobotIsTaken, Alive, Driving, Closing, RecordFailed, Mark,
       RunGoto, runtime, callers
  <2> QED
    BY <2>1, <2>2, <2>3, <2>4, <2>5, <2>6 DEF IInv
<1>21. ASSUME NEW w \in Runs, FinishRun(w)
      PROVE  IInv'
  <2>1. CallersSound'
    BY <1>21 DEF IInv, CallersSound, FinishRun, Finish, RunGoto, database, callers, history
  <2>2. TypeOK'
    BY <1>21, PatrolAssumption DEF IInv, TypeOK, RunsSound, CallersSound, RowStatuses,
       FinalStates, CallerPc, Alive, Driving, Closing, FinishRun, Finish, RunGoto, database,
       callers, history
  <2>3. RunsSound'
    BY <1>21, PatrolAssumption DEF IInv, TypeOK, RunsSound, EntriesSound, CallersSound,
       LiveRunCanBeStopped, FinalStates, Alive, Driving, Closing, FinishRun, Finish, RunGoto,
       database, callers, history
  <2>4. EntriesSound'
    BY <1>21, PatrolAssumption DEF IInv, TypeOK, RunsSound, EntriesSound, CallersSound,
       LiveRunCanBeStopped, FinalStates, Alive, Driving, Closing, FinishRun, Finish, RunGoto,
       database, callers, history
  <2>5. LateGoalsSound'
    BY <1>21, PatrolAssumption DEF IInv, TypeOK, LateGoalsSound, RunsSound, FinishRun, Finish,
       RunGoto, database, callers, history
  <2>6. LiveRunCanBeStopped'
    BY <1>21, PatrolAssumption DEF IInv, TypeOK, RunsSound, EntriesSound, CallersSound,
       LiveRunCanBeStopped, IsRunning, Alive, Driving, Closing, FinishRun, Finish, RunGoto,
       database, callers, history
  <2>7. OneRunPerRobot'
    BY <1>21, PatrolAssumption DEF IInv, TypeOK, RunsSound, LiveRunCanBeStopped,
       OneRunPerRobot, IsRunning, RobotIsTaken, Alive, Driving, Closing, FinishRun, Finish,
       RunGoto, database, callers, history
  <2> QED
    BY <2>1, <2>2, <2>3, <2>4, <2>5, <2>6, <2>7 DEF IInv
<1>22. ASSUME Crash
      PROVE  IInv'
  <2>1. TypeOK'
    BY <1>22, PatrolAssumption DEF IInv, TypeOK, RunsSound, CallersSound, RowStatuses,
       FinalStates, CallerPc, Alive, Driving, Closing, Crash, database
  <2>2. RunsSound'
    BY <1>22, PatrolAssumption DEF IInv, TypeOK, RunsSound, EntriesSound, CallersSound,
       LiveRunCanBeStopped, FinalStates, Alive, Driving, Closing, Crash, database
  <2>3. EntriesSound'
    BY <1>22, PatrolAssumption DEF IInv, TypeOK, RunsSound, EntriesSound, CallersSound,
       LiveRunCanBeStopped, FinalStates, Alive, Driving, Closing, Crash, database
  <2>4. CallersSound'
    BY <1>22, PatrolAssumption DEF IInv, TypeOK, CallersSound, Crash, database
  <2>5. LateGoalsSound'
    BY <1>22, PatrolAssumption DEF IInv, TypeOK, LateGoalsSound, RunsSound, Crash, database
  <2>6. LiveRunCanBeStopped'
    BY <1>22, PatrolAssumption DEF IInv, TypeOK, RunsSound, EntriesSound, CallersSound,
       LiveRunCanBeStopped, IsRunning, Alive, Driving, Closing, Crash, database
  <2>7. OneRunPerRobot'
    BY <1>22, PatrolAssumption DEF IInv, TypeOK, RunsSound, LiveRunCanBeStopped,
       OneRunPerRobot, IsRunning, RobotIsTaken, Alive, Driving, Closing, Crash, database
  <2> QED
    BY <2>1, <2>2, <2>3, <2>4, <2>5, <2>6, <2>7 DEF IInv
<1>23. CASE UNCHANGED vars
  BY <1>23 DEF IInv, TypeOK, RunsSound, EntriesSound, CallersSound, LateGoalsSound,
     LiveRunCanBeStopped, OneRunPerRobot, IsRunning, vars, database, runtime, threads,
     callers, history
<1> QED
  BY <1>1, <1>2, <1>3, <1>4, <1>5, <1>6, <1>7, <1>8, <1>9, <1>10, <1>11, <1>12, <1>13, <1>14,
     <1>15, <1>16, <1>17, <1>18, <1>19, <1>20, <1>21, <1>22, <1>23
  DEF Next, RunStep, CallerStep, Request

LEMMA Start == Init => IInv
<1> SUFFICES ASSUME Init
             PROVE  IInv
  OBVIOUS
<1>1. TypeOK
  BY PatrolAssumption DEF Init, TypeOK, RowStatuses, CallerPc
<1>2. RunsSound /\ EntriesSound /\ CallersSound /\ LateGoalsSound
  BY DEF Init, RunsSound, EntriesSound, CallersSound, LateGoalsSound, Alive, Driving, Closing
<1>3. LiveRunCanBeStopped /\ OneRunPerRobot
  BY DEF Init, LiveRunCanBeStopped, OneRunPerRobot, Alive, Driving, Closing
<1> QED
  BY <1>1, <1>2, <1>3 DEF IInv

\* The invariant that every other theorem rests on.
THEOREM Invariant == Spec => []IInv
  BY Start, Step, PTL DEF Spec

\* Every variable stays in its type.
THEOREM TypeCorrect == Spec => []TypeOK
  BY Invariant, PTL DEF IInv

\* Whatever requests, restarts and failed transactions do, a run that is alive
\* is the one its task's entry names: stop_task reaches it.
THEOREM LiveRunStoppable == Spec => []LiveRunCanBeStopped
  BY Invariant, PTL DEF IInv

\* However many callers start tasks at once, a robot code has one live run.
THEOREM OneRun == Spec => []OneRunPerRobot
  BY Invariant, PTL DEF IInv

\* A stop can come while a goal is about to be sent: that one goal is the only
\* one its run still sends.
THEOREM OneLateGoal == Spec => []AtMostOneLateGoal
<1>1. IInv => AtMostOneLateGoal
  BY DEF IInv, LateGoalsSound, AtMostOneLateGoal
<1> QED
  BY <1>1, Invariant, PTL

-------------------------------------------------------------------------------
\* A final state is never left: _finish_runtime only finds entries of runs
\* that are alive, and a new run has an entry of its own.
THEOREM OutcomeFinal == Spec => OutcomeIsFinal
<1> DEFINE Kept == \A w \in Runs : state[w] \in FinalStates => state'[w] = state[w]
<1>1. IInv /\ [Next]_vars => [Kept]_vars
  <2> SUFFICES ASSUME IInv, Next
               PROVE  Kept
    BY DEF vars, runtime
  <2>1. ASSUME NEW c \in Callers, NEW w \in Runs, StartLock(c, w)
        PROVE  Kept
    BY <2>1 DEF StartLock, Launch, FinalStates, IInv, TypeOK
  <2>2. ASSUME NEW w \in Runs, NEW final \in FinalStates,
               wpc[w] \in Alive, Finish(w, final)
        PROVE  Kept
    <3>1. taskOf[w] \in Tasks /\ entry[taskOf[w]] = w /\ state[w] = "running"
      BY <2>2 DEF IInv, RunsSound, LiveRunCanBeStopped
    <3> QED
      BY <2>2, <3>1 DEF Finish, FinalStates, IInv, TypeOK
  <2>3. ASSUME NEW w \in Runs, CheckCancelled(w) \/ PollCancelled(w) \/ FinishRun(w)
        PROVE  Kept
    BY <2>2, <2>3 DEF CheckCancelled, PollCancelled, FinishRun, FinalStates, runtime,
       Alive, Driving, Closing
  <2>4. CASE state' = state
    BY <2>4
  <2> QED
    BY <2>1, <2>3, <2>4 DEF Next, RunStep, CallerStep, Request, CreateTask, UpdateCheck,
       UpdateWrite, DeleteCheck, DeleteWrite, StartRead, StartRefused, MarkRunning, StopTask,
       MarkCancelled, PublishGoal, WaypointTimeout, NearGoal, FarFromGoal, SampleFails,
       RecordCompleted, RecordFailed, Crash, runtime
<1> QED
  BY <1>1, Invariant, PTL DEF Spec, OutcomeIsFinal

-------------------------------------------------------------------------------
\* Of all the failures of a run only that of the transaction that records it
\* leaves its entry running.
THEOREM StuckEntries == Spec => []StuckEntryIsUnrecorded
<1>1. Init => StuckEntryIsUnrecorded
  BY DEF Init, StuckEntryIsUnrecorded
<1>2. IInv /\ StuckEntryIsUnrecorded /\ [Next]_vars => StuckEntryIsUnrecorded'
  <2> SUFFICES ASSUME IInv, StuckEntryIsUnrecorded, [Next]_vars
               PROVE  StuckEntryIsUnrecorded'
    OBVIOUS
  <2> USE PatrolAssumption
  <2>1. ASSUME NEW c \in Callers, NEW w \in Runs, StartLock(c, w)
        PROVE  StuckEntryIsUnrecorded'
    <3>1. ctask[c] \in Tasks /\ wpc[w] = "unborn"
      BY <2>1 DEF StartLock, Launch, IInv, CallersSound, RunsSound
    <3> QED
      BY <2>1, <3>1 DEF StartLock, Launch, IInv, TypeOK, StuckEntryIsUnrecorded, Forgotten,
         IsRunning, history
  <2>2. ASSUME NEW w \in Runs, NEW final \in FinalStates, wpc[w] \in Alive,
               Finish(w, final), taskOf' = taskOf, unrecorded' = unrecorded
        PROVE  StuckEntryIsUnrecorded'
    <3>1. taskOf[w] \in Tasks /\ entry[taskOf[w]] = w
      BY <2>2 DEF IInv, RunsSound, LiveRunCanBeStopped
    <3> QED
      BY <2>2, <3>1 DEF Finish, RunGoto, FinalStates, IInv, TypeOK, StuckEntryIsUnrecorded,
         Forgotten
  <2>3. ASSUME NEW w \in Runs, NEW label \in Alive, RunGoto(w, label), runtime' = runtime,
               taskOf' = taskOf, unrecorded \subseteq unrecorded'
        PROVE  StuckEntryIsUnrecorded'
    BY <2>3 DEF RunGoto, runtime, Alive, Driving, Closing, IInv, TypeOK,
       StuckEntryIsUnrecorded, Forgotten
  <2>4. ASSUME NEW w \in Runs, CheckCancelled(w) \/ PollCancelled(w) \/ FinishRun(w)
        PROVE  StuckEntryIsUnrecorded'
    BY <2>2, <2>3, <2>4 DEF CheckCancelled, PollCancelled, FinishRun, FinalStates, history,
       Alive, Driving, Closing
  <2>5. ASSUME NEW w \in Runs, NEW ok \in BOOLEAN, RecordFailed(w, ok)
        PROVE  StuckEntryIsUnrecorded'
    BY <2>5 DEF RecordFailed, RunGoto, runtime, IInv, TypeOK, StuckEntryIsUnrecorded, Forgotten
  <2>6. ASSUME NEW w \in Runs, NEW ok \in BOOLEAN,
               \/ WaypointTimeout(w) \/ NearGoal(w) \/ FarFromGoal(w)
               \/ SampleFails(w) \/ RecordCompleted(w, ok)
        PROVE  StuckEntryIsUnrecorded'
    <3>1. /\ runtime' = runtime /\ taskOf' = taskOf /\ unrecorded' = unrecorded
          /\ \E label \in Alive : RunGoto(w, label)
      BY <2>6 DEF WaypointTimeout, NearGoal, FarFromGoal, SampleFails, RecordCompleted,
         runtime, history, Alive, Driving, Closing
    <3> QED
      BY <2>3, <3>1
  <2>7. ASSUME NEW w \in Runs, NEW sent \in BOOLEAN, NEW ok \in BOOLEAN,
               PublishGoal(w, sent, ok)
        PROVE  StuckEntryIsUnrecorded'
    BY <2>3, <2>7 DEF PublishGoal, Alive, Driving, Closing
  <2>8. CASE Crash
    BY <2>8 DEF Crash, IInv, TypeOK, RunsSound, StuckEntryIsUnrecorded, Forgotten
  <2>9. CASE runtime' = runtime /\ wpc' = wpc /\ taskOf' = taskOf /\ unrecorded' = unrecorded
    BY <2>9 DEF runtime, StuckEntryIsUnrecorded, Forgotten
  <2>10. CASE \E c \in Callers, t \in Tasks : Request(c, t)
    BY <2>9, <2>10
    DEF Request, StartRead, StopTask, UpdateCheck, DeleteCheck, threads, history
  <2>11. CASE \E t \in Tasks : CreateTask(t)
    BY <2>9, <2>11 DEF CreateTask, threads, history
  <2>12. ASSUME NEW c \in Callers, CallerStep(c)
         PROVE  StuckEntryIsUnrecorded'
    BY <2>1, <2>9, <2>12 DEF CallerStep, StartRefused, DeleteWrite, UpdateWrite, MarkRunning,
       MarkCancelled, threads, history
  <2>13. CASE UNCHANGED vars
    BY <2>9, <2>13 DEF vars, threads, history
  <2> QED
    BY <2>4, <2>5, <2>6, <2>7, <2>8, <2>10, <2>11, <2>12, <2>13 DEF Next, RunStep
<1> QED
  BY <1>1, <1>2, Invariant, PTL DEF Spec

-------------------------------------------------------------------------------
(* The refinement.                                                         *)

\* The lease of every live run.
LeasesHeld == {<<holds[w], w>> : w \in {v \in Runs : wpc[v] \in Alive}}
RunsBorn == {w \in Runs : state[w] # "unborn"}

\* A run that has ended gives its lease back.
LEMMA EndIsRelease ==
    ASSUME IInv, NEW w \in Runs, wpc[w] \in Alive,
           wpc' = [wpc EXCEPT ![w] = "dead"], holds' = holds,
           RunsBorn' = RunsBorn, goal' = goal
    PROVE  Lease!Next
<1>1. holds[w] \in Robots
  BY DEF IInv, RunsSound
<1>2. LeasesHeld' = LeasesHeld \ {<<holds[w], w>>}
  BY DEF LeasesHeld, IInv, TypeOK, Alive, Driving, Closing
<1>3. <<holds[w], w>> \in LeasesHeld
  BY DEF LeasesHeld
<1>4. Lease!Release(holds[w], w)
  BY <1>2, <1>3 DEF Lease!Release, LeasesHeld, RunsBorn
<1> QED
  BY <1>1, <1>4 DEF Lease!Next

\* A step that neither begins nor ends a run changes no lease.
LEMMA NoLeaseChanges ==
    ASSUME IInv, holds' = holds, state' = state,
           \A w \in Runs : wpc'[w] \in Alive <=> wpc[w] \in Alive
    PROVE  LeasesHeld' = LeasesHeld /\ RunsBorn' = RunsBorn
  BY DEF LeasesHeld, RunsBorn

LEMMA LeaseStep ==
    IInv /\ [Next]_vars => [Lease!Next]_<<LeasesHeld, RunsBorn, goal>>
<1> SUFFICES ASSUME IInv, [Next]_vars
             PROVE  \/ Lease!Next
                    \/ /\ LeasesHeld' = LeasesHeld
                       /\ RunsBorn' = RunsBorn
                       /\ goal' = goal
  OBVIOUS
<1>1. ASSUME NEW c \in Callers, NEW w \in Runs, StartLock(c, w)
      PROVE  Lease!Next
  <2>1. crobot[c] \in Robots /\ state[w] = "unborn" /\ wpc[w] = "unborn"
    BY <1>1 DEF IInv, CallersSound, RunsSound, StartLock, Launch
  <2>2. LeasesHeld' = LeasesHeld \cup {<<crobot[c], w>>}
    <3>1. wpc' = [wpc EXCEPT ![w] = "check"] /\ holds' = [holds EXCEPT ![w] = crobot[c]]
      BY <1>1 DEF StartLock, Launch
    <3>2. "check" \in Alive /\ "unborn" \notin Alive
      BY DEF Alive, Driving, Closing
    <3>3. wpc \in [Runs -> {"unborn", "dead"} \cup Alive]
          /\ holds \in [Runs -> Robots \cup {None}]
      BY DEF IInv, TypeOK
    <3> QED
      BY <2>1, <3>1, <3>2, <3>3 DEF LeasesHeld
  <2>3. RunsBorn' = RunsBorn \cup {w}
    BY <1>1 DEF RunsBorn, StartLock, Launch, IInv, TypeOK
  <2>4. w \notin RunsBorn
    BY <2>1 DEF RunsBorn
  <2>5. \A lease \in LeasesHeld : lease[1] # crobot[c]
    <3>1. ASSUME NEW v \in Runs, wpc[v] \in Alive
          PROVE  holds[v] # crobot[c]
      BY <1>1, <3>1, PatrolAssumption
      DEF StartLock, RobotIsTaken, IsRunning, IInv, RunsSound, LiveRunCanBeStopped
    <3> QED
      BY <3>1 DEF LeasesHeld
  <2>6. Lease!Acquire(crobot[c], w)
    BY <1>1, <2>2, <2>3, <2>4, <2>5
    DEF Lease!Acquire, LeasesHeld, RunsBorn, StartLock, Launch, history
  <2> QED
    BY <2>1, <2>6 DEF Lease!Next
<1>2. ASSUME NEW w \in Runs, NEW sent \in BOOLEAN, NEW ok \in BOOLEAN,
             PublishGoal(w, sent, ok)
      PROVE  Lease!Next \/ (LeasesHeld' = LeasesHeld /\ RunsBorn' = RunsBorn /\ goal' = goal)
  <2>1. LeasesHeld' = LeasesHeld /\ RunsBorn' = RunsBorn
    BY <1>2, NoLeaseChanges
    DEF PublishGoal, RunGoto, runtime, IInv, TypeOK, Alive, Driving, Closing
  <2>2. CASE sent
    <3>1. holds[w] \in Robots /\ <<holds[w], w>> \in LeasesHeld
      BY <1>2 DEF PublishGoal, IInv, RunsSound, LeasesHeld, Alive, Driving
    <3>2. Lease!Drive(holds[w], w)
      BY <1>2, <2>1, <2>2, <3>1 DEF Lease!Drive, PublishGoal, LeasesHeld, RunsBorn
    <3> QED
      BY <3>1, <3>2 DEF Lease!Next
  <2>3. CASE ~sent
    BY <1>2, <2>1, <2>3 DEF PublishGoal
  <2> QED
    BY <2>2, <2>3
<1>3. ASSUME NEW w \in Runs, NEW final \in FinalStates, wpc[w] \in Alive,
             Finish(w, final), goal' = goal
      PROVE  Lease!Next
  <2>1. taskOf[w] \in Tasks /\ entry[taskOf[w]] = w /\ state[w] = "running"
    BY <1>3 DEF IInv, RunsSound, LiveRunCanBeStopped
  <2>2. RunsBorn' = RunsBorn
    BY <1>3, <2>1 DEF Finish, RunsBorn, FinalStates, IInv, TypeOK
  <2> QED
    BY <1>3, <2>2, EndIsRelease DEF Finish, RunGoto
<1>4. ASSUME NEW w \in Runs, NEW ok \in BOOLEAN, RecordFailed(w, ok)
      PROVE  Lease!Next \/ (LeasesHeld' = LeasesHeld /\ RunsBorn' = RunsBorn /\ goal' = goal)
  <2>1. CASE ok
    BY <1>4, <2>1, NoLeaseChanges
    DEF RecordFailed, RunGoto, runtime, IInv, TypeOK, Alive, Driving, Closing
  <2>2. CASE ~ok
    <3>1. RunsBorn' = RunsBorn
      BY <1>4 DEF RecordFailed, RunsBorn, runtime
    <3> QED
      BY <1>4, <2>2, <3>1, EndIsRelease
      DEF RecordFailed, RunGoto, runtime, Alive, Closing
  <2> QED
    BY <2>1, <2>2
<1>5. ASSUME NEW w \in Runs, CheckCancelled(w) \/ PollCancelled(w) \/ FinishRun(w)
      PROVE  Lease!Next \/ (LeasesHeld' = LeasesHeld /\ RunsBorn' = RunsBorn /\ goal' = goal)
  <2>1. wpc[w] \in Alive /\ goal' = goal
    BY <1>5 DEF CheckCancelled, PollCancelled, FinishRun, history, Alive, Driving, Closing
  <2>2. CASE \E final \in FinalStates : Finish(w, final)
    BY <1>3, <2>1, <2>2
  <2>3. CASE /\ wpc[w] \in Driving /\ UNCHANGED runtime
             /\ RunGoto(w, "publish") \/ RunGoto(w, "sample")
    BY <2>1, <2>3, NoLeaseChanges
    DEF RunGoto, runtime, IInv, TypeOK, Alive, Driving, Closing
  <2> QED
    BY <1>5, <2>2, <2>3
    DEF CheckCancelled, PollCancelled, FinishRun, FinalStates, Driving
<1>6. ASSUME NEW w \in Runs, NEW ok \in BOOLEAN,
             \/ WaypointTimeout(w) \/ NearGoal(w) \/ FarFromGoal(w)
             \/ SampleFails(w) \/ RecordCompleted(w, ok)
      PROVE  LeasesHeld' = LeasesHeld /\ RunsBorn' = RunsBorn /\ goal' = goal
  <2>1. /\ holds' = holds /\ state' = state /\ goal' = goal
        /\ wpc[w] \in Alive
        /\ \E label \in Alive : wpc' = [wpc EXCEPT ![w] = label]
    BY <1>6 DEF WaypointTimeout, NearGoal, FarFromGoal, SampleFails, RecordCompleted, RunGoto,
       runtime, history, Alive, Driving, Closing
  <2> QED
    BY <2>1, NoLeaseChanges DEF IInv, TypeOK
<1>7. CASE Crash
  <2>1. LeasesHeld' = {}
    BY <1>7 DEF Crash, LeasesHeld, Alive, Driving, Closing
  <2>2. RunsBorn' = RunsBorn /\ goal' = goal
    BY <1>7 DEF Crash, RunsBorn
  <2> QED
    BY <2>1, <2>2 DEF Lease!Next, Lease!Crash, LeasesHeld, RunsBorn
<1>8. CASE runtime' = runtime /\ threads' = threads /\ goal' = goal
  BY <1>8, NoLeaseChanges DEF runtime, threads
<1>9. CASE \E c \in Callers, t \in Tasks : Request(c, t)
  BY <1>9, NoLeaseChanges
  DEF Request, StartRead, StopTask, UpdateCheck, DeleteCheck, runtime, threads, history
<1>10. CASE \E t \in Tasks : CreateTask(t)
  BY <1>8, <1>10 DEF CreateTask, history
<1>11. ASSUME NEW c \in Callers, CallerStep(c)
       PROVE  Lease!Next \/ (LeasesHeld' = LeasesHeld /\ RunsBorn' = RunsBorn /\ goal' = goal)
  BY <1>1, <1>8, <1>11
  DEF CallerStep, StartRefused, DeleteWrite, UpdateWrite, MarkRunning, MarkCancelled, history
<1>12. CASE UNCHANGED vars
  BY <1>8, <1>12 DEF vars, history
<1> QED
  BY <1>2, <1>4, <1>5, <1>6, <1>7, <1>9, <1>10, <1>11, <1>12 DEF Next, RunStep

\* The service keeps the leases RobotLease promises: starting takes that of the
\* robot code, a goal on the bridge is sent under one, the end of a run or of
\* the process gives it back, and the rest of what the service does leaves
\* them alone.
THEOREM LeaseRefinement == Spec => LeaseSpec
<1>1. Init => Lease!Init
  BY DEF Init, Lease!Init, Alive, Driving, Closing
<1>2. IInv /\ [Next]_vars => [Lease!Next]_<<LeasesHeld, RunsBorn, goal>>
  BY LeaseStep
<1> QED
  BY <1>1, <1>2, Invariant, PTL
  DEF Spec, LeaseSpec, Lease!Spec, Lease!leaseVars, LeasesHeld, RunsBorn
===============================================================================
