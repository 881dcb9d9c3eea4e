-------------------------------- MODULE Patrol --------------------------------
(***************************************************************************)
(* Patrol tasks: backend/apps/web_api/services/patrol_service.py.           *)
(*                                                                          *)
(* A task is a row of the database.  Starting it creates a run: a thread    *)
(* that sends the robot its goals one after the other and waits for each    *)
(* arrival.  What is known of the runs is kept in memory, one entry per     *)
(* task, under a lock; the database is written in transactions of its own,  *)
(* before or after.  Callers are the threads of the web API (start, stop,   *)
(* update and delete requests) and of the scheduler (starts).               *)
(*                                                                          *)
(* A route is the number of goals it has: the waypoints of all its loops    *)
(* and the way back.  A pose is near the goal or it is not.  The bridge     *)
(* passes a goal on at once, though its answer may be lost.  There is one   *)
(* bridge, that of the configuration: every goal goes to its chassis,       *)
(* whatever robot_code the run has.  Requests that                          *)
(* are turned down before they change anything (404, 400, 409, 503) are     *)
(* left out, and so is the wording of messages.                             *)
(***************************************************************************)
EXTENDS Naturals

CONSTANTS Tasks,
          Robots,       \* robot codes, as tasks name them
          Callers,
          Runs,         \* bound: runs in a behaviour
          None,
          Goals,        \* the goals of each task's route
          HoldChecks,   \* arrival_hold_checks
          MaxDbErrors,  \* bound: transactions that fail
          MaxCrashes    \* bound: restarts of the web API

ASSUME PatrolAssumption ==
    /\ None \notin Runs /\ None \notin Tasks /\ None \notin Robots
    /\ Goals \in [Tasks -> Nat \ {0}]
    /\ HoldChecks \in Nat \ {0}
    /\ MaxDbErrors \in Nat /\ MaxCrashes \in Nat

VARIABLES
    \* the database
    row,       \* the status of each task; "none" before, "deleted" after
    robotOf,   \* its robot_code
    \* the memory of the service
    entry,     \* _runtime[t]: the latest run of t
    state,     \* what its entry says of a run; it is running iff "running"
    holds,     \* the robot_code of its entry
    \* the threads of the runs
    wpc, taskOf,
    cancelled, \* cancel_event
    left,      \* goals it still has to reach
    stable,    \* successive readings near the goal
    \* the callers
    cpc, ctask, crobot,
    \* the bridge and the history
    goal,      \* the run that sent the bridge its last goal
    lateGoals, \* goals a run sent after it was cancelled
    unrecorded, \* runs that failed and could not record that
    dbErrors, crashes

database == <<row, robotOf>>
runtime == <<entry, state, holds>>
threads == <<wpc, taskOf, cancelled, left, stable>>
callers == <<cpc, ctask, crobot>>
history == <<goal, lateGoals, unrecorded, dbErrors, crashes>>
vars == <<database, runtime, threads, callers, history>>

RowStatuses == {"none", "draft", "running", "completed", "failed", "cancelled", "deleted"}
FinalStates == {"completed", "cancelled", "failed"}

\* Where the thread of a run is.
Driving == {"check", "publish", "poll", "sample"}
Closing == {"record", "finish", "record_failed", "finish_failed"}
Alive == Driving \cup Closing

CallerPc == {"idle", "start_lock", "start_mark", "stop_mark", "update_write", "delete_write"}

TypeOK ==
    /\ row \in [Tasks -> RowStatuses]
    /\ robotOf \in [Tasks -> Robots]
    /\ entry \in [Tasks -> Runs \cup {None}]
    /\ state \in [Runs -> {"unborn", "running"} \cup FinalStates]
    /\ holds \in [Runs -> Robots \cup {None}]
    /\ wpc \in [Runs -> {"unborn", "dead"} \cup Alive]
    /\ taskOf \in [Runs -> Tasks \cup {None}]
    /\ cancelled \in [Runs -> BOOLEAN]
    /\ left \in [Runs -> Nat]
    /\ stable \in [Runs -> 0 .. HoldChecks]
    /\ cpc \in [Callers -> CallerPc]
    /\ ctask \in [Callers -> Tasks \cup {None}]
    /\ crobot \in [Callers -> Robots \cup {None}]
    /\ goal \in Runs \cup {None}
    /\ lateGoals \in [Runs -> Nat]
    /\ unrecorded \subseteq Runs
    /\ dbErrors \in Nat /\ crashes \in Nat

Init ==
    /\ row = [t \in Tasks |-> "none"]
    /\ robotOf \in [Tasks -> Robots]
    /\ entry = [t \in Tasks |-> None]
    /\ state = [w \in Runs |-> "unborn"]
    /\ holds = [w \in Runs |-> None]
    /\ wpc = [w \in Runs |-> "unborn"]
    /\ taskOf = [w \in Runs |-> None]
    /\ cancelled = [w \in Runs |-> FALSE]
    /\ left = [w \in Runs |-> 0]
    /\ stable = [w \in Runs |-> 0]
    /\ cpc = [c \in Callers |-> "idle"]
    /\ ctask = [c \in Callers |-> None]
    /\ crobot = [c \in Callers |-> None]
    /\ goal = None
    /\ lateGoals = [w \in Runs |-> 0]
    /\ unrecorded = {}
    /\ dbErrors = 0 /\ crashes = 0

-------------------------------------------------------------------------------
Present(t) == row[t] \notin {"none", "deleted"}

\* The entry of t says that t is running.
IsRunning(t) == entry[t] # None /\ state[entry[t]] = "running"

\* A transaction that sets the status of t, if t is still there.  It may fail.
Mark(t, status, ok) ==
    /\ row' = IF ok /\ Present(t) THEN [row EXCEPT ![t] = status] ELSE row
    /\ IF ok THEN UNCHANGED dbErrors
             ELSE dbErrors < MaxDbErrors /\ dbErrors' = dbErrors + 1
    /\ UNCHANGED robotOf

CallerGoto(c, label) == cpc' = [cpc EXCEPT ![c] = label]

\* A request is answered: its thread forgets what it was about.
Return(c) == /\ CallerGoto(c, "idle")
             /\ ctask' = [ctask EXCEPT ![c] = None]
             /\ crobot' = [crobot EXCEPT ![c] = None]

-------------------------------------------------------------------------------
(* Tasks.                                                                  *)

CreateTask(t) ==
    /\ row[t] = "none"
    /\ row' = [row EXCEPT ![t] = "draft"]
    /\ UNCHANGED <<robotOf, runtime, threads, callers, history>>

\* update_task: the row is read and the run looked up, then the row is written.
UpdateCheck(c, t) ==
    /\ cpc[c] = "idle"
    /\ Present(t) /\ ~IsRunning(t)
    /\ ctask' = [ctask EXCEPT ![c] = t]
    /\ CallerGoto(c, "update_write")
    /\ UNCHANGED <<database, runtime, threads, crobot, history>>

UpdateWrite(c, r) ==
    /\ cpc[c] = "update_write"
    /\ robotOf' = IF Present(ctask[c]) THEN [robotOf EXCEPT ![ctask[c]] = r] ELSE robotOf
    /\ Return(c)
    /\ UNCHANGED <<row, runtime, threads, history>>

\* delete_task
DeleteCheck(c, t) ==
    /\ cpc[c] = "idle"
    /\ ~IsRunning(t)
    /\ ctask' = [ctask EXCEPT ![c] = t]
    /\ CallerGoto(c, "delete_write")
    /\ UNCHANGED <<database, runtime, threads, crobot, history>>

DeleteWrite(c) ==
    /\ cpc[c] = "delete_write"
    /\ row' = IF Present(ctask[c]) THEN [row EXCEPT ![ctask[c]] = "deleted"] ELSE row
    /\ Return(c)
    /\ UNCHANGED <<robotOf, runtime, threads, history>>

-------------------------------------------------------------------------------
(* Starting and stopping.                                                  *)

\* start_task reads the row (and, for the way back, the robot's pose) ...
StartRead(c, t) ==
    /\ cpc[c] = "idle"
    /\ Present(t)
    /\ ctask' = [ctask EXCEPT ![c] = t]
    /\ crobot' = [crobot EXCEPT ![c] = robotOf[t]]
    /\ CallerGoto(c, "start_lock")
    /\ UNCHANGED <<database, runtime, threads, history>>

RobotIsTaken(r) == \E t \in Tasks : IsRunning(t) /\ holds[entry[t]] = r

Launch(c, w) ==
    /\ state[w] = "unborn"
    /\ entry' = [entry EXCEPT ![ctask[c]] = w]
    /\ state' = [state EXCEPT ![w] = "running"]
    /\ holds' = [holds EXCEPT ![w] = crobot[c]]
    /\ wpc' = [wpc EXCEPT ![w] = "check"]
    /\ taskOf' = [taskOf EXCEPT ![w] = ctask[c]]
    /\ left' = [left EXCEPT ![w] = Goals[ctask[c]]]
    /\ CallerGoto(c, "start_mark")
    /\ UNCHANGED <<database, cancelled, stable, ctask, crobot, history>>

StartLock_MutAnyRobot(c, w) ==
    /\ cpc[c] = "start_lock"
    /\ ~IsRunning(ctask[c])
    /\ Launch(c, w)

StartLock_MutAnyTask(c, w) ==
    /\ cpc[c] = "start_lock"
    /\ ~RobotIsTaken(crobot[c])
    /\ Launch(c, w)

\* ... registers the run and starts its thread under the lock ...
StartLock(c, w) ==
    /\ cpc[c] = "start_lock"
    /\ ~IsRunning(ctask[c])
    /\ ~RobotIsTaken(crobot[c])
    /\ Launch(c, w)

\* (409: the task is running, or its robot is busy with another one)
StartRefused(c) ==
    /\ cpc[c] = "start_lock"
    /\ IsRunning(ctask[c]) \/ RobotIsTaken(crobot[c])
    /\ Return(c)
    /\ UNCHANGED <<database, runtime, threads, history>>

\* ... and then marks the row.
MarkRunning(c, ok) ==
    /\ cpc[c] = "start_mark"
    /\ Mark(ctask[c], "running", ok)
    /\ Return(c)
    /\ UNCHANGED <<runtime, threads, goal, lateGoals, unrecorded, crashes>>

StopTask_MutEndsEntry(c, t) ==
    /\ cpc[c] = "idle"
    /\ IsRunning(t)
    /\ cancelled' = [cancelled EXCEPT ![entry[t]] = TRUE]
    /\ state' = [state EXCEPT ![entry[t]] = "cancelled"]
    /\ ctask' = [ctask EXCEPT ![c] = t]
    /\ CallerGoto(c, "stop_mark")
    /\ UNCHANGED <<database, entry, holds, wpc, taskOf, left, stable, crobot, history>>

\* stop_task sets the event of the run; it stops the chassis, which does not
\* take the goal away, and then marks the row.
StopTask(c, t) ==
    /\ cpc[c] = "idle"
    /\ IsRunning(t)
    /\ cancelled' = [cancelled EXCEPT ![entry[t]] = TRUE]
    /\ ctask' = [ctask EXCEPT ![c] = t]
    /\ CallerGoto(c, "stop_mark")
    /\ UNCHANGED <<database, runtime, wpc, taskOf, left, stable, crobot, history>>

MarkCancelled(c, ok) ==
    /\ cpc[c] = "stop_mark"
    /\ Mark(ctask[c], "cancelled", ok)
    /\ Return(c)
    /\ UNCHANGED <<runtime, threads, goal, lateGoals, unrecorded, crashes>>

-------------------------------------------------------------------------------
(* The thread of a run (_run_task, _drive_to_waypoint, _wait_until_arrived). *)

RunGoto(w, label) == wpc' = [wpc EXCEPT ![w] = label]

\* _finish_runtime looks the entry up by the task, and the thread ends.
Finish(w, final) ==
    /\ state' = [state EXCEPT ![entry[taskOf[w]]] = final]
    /\ RunGoto(w, "dead")
    /\ UNCHANGED <<entry, holds>>

\* Before each goal the run looks at its event.
CheckCancelled(w) ==
    /\ wpc[w] = "check"
    /\ IF cancelled[w] THEN Finish(w, "cancelled")
                       ELSE RunGoto(w, "publish") /\ UNCHANGED runtime
    /\ UNCHANGED <<database, taskOf, cancelled, left, stable, callers, history>>

PublishGoal_MutRetries(w, sent, ok) ==
    /\ wpc[w] = "publish"
    /\ ok => sent
    /\ IF sent THEN /\ goal' = w
                    /\ lateGoals' = IF cancelled[w] THEN [lateGoals EXCEPT ![w] = @ + 1]
                                                    ELSE lateGoals
               ELSE UNCHANGED <<goal, lateGoals>>
    /\ stable' = [stable EXCEPT ![w] = 0]
    /\ RunGoto(w, IF ok THEN "poll" ELSE "publish")
    /\ UNCHANGED <<database, runtime, taskOf, cancelled, left, callers,
                   unrecorded, dbErrors, crashes>>

\* A goal is sent to the bridge, which is not told the robot_code; whether it
\* got there is not always known.
PublishGoal(w, sent, ok) ==
    /\ wpc[w] = "publish"
    /\ ok => sent
    /\ IF sent THEN /\ goal' = w
                    /\ lateGoals' = IF cancelled[w] THEN [lateGoals EXCEPT ![w] = @ + 1]
                                                    ELSE lateGoals
               ELSE UNCHANGED <<goal, lateGoals>>
    /\ stable' = [stable EXCEPT ![w] = 0]
    /\ RunGoto(w, IF ok THEN "poll" ELSE "record_failed")
    /\ UNCHANGED <<database, runtime, taskOf, cancelled, left, callers,
                   unrecorded, dbErrors, crashes>>

PollCancelled_MutNeverLooks(w) ==
    /\ wpc[w] = "poll"
    /\ RunGoto(w, "sample") /\ UNCHANGED runtime
    /\ UNCHANGED <<database, taskOf, cancelled, left, stable, callers, history>>

\* While it waits it looks at its event, then at the pose.
PollCancelled(w) ==
    /\ wpc[w] = "poll"
    /\ IF cancelled[w] THEN Finish(w, "cancelled")
                       ELSE RunGoto(w, "sample") /\ UNCHANGED runtime
    /\ UNCHANGED <<database, taskOf, cancelled, left, stable, callers, history>>

\* per_waypoint_timeout_sec have passed.
WaypointTimeout(w) ==
    /\ wpc[w] = "poll"
    /\ RunGoto(w, "record_failed")
    /\ UNCHANGED <<database, runtime, taskOf, cancelled, left, stable, callers, history>>

NearGoal_MutOneMore(w) ==
    /\ wpc[w] = "sample"
    /\ stable' = [stable EXCEPT ![w] = @ + 1]
    /\ IF stable[w] + 1 < HoldChecks
       THEN RunGoto(w, "poll") /\ UNCHANGED left
       ELSE /\ left' = [left EXCEPT ![w] = @ - 1]
            /\ RunGoto(w, IF left[w] = 0 THEN "record" ELSE "check")
    /\ UNCHANGED <<database, runtime, taskOf, cancelled, callers, history>>

\* A reading near the goal; the last one of HoldChecks in a row is an arrival.
NearGoal(w) ==
    /\ wpc[w] = "sample"
    /\ stable' = [stable EXCEPT ![w] = @ + 1]
    /\ IF stable[w] + 1 < HoldChecks
       THEN RunGoto(w, "poll") /\ UNCHANGED left
       ELSE /\ left' = [left EXCEPT ![w] = @ - 1]
            /\ RunGoto(w, IF left[w] = 1 THEN "record" ELSE "check")
    /\ UNCHANGED <<database, runtime, taskOf, cancelled, callers, history>>

\* Far from it, or no pose.
FarFromGoal(w) ==
    /\ wpc[w] = "sample"
    /\ stable' = [stable EXCEPT ![w] = 0]
    /\ RunGoto(w, "poll")
    /\ UNCHANGED <<database, runtime, taskOf, cancelled, left, callers, history>>

\* The map cannot be fetched.
SampleFails(w) ==
    /\ wpc[w] = "sample"
    /\ RunGoto(w, "record_failed")
    /\ UNCHANGED <<database, runtime, taskOf, cancelled, left, stable, callers, history>>

RecordCompleted_MutNotCaught(w, ok) ==
    /\ wpc[w] = "record"
    /\ Mark(taskOf[w], "completed", ok)
    /\ RunGoto(w, IF ok THEN "finish" ELSE "dead")
    /\ UNCHANGED <<runtime, taskOf, cancelled, left, stable, callers,
                   goal, lateGoals, unrecorded, crashes>>

\* The end of a run: the row, then the entry.  A transaction that fails while
\* a failure is being recorded ends the thread, and its entry says "running"
\* from then on.
RecordCompleted(w, ok) ==
    /\ wpc[w] = "record"
    /\ Mark(taskOf[w], "completed", ok)
    /\ RunGoto(w, IF ok THEN "finish" ELSE "record_failed")
    /\ UNCHANGED <<runtime, taskOf, cancelled, left, stable, callers,
                   goal, lateGoals, unrecorded, crashes>>

RecordFailed(w, ok) ==
    /\ wpc[w] = "record_failed"
    /\ Mark(taskOf[w], "failed", ok)
    /\ RunGoto(w, IF ok THEN "finish_failed" ELSE "dead")
    /\ unrecorded' = IF ok THEN unrecorded ELSE unrecorded \cup {w}
    /\ UNCHANGED <<runtime, taskOf, cancelled, left, stable, callers, goal, lateGoals, crashes>>

FinishRun(w) ==
    /\ \/ wpc[w] = "finish" /\ Finish(w, "completed")
       \/ wpc[w] = "finish_failed" /\ Finish(w, "failed")
    /\ UNCHANGED <<database, taskOf, cancelled, left, stable, callers, history>>

-------------------------------------------------------------------------------
\* The web API restarts: threads and memory are gone, the rows and the goal of
\* the chassis are not.
Crash ==
    /\ crashes < MaxCrashes
    /\ crashes' = crashes + 1
    /\ entry' = [t \in Tasks |-> None]
    /\ wpc' = [w \in Runs |-> IF wpc[w] = "unborn" THEN "unborn" ELSE "dead"]
    /\ cpc' = [c \in Callers |-> "idle"]
    /\ ctask' = [c \in Callers |-> None]
    /\ crobot' = [c \in Callers |-> None]
    /\ UNCHANGED <<database, state, holds, taskOf, cancelled, left, stable,
                   goal, lateGoals, unrecorded, dbErrors>>

RunStep(w) ==
    \/ CheckCancelled(w) \/ PollCancelled(w)
    \/ NearGoal(w) \/ FarFromGoal(w) \/ SampleFails(w)
    \/ FinishRun(w)
    \/ \E sent, ok \in BOOLEAN : PublishGoal(w, sent, ok)
    \/ \E ok \in BOOLEAN : RecordCompleted(w, ok) \/ RecordFailed(w, ok)

CallerStep(c) ==
    \/ StartRefused(c) \/ DeleteWrite(c)
    \/ \E w \in Runs : StartLock(c, w)
    \/ \E r \in Robots : UpdateWrite(c, r)
    \/ \E ok \in BOOLEAN : MarkRunning(c, ok) \/ MarkCancelled(c, ok)

Request(c, t) == StartRead(c, t) \/ StopTask(c, t) \/ UpdateCheck(c, t) \/ DeleteCheck(c, t)

Next ==
    \/ \E w \in Runs : RunStep(w) \/ WaypointTimeout(w)
    \/ \E c \in Callers : CallerStep(c)
    \/ \E c \in Callers, t \in Tasks : Request(c, t)
    \/ \E t \in Tasks : CreateTask(t)
    \/ Crash

Spec == Init /\ [][Next]_vars

\* Threads run.
FairSpec == Spec /\ \A w \in Runs : WF_vars(RunStep(w))

-------------------------------------------------------------------------------
(* Properties.                                                             *)

\* Every live run can be stopped: the entry of its task is its own, and says
\* that it is running.
LiveRunCanBeStopped ==
    \A w \in Runs : wpc[w] \in Alive => entry[taskOf[w]] = w /\ state[w] = "running"

\* No robot code has two live runs.  (Runs of different codes may be live at
\* once, and then drive the one chassis of the bridge.)
OneRunPerRobot ==
    \A v, w \in Runs : wpc[v] \in Alive /\ wpc[w] \in Alive /\ holds[v] = holds[w] => v = w

\* A run sends at most one goal after it was cancelled.
AtMostOneLateGoal == \A w \in Runs : lateGoals[w] <= 1

\* A restart of the service has forgotten the run.
Forgotten(w) == taskOf[w] # None /\ entry[taskOf[w]] # w

\* An entry that says "running" of a thread that has ended, and so blocks its
\* task and its robot code, is that of a run whose failure could not be
\* recorded: no other failing call leaves one behind.
StuckEntryIsUnrecorded ==
    \A w \in Runs :
        wpc[w] = "dead" /\ state[w] = "running" => w \in unrecorded \/ Forgotten(w)

\* What the service has said of the end of a run it does not take back.
OutcomeIsFinal ==
    [][\A w \in Runs : state[w] \in FinalStates => state'[w] = state[w]]_vars

\* Robot codes are leased to runs, and the goals the bridge gets are sent under
\* a lease, through failing transactions, stops and restarts.
Lease == INSTANCE RobotLease WITH
    leases <- {<<holds[w], w>> : w \in {v \in Runs : wpc[v] \in Alive}},
    spent  <- {w \in Runs : state[w] # "unborn"}

LeaseSpec == Lease!Spec

\* A run that was cancelled ends, whatever the robot does and without waiting
\* for a deadline.
CancelledRunEnds == \A w \in Runs : cancelled[w] ~> wpc[w] = "dead"

\* A deadline passes: a run that keeps coming back to the condition of its loop
\* finds it false in the end.
DeadlinesPass == \A w \in Runs : SF_vars(WaypointTimeout(w))

\* When deadlines pass every run ends and its entry says so, which gives its
\* task and its robot code back, whatever the bridge answers and whichever
\* transaction fails, but one: when the transaction that records a failure
\* fails as well, the entry says "running" for good.
RunsEnd ==
    DeadlinesPass =>
        \A w \in Runs :
            wpc[w] \in Alive ~> \/ state[w] \in FinalStates
                                \/ w \in unrecorded
                                \/ Forgotten(w)
===============================================================================
