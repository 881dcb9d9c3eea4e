-------------------------------- MODULE CmdVel --------------------------------
(***************************************************************************)
(* CmdVelPublisher (backend/apps/ros_bridge/publishers/cmd_vel.py): the     *)
(* object through which every motion request reaches the /cmd_vel topic of  *)
(* the chassis.  HTTP handlers of the ROS bridge and TCP handlers of the    *)
(* car bridge call it from their own threads; a timed motion runs in a      *)
(* worker thread; rotate_angle runs in the thread that called it.           *)
(*                                                                          *)
(* A motion is a threading.Event with the thread that polls it; the code    *)
(* always stores the two together, so one identifier stands for the pair.   *)
(* Every step below is one critical section of _lock, or one unlocked       *)
(* access between two critical sections.  _publish_repeated holds the lock  *)
(* while it sends the same message several times: it is one step.  close()  *)
(* alone keeps the lock over a wait: for the callbacks of its executor,     *)
(* which need the same lock.                                                *)
(* The clock is not modelled: a deadline may pass whenever it is looked at, *)
(* and MaxPublishes bounds the messages a motion's duration has room for.   *)
(***************************************************************************)
EXTENDS Naturals

CONSTANTS Callers,       \* threads that call the publisher's methods
          Motions,       \* the motions that can be requested
          None,          \* no motion (Python's None)
          Zero,          \* the all-zero Twist
          Once,          \* the Twist of a single message
          MaxPublishes   \* iterations of a publishing loop before its deadline

ASSUME CmdVelAssumption ==
    /\ MaxPublishes \in Nat
    /\ None \notin Motions
    /\ Zero \notin Motions /\ Once \notin Motions
    /\ Zero # Once

VARIABLES
    closed,     \* _closed
    callback,   \* the executor is in an odometry or IMU callback
    active,     \* (_active_stop_event, _active_thread), None when both are None
    cancelled,  \* the motions whose stop event is set
    rotations,  \* the motions that rotate_angle runs, in the caller's thread
    mpc,        \* where the thread of each motion is
    left,       \* iterations each motion has left before its deadline
    pc,         \* where each caller is
    ref,        \* the motion a call has in hand: the one it joins or starts
    twist,      \* last message on the topic: Zero, Once or a motion's
    late,       \* history: messages each motion sent after it was cancelled
    stopped     \* history: a stop() emptied the slot and no motion was asked since

motionVars == <<active, cancelled, rotations, mpc, left>>
callVars == <<pc, ref>>
topicVars == <<twist, late, stopped>>
vars == <<closed, callback, motionVars, callVars, topicVars>>

CallerPc == {"idle", "timed_register", "timed_start", "once_join", "once_send",
             "stop_send", "rotate_join", "rotate_ready", "rotating",
             "close_join", "close_lock", "close_shutdown"}

\* "refused": created, but the publisher was closed before it was registered.
MotionPc == {"unborn", "created", "refused", "registered", "check", "publish",
             "after", "zeros", "clear", "dead"}

Unregistered == {"unborn", "created", "refused"}
Running == {"check", "publish", "after", "zeros", "clear"}
Ended == {"refused", "dead"}

TypeOK ==
    /\ closed \in BOOLEAN
    /\ callback \in BOOLEAN
    /\ active \in Motions \cup {None}
    /\ cancelled \subseteq Motions
    /\ rotations \subseteq Motions
    /\ mpc \in [Motions -> MotionPc]
    /\ left \in [Motions -> 0 .. MaxPublishes]
    /\ pc \in [Callers -> CallerPc]
    /\ ref \in [Callers -> Motions \cup {None}]
    /\ twist \in Motions \cup {Zero, Once}
    /\ late \in [Motions -> Nat]
    /\ stopped \in BOOLEAN

Init ==
    /\ closed = FALSE
    /\ callback = FALSE
    /\ active = None
    /\ cancelled = {}
    /\ rotations = {}
    /\ mpc = [m \in Motions |-> "unborn"]
    /\ left = [m \in Motions |-> MaxPublishes]
    /\ pc = [c \in Callers |-> "idle"]
    /\ ref = [c \in Callers |-> None]
    /\ twist = Zero
    /\ late = [m \in Motions |-> 0]
    /\ stopped = FALSE

-------------------------------------------------------------------------------
(* Shared pieces of the methods.                                           *)

\* Nobody waits inside a critical section: a step that needs _lock can be taken.
LockFree == \A c \in Callers : pc[c] # "close_shutdown"

\* Mutated forms of definitions (suffix _Mut...), each a bug somebody could
\* write there: the runs' properties are shown to fail with them.
CancelActive_MutKeepsSlot ==
    /\ LockFree
    /\ cancelled' = cancelled \cup ({active} \ {None})
    /\ UNCHANGED active

\* The locked half of _cancel_active_motion: empty the slot, set the event.
CancelActive ==
    /\ LockFree
    /\ cancelled' = cancelled \cup ({active} \ {None})
    /\ active' = None

Goto(c, label) == pc' = [pc EXCEPT ![c] = label]

GotoWith(c, label, m) ==
    /\ Goto(c, label)
    /\ ref' = [ref EXCEPT ![c] = m]

Return(c) == GotoWith(c, "idle", None)

\* A method that starts with _cancel_active_motion(wait=True): it joins the
\* thread it took out of the slot, if there was one.
CancelAndJoin(c, joining, next) ==
    /\ CancelActive
    /\ IF active = None THEN Goto(c, next) /\ UNCHANGED ref
                        ELSE GotoWith(c, joining, active)

MotionGoto(m, label) == mpc' = [mpc EXCEPT ![m] = label]

\* One publish of motion m: what it sends, and whether it was cancelled already.
Publish(m, msg) ==
    /\ twist' = msg
    /\ late' = [late EXCEPT ![m] = IF m \in cancelled THEN @ + 1 ELSE @]
    /\ UNCHANGED stopped

-------------------------------------------------------------------------------
(* publish_for_duration: cancel, register, start the worker.               *)

PublishForDuration(c, m) ==
    /\ pc[c] = "idle"
    /\ mpc[m] = "unborn"
    /\ CancelActive
    /\ MotionGoto(m, "created")
    /\ GotoWith(c, "timed_register", m)
    /\ stopped' = FALSE
    /\ UNCHANGED <<closed, callback, rotations, left, twist, late>>

\* Registration overwrites the slot, whatever another caller put there since
\* this call's cancel; on a closed publisher it raises.
Register(c) ==
    /\ pc[c] = "timed_register"
    /\ LockFree
    /\ IF closed
       THEN /\ MotionGoto(ref[c], "refused")
            /\ Return(c)
            /\ UNCHANGED <<active, stopped>>
       ELSE /\ active' = ref[c]
            /\ MotionGoto(ref[c], "registered")
            /\ Goto(c, "timed_start")
            /\ stopped' = FALSE
            /\ UNCHANGED ref
    /\ UNCHANGED <<closed, callback, cancelled, rotations, left, twist, late>>

StartWorker(c) ==
    /\ pc[c] = "timed_start"
    /\ MotionGoto(ref[c], "check")
    /\ Return(c)
    /\ UNCHANGED <<closed, callback, active, cancelled, rotations, left, topicVars>>

-------------------------------------------------------------------------------
(* publish_once, stop, rotate_angle and close.                             *)

PublishOnce(c) ==
    /\ pc[c] = "idle"
    /\ CancelAndJoin(c, "once_join", "once_send")
    /\ stopped' = FALSE
    /\ UNCHANGED <<closed, callback, rotations, mpc, left, twist, late>>

OnceSend(c) ==
    /\ pc[c] = "once_send"
    /\ LockFree
    /\ Return(c)
    /\ IF closed THEN UNCHANGED <<twist, stopped>>
                 ELSE twist' = Once /\ stopped' = FALSE
    /\ UNCHANGED <<closed, callback, motionVars, late>>

Stop(c) ==
    /\ pc[c] = "idle"
    /\ CancelActive
    /\ Goto(c, "stop_send")
    /\ stopped' = TRUE
    /\ UNCHANGED <<closed, callback, rotations, mpc, left, ref, twist, late>>

StopSend(c) ==
    /\ pc[c] = "stop_send"
    /\ LockFree
    /\ Return(c)
    /\ twist' = IF closed THEN twist ELSE Zero
    /\ UNCHANGED <<closed, callback, motionVars, late, stopped>>

RotateAngle(c) ==
    /\ pc[c] = "idle"
    /\ CancelAndJoin(c, "rotate_join", "rotate_ready")
    /\ stopped' = FALSE
    /\ UNCHANGED <<closed, callback, rotations, mpc, left, twist, late>>

\* No subscriber, no fresh yaw, or a closed publisher: the call ends, and the
\* motion it cancelled stays cancelled.
RotateGiveUp(c) ==
    /\ pc[c] = "rotate_ready"
    /\ LockFree
    /\ Return(c)
    /\ UNCHANGED <<closed, callback, motionVars, topicVars>>

\* A zero angle is a stop().
RotateZeroAngle(c) ==
    /\ pc[c] = "rotate_ready"
    /\ ~closed
    /\ CancelActive
    /\ Goto(c, "stop_send")
    /\ stopped' = TRUE
    /\ UNCHANGED <<closed, callback, rotations, mpc, left, ref, twist, late>>

RotateRegister(c, m) ==
    /\ pc[c] = "rotate_ready"
    /\ LockFree
    /\ ~closed
    /\ mpc[m] = "unborn"
    /\ active' = m
    /\ rotations' = rotations \cup {m}
    /\ MotionGoto(m, "check")
    /\ GotoWith(c, "rotating", m)
    /\ stopped' = FALSE
    /\ UNCHANGED <<closed, callback, cancelled, left, twist, late>>

\* The result is put together with one more look at the yaw, under the lock.
RotateReturn(c) ==
    /\ pc[c] = "rotating"
    /\ mpc[ref[c]] = "dead"
    /\ LockFree
    /\ Return(c)
    /\ UNCHANGED <<closed, callback, motionVars, topicVars>>

Close(c) ==
    /\ pc[c] = "idle"
    /\ CancelAndJoin(c, "close_join", "close_lock")
    /\ UNCHANGED <<closed, callback, rotations, mpc, left, topicVars>>

\* The lock is taken, and kept for executor.shutdown(), unless another close()
\* was first.
CloseLock(c) ==
    /\ pc[c] = "close_lock"
    /\ LockFree
    /\ IF closed THEN Return(c)
                 ELSE GotoWith(c, "close_shutdown", None)
    /\ closed' = TRUE
    /\ UNCHANGED <<callback, motionVars, topicVars>>

ShutdownReturns_MutWaitsForMotions(c) ==
    /\ pc[c] = "close_shutdown"
    /\ ~callback
    /\ \A m \in Motions : mpc[m] \in {"unborn", "refused", "dead"}
    /\ Return(c)
    /\ UNCHANGED <<closed, callback, motionVars, topicVars>>

\* executor.shutdown() waits for the callback in progress, without a timeout.
ShutdownReturns(c) ==
    /\ pc[c] = "close_shutdown"
    /\ ~callback
    /\ Return(c)
    /\ UNCHANGED <<closed, callback, motionVars, topicVars>>

-------------------------------------------------------------------------------
(* The executor's thread: _on_odom, _on_imu.                               *)

\* A sample arrives.  An executor that was shut down starts no callback.
OnOdom ==
    /\ ~callback /\ ~closed
    /\ callback' = TRUE
    /\ UNCHANGED <<closed, motionVars, callVars, topicVars>>

SetLatestYaw ==
    /\ callback
    /\ LockFree
    /\ callback' = FALSE
    /\ UNCHANGED <<closed, motionVars, callVars, topicVars>>

-------------------------------------------------------------------------------
(* active_thread.join(timeout=1.0), the unlocked half of a waiting cancel.  *)

AfterJoin(c) == CASE pc[c] = "once_join" -> "once_send"
                  [] pc[c] = "rotate_join" -> "rotate_ready"
                  [] OTHER -> "close_lock"

\* The worker has ended, or one second has passed.  The thread of a rotation
\* belongs to the server's pool and does not end: that join always times out.
JoinReturns(c) ==
    /\ pc[c] \in {"once_join", "rotate_join", "close_join"}
    /\ mpc[ref[c]] # "registered"
    /\ GotoWith(c, AfterJoin(c), None)
    /\ UNCHANGED <<closed, callback, motionVars, topicVars>>

\* The worker is registered but not started: join raises, and the call is
\* abandoned after its cancel.
JoinRaises(c) ==
    /\ pc[c] \in {"once_join", "rotate_join", "close_join"}
    /\ mpc[ref[c]] = "registered"
    /\ Return(c)
    /\ UNCHANGED <<closed, callback, motionVars, topicVars>>

-------------------------------------------------------------------------------
(* The publishing loops: _run_timed_publish and the loop of rotate_angle.   *)

LoopEnter_MutIgnoresEvent(m) ==
    /\ mpc[m] = "check"
    /\ left[m] > 0
    /\ MotionGoto(m, "publish")
    /\ left' = [left EXCEPT ![m] = @ - 1]
    /\ UNCHANGED <<closed, callback, active, cancelled, rotations, callVars, topicVars>>

LoopEnter_MutNoDeadline(m) ==
    /\ mpc[m] = "check"
    /\ m \notin cancelled
    /\ MotionGoto(m, "publish")
    /\ UNCHANGED <<closed, callback, active, cancelled, rotations, left, callVars, topicVars>>

LoopEnter_MutOffByOne(m) ==
    /\ mpc[m] = "check"
    /\ m \notin cancelled
    /\ left[m] >= 0
    /\ MotionGoto(m, "publish")
    /\ left' = [left EXCEPT ![m] = @ - 1]
    /\ UNCHANGED <<closed, callback, active, cancelled, rotations, callVars, topicVars>>

\* The loop test, passed: not cancelled when it looked, deadline not reached.
LoopEnter(m) ==
    /\ mpc[m] = "check"
    /\ m \notin cancelled
    /\ left[m] > 0
    /\ MotionGoto(m, "publish")
    /\ left' = [left EXCEPT ![m] = @ - 1]
    /\ UNCHANGED <<closed, callback, active, cancelled, rotations, callVars, topicVars>>

\* The loop test, failed: cancelled, deadline passed, or (rotation) arrived.
\* A rotation sends its zeros in any case (finally); a timed motion looks again.
LoopExit(m) ==
    /\ mpc[m] = "check"
    /\ MotionGoto(m, IF m \in rotations THEN "zeros" ELSE "after")
    /\ UNCHANGED <<closed, callback, active, cancelled, rotations, left, callVars, topicVars>>

LoopPublish(m) ==
    /\ mpc[m] = "publish"
    /\ LockFree
    /\ IF closed
       THEN MotionGoto(m, "dead") /\ UNCHANGED topicVars
       ELSE MotionGoto(m, "check") /\ Publish(m, m)
    /\ UNCHANGED <<closed, callback, active, cancelled, rotations, left, callVars>>

AfterLoop_MutNoZeros(m) ==
    /\ mpc[m] = "after"
    /\ MotionGoto(m, "clear")
    /\ UNCHANGED <<closed, callback, active, cancelled, rotations, left, callVars, topicVars>>

AfterLoop(m) ==
    /\ mpc[m] = "after"
    /\ MotionGoto(m, IF m \in cancelled THEN "clear" ELSE "zeros")
    /\ UNCHANGED <<closed, callback, active, cancelled, rotations, left, callVars, topicVars>>

\* On a closed publisher _publish_repeated raises and the motion ends unregistered.
SendZeros(m) ==
    /\ mpc[m] = "zeros"
    /\ LockFree
    /\ IF closed
       THEN MotionGoto(m, "dead") /\ UNCHANGED topicVars
       ELSE MotionGoto(m, "clear") /\ Publish(m, Zero)
    /\ UNCHANGED <<closed, callback, active, cancelled, rotations, left, callVars>>

ClearActive_MutNoCompare(m) ==
    /\ mpc[m] = "clear"
    /\ LockFree
    /\ MotionGoto(m, "dead")
    /\ active' = None
    /\ UNCHANGED <<closed, callback, cancelled, rotations, left, callVars, topicVars>>

ClearActive(m) ==
    /\ mpc[m] = "clear"
    /\ LockFree
    /\ MotionGoto(m, "dead")
    /\ active' = IF active = m THEN None ELSE active
    /\ UNCHANGED <<closed, callback, cancelled, rotations, left, callVars, topicVars>>

-------------------------------------------------------------------------------
BeginCall(c) ==
    \/ PublishOnce(c) \/ Stop(c) \/ RotateAngle(c) \/ Close(c)
    \/ \E m \in Motions : PublishForDuration(c, m)

ContinueCall(c) ==
    \/ Register(c) \/ StartWorker(c) \/ OnceSend(c) \/ StopSend(c)
    \/ RotateGiveUp(c) \/ RotateZeroAngle(c) \/ RotateReturn(c)
    \/ CloseLock(c) \/ ShutdownReturns(c)
    \/ JoinReturns(c) \/ JoinRaises(c)
    \/ \E m \in Motions : RotateRegister(c, m)

MotionStep(m) ==
    \/ LoopEnter(m) \/ LoopExit(m) \/ LoopPublish(m)
    \/ AfterLoop(m) \/ SendZeros(m) \/ ClearActive(m)

Next == \/ \E c \in Callers : BeginCall(c) \/ ContinueCall(c)
        \/ \E m \in Motions : MotionStep(m)
        \/ OnOdom \/ SetLatestYaw

Spec == Init /\ [][Next]_vars

\* Threads that can run are scheduled; nobody has to make a call.
Fairness == /\ \A c \in Callers : WF_vars(ContinueCall(c))
            /\ \A m \in Motions : WF_vars(MotionStep(m))

FairSpec == Spec /\ Fairness

-------------------------------------------------------------------------------
(* Properties.                                                             *)

Live(m) == mpc[m] \notin Unregistered \cup Ended

\* The motion in the slot has not been told to stop, and its thread still runs
\* (or is about to), unless the publisher was closed under it: whoever takes
\* the slot's event and thread from _cancel_active_motion gets a motion that
\* its cancellation can still affect.
OwnerIsStoppable ==
    active # None => /\ active \notin cancelled
                     /\ Live(active) \/ closed

\* After its event is set a timed motion reaches the topic at most once more,
\* a rotation at most twice (one turn command, then the zeros of its finally
\* block): the event is polled outside the lock, so one is unavoidable.
LateMessagesAreBounded ==
    \A m \in Motions : late[m] <= IF m \in rotations THEN 2 ELSE 1

\* A motion that ran out its duration without being cancelled, on a publisher
\* that is still open, is not the one the chassis is obeying when its thread
\* ends: lines 389-390 sent the zeros, and nothing of it comes after them.
UncancelledMotionEndsStopped ==
    \A m \in Motions :
        mpc[m] = "dead" /\ m \notin cancelled /\ ~closed => twist # m

\* A closed publisher is silent: no thread that was already past its own test
\* of the event, and no call that was already accepted, sends anything more.
ClosedIsSilent == [][closed => twist' = twist]_vars

\* The slot is used as MotionSlot promises: one owner, revocation is final, a
\* motion that ends gives the slot up and never evicts its successor
\* (_clear_active_motion compares), nothing registers on a closed publisher.
Slot == INSTANCE MotionSlot
            WITH owner <- active, revoked <- cancelled, shut <- closed,
                 taken <- {m \in Motions : mpc[m] \notin Unregistered},
                 finished <- {m \in Motions : mpc[m] = "dead"}

SlotSpec == Slot!Spec

\* With one calling thread, two motions are never both live and uncancelled:
\* each call cancels what the previous one started.
OneUncancelledMotion ==
    \A m, n \in Motions : Live(m) /\ Live(n) /\ m # n => {m, n} \cap cancelled # {}

\* Once stop() has emptied the slot, and until a motion is asked for again,
\* every motion that still runs has been told to stop.
StopReachesEveryMotion ==
    stopped => \A m \in Motions : Live(m) => m \in cancelled

\* Once stop() has returned, no motion was asked for since, and nothing runs
\* any more, its zeros are what the chassis received last.
StopHasTheLastWord ==
    /\ stopped /\ ~closed
    /\ \A c \in Callers : pc[c] = "idle"
    /\ \A m \in Motions : ~Live(m)
    => twist = Zero

\* close() waits, holding the lock, for a callback that waits for the lock.
\* Neither has a timeout.
Deadlocked == callback /\ ~LockFree

\* Every worker that was started ends: no cancellation is needed for it, and
\* no lost registration (an orphan) can make it run for ever.  The one reason
\* for it not to end is the deadlock of close() with the executor's callback.
StartedMotionEnds ==
    \A m \in Motions : mpc[m] = "check" ~> mpc[m] = "dead" \/ Deadlocked

\* Every call returns, whatever the other threads do: a waiting cancel cannot
\* hang on a motion that itself waits, and close() ends under running motions
\* and other calls.  What can keep a call is that close() has caught an
\* odometry callback between its start and its lock: then nothing returns.
CallsReturn ==
    \A c \in Callers : pc[c] # "idle" ~> pc[c] = "idle" \/ Deadlocked

\* The deadlock is never left: once it is there no call and no motion gets
\* the lock again, the executor stays in its callback, the topic is silent.
DeadlockIsFinal ==
    [][Deadlocked => /\ Deadlocked'
                     /\ UNCHANGED <<closed, active, cancelled, twist>>]_vars
===============================================================================
