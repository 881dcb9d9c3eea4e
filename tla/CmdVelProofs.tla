----------------------------- MODULE CmdVelProofs -----------------------------
(***************************************************************************)
(* Machine-checked proofs about CmdVel, for any number of callers, motions  *)
(* and messages.  One inductive invariant, IInv, carries all of them.       *)
(***************************************************************************)
EXTENDS CmdVel, TLAPS

\* What a call has in hand between two of its critical sections.
CallHolds ==
    \A c \in Callers :
        /\ pc[c] = "timed_register" => ref[c] \in Motions /\ mpc[ref[c]] = "created"
        /\ pc[c] = "timed_start" => ref[c] \in Motions /\ mpc[ref[c]] = "registered"
        /\ pc[c] \in {"once_join", "rotate_join", "close_join", "rotating"}
              => ref[c] \in Motions

\* Two calls never start the same motion.
StartsAreDistinct ==
    \A c, d \in Callers :
        /\ c # d
        /\ pc[c] \in {"timed_register", "timed_start"}
        /\ pc[d] \in {"timed_register", "timed_start"}
        => ref[c] # ref[d]

\* Only a motion that was registered can be in the slot, be cancelled, or
\* belong to rotate_angle.
OnlyRegistered ==
    /\ \A m \in cancelled \cup rotations : mpc[m] \notin Unregistered
    /\ active # None => mpc[active] \notin Unregistered

\* How many late messages a motion can have sent, by where its thread is.
LateBudget ==
    \A m \in Motions :
        /\ m \notin cancelled => late[m] = 0
        /\ mpc[m] \in Unregistered \cup {"registered", "publish"} => late[m] = 0
        /\ mpc[m] \in {"check", "after"} => late[m] <= 1
        /\ mpc[m] = "zeros" => late[m] <= IF m \in rotations THEN 1 ELSE 0

\* Whose message can be last on the topic.
LastMessage ==
    \A m \in Motions :
        /\ mpc[m] \in Unregistered \cup {"registered"} => twist # m
        /\ mpc[m] \in {"clear", "dead"} /\ m \notin cancelled /\ ~closed => twist # m

IInv ==
    /\ TypeOK
    /\ CallHolds
    /\ StartsAreDistinct
    /\ OnlyRegistered
    /\ OwnerIsStoppable
    /\ LateBudget
    /\ LateMessagesAreBounded
    /\ LastMessage
-------------------------------------------------------------------------------
LEMMA Step ==
    ASSUME IInv, [Next]_vars
    PROVE  IInv'
<1> USE CmdVelAssumption
        DEF TypeOK, CallerPc, MotionPc, CallHolds, StartsAreDistinct, OnlyRegistered,
            OwnerIsStoppable, LateBudget, LateMessagesAreBounded, LastMessage,
            Live, Unregistered, Ended
<1>1. ASSUME NEW c \in Callers, NEW m \in Motions, PublishForDuration(c, m)
      PROVE  IInv'
  <2> USE <1>1 DEF PublishForDuration, CancelActive, MotionGoto, GotoWith, Goto
  <2>1. TypeOK'
    BY DEF IInv
  <2>2. CallHolds'
    BY DEF IInv
  <2>3. StartsAreDistinct'
    BY DEF IInv
  <2>4. OnlyRegistered'
    BY DEF IInv
  <2>5. OwnerIsStoppable'
    BY DEF IInv
  <2>6. LateBudget'
    BY DEF IInv
  <2>7. LateMessagesAreBounded'
    BY DEF IInv
  <2>8. LastMessage'
    BY DEF IInv
  <2> QED
    BY <2>1, <2>2, <2>3, <2>4, <2>5, <2>6, <2>7, <2>8 DEF IInv
<1>2. ASSUME NEW c \in Callers, Register(c)
      PROVE  IInv'
  <2> USE <1>2 DEF Register, MotionGoto, Return, GotoWith, Goto
  <2>1. TypeOK'
    <3>1. ref[c] \in Motions
      BY DEF IInv
    <3>2. CASE closed
      BY <3>1, <3>2 DEF IInv
    <3>3. CASE ~closed
      BY <3>1, <3>3 DEF IInv
    <3> QED
      BY <3>2, <3>3
  <2>2. CallHolds'
    BY DEF IInv
  <2>3. StartsAreDistinct'
    BY DEF IInv
  <2>4. OnlyRegistered'
    BY DEF IInv
  <2>5. OwnerIsStoppable'
    BY DEF IInv
  <2>6. LateBudget'
    BY DEF IInv
  <2>7. LateMessagesAreBounded'
    BY DEF IInv
  <2>8. LastMessage'
    BY DEF IInv
  <2> QED
    BY <2>1, <2>2, <2>3, <2>4, <2>5, <2>6, <2>7, <2>8 DEF IInv
<1>3. ASSUME NEW c \in Callers, StartWorker(c)
      PROVE  IInv'
  BY <1>3 DEF IInv, StartWorker, MotionGoto, Return, GotoWith, Goto, topicVars
<1>4. ASSUME NEW c \in Callers, PublishOnce(c)
      PROVE  IInv'
  <2> USE <1>4 DEF PublishOnce, CancelAndJoin, CancelActive, GotoWith, Goto
  <2>1. TypeOK'
    <3>1. CASE active = None
      BY <3>1 DEF IInv
    <3>2. CASE active # None
      <4>1. active \in Motions
        BY <3>2 DEF IInv
      <4>2. cancelled' \subseteq Motions
        BY <4>1 DEF IInv
      <4>3. pc' \in [Callers -> CallerPc] /\ ref' \in [Callers -> Motions \cup {None}]
        BY <3>2, <4>1 DEF IInv
      <4> QED
        BY <4>2, <4>3 DEF IInv
    <3> QED
      BY <3>1, <3>2
  <2>2. CallHolds'
    BY DEF IInv
  <2>3. StartsAreDistinct'
    BY DEF IInv
  <2>4. OnlyRegistered'
    BY DEF IInv
  <2>5. OwnerIsStoppable'
    BY DEF IInv
  <2>6. LateBudget'
    BY DEF IInv
  <2>7. LateMessagesAreBounded'
    BY DEF IInv
  <2>8. LastMessage'
    BY DEF IInv
  <2> QED
    BY <2>1, <2>2, <2>3, <2>4, <2>5, <2>6, <2>7, <2>8 DEF IInv
<1>5. ASSUME NEW c \in Callers, OnceSend(c)
      PROVE  IInv'
  BY <1>5 DEF IInv, OnceSend, Return, GotoWith, Goto, motionVars
<1>6. ASSUME NEW c \in Callers, Stop(c)
      PROVE  IInv'
  BY <1>6 DEF IInv, Stop, CancelActive, Goto
<1>7. ASSUME NEW c \in Callers, StopSend(c)
      PROVE  IInv'
  BY <1>7 DEF IInv, StopSend, Return, GotoWith, Goto, motionVars
<1>8. ASSUME NEW c \in Callers, RotateAngle(c)
      PROVE  IInv'
  <2> USE <1>8 DEF RotateAngle, CancelAndJoin, CancelActive, GotoWith, Goto
  <2>1. TypeOK'
    <3>1. CASE active = None
      BY <3>1 DEF IInv
    <3>2. CASE active # None
      <4>1. active \in Motions
        BY <3>2 DEF IInv
      <4>2. cancelled' \subseteq Motions
        BY <4>1 DEF IInv
      <4>3. pc' \in [Callers -> CallerPc] /\ ref' \in [Callers -> Motions \cup {None}]
        BY <3>2, <4>1 DEF IInv
      <4> QED
        BY <4>2, <4>3 DEF IInv
    <3> QED
      BY <3>1, <3>2
  <2>2. CallHolds'
    BY DEF IInv
  <2>3. StartsAreDistinct'
    BY DEF IInv
  <2>4. OnlyRegistered'
    BY DEF IInv
  <2>5. OwnerIsStoppable'
    BY DEF IInv
  <2>6. LateBudget'
    BY DEF IInv
  <2>7. LateMessagesAreBounded'
    BY DEF IInv
  <2>8. LastMessage'
    BY DEF IInv
  <2> QED
    BY <2>1, <2>2, <2>3, <2>4, <2>5, <2>6, <2>7, <2>8 DEF IInv
<1>9. ASSUME NEW c \in Callers, RotateGiveUp(c)
      PROVE  IInv'
  BY <1>9 DEF IInv, RotateGiveUp, Return, GotoWith, Goto, motionVars, topicVars
<1>10. ASSUME NEW c \in Callers, RotateZeroAngle(c)
      PROVE  IInv'
  BY <1>10 DEF IInv, RotateZeroAngle, CancelActive, Goto
<1>11. ASSUME NEW c \in Callers, NEW m \in Motions, RotateRegister(c, m)
      PROVE  IInv'
  <2> USE <1>11 DEF RotateRegister, MotionGoto, GotoWith, Goto
  <2>1. TypeOK'
    BY DEF IInv
  <2>2. CallHolds'
    BY DEF IInv
  <2>3. StartsAreDistinct'
    BY DEF IInv
  <2>4. OnlyRegistered'
    BY DEF IInv
  <2>5. OwnerIsStoppable'
    BY DEF IInv
  <2>6. LateBudget'
    BY DEF IInv
  <2>7. LateMessagesAreBounded'
    BY DEF IInv
  <2>8. LastMessage'
    BY DEF IInv
  <2> QED
    BY <2>1, <2>2, <2>3, <2>4, <2>5, <2>6, <2>7, <2>8 DEF IInv
<1>12. ASSUME NEW c \in Callers, RotateReturn(c)
      PROVE  IInv'
  BY <1>12 DEF IInv, RotateReturn, Return, GotoWith, Goto, motionVars, topicVars
<1>13. ASSUME NEW c \in Callers, Close(c)
      PROVE  IInv'
  BY <1>13 DEF IInv, Close, CancelAndJoin, CancelActive, GotoWith, Goto, topicVars
<1>14. ASSUME NEW c \in Callers, CloseLock(c)
      PROVE  IInv'
  BY <1>14 DEF IInv, CloseLock, Return, GotoWith, Goto, motionVars, topicVars
<1>15. ASSUME NEW c \in Callers, JoinReturns(c)
      PROVE  IInv'
  BY <1>15 DEF IInv, JoinReturns, AfterJoin, GotoWith, Goto, motionVars, topicVars
<1>16. ASSUME NEW c \in Callers, JoinRaises(c)
      PROVE  IInv'
  BY <1>16 DEF IInv, JoinRaises, Return, GotoWith, Goto, motionVars, topicVars
<1>17. ASSUME NEW m \in Motions, LoopEnter(m)
      PROVE  IInv'
  BY <1>17 DEF IInv, LoopEnter, MotionGoto, callVars, topicVars
<1>18. ASSUME NEW m \in Motions, LoopExit(m)
      PROVE  IInv'
  BY <1>18 DEF IInv, LoopExit, MotionGoto, callVars, topicVars
<1>19. ASSUME NEW m \in Motions, LoopPublish(m)
      PROVE  IInv'
  BY <1>19 DEF IInv, LoopPublish, MotionGoto, Publish, callVars, topicVars
<1>20. ASSUME NEW m \in Motions, AfterLoop(m)
      PROVE  IInv'
  BY <1>20 DEF IInv, AfterLoop, MotionGoto, callVars, topicVars
<1>21. ASSUME NEW m \in Motions, SendZeros(m)
      PROVE  IInv'
  BY <1>21 DEF IInv, SendZeros, MotionGoto, Publish, callVars, topicVars
<1>22. ASSUME NEW m \in Motions, ClearActive(m)
      PROVE  IInv'
  BY <1>22 DEF IInv, ClearActive, MotionGoto, callVars, topicVars
<1>23. ASSUME NEW c \in Callers, ShutdownReturns(c)
      PROVE  IInv'
  BY <1>23 DEF IInv, ShutdownReturns, Return, GotoWith, Goto, motionVars, topicVars
<1>24. CASE OnOdom \/ SetLatestYaw
  BY <1>24 DEF IInv, OnOdom, SetLatestYaw, motionVars, callVars, topicVars
<1>25. CASE UNCHANGED vars
  BY <1>25 DEF IInv, vars, motionVars, callVars, topicVars
<1> QED
  BY <1>1, <1>2, <1>3, <1>4, <1>5, <1>6, <1>7, <1>8, <1>9, <1>10, <1>11, <1>12, <1>13, <1>14,
        <1>15, <1>16, <1>17, <1>18, <1>19, <1>20, <1>21, <1>22, <1>23, <1>24, <1>25
  DEF Next, BeginCall, ContinueCall, MotionStep

THEOREM Inductive == Spec => []IInv
<1>1. Init => IInv
  <2> SUFFICES ASSUME Init PROVE IInv
    OBVIOUS
  <2>1. TypeOK
    <3>1. MaxPublishes \in 0 .. MaxPublishes /\ 0 \in Nat
      BY CmdVelAssumption
    <3>2. left \in [Motions -> 0 .. MaxPublishes] /\ late \in [Motions -> Nat]
      BY <3>1 DEF Init
    <3> QED
      BY <3>2 DEF Init, TypeOK, CallerPc, MotionPc
  <2>2. CallHolds /\ StartsAreDistinct
    BY DEF Init, CallHolds, StartsAreDistinct
  <2>3. OnlyRegistered /\ OwnerIsStoppable
    BY DEF Init, OnlyRegistered, OwnerIsStoppable
  <2>4. LateBudget /\ LateMessagesAreBounded
    BY DEF Init, LateBudget, LateMessagesAreBounded
  <2>5. LastMessage
    BY CmdVelAssumption DEF Init, LastMessage
  <2> QED
    BY <2>1, <2>2, <2>3, <2>4, <2>5 DEF IInv
<1>2. IInv /\ [Next]_vars => IInv'
  BY Step
<1> QED
  BY <1>1, <1>2, PTL DEF Spec

\* Every variable keeps its type.
THEOREM TypeCorrect == Spec => []TypeOK
BY Inductive, PTL DEF IInv

\* Whoever empties the slot gets a motion its cancellation still reaches.
THEOREM OwnerStoppable == Spec => []OwnerIsStoppable
BY Inductive, PTL DEF IInv

\* Cancelling a motion leaves it at most one message (two for a rotation),
\* however the callers and the workers interleave.
THEOREM LateBounded == Spec => []LateMessagesAreBounded
BY Inductive, PTL DEF IInv

\* A motion that ended by itself on an open publisher was stopped by its zeros.
THEOREM UncancelledStops == Spec => []UncancelledMotionEndsStopped
<1>1. IInv => UncancelledMotionEndsStopped
  BY DEF IInv, LastMessage, UncancelledMotionEndsStopped
<1> QED
  BY <1>1, Inductive, PTL

\* After close() nothing reaches the topic.
THEOREM ClosedSilent == Spec => ClosedIsSilent
<1>1. [Next]_vars => [closed => twist' = twist]_vars
  <2> SUFFICES ASSUME Next, closed
               PROVE  twist' = twist
    OBVIOUS
  <2>1. ASSUME NEW c \in Callers, BeginCall(c)
        PROVE  twist' = twist
    BY <2>1 DEF BeginCall, PublishForDuration, PublishOnce, Stop, RotateAngle, Close, topicVars
  <2>2. ASSUME NEW c \in Callers, ContinueCall(c)
        PROVE  twist' = twist
    BY <2>2 DEF ContinueCall, Register, StartWorker, OnceSend, StopSend, RotateGiveUp,
                RotateZeroAngle, RotateRegister, RotateReturn, CloseLock,
                ShutdownReturns, JoinReturns,
                JoinRaises, topicVars
  <2>3. ASSUME NEW m \in Motions, MotionStep(m)
        PROVE  twist' = twist
    BY <2>3 DEF MotionStep, LoopEnter, LoopExit, LoopPublish, AfterLoop, SendZeros,
                ClearActive, topicVars
  <2>4. CASE OnOdom \/ SetLatestYaw
    BY <2>4 DEF OnOdom, SetLatestYaw, topicVars
  <2> QED
    BY <2>1, <2>2, <2>3, <2>4 DEF Next
<1> QED
  BY <1>1, PTL DEF Spec, ClosedIsSilent

\* Once close() and a callback of its executor wait for each other, they do so
\* for ever: no other call and no motion can change the slot, end a wait of
\* theirs or send anything, so every motion and call that needs the lock waits too.
THEOREM DeadlockFinal == Spec => DeadlockIsFinal
<1> DEFINE Still == Deadlocked' /\ UNCHANGED <<closed, active, cancelled, twist>>
<1>1. IInv /\ [Next]_vars => [Deadlocked => Still]_vars
  <2> SUFFICES ASSUME IInv, Next, Deadlocked
               PROVE  Still
    OBVIOUS
  <2>1. ~LockFree /\ callback
    BY DEF Deadlocked
  <2>2. PICK d \in Callers : pc[d] = "close_shutdown"
    BY <2>1 DEF LockFree
  <2>3. pc \in [Callers -> CallerPc]
    BY DEF IInv, TypeOK
  <2> USE DEF Deadlocked, CancelActive, CancelAndJoin, MotionGoto, Return, GotoWith, Goto,
              motionVars, callVars, topicVars
  <2>4. ASSUME NEW c \in Callers, BeginCall(c)
        PROVE  Still
    BY <2>1, <2>4 DEF BeginCall, PublishForDuration, PublishOnce, Stop, RotateAngle, Close
  <2>5. ASSUME NEW c \in Callers, ContinueCall(c)
        PROVE  Still
    <3>1. StartWorker(c) \/ JoinReturns(c) \/ JoinRaises(c)
      BY <2>1, <2>5 DEF ContinueCall, Register, OnceSend, StopSend, RotateGiveUp,
                        RotateZeroAngle, RotateReturn, RotateRegister, CloseLock, ShutdownReturns
    <3>2. c # d
      BY <2>2, <3>1 DEF StartWorker, JoinReturns, JoinRaises
    <3>3. pc'[d] = "close_shutdown"
      BY <2>2, <2>3, <3>1, <3>2 DEF StartWorker, JoinReturns, JoinRaises
    <3> QED
      BY <2>1, <3>1, <3>3 DEF StartWorker, JoinReturns, JoinRaises, LockFree
  <2>6. ASSUME NEW m \in Motions, MotionStep(m)
        PROVE  Still
    <3>1. LoopEnter(m) \/ LoopExit(m) \/ AfterLoop(m)
      BY <2>1, <2>6 DEF MotionStep, LoopPublish, SendZeros, ClearActive
    <3> QED
      BY <2>1, <2>2, <3>1 DEF LoopEnter, LoopExit, AfterLoop, LockFree
  <2>7. ~OnOdom /\ ~SetLatestYaw
    BY <2>1 DEF OnOdom, SetLatestYaw
  <2> QED
    BY <2>4, <2>5, <2>6, <2>7 DEF Next
<1> QED
  BY <1>1, Inductive, PTL DEF Spec, DeadlockIsFinal

\* CmdVel implements MotionSlot: every step takes or revokes the slot,
\* ends a motion or shuts the arbiter as the abstract specification allows, or leaves it alone.
THEOREM SlotRefinement == Spec => SlotSpec
<1> DEFINE Taken == {m \in Motions : mpc[m] \notin Unregistered}
           Finished == {m \in Motions : mpc[m] = "dead"}
<1>1. Init => Slot!Init
  BY DEF Init, Slot!Init, Unregistered
<1>2. IInv /\ [Next]_vars => [Slot!Next]_<<active, cancelled, Taken, Finished, closed>>
  <2> SUFFICES ASSUME IInv, [Next]_vars
               PROVE  [Slot!Next]_<<active, cancelled, Taken, Finished, closed>>
    OBVIOUS
  <2> USE CmdVelAssumption
          DEF IInv, TypeOK, CallHolds, OnlyRegistered, Unregistered,
              Slot!Next, Slot!Take, Slot!Revoke, Slot!Finish, Slot!Shut
  <2>1. ASSUME NEW c \in Callers, NEW m \in Motions, PublishForDuration(c, m)
        PROVE  [Slot!Next]_<<active, cancelled, Taken, Finished, closed>>
    BY <2>1 DEF PublishForDuration, CancelActive, MotionGoto, GotoWith, Goto
  <2>2. ASSUME NEW c \in Callers, Register(c)
        PROVE  [Slot!Next]_<<active, cancelled, Taken, Finished, closed>>
    BY <2>2 DEF Register, MotionGoto, Return, GotoWith, Goto
  <2>3. ASSUME NEW c \in Callers, StartWorker(c)
        PROVE  [Slot!Next]_<<active, cancelled, Taken, Finished, closed>>
    BY <2>3 DEF StartWorker, MotionGoto, Return, GotoWith, Goto, topicVars
  <2>4. ASSUME NEW c \in Callers, PublishOnce(c)
        PROVE  [Slot!Next]_<<active, cancelled, Taken, Finished, closed>>
    BY <2>4 DEF PublishOnce, CancelAndJoin, CancelActive, GotoWith, Goto
  <2>5. ASSUME NEW c \in Callers, OnceSend(c)
        PROVE  [Slot!Next]_<<active, cancelled, Taken, Finished, closed>>
    BY <2>5 DEF OnceSend, Return, GotoWith, Goto, motionVars
  <2>6. ASSUME NEW c \in Callers, Stop(c)
        PROVE  [Slot!Next]_<<active, cancelled, Taken, Finished, closed>>
    BY <2>6 DEF Stop, CancelActive, Goto
  <2>7. ASSUME NEW c \in Callers, StopSend(c)
        PROVE  [Slot!Next]_<<active, cancelled, Taken, Finished, closed>>
    BY <2>7 DEF StopSend, Return, GotoWith, Goto, motionVars
  <2>8. ASSUME NEW c \in Callers, RotateAngle(c)
        PROVE  [Slot!Next]_<<active, cancelled, Taken, Finished, closed>>
    BY <2>8 DEF RotateAngle, CancelAndJoin, CancelActive, GotoWith, Goto
  <2>9. ASSUME NEW c \in Callers, RotateGiveUp(c)
        PROVE  [Slot!Next]_<<active, cancelled, Taken, Finished, closed>>
    BY <2>9 DEF RotateGiveUp, Return, GotoWith, Goto, motionVars, topicVars
  <2>10. ASSUME NEW c \in Callers, RotateZeroAngle(c)
        PROVE  [Slot!Next]_<<active, cancelled, Taken, Finished, closed>>
    BY <2>10 DEF RotateZeroAngle, CancelActive, Goto
  <2>11. ASSUME NEW c \in Callers, NEW m \in Motions, RotateRegister(c, m)
        PROVE  [Slot!Next]_<<active, cancelled, Taken, Finished, closed>>
    BY <2>11 DEF RotateRegister, MotionGoto, GotoWith, Goto
  <2>12. ASSUME NEW c \in Callers, RotateReturn(c)
        PROVE  [Slot!Next]_<<active, cancelled, Taken, Finished, closed>>
    BY <2>12 DEF RotateReturn, Return, GotoWith, Goto, motionVars, topicVars
  <2>13. ASSUME NEW c \in Callers, Close(c)
        PROVE  [Slot!Next]_<<active, cancelled, Taken, Finished, closed>>
    BY <2>13 DEF Close, CancelAndJoin, CancelActive, GotoWith, Goto, topicVars
  <2>14. ASSUME NEW c \in Callers, CloseLock(c)
        PROVE  [Slot!Next]_<<active, cancelled, Taken, Finished, closed>>
    BY <2>14 DEF CloseLock, Return, GotoWith, Goto, motionVars, topicVars
  <2>15. ASSUME NEW c \in Callers, JoinReturns(c)
        PROVE  [Slot!Next]_<<active, cancelled, Taken, Finished, closed>>
    BY <2>15 DEF JoinReturns, AfterJoin, GotoWith, Goto, motionVars, topicVars
  <2>16. ASSUME NEW c \in Callers, JoinRaises(c)
        PROVE  [Slot!Next]_<<active, cancelled, Taken, Finished, closed>>
    BY <2>16 DEF JoinRaises, Return, GotoWith, Goto, motionVars, topicVars
  <2>17. ASSUME NEW m \in Motions, LoopEnter(m)
        PROVE  [Slot!Next]_<<active, cancelled, Taken, Finished, closed>>
    BY <2>17 DEF LoopEnter, MotionGoto, callVars, topicVars
  <2>18. ASSUME NEW m \in Motions, LoopExit(m)
        PROVE  [Slot!Next]_<<active, cancelled, Taken, Finished, closed>>
    BY <2>18 DEF LoopExit, MotionGoto, callVars, topicVars
  <2>19. ASSUME NEW m \in Motions, LoopPublish(m)
        PROVE  [Slot!Next]_<<active, cancelled, Taken, Finished, closed>>
    BY <2>19 DEF LoopPublish, MotionGoto, Publish, callVars, topicVars
  <2>20. ASSUME NEW m \in Motions, AfterLoop(m)
        PROVE  [Slot!Next]_<<active, cancelled, Taken, Finished, closed>>
    BY <2>20 DEF AfterLoop, MotionGoto, callVars, topicVars
  <2>21. ASSUME NEW m \in Motions, SendZeros(m)
        PROVE  [Slot!Next]_<<active, cancelled, Taken, Finished, closed>>
    BY <2>21 DEF SendZeros, MotionGoto, Publish, callVars, topicVars
  <2>22. ASSUME NEW m \in Motions, ClearActive(m)
        PROVE  [Slot!Next]_<<active, cancelled, Taken, Finished, closed>>
    BY <2>22 DEF ClearActive, MotionGoto, callVars, topicVars
  <2>23. ASSUME NEW c \in Callers, ShutdownReturns(c)
        PROVE  [Slot!Next]_<<active, cancelled, Taken, Finished, closed>>
    BY <2>23 DEF ShutdownReturns, Return, GotoWith, Goto, motionVars, topicVars
  <2>24. CASE OnOdom \/ SetLatestYaw
    BY <2>24 DEF OnOdom, SetLatestYaw, motionVars
  <2>25. CASE UNCHANGED vars
    BY <2>25 DEF vars, motionVars
  <2> QED
    BY <2>1, <2>2, <2>3, <2>4, <2>5, <2>6, <2>7, <2>8, <2>9, <2>10, <2>11, <2>12, <2>13, <2>14,
          <2>15, <2>16, <2>17, <2>18, <2>19, <2>20, <2>21, <2>22, <2>23, <2>24, <2>25
    DEF Next, BeginCall, ContinueCall, MotionStep
<1> QED
  BY <1>1, <1>2, Inductive, PTL DEF Spec, SlotSpec, Slot!Spec, Slot!slotVars
-------------------------------------------------------------------------------
(* One calling thread: a client that waits for each answer.                 *)

\* Every live motion has been cancelled or is the one in the slot; the slot is
\* empty between a call's cancel and its registration, and while stopped.
SoleOwner ==
    /\ \A m \in Motions : Live(m) => m \in cancelled \/ active = m
    /\ \A c \in Callers : pc[c] \notin {"idle", "timed_start", "rotating"} => active = None
    /\ stopped => active = None

LEMMA SoleOwnerStep ==
    ASSUME \A c, d \in Callers : c = d,
           IInv, SoleOwner, [Next]_vars
    PROVE  SoleOwner'
<1> USE DEF IInv, TypeOK, CallHolds, SoleOwner, Live, Unregistered, Ended
<1>1. ASSUME NEW c \in Callers, NEW m \in Motions, PublishForDuration(c, m)
      PROVE  SoleOwner'
  BY <1>1, CmdVelAssumption DEF PublishForDuration, CancelActive, MotionGoto, GotoWith, Goto
<1>2. ASSUME NEW c \in Callers, Register(c)
      PROVE  SoleOwner'
  BY <1>2, CmdVelAssumption DEF Register, MotionGoto, Return, GotoWith, Goto
<1>3. ASSUME NEW c \in Callers, StartWorker(c)
      PROVE  SoleOwner'
  BY <1>3, CmdVelAssumption DEF StartWorker, MotionGoto, Return, GotoWith, Goto, topicVars
<1>4. ASSUME NEW c \in Callers, PublishOnce(c)
      PROVE  SoleOwner'
  BY <1>4, CmdVelAssumption DEF PublishOnce, CancelAndJoin, CancelActive, GotoWith, Goto
<1>5. ASSUME NEW c \in Callers, OnceSend(c)
      PROVE  SoleOwner'
  BY <1>5, CmdVelAssumption DEF OnceSend, Return, GotoWith, Goto, motionVars
<1>6. ASSUME NEW c \in Callers, Stop(c)
      PROVE  SoleOwner'
  BY <1>6, CmdVelAssumption DEF Stop, CancelActive, Goto
<1>7. ASSUME NEW c \in Callers, StopSend(c)
      PROVE  SoleOwner'
  BY <1>7, CmdVelAssumption DEF StopSend, Return, GotoWith, Goto, motionVars
<1>8. ASSUME NEW c \in Callers, RotateAngle(c)
      PROVE  SoleOwner'
  BY <1>8, CmdVelAssumption DEF RotateAngle, CancelAndJoin, CancelActive, GotoWith, Goto
<1>9. ASSUME NEW c \in Callers, RotateGiveUp(c)
      PROVE  SoleOwner'
  BY <1>9, CmdVelAssumption DEF RotateGiveUp, Return, GotoWith, Goto, motionVars, topicVars
<1>10. ASSUME NEW c \in Callers, RotateZeroAngle(c)
      PROVE  SoleOwner'
  BY <1>10, CmdVelAssumption DEF RotateZeroAngle, CancelActive, Goto
<1>11. ASSUME NEW c \in Callers, NEW m \in Motions, RotateRegister(c, m)
      PROVE  SoleOwner'
  BY <1>11, CmdVelAssumption DEF RotateRegister, MotionGoto, GotoWith, Goto
<1>12. ASSUME NEW c \in Callers, RotateReturn(c)
      PROVE  SoleOwner'
  BY <1>12, CmdVelAssumption DEF RotateReturn, Return, GotoWith, Goto, motionVars, topicVars
<1>13. ASSUME NEW c \in Callers, Close(c)
      PROVE  SoleOwner'
  BY <1>13, CmdVelAssumption DEF Close, CancelAndJoin, CancelActive, GotoWith, Goto, topicVars
<1>14. ASSUME NEW c \in Callers, CloseLock(c)
      PROVE  SoleOwner'
  BY <1>14, CmdVelAssumption DEF CloseLock, Return, GotoWith, Goto, motionVars, topicVars
<1>15. ASSUME NEW c \in Callers, JoinReturns(c)
      PROVE  SoleOwner'
  BY <1>15, CmdVelAssumption DEF JoinReturns, AfterJoin, GotoWith, Goto, motionVars, topicVars
<1>16. ASSUME NEW c \in Callers, JoinRaises(c)
      PROVE  SoleOwner'
  BY <1>16, CmdVelAssumption DEF JoinRaises, Return, GotoWith, Goto, motionVars, topicVars
<1>17. ASSUME NEW m \in Motions, LoopEnter(m)
      PROVE  SoleOwner'
  BY <1>17, CmdVelAssumption DEF LoopEnter, MotionGoto, callVars, topicVars
<1>18. ASSUME NEW m \in Motions, LoopExit(m)
      PROVE  SoleOwner'
  BY <1>18, CmdVelAssumption DEF LoopExit, MotionGoto, callVars, topicVars
<1>19. ASSUME NEW m \in Motions, LoopPublish(m)
      PROVE  SoleOwner'
  BY <1>19, CmdVelAssumption DEF LoopPublish, MotionGoto, Publish, callVars, topicVars
<1>20. ASSUME NEW m \in Motions, AfterLoop(m)
      PROVE  SoleOwner'
  BY <1>20, CmdVelAssumption DEF AfterLoop, MotionGoto, callVars, topicVars
<1>21. ASSUME NEW m \in Motions, SendZeros(m)
      PROVE  SoleOwner'
  BY <1>21, CmdVelAssumption DEF SendZeros, MotionGoto, Publish, callVars, topicVars
<1>22. ASSUME NEW m \in Motions, ClearActive(m)
      PROVE  SoleOwner'
  BY <1>22, CmdVelAssumption DEF ClearActive, MotionGoto, callVars, topicVars
<1>23. ASSUME NEW c \in Callers, ShutdownReturns(c)
      PROVE  SoleOwner'
  BY <1>23, CmdVelAssumption DEF ShutdownReturns, Return, GotoWith, Goto, motionVars, topicVars
<1>24. CASE OnOdom \/ SetLatestYaw
  BY <1>24 DEF OnOdom, SetLatestYaw, motionVars, callVars, topicVars
<1>25. CASE UNCHANGED vars
  BY <1>25 DEF vars, motionVars, callVars, topicVars
<1> QED
  BY <1>1, <1>2, <1>3, <1>4, <1>5, <1>6, <1>7, <1>8, <1>9, <1>10, <1>11, <1>12, <1>13, <1>14,
        <1>15, <1>16, <1>17, <1>18, <1>19, <1>20, <1>21, <1>22, <1>23, <1>24, <1>25
  DEF Next, BeginCall, ContinueCall, MotionStep

\* With one calling thread at most one live motion is uncancelled, and a stop()
\* leaves none: what the two-caller run refutes holds for a sequential client.
THEOREM SequentialClient ==
    ASSUME \A c, d \in Callers : c = d
    PROVE  Spec => []OneUncancelledMotion /\ []StopReachesEveryMotion
<1>1. Init => SoleOwner
  BY DEF Init, SoleOwner, Live, Unregistered
<1>2. IInv /\ SoleOwner /\ [Next]_vars => SoleOwner'
  BY SoleOwnerStep
<1>3. SoleOwner => OneUncancelledMotion /\ StopReachesEveryMotion
  BY CmdVelAssumption DEF SoleOwner, OneUncancelledMotion, StopReachesEveryMotion
<1> QED
  BY <1>1, <1>2, <1>3, Inductive, PTL DEF Spec
===============================================================================
