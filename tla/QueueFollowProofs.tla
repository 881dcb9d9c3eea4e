-------------------------- MODULE QueueFollowProofs ---------------------------
(***************************************************************************)
(* Proofs about QueueFollow, for any sessions, robots, callers and bounds.  *)
(***************************************************************************)
EXTENDS QueueFollow, TLAPS

\* A caller that takes a session out of the service has one that was begun and
\* is not on record; one that starts a session is alone with it, and nobody
\* has begun it.
CallersSound ==
    /\ \A c \in Callers :
         /\ cpc[c] \in {"tell", "join", "halt"} =>
              held[c] \in Sessions /\ held[c] # session /\ lpc[held[c]] \notin {"unborn", "taken"}
         /\ cpc[c] = "register" => next[c] # None
         /\ next[c] # None => lpc[next[c]] = "taken"
    /\ \A c, d \in Callers : next[c] # None /\ next[c] = next[d] => c = d

\* Only a session that was begun and is not on record has its event set.
ToldSound == \A s \in told : s # session /\ lpc[s] \notin {"unborn", "taken"}

\* A session that has sent a late velocity to a robot is not on record, and
\* what is left of its tick does not come to that robot again.
LateSound ==
    \A s \in Sessions, r \in Robots :
        late[s][r] > 0 =>
            /\ session # s
            /\ lpc[s] \notin {"unborn", "taken"}
            /\ lpc[s] = "command" => \A i \in turn[s] .. Len(Queue[s]) : Queue[s][i] # r
            /\ lpc[s] = "sent" => \A i \in turn[s] + 1 .. Len(Queue[s]) : Queue[s][i] # r

IInv == /\ TypeOK /\ CallersSound /\ ToldSound /\ LateSound
        /\ CurrentSessionRuns /\ OneLateVelocity

\* A queue has two robots or more, each once.
LEMMA QueueShape ==
    ASSUME NEW s \in Sessions
    PROVE  /\ Len(Queue[s]) \in Nat /\ Len(Queue[s]) > 1
           /\ \A i \in 1 .. Len(Queue[s]) : Queue[s][i] \in Robots
           /\ \A i, j \in 1 .. Len(Queue[s]) : Queue[s][i] = Queue[s][j] => i = j
<1>1. Queue[s] \in Seq(Robots)
  BY QueueAssumption
<1> QED
  BY <1>1, QueueAssumption

LEMMA InitIInv == Init => IInv
  BY QueueAssumption DEF Init, IInv, TypeOK, CallersSound, ToldSound, LateSound,
     CurrentSessionRuns, OneLateVelocity, SessionOrNone, LoopPc

LEMMA CallerSteps ==
    ASSUME IInv, NEW c \in Callers, Stop(c) \/ CallerStep(c) \/ \E s \in Sessions : Start(c, s)
    PROVE  IInv'
<1> USE DEF service, loops, callers, robots, SessionOrNone, LoopPc, Running
<1>1. ASSUME NEW s \in Sessions, Start(c, s)
      PROVE  IInv'
  <2>1. TypeOK'
    BY <1>1, QueueAssumption DEF IInv, TypeOK, Start, TakeSession, CallerGoto
  <2>2. CallersSound'
    BY <1>1, QueueAssumption DEF IInv, TypeOK, CallersSound, CurrentSessionRuns, Start,
       TakeSession, CallerGoto
  <2>3. ToldSound' /\ LateSound' /\ CurrentSessionRuns' /\ OneLateVelocity'
    BY <1>1, QueueAssumption DEF IInv, TypeOK, ToldSound, LateSound, CurrentSessionRuns,
       OneLateVelocity, Start, TakeSession, CallerGoto
  <2> QED
    BY <2>1, <2>2, <2>3 DEF IInv
<1>2. ASSUME Stop(c)
      PROVE  IInv'
  <2>1. TypeOK'
    BY <1>2, QueueAssumption DEF IInv, TypeOK, Stop, TakeSession, CallerGoto
  <2>2. CallersSound'
    BY <1>2, QueueAssumption DEF IInv, TypeOK, CallersSound, CurrentSessionRuns, Stop,
       TakeSession, CallerGoto
  <2>3. ToldSound' /\ LateSound' /\ CurrentSessionRuns' /\ OneLateVelocity'
    BY <1>2, QueueAssumption DEF IInv, TypeOK, ToldSound, LateSound, CurrentSessionRuns,
       OneLateVelocity, Stop, TakeSession, CallerGoto
  <2> QED
    BY <2>1, <2>2, <2>3 DEF IInv
<1>3. ASSUME SetEvent(c)
      PROVE  IInv'
  <2>1. TypeOK'
    BY <1>3 DEF IInv, TypeOK, CallersSound, SetEvent, CallerGoto
  <2>3. CallersSound'
    BY <1>3 DEF IInv, TypeOK, CallersSound, SetEvent, CallerGoto
  <2>2. ToldSound' /\ LateSound' /\ CurrentSessionRuns' /\ OneLateVelocity'
    <3>1. /\ told' = told \cup {held[c]}
          /\ held[c] # session /\ lpc[held[c]] \notin {"unborn", "taken"}
          /\ UNCHANGED <<session, lpc, turn, late>>
      BY <1>3 DEF IInv, CallersSound, SetEvent
    <3>2. ToldSound' /\ CurrentSessionRuns'
      BY <3>1 DEF IInv, ToldSound, CurrentSessionRuns
    <3>3. LateSound' /\ OneLateVelocity'
      BY <3>1 DEF IInv, LateSound, OneLateVelocity
    <3> QED
      BY <3>2, <3>3
  <2> QED
    BY <2>1, <2>2, <2>3 DEF IInv
<1>4. ASSUME NEW halts \in BOOLEAN, Join(c, halts)
      PROVE  IInv'
  <2>1. TypeOK'
    BY <1>4 DEF IInv, TypeOK, Join, Return, CallerGoto
  <2>3. CallersSound'
    <3>1. CASE halts
      BY <1>4, <3>1 DEF IInv, TypeOK, CallersSound, Join, CallerGoto
    <3>2. CASE ~halts
      <4>1. /\ UNCHANGED <<session, lpc>>
            /\ cpc' = [cpc EXCEPT ![c] = "idle"]
            /\ next' = [next EXCEPT ![c] = None] /\ held' = [held EXCEPT ![c] = None]
        BY <1>4, <3>2 DEF Join, Return, CallerGoto
      <4>2. \A d \in Callers : /\ d # c => cpc'[d] = cpc[d] /\ held'[d] = held[d]
                                            /\ next'[d] = next[d]
                               /\ cpc'[c] = "idle" /\ next'[c] = None
        BY <4>1 DEF IInv, TypeOK
      <4> QED
        BY <4>1, <4>2 DEF IInv, CallersSound
    <3> QED
      BY <3>1, <3>2
  <2>2. ToldSound' /\ LateSound' /\ CurrentSessionRuns' /\ OneLateVelocity'
    BY <1>4 DEF IInv, ToldSound, LateSound, CurrentSessionRuns, OneLateVelocity, Join
  <2> QED
    BY <2>1, <2>2, <2>3 DEF IInv
<1>5. ASSUME HaltReturns(c)
      PROVE  IInv'
  <2>1. TypeOK'
    BY <1>5 DEF IInv, TypeOK, HaltReturns, Proceed, Return, CallerGoto
  <2>3. CallersSound'
    <3>1. CASE next[c] # None
      <4>1. /\ UNCHANGED <<session, lpc, held, next>>
            /\ cpc' = [cpc EXCEPT ![c] = "register"]
        BY <1>5, <3>1 DEF HaltReturns, Proceed, CallerGoto, service, loops
      <4> QED
        BY <3>1, <4>1 DEF IInv, TypeOK, CallersSound
    <3>2. CASE next[c] = None
      <4>1. /\ UNCHANGED <<session, lpc>>
            /\ cpc' = [cpc EXCEPT ![c] = "idle"]
            /\ next' = [next EXCEPT ![c] = None] /\ held' = [held EXCEPT ![c] = None]
        BY <1>5, <3>2 DEF HaltReturns, Proceed, Return, CallerGoto, service, loops
      <4>2. \A d \in Callers : /\ d # c => cpc'[d] = cpc[d] /\ held'[d] = held[d]
                                            /\ next'[d] = next[d]
                               /\ cpc'[c] = "idle" /\ next'[c] = None
        BY <4>1 DEF IInv, TypeOK
      <4> QED
        BY <4>1, <4>2 DEF IInv, CallersSound
    <3> QED
      BY <3>1, <3>2
  <2>2. ToldSound' /\ LateSound' /\ CurrentSessionRuns' /\ OneLateVelocity'
    BY <1>5 DEF IInv, ToldSound, LateSound, CurrentSessionRuns, OneLateVelocity, HaltReturns
  <2> QED
    BY <2>1, <2>2, <2>3 DEF IInv
<1>6. ASSUME Register(c)
      PROVE  IInv'
  <2>1. next[c] \in Sessions /\ lpc[next[c]] = "taken"
    BY <1>6 DEF IInv, TypeOK, CallersSound, Register
  <2>2. TypeOK'
    BY <1>6, <2>1, QueueAssumption DEF IInv, TypeOK, Register, Return, CallerGoto
  <2>3. CallersSound'
    BY <1>6, <2>1, QueueAssumption DEF IInv, TypeOK, CallersSound, Register, Return, CallerGoto
  <2>4. ToldSound' /\ LateSound' /\ CurrentSessionRuns' /\ OneLateVelocity'
    BY <1>6, <2>1, QueueAssumption DEF IInv, TypeOK, ToldSound, LateSound, CurrentSessionRuns,
       OneLateVelocity, Register
  <2> QED
    BY <2>2, <2>3, <2>4 DEF IInv
<1> QED
  BY <1>1, <1>2, <1>3, <1>4, <1>5, <1>6 DEF CallerStep

\* A step of a loop goes from one running place to another, or it ends the
\* loop of a session that is not on record.
LEMMA LoopMoves ==
    ASSUME IInv, NEW s \in Sessions, LoopStep(s)
    PROVE  /\ lpc[s] \in Running
           /\ \E label \in Running \cup {"dead"} :
                /\ lpc' = [lpc EXCEPT ![s] = label]
                /\ session = s => label # "dead"
           /\ UNCHANGED <<session, told, callers>>
  BY DEF IInv, TypeOK, ToldSound, LoopStep, TestEvent, EnterLoop, Tick, TickFails, RecordPoses,
     Command, CallReturns, TickEnds, LoopGoto, Current, Running, LoopPc, service, callers

LEMMA LoopSteps ==
    ASSUME IInv, NEW s \in Sessions, LoopStep(s)
    PROVE  IInv'
<1> USE DEF service, loops, callers, robots, SessionOrNone, LoopPc, Running
<1>1. CallersSound' /\ ToldSound' /\ CurrentSessionRuns'
  <2>1. PICK label \in Running \cup {"dead"} :
             /\ lpc' = [lpc EXCEPT ![s] = label]
             /\ session = s => label # "dead"
    BY LoopMoves
  <2>2. lpc[s] \in Running /\ UNCHANGED <<session, told, cpc, held, next>>
    BY LoopMoves
  <2>3. CallersSound'
    BY <2>1, <2>2 DEF IInv, TypeOK, CallersSound
  <2>4. ToldSound' /\ CurrentSessionRuns'
    BY <2>1, <2>2 DEF IInv, TypeOK, ToldSound, CurrentSessionRuns
  <2> QED
    BY <2>3, <2>4
<1>2. TypeOK' /\ LateSound' /\ OneLateVelocity'
  <2>1. CASE TestEvent(s) \/ EnterLoop(s) \/ Tick(s) \/ TickFails(s)
    BY <2>1 DEF IInv, TypeOK, LateSound, OneLateVelocity, TestEvent, EnterLoop, Tick,
       TickFails, LoopGoto
  <2>2. ASSUME NEW found \in SUBSET Member(s), RecordPoses(s, found)
        PROVE  TypeOK' /\ LateSound' /\ OneLateVelocity'
    <3>1. found \subseteq Robots
      BY <2>2, QueueAssumption DEF Member
    <3> QED
      <4>1. TypeOK'
        <5>1. UNCHANGED <<session, told, turn, callers, robots>>
          BY <2>2 DEF RecordPoses
        <5>2. tracked' \subseteq Robots /\ fresh' \in [Sessions -> SUBSET Robots]
          BY <2>2, <3>1 DEF IInv, TypeOK, RecordPoses
        <5>3. lpc' \in [Sessions -> LoopPc]
          BY <2>2 DEF IInv, TypeOK, RecordPoses, LoopGoto
        <5> QED
          BY <5>1, <5>2, <5>3 DEF IInv, TypeOK
      <4>2. LateSound' /\ OneLateVelocity'
        BY <2>2 DEF IInv, TypeOK, LateSound, OneLateVelocity, RecordPoses, LoopGoto, Current
      <4> QED
        BY <4>1, <4>2
  <2>3. CASE Command(s)
    <3> DEFINE follower == Queue[s][turn[s]]
    <3>1. turn[s] \in 1 .. Len(Queue[s])
      <4>1. turn[s] \in 2 .. Len(Queue[s])
        BY DEF IInv, TypeOK
      <4> QED
        BY <4>1, QueueShape
    <3>2. /\ follower \in Robots
          /\ \A i \in turn[s] + 1 .. Len(Queue[s]) : Queue[s][i] # follower
      BY <3>1, QueueShape
    <3> HIDE DEF follower
    <3>3. late[s] \in [Robots -> 0 .. 2] /\ late[s][follower] = 0
      <4>1. late[s] \in [Robots -> 0 .. 2]
        BY DEF IInv, TypeOK
      <4>2. lpc[s] = "command" /\ turn[s] \in turn[s] .. Len(Queue[s])
        BY <2>3, <3>1, QueueShape DEF Command
      <4>3. ~(late[s][follower] > 0)
        BY <3>2, <4>2 DEF IInv, LateSound, follower
      <4> QED
        BY <3>2, <4>1, <4>3
    <3>4. /\ lpc' = [lpc EXCEPT ![s] = "sent"] /\ lpc[s] = "command"
          /\ UNCHANGED <<session, told, tracked, turn, fresh, callers>>
      BY <2>3 DEF Command, LoopGoto
    <3>5. \/ late' = late
          \/ session # s /\ late' = [late EXCEPT ![s][follower] = 1]
      BY <2>3, <3>3 DEF Command, follower
    <3>6. calls' \in [Robots -> [Sessions -> 0 .. MaxCalls]]
      <4>1. \/ calls' = calls
            \/ /\ calls[follower][s] < MaxCalls
               /\ calls' = [calls EXCEPT ![follower][s] = @ + 1]
        BY <2>3 DEF Command, Send, follower
      <4>2. calls \in [Robots -> [Sessions -> 0 .. MaxCalls]] /\ MaxCalls \in Nat
        BY QueueAssumption DEF IInv, TypeOK
      <4>3. CASE calls' = calls
        BY <4>2, <4>3
      <4>4. CASE /\ calls[follower][s] < MaxCalls
                 /\ calls' = [calls EXCEPT ![follower][s] = @ + 1]
        <5>1. calls[follower] \in [Sessions -> 0 .. MaxCalls]
          BY <3>2, <4>2
        <5>2. [calls[follower] EXCEPT ![s] = @ + 1] \in [Sessions -> 0 .. MaxCalls]
          BY <4>2, <4>4, <5>1
        <5> QED
          BY <3>2, <4>2, <4>4, <5>2
      <4> QED
        BY <4>1, <4>3, <4>4
    <3>7. TypeOK'
      <4>1. late' \in [Sessions -> [Robots -> 0 .. 2]]
        <5>1. late \in [Sessions -> [Robots -> 0 .. 2]]
          BY DEF IInv, TypeOK
        <5>2. [late[s] EXCEPT ![follower] = 1] \in [Robots -> 0 .. 2]
          BY <3>2, <3>3
        <5> QED
          BY <3>5, <5>1, <5>2
      <4>2. lpc' \in [Sessions -> LoopPc]
        BY <3>4 DEF IInv, TypeOK
      <4> QED
        BY <3>4, <3>6, <4>1, <4>2 DEF IInv, TypeOK
    <3>8. LateSound' /\ OneLateVelocity'
      <4> SUFFICES ASSUME NEW z \in Sessions, NEW r \in Robots
                   PROVE  /\ late'[z][r] <= 1
                          /\ late'[z][r] > 0 =>
                               /\ session' # z
                               /\ lpc'[z] \notin {"unborn", "taken"}
                               /\ lpc'[z] = "command" =>
                                    \A i \in turn'[z] .. Len(Queue[z]) : Queue[z][i] # r
                               /\ lpc'[z] = "sent" =>
                                    \A i \in turn'[z] + 1 .. Len(Queue[z]) : Queue[z][i] # r
        BY DEF LateSound, OneLateVelocity
      <4>1. CASE z # s
        BY <4>1, <3>4, <3>5, <3>2 DEF IInv, TypeOK, LateSound, OneLateVelocity
      <4>2. CASE z = s /\ r # follower
        <5>1. late'[s][r] = late[s][r]
          BY <4>2, <3>2, <3>5 DEF IInv, TypeOK
        <5>2. turn[s] \in Nat /\ late[s][r] \in 0 .. 2
          BY DEF IInv, TypeOK
        <5> QED
          BY <4>2, <5>1, <5>2, <3>1, <3>4 DEF IInv, TypeOK, LateSound, OneLateVelocity
      <4>3. CASE z = s /\ r = follower
        <5>1. late'[s][follower] = 0 \/ (late'[s][follower] = 1 /\ session # s)
          <6>1. late \in [Sessions -> [Robots -> 0 .. 2]]
            BY DEF IInv, TypeOK
          <6>2. CASE late' = late
            BY <6>2, <3>3
          <6>3. CASE session # s /\ late' = [late EXCEPT ![s][follower] = 1]
            BY <6>1, <6>3, <3>2
          <6> QED
            BY <6>2, <6>3, <3>5
        <5>2. lpc'[s] = "sent"
          BY <3>4 DEF IInv, TypeOK
        <5> QED
          BY <4>3, <5>1, <5>2, <3>2, <3>4
      <4> QED
        BY <4>1, <4>2, <4>3
    <3> QED
      BY <3>7, <3>8
  <2>4. CASE CallReturns(s)
    <3>1. /\ Len(Queue[s]) \in Nat /\ Len(Queue[s]) > 1 /\ turn[s] \in Nat
          /\ turn[s] \in 2 .. Len(Queue[s])
      BY QueueShape DEF IInv, TypeOK
    <3>2. /\ lpc[s] = "sent"
          /\ UNCHANGED <<session, told, tracked, callers, calls, late>>
          /\ \/ /\ lpc' = [lpc EXCEPT ![s] = "command"]
                /\ turn' = [turn EXCEPT ![s] = @ + 1]
                /\ turn[s] + 1 <= Len(Queue[s])
                /\ fresh' = fresh
             \/ /\ lpc' = [lpc EXCEPT ![s] = "loop"]
                /\ turn' = [turn EXCEPT ![s] = 2]
                /\ fresh' = [fresh EXCEPT ![s] = {}]
      BY <2>4, <3>1 DEF CallReturns, TickEnds, LoopGoto
    <3>3. TypeOK'
      <4>1. /\ turn' \in [Sessions -> Nat]
            /\ \A z \in Sessions : turn'[z] \in 2 .. Len(Queue[z])
        <5>1. turn \in [Sessions -> Nat] /\ \A z \in Sessions : turn[z] \in 2 .. Len(Queue[z])
          BY DEF IInv, TypeOK
        <5>2. /\ turn[s] + 1 \in Nat /\ 2 \in 2 .. Len(Queue[s])
              /\ turn[s] + 1 <= Len(Queue[s]) => turn[s] + 1 \in 2 .. Len(Queue[s])
          BY <3>1
        <5>3. CASE turn' = [turn EXCEPT ![s] = turn[s] + 1] /\ turn[s] + 1 <= Len(Queue[s])
          BY <5>1, <5>2, <5>3
        <5>4. CASE turn' = [turn EXCEPT ![s] = 2]
          BY <5>1, <5>2, <5>4
        <5> QED
          BY <3>2, <5>3, <5>4
      <4>2. lpc' \in [Sessions -> LoopPc] /\ fresh' \in [Sessions -> SUBSET Robots]
        BY <3>2 DEF IInv, TypeOK
      <4> QED
        BY <3>2, <4>1, <4>2 DEF IInv, TypeOK
    <3>4. LateSound' /\ OneLateVelocity'
      <4> SUFFICES ASSUME NEW z \in Sessions, NEW r \in Robots, late[z][r] > 0
                   PROVE  /\ session # z
                          /\ lpc'[z] \notin {"unborn", "taken"}
                          /\ lpc'[z] = "command" =>
                               \A i \in turn'[z] .. Len(Queue[z]) : Queue[z][i] # r
                          /\ lpc'[z] = "sent" =>
                               \A i \in turn'[z] + 1 .. Len(Queue[z]) : Queue[z][i] # r
        BY <3>2 DEF LateSound, OneLateVelocity, IInv
      <4>1. CASE z # s
        BY <4>1, <3>2 DEF IInv, TypeOK, LateSound
      <4>2. CASE z = s
        BY <4>2, <3>1, <3>2 DEF IInv, TypeOK, LateSound
      <4> QED
        BY <4>1, <4>2
    <3> QED
      BY <3>3, <3>4
  <2> QED
    BY <2>1, <2>2, <2>3, <2>4 DEF LoopStep
<1> QED
  BY <1>1, <1>2 DEF IInv

LEMMA Step == IInv /\ [Next]_vars => IInv'
<1> SUFFICES ASSUME IInv, [Next]_vars
             PROVE  IInv'
  OBVIOUS
<1>1. ASSUME NEW s \in Sessions, NEW r \in Robots, Arrive(s, r)
      PROVE  IInv'
  <2>1. UNCHANGED <<service, loops, callers, late>>
    BY <1>1 DEF Arrive
  <2>2. calls' \in [Robots -> [Sessions -> 0 .. MaxCalls]]
    BY <1>1, QueueAssumption DEF IInv, TypeOK, Arrive
  <2>3. TypeOK'
    BY <2>1, <2>2 DEF IInv, TypeOK, service, loops, callers
  <2>4. /\ CallersSound' /\ ToldSound' /\ LateSound' /\ CurrentSessionRuns'
        /\ OneLateVelocity'
    BY <2>1 DEF IInv, CallersSound, ToldSound, LateSound, CurrentSessionRuns,
       OneLateVelocity, service, loops, callers
  <2> QED
    BY <2>3, <2>4 DEF IInv
<1>2. CASE UNCHANGED vars
  BY <1>2 DEF IInv, TypeOK, CallersSound, ToldSound, LateSound, CurrentSessionRuns,
     OneLateVelocity, vars, service, loops, callers, robots
<1> QED
  BY <1>1, <1>2, CallerSteps, LoopSteps DEF Next

THEOREM Invariance == Spec => []IInv
  BY InitIInv, Step, PTL DEF Spec

\* The variables keep their types.
THEOREM TypeCorrect == Spec => []TypeOK
  BY Invariance, PTL DEF IInv

\* The session the service has on record has a running loop and was not told
\* to end, however starts and stops interleave.
THEOREM CurrentRuns == Spec => []CurrentSessionRuns
  BY Invariance, PTL DEF IInv

\* A session that was stopped or replaced sends a robot at most one velocity.
THEOREM LateBounded == Spec => []OneLateVelocity
  BY Invariance, PTL DEF IInv
===============================================================================
