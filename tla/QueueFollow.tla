------------------------------ MODULE QueueFollow ------------------------------
(***************************************************************************)
(* Queue follow: backend/apps/web_api/services/fleet_queue_follow_service.py *)
(* and the calls it makes through fleet_teleop_service.py.                  *)
(*                                                                          *)
(* A session is a queue of robots, a leader and its followers, with a       *)
(* thread that reads the robots' poses every interval and sends each        *)
(* follower a short timed velocity towards the robot in front of it.  The   *)
(* service keeps one session; requests that start or stop one run in        *)
(* threads of their own, and a start first stops what it finds.             *)
(*                                                                          *)
(* A call to a robot's ROS bridge is an HTTP request with a timeout: the    *)
(* caller goes on when it is answered or when it gives up, and a request    *)
(* that was given up may still arrive.  What the robot then does is not     *)
(* modelled: a velocity lasts a second at most and a stop ends it, so of    *)
(* the requests under way only the velocities are kept.  Of poses the model *)
(* keeps whether they are fresh; velocities are not computed.               *)
(***************************************************************************)
EXTENDS Naturals, Sequences

CONSTANTS Robots,
          Sessions,  \* bound: the sessions that can be started
          Queue,     \* the robots of each session, the leader first
          Callers,   \* threads that start and stop sessions
          None,
          MaxCalls   \* bound: velocities of one session under way to one robot

ASSUME QueueAssumption ==
    /\ None \notin Sessions
    /\ Queue \in [Sessions -> Seq(Robots)]
    /\ \A s \in Sessions :
         /\ Len(Queue[s]) > 1
         /\ \A i, j \in 1 .. Len(Queue[s]) : Queue[s][i] = Queue[s][j] => i = j
    /\ MaxCalls \in Nat \ {0}

VARIABLES
    \* the service
    session,   \* _session
    told,      \* the sessions whose stop event is set
    tracked,   \* the robots with a pose in _histories
    \* the loops
    lpc, turn,
    fresh,     \* the followers whose pose the tick found fresh
    \* the callers
    cpc,
    held,      \* the session a caller has taken from the service
    next,      \* the session it is about to start, if any
    \* the robots
    calls,     \* calls[r][s]: velocities of s under way to r
    late       \* history: velocities s sent to r while it was not the current one,
               \* two standing for two or more

service == <<session, told, tracked>>
loops == <<lpc, turn, fresh>>
callers == <<cpc, held, next>>
robots == <<calls, late>>
vars == <<service, loops, callers, robots>>

SessionOrNone == Sessions \cup {None}
Member(s) == {Queue[s][i] : i \in 1 .. Len(Queue[s])}
Follower(s) == {Queue[s][i] : i \in 2 .. Len(Queue[s])}

LoopPc == {"unborn", "taken", "loop", "enter", "tick", "poses", "command", "sent", "dead"}
Running == LoopPc \ {"unborn", "taken", "dead"}

TypeOK ==
    /\ session \in SessionOrNone
    /\ told \subseteq Sessions
    /\ tracked \subseteq Robots
    /\ lpc \in [Sessions -> LoopPc]
    /\ turn \in [Sessions -> Nat]
    /\ \A s \in Sessions : turn[s] \in 2 .. Len(Queue[s])
    /\ fresh \in [Sessions -> SUBSET Robots]
    /\ cpc \in [Callers -> {"idle", "tell", "join", "halt", "register"}]
    /\ held \in [Callers -> SessionOrNone]
    /\ next \in [Callers -> SessionOrNone]
    /\ calls \in [Robots -> [Sessions -> 0 .. MaxCalls]]
    /\ late \in [Sessions -> [Robots -> 0 .. 2]]

Init ==
    /\ session = None /\ told = {} /\ tracked = {}
    /\ lpc = [s \in Sessions |-> "unborn"]
    /\ turn = [s \in Sessions |-> 2]
    /\ fresh = [s \in Sessions |-> {}]
    /\ cpc = [c \in Callers |-> "idle"]
    /\ held = [c \in Callers |-> None]
    /\ next = [c \in Callers |-> None]
    /\ calls = [r \in Robots |-> [s \in Sessions |-> 0]]
    /\ late = [s \in Sessions |-> [r \in Robots |-> 0]]

-------------------------------------------------------------------------------
(* start and stop.                                                         *)

CallerGoto(c, label) == cpc' = [cpc EXCEPT ![c] = label]

Return(c) == /\ CallerGoto(c, "idle")
             /\ held' = [held EXCEPT ![c] = None]
             /\ next' = [next EXCEPT ![c] = None]

\* Once the session it found is dealt with, a stop is done and a start goes on.
Proceed(c) == IF next[c] = None THEN Return(c)
              ELSE CallerGoto(c, "register") /\ UNCHANGED <<held, next>>

TakeSession_MutLeavesIt(c) ==
    /\ held' = [held EXCEPT ![c] = session]
    /\ tracked' = {}
    /\ UNCHANGED <<session, told>>

\* The locked part of stop: it takes the session out of the service.
TakeSession(c) ==
    /\ held' = [held EXCEPT ![c] = session]
    /\ session' = None
    /\ tracked' = {}
    /\ UNCHANGED told

Start(c, s) ==
    /\ cpc[c] = "idle" /\ lpc[s] = "unborn"
    /\ TakeSession(c)
    /\ next' = [next EXCEPT ![c] = s]
    /\ lpc' = [lpc EXCEPT ![s] = "taken"]
    /\ CallerGoto(c, IF session = None THEN "register" ELSE "tell")
    /\ UNCHANGED <<turn, fresh, robots>>

Stop(c) ==
    /\ cpc[c] = "idle"
    /\ TakeSession(c)
    /\ CallerGoto(c, IF session = None THEN "idle" ELSE "tell")
    /\ UNCHANGED <<loops, next, robots>>

SetEvent(c) ==
    /\ cpc[c] = "tell"
    /\ told' = told \cup {held[c]}
    /\ CallerGoto(c, "join")
    /\ UNCHANGED <<session, tracked, loops, held, next, robots>>

\* The thread ended, or a second has passed.  A stop request may ask not to
\* stop the robots (stop_motion), a start always does.
Join(c, halts) ==
    /\ cpc[c] = "join"
    /\ next[c] # None => halts
    /\ IF halts THEN CallerGoto(c, "halt") /\ UNCHANGED <<held, next>> ELSE Return(c)
    /\ UNCHANGED <<service, loops, robots>>

\* stop_ros_bridges: each follower's bridge has answered or was given up.
HaltReturns(c) ==
    /\ cpc[c] = "halt"
    /\ Proceed(c)
    /\ UNCHANGED <<service, loops, robots>>

\* The locked part of start: whatever session is there by now is replaced.
Register(c) ==
    /\ cpc[c] = "register"
    /\ session' = next[c]
    /\ tracked' = {}
    /\ lpc' = [lpc EXCEPT ![next[c]] = "loop"]
    /\ Return(c)
    /\ UNCHANGED <<told, turn, fresh, robots>>

-------------------------------------------------------------------------------
(* The loop of a session.                                                  *)

LoopGoto(s, label) == lpc' = [lpc EXCEPT ![s] = label]

\* The thread waits for the interval or its event.
TickEnds(s) == /\ LoopGoto(s, "loop")
               /\ turn' = [turn EXCEPT ![s] = 2]
               /\ fresh' = [fresh EXCEPT ![s] = {}]

Current_MutAnySession(s) == session # None

\* The comparison with session_id, each time under the lock.
Current(s) == session = s

TestEvent(s) ==
    /\ lpc[s] = "loop"
    /\ LoopGoto(s, IF s \in told THEN "dead" ELSE "enter")
    /\ UNCHANGED <<service, turn, fresh, callers, robots>>

EnterLoop(s) ==
    /\ lpc[s] = "enter"
    /\ LoopGoto(s, IF Current(s) THEN "tick" ELSE "dead")
    /\ UNCHANGED <<service, turn, fresh, callers, robots>>

Tick(s) ==
    /\ lpc[s] = "tick"
    /\ LoopGoto(s, IF Current(s) THEN "poses" ELSE "loop")
    /\ UNCHANGED <<service, turn, fresh, callers, robots>>

\* The poses are read without the lock and recorded under it.
RecordPoses(s, found) ==
    /\ lpc[s] = "poses"
    /\ IF Current(s)
       THEN /\ tracked' = tracked \cup found
            /\ fresh' = [fresh EXCEPT ![s] = found \cap Follower(s)]
            /\ LoopGoto(s, "command")
       ELSE LoopGoto(s, "loop") /\ UNCHANGED <<tracked, fresh>>
    /\ UNCHANGED <<session, told, turn, callers, robots>>

\* A pose whose time cannot be compared with the clock ends the tick.
TickFails(s) ==
    /\ lpc[s] = "poses"
    /\ LoopGoto(s, "loop")
    /\ UNCHANGED <<service, turn, fresh, callers, robots>>

Send(s, r) == /\ calls[r][s] < MaxCalls
              /\ calls' = [calls EXCEPT ![r][s] = @ + 1]

\* The next follower gets a velocity, or a stop when its own pose is not fresh
\* or there is none of the robot in front.  Those are looked up in whatever
\* histories the service has by now, and nothing asks whose turn it is.
Command(s) ==
    LET follower == Queue[s][turn[s]]
        target   == Queue[s][turn[s] - 1]
    IN  /\ lpc[s] = "command"
        /\ IF follower \in fresh[s] /\ target \in tracked
           THEN /\ Send(s, follower)
                /\ late' = IF session = s \/ late[s][follower] = 2 THEN late
                            ELSE [late EXCEPT ![s][follower] = @ + 1]
           ELSE UNCHANGED robots
        /\ LoopGoto(s, "sent")
        /\ UNCHANGED <<service, turn, fresh, callers>>

CallReturns_MutOneMore(s) ==
    /\ lpc[s] = "sent"
    /\ IF turn[s] <= Len(Queue[s])
       THEN /\ turn' = [turn EXCEPT ![s] = @ + 1]
            /\ LoopGoto(s, "command")
            /\ UNCHANGED fresh
       ELSE TickEnds(s)
    /\ UNCHANGED <<service, callers, robots>>

\* The call was answered or given up, and it is the next follower's turn.
CallReturns(s) ==
    /\ lpc[s] = "sent"
    /\ IF turn[s] < Len(Queue[s])
       THEN /\ turn' = [turn EXCEPT ![s] = @ + 1]
            /\ LoopGoto(s, "command")
            /\ UNCHANGED fresh
       ELSE TickEnds(s)
    /\ UNCHANGED <<service, callers, robots>>

-------------------------------------------------------------------------------
(* The robots (external).                                                  *)

\* A velocity arrives at the robot, or is lost, or is turned down there.
Arrive(s, r) ==
    /\ calls[r][s] > 0
    /\ calls' = [calls EXCEPT ![r][s] = @ - 1]
    /\ UNCHANGED <<service, loops, callers, late>>

-------------------------------------------------------------------------------
LoopStep(s) ==
    \/ TestEvent(s) \/ EnterLoop(s) \/ Tick(s) \/ TickFails(s)
    \/ \E found \in SUBSET Member(s) : RecordPoses(s, found)
    \/ Command(s) \/ CallReturns(s)

CallerStep(c) ==
    \/ SetEvent(c) \/ HaltReturns(c) \/ Register(c)
    \/ \E halts \in BOOLEAN : Join(c, halts)

Next ==
    \/ \E s \in Sessions : LoopStep(s)
    \/ \E c \in Callers : \/ Stop(c) \/ CallerStep(c)
                          \/ \E s \in Sessions : Start(c, s)
    \/ \E s \in Sessions, r \in Robots : Arrive(s, r)

Spec == Init /\ [][Next]_vars

\* Threads run, and requests arrive or are lost.
Fairness ==
    /\ \A s \in Sessions : WF_vars(LoopStep(s))
    /\ \A c \in Callers : WF_vars(CallerStep(c))
    /\ \A s \in Sessions, r \in Robots : WF_vars(Arrive(s, r))

FairSpec == Spec /\ Fairness

-------------------------------------------------------------------------------
(* Properties.                                                             *)

\* The session a stop finds in the service has a running loop that was not
\* told to end: taking it and setting its event does stop something.
CurrentSessionRuns ==
    session # None => lpc[session] \in Running /\ session \notin told

\* A session that was stopped or replaced sends each follower at most one more
\* velocity: what is left of the tick it was in (line 178 sends without looking
\* at the session again).
OneLateVelocity == \A s \in Sessions, r \in Robots : late[s][r] <= 1

\* Of a session that was stopped or replaced, also by two starts at once, one of
\* which set its event too late, no velocity is under way from some moment on.
ReplacedSessionFallsSilent ==
    \A s \in Sessions :
        lpc[s] \in Running /\ session # s ~> [](\A r \in Robots : calls[r][s] = 0)
===============================================================================
