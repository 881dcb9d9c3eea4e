------------------------------ MODULE MqttStatus ------------------------------
(***************************************************************************)
(* The status of the robots that the web API shows on MQTT:                 *)
(* backend/apps/web_api/services/mqtt_service.py and robot_service.py, and  *)
(* the client they share, backend/common/mqtt/client.py.                     *)
(*                                                                          *)
(* A control command comes as a request or as an MQTT message; it is         *)
(* carried out, noted in the cache of statuses, and the robot's status is    *)
(* published as a retained message.  So is every status by the heartbeat.    *)
(* A status is read from the cache before it is published, and the client    *)
(* has a lock of its own: an older status may be published after a newer     *)
(* one.  The network thread of the client connects, and handles messages.    *)
(***************************************************************************)
EXTENDS Naturals, FiniteSets

CONSTANTS Robots,      \* robots the commands name
          Requests,    \* threads that serve requests
          None,        \* no robot, no status
          Offered,     \* the commands that are given
          MaxCommands, \* bound: commands of a behaviour
          MaxOutages   \* bound: times the broker goes out of reach

Threads == Requests \cup {"network", "heartbeat"}
Commands == {"cmd_vel", "stop", "inspect_road", "patrol_start", "patrol_stop", "mode_follow",
             "capture_image"}
\* start_recording and stop_recording do what capture_image does.

Statuses == [online : BOOLEAN, mode : {"idle", "teleop", "patrol", "follow"}]

ASSUME MqttAssumption == /\ Offered \subseteq Commands /\ None \notin Statuses
                         /\ MaxCommands \in Nat /\ MaxOutages \in Nat

VARIABLES
    client,    \* _client: none, one whose connect failed, one whose loop runs
    connected, \* _connected
    held,      \* whether stop() holds the lock of the client
    beating,   \* whether the heartbeat task exists
    cache,     \* _status_cache; None: no entry
    pc, job,   \* where a thread is, the command it carries out
    mode,      \* the mode it read, or the one it will set
    copy,      \* the status it is about to publish
    due,       \* robots the heartbeat has not come to
    \* the broker
    reachable, linked, \* it can be reached, the client's connection stands
    queued,    \* what the client has taken and not sent
    retained,  \* the retained message of each robot
    left, outages

service == <<client, connected, held, beating, cache>>
threads == <<pc, job, mode, copy, due>>
broker == <<reachable, linked, queued, retained, outages>>
vars == <<service, threads, broker, left>>

Status(online, m) == [online |-> online, mode |-> m]
Offline == Status(FALSE, "idle")
Known(r) == IF cache[r] = None THEN Offline ELSE cache[r]
Goto(t, label) == pc' = [pc EXCEPT ![t] = label]

\* A thread is done with a command and forgets it.
Done(t) == /\ Goto(t, IF t = "heartbeat" THEN "each" ELSE "idle")
           /\ job' = [job EXCEPT ![t] = <<None, None>>]
           /\ mode' = [mode EXCEPT ![t] = "idle"]
           /\ copy' = [copy EXCEPT ![t] = None]

----------------------------------------------------------------------------
\* MqttManager.start and MqttService.start_heartbeat.  A connect that fails
\* leaves a client whose loop was never started, and a second start returns.
Start(ok) ==
    /\ client = "none" /\ ~beating /\ ~held
    /\ ok => reachable
    /\ client' = IF ok THEN "looping" ELSE "unstarted"
    /\ linked' = ok
    /\ beating' = TRUE
    /\ Goto("heartbeat", "beat")
    /\ UNCHANGED <<connected, held, cache, job, mode, copy, due, reachable, queued, retained,
                   outages, left>>

\* The network thread: it is not handling a message and the loop runs.
NetworkFree == client = "looping" /\ pc["network"] = "idle"

Reconnect ==
    /\ NetworkFree /\ reachable /\ ~linked /\ ~connected
    /\ linked' = TRUE
    /\ UNCHANGED <<service, threads, reachable, queued, retained, outages, left>>

OnConnect ==
    /\ NetworkFree /\ linked /\ ~connected
    /\ connected' = TRUE
    /\ UNCHANGED <<client, held, beating, cache, threads, broker, left>>

OnDisconnect ==
    /\ NetworkFree /\ ~linked /\ connected
    /\ connected' = FALSE
    /\ UNCHANGED <<client, held, beating, cache, threads, broker, left>>

\* What was taken without a connection is sent once there is one again.
SendQueued(r) ==
    /\ NetworkFree /\ linked /\ queued[r] # None
    /\ retained' = [retained EXCEPT ![r] = queued[r]]
    /\ queued' = [queued EXCEPT ![r] = None]
    /\ UNCHANGED <<service, threads, reachable, linked, outages, left>>

Outage ==
    /\ reachable /\ outages < MaxOutages
    /\ reachable' = FALSE /\ linked' = FALSE
    /\ outages' = outages + 1
    /\ UNCHANGED <<service, threads, queued, retained, left>>

Return ==
    /\ ~reachable
    /\ reachable' = TRUE
    /\ UNCHANGED <<service, threads, linked, queued, retained, outages, left>>

----------------------------------------------------------------------------
\* dispatch_control

\* A command comes: a request, or a message on app/control/<robot>.
Receive(t, r, c) ==
    /\ pc[t] = "idle" /\ t # "heartbeat" /\ left > 0
    /\ t = "network" => client = "looping" /\ linked /\ connected
    /\ left' = left - 1
    /\ job' = [job EXCEPT ![t] = <<r, c>>]
    /\ Goto(t, IF c \in {"cmd_vel", "stop", "inspect_road"} THEN "call" ELSE "mode")
    /\ UNCHANGED <<service, mode, copy, due, broker>>

\* The bridge or the AI service answers, or does not: then nothing is noted.
Call(t, ok) ==
    /\ pc[t] = "call"
    /\ IF ok THEN /\ Goto(t, "update")
                  /\ mode' = [mode EXCEPT ![t] = CASE job[t][2] = "cmd_vel" -> "teleop"
                                                   [] job[t][2] = "stop" -> "idle"
                                                   [] OTHER -> "same"]
                  /\ UNCHANGED <<job, copy>>
             ELSE Done(t)
    /\ UNCHANGED <<service, due, broker, left>>

\* mode_map: the mode that is to stay is read, and written back later.  The
\* reading enters the robot in the cache.
ReadMode(t) ==
    /\ pc[t] = "mode"
    /\ cache' = [cache EXCEPT ![job[t][1]] = Known(job[t][1])]
    /\ mode' = [mode EXCEPT ![t] = CASE job[t][2] = "patrol_start" -> "patrol"
                                     [] job[t][2] = "patrol_stop" -> "idle"
                                     [] job[t][2] = "mode_follow" -> "follow"
                                     [] OTHER -> Known(job[t][1]).mode]
    /\ Goto(t, "update")
    /\ UNCHANGED <<client, connected, held, beating, job, copy, due, broker, left>>

\* A request writes and commits its log before it goes on, and may fail there.
UpdateStatus(t) ==
    /\ pc[t] = "update"
    /\ \E m \in {IF mode[t] = "same" THEN Known(job[t][1]).mode ELSE mode[t]} :
          cache' = [cache EXCEPT ![job[t][1]] = Status(TRUE, m)]
    /\ Goto(t, IF t = "network" THEN "read" ELSE "log")
    /\ mode' = [mode EXCEPT ![t] = "idle"]
    /\ UNCHANGED <<client, connected, held, beating, job, copy, due, broker, left>>

WriteLog(t, ok) ==
    /\ pc[t] = "log"
    /\ IF ok THEN Goto(t, "read") /\ UNCHANGED <<job, mode, copy>> ELSE Done(t)
    /\ UNCHANGED <<service, due, broker, left>>

----------------------------------------------------------------------------
\* publish_robot_status

ReadStatus(t) ==
    /\ pc[t] = "read"
    /\ cache' = [cache EXCEPT ![job[t][1]] = Known(job[t][1])]
    /\ copy' = [copy EXCEPT ![t] = Known(job[t][1])]
    /\ Goto(t, "send")
    /\ UNCHANGED <<client, connected, held, beating, job, mode, due, broker, left>>

\* publish_json waits for the lock, and leaves the message to the client when
\* that is connected as far as it knows.
PublishJson(t) ==
    /\ pc[t] = "send" /\ ~held
    /\ \E r \in {job[t][1]} :
          IF client = "none" \/ ~connected THEN UNCHANGED <<queued, retained>>
          ELSE IF linked THEN /\ retained' = [retained EXCEPT ![r] = copy[t]]
                              /\ UNCHANGED queued
          ELSE /\ queued' = [queued EXCEPT ![r] = copy[t]]
               /\ UNCHANGED retained
    /\ Done(t)
    /\ UNCHANGED <<service, due, reachable, linked, outages, left>>

Beat_MutEndsOffline ==
    /\ pc["heartbeat"] = "beat"
    /\ due' = {r \in Robots : cache[r] # None}
    /\ Goto("heartbeat", IF connected THEN "each" ELSE "idle")
    /\ UNCHANGED <<service, job, mode, copy, broker, left>>

\* _status_heartbeat_loop: an interval is over.
Beat ==
    /\ pc["heartbeat"] = "beat"
    /\ connected
    /\ due' = {r \in Robots : cache[r] # None}
    /\ Goto("heartbeat", "each")
    /\ UNCHANGED <<service, job, mode, copy, broker, left>>

\* publish_all_robot_status: the next robot of the list, or the next sleep.
Each ==
    /\ pc["heartbeat"] = "each"
    /\ IF due = {} THEN Goto("heartbeat", "beat") /\ UNCHANGED <<job, due>>
       ELSE \E r \in due : /\ due' = due \ {r}
                           /\ job' = [job EXCEPT !["heartbeat"] = <<r, "cmd_vel">>]
                           /\ Goto("heartbeat", "read")
    /\ UNCHANGED <<service, mode, copy, broker, left>>

----------------------------------------------------------------------------
\* MqttService.stop runs in the thread of the heartbeat, while that sleeps.
\* The client is stopped under its lock: loop_stop waits for the network
\* thread, which may wait for the lock.
StopHeartbeat ==
    /\ beating /\ pc["heartbeat"] = "beat"
    /\ beating' = FALSE
    /\ held' = TRUE
    /\ Goto("heartbeat", "stopping")
    /\ UNCHANGED <<client, connected, cache, job, mode, copy, due, broker, left>>

LoopStops_MutStaysLinked ==
    /\ pc["heartbeat"] = "stopping"
    /\ client = "looping" => pc["network"] = "idle"
    /\ client' = "none" /\ connected' = FALSE /\ held' = FALSE
    /\ Goto("heartbeat", "stopped")
    /\ UNCHANGED <<beating, cache, job, mode, copy, due, reachable, linked, queued, retained,
                   outages, left>>

LoopStops ==
    /\ pc["heartbeat"] = "stopping"
    /\ client = "looping" => pc["network"] = "idle"
    /\ client' = "none" /\ connected' = FALSE /\ held' = FALSE
    /\ linked' = FALSE /\ queued' = [r \in Robots |-> None]
    /\ Goto("heartbeat", "stopped")
    /\ UNCHANGED <<beating, cache, job, mode, copy, due, reachable, retained, outages, left>>

----------------------------------------------------------------------------
Init ==
    /\ client = "none" /\ connected = FALSE /\ held = FALSE /\ beating = FALSE
    /\ \E default \in Robots \cup {None} :
          cache = [r \in Robots |-> IF r = default THEN Offline ELSE None]
    /\ pc = [t \in Threads |-> "idle"]
    /\ job = [t \in Threads |-> <<None, None>>]
    /\ mode = [t \in Threads |-> "idle"]
    /\ copy = [t \in Threads |-> None] /\ due = {}
    /\ reachable \in BOOLEAN /\ linked = FALSE
    /\ queued = [r \in Robots |-> None] /\ retained = [r \in Robots |-> None]
    /\ left = MaxCommands /\ outages = 0

Work(t) == \/ \E ok \in BOOLEAN : Call(t, ok) \/ WriteLog(t, ok)
           \/ ReadMode(t) \/ UpdateStatus(t) \/ ReadStatus(t) \/ PublishJson(t)

Network == Reconnect \/ OnConnect \/ OnDisconnect \/ \E r \in Robots : SendQueued(r)

Next ==
    \/ \E ok \in BOOLEAN : Start(ok)
    \/ Network \/ Outage \/ Return
    \/ \E t \in Threads, r \in Robots, c \in Offered : Receive(t, r, c)
    \/ \E t \in Threads : Work(t)
    \/ Beat \/ Each \/ StopHeartbeat \/ LoopStops

\* Threads run, and the client's loop keeps trying to connect.
Fairness == /\ \A t \in Threads : WF_vars(Work(t))
            /\ WF_vars(Reconnect) /\ WF_vars(OnConnect) /\ WF_vars(OnDisconnect)
            /\ \A r \in Robots : WF_vars(SendQueued(r))
            /\ WF_vars(Beat) /\ WF_vars(Each) /\ WF_vars(LoopStops)

Spec == Init /\ [][Next]_vars /\ Fairness

----------------------------------------------------------------------------
TypeOK ==
    /\ client \in {"none", "unstarted", "looping"}
    /\ connected \in BOOLEAN /\ held \in BOOLEAN /\ beating \in BOOLEAN
    /\ cache \in [Robots -> Statuses \cup {None}]
    /\ copy \in [Threads -> Statuses \cup {None}]
    /\ queued \in [Robots -> Statuses \cup {None}]
    /\ retained \in [Robots -> Statuses \cup {None}]
    /\ due \subseteq Robots
    /\ reachable \in BOOLEAN /\ linked \in BOOLEAN
    /\ linked => client = "looping"
    /\ left \in 0 .. MaxCommands /\ outages \in 0 .. MaxOutages

\* A status that is read, overtaken and then published leaves an old retained
\* message, and one that is queued in an outage may come after a newer one.
\* The heartbeat repairs both: when the broker stays in reach, the first
\* connect succeeded and the service runs, the retained status of every robot
\* in the cache is in the end the one of the cache, and stays so.
ShownStatusCatchesUp ==
    <>[](reachable /\ client = "looping" /\ beating)
        => \A r \in Robots : <>[](cache[r] # None => retained[r] = cache[r])
============================================================================
