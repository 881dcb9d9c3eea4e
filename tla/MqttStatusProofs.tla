---------------------------- MODULE MqttStatusProofs ----------------------------
(***************************************************************************)
(* Proofs about MqttStatus, for any robots, request threads and bounds.     *)
(***************************************************************************)
EXTENDS MqttStatus, TLAPS

Working == {"call", "mode", "update", "log", "read", "send"}
Modes == {"idle", "teleop", "patrol", "follow"}

\* A thread that carries out a command knows the robot it is for.
ThreadsSound ==
    /\ pc \in [Threads -> Working \cup {"idle", "beat", "each", "stopping", "stopped"}]
    /\ job \in [Threads -> (Robots \cup {None}) \X (Commands \cup {None})]
    /\ mode \in [Threads -> Modes \cup {"same"}]
    /\ \A t \in Threads : pc[t] \in Working => job[t][1] \in Robots

\* A client whose loop does not run is not connected, and keeps nothing that
\* it could send later.
ClientSound ==
    client # "looping" => ~connected /\ ~linked /\ \A r \in Robots : queued[r] = None

\* What is shown, or on its way there, is of a robot the cache knows.
OnlyKnownAreShown ==
    /\ \A t \in Threads : pc[t] \in {"log", "read", "send"} => cache[job[t][1]] # None
    /\ \A t \in Threads : pc[t] = "send" => copy[t] # None
    /\ \A r \in due : cache[r] # None
    /\ \A r \in Robots : retained[r] # None \/ queued[r] # None => cache[r] # None

IInv == TypeOK /\ ThreadsSound /\ ClientSound /\ OnlyKnownAreShown

----------------------------------------------------------------------------
LEMMA KnownTypes ==
    ASSUME TypeOK, NEW r \in Robots
    PROVE  Known(r) \in Statuses /\ Known(r) # None /\ Known(r).mode \in Modes
<1>1. Offline \in Statuses
  BY DEF Offline, Status, Statuses
<1>2. Known(r) \in Statuses
  BY <1>1 DEF Known, TypeOK
<1> QED
  BY <1>2, MqttAssumption DEF Statuses, Modes

LEMMA StatusTypes ==
    ASSUME NEW online \in BOOLEAN, NEW m \in Modes
    PROVE  Status(online, m) \in Statuses /\ Status(online, m) # None
<1>1. Status(online, m) \in Statuses
  BY DEF Status, Statuses, Modes
<1> QED
  BY <1>1, MqttAssumption

\* The cache loses no robot when one is entered or changed.
LEMMA CacheGrows ==
    ASSUME IInv, NEW r \in Robots, NEW s \in Statuses, cache' = [cache EXCEPT ![r] = s]
    PROVE  /\ cache' \in [Robots -> Statuses \cup {None}] /\ cache'[r] = s /\ cache'[r] # None
           /\ \A q \in Robots : cache[q] # None => cache'[q] # None
  BY MqttAssumption DEF IInv, TypeOK

\* What a thread that works reads.
LEMMA JobFacts ==
    ASSUME IInv, NEW t \in Threads, pc[t] \in Working
    PROVE  job[t][1] \in Robots /\ Known(job[t][1]) \in Statuses
           /\ Known(job[t][1]) # None /\ Known(job[t][1]).mode \in Modes
<1>1. job[t][1] \in Robots
  BY DEF IInv, ThreadsSound
<1> QED
  BY <1>1, KnownTypes DEF IInv

LEMMA DoneKeeps ==
    ASSUME IInv, NEW t \in Threads, Done(t)
    PROVE  /\ ThreadsSound' /\ copy' \in [Threads -> Statuses \cup {None}]
           /\ \A u \in Threads : pc'[u] \in Working => u # t /\ pc'[u] = pc[u]
           /\ \A u \in Threads : u # t => job'[u] = job[u] /\ copy'[u] = copy[u]
<1>1. /\ pc' = [pc EXCEPT ![t] = IF t = "heartbeat" THEN "each" ELSE "idle"]
      /\ job' = [job EXCEPT ![t] = <<None, None>>]
      /\ mode' = [mode EXCEPT ![t] = "idle"] /\ copy' = [copy EXCEPT ![t] = None]
  BY DEF Done, Goto
<1>2. \A u \in Threads : pc'[u] \in Working => u # t /\ pc'[u] = pc[u]
  BY <1>1 DEF IInv, ThreadsSound, Working
<1>3. \A u \in Threads : u # t => job'[u] = job[u] /\ copy'[u] = copy[u]
  BY <1>1 DEF IInv, ThreadsSound, TypeOK
<1>4. copy' \in [Threads -> Statuses \cup {None}]
  BY <1>1 DEF IInv, TypeOK
<1>5. ThreadsSound'
  <2>1. pc' \in [Threads -> Working \cup {"idle", "beat", "each", "stopping", "stopped"}]
    BY <1>1 DEF IInv, ThreadsSound
  <2>2. job' \in [Threads -> (Robots \cup {None}) \X (Commands \cup {None})]
    BY <1>1 DEF IInv, ThreadsSound
  <2>3. mode' \in [Threads -> Modes \cup {"same"}]
    BY <1>1 DEF IInv, ThreadsSound, Modes
  <2>4. \A u \in Threads : pc'[u] \in Working => job'[u][1] \in Robots
    BY <1>2, <1>3 DEF IInv, ThreadsSound
  <2> QED
    BY <2>1, <2>2, <2>3, <2>4 DEF ThreadsSound
<1> QED
  BY <1>2, <1>3, <1>4, <1>5

----------------------------------------------------------------------------
(* The actions.                                                             *)

LEMMA StartKeeps ==
    ASSUME IInv, NEW ok \in BOOLEAN, Start(ok)
    PROVE  IInv'
<1>1. "heartbeat" \in Threads
  BY DEF Threads
<1>2. TypeOK'
  BY DEF Start, IInv, TypeOK
<1>3. ThreadsSound'
  BY <1>1 DEF Start, Goto, IInv, ThreadsSound, Working
<1>4. ClientSound'
  BY DEF Start, IInv, ClientSound
<1>5. OnlyKnownAreShown'
  BY <1>1 DEF Start, Goto, IInv, ThreadsSound, OnlyKnownAreShown
<1> QED
  BY <1>2, <1>3, <1>4, <1>5 DEF IInv

LEMMA NetworkKeeps ==
    ASSUME IInv, Network \/ Outage \/ Return
    PROVE  IInv'
<1>1. CASE Reconnect
  BY <1>1 DEF Reconnect, NetworkFree, service, threads, IInv, TypeOK, ThreadsSound, ClientSound,
              OnlyKnownAreShown
<1>2. CASE OnConnect
  BY <1>2 DEF OnConnect, NetworkFree, broker, threads, IInv, TypeOK, ThreadsSound, ClientSound,
              OnlyKnownAreShown
<1>3. CASE OnDisconnect
  BY <1>3 DEF OnDisconnect, NetworkFree, broker, threads, IInv, TypeOK, ThreadsSound, ClientSound,
              OnlyKnownAreShown
<1>4. ASSUME NEW r \in Robots, SendQueued(r)
      PROVE  IInv'
  <2>1. TypeOK'
    BY <1>4 DEF SendQueued, service, threads, IInv, TypeOK
  <2>2. ThreadsSound' /\ ClientSound'
    BY <1>4 DEF SendQueued, NetworkFree, service, threads, IInv, ThreadsSound, ClientSound
  <2>3. OnlyKnownAreShown'
    BY <1>4 DEF SendQueued, service, threads, IInv, TypeOK, OnlyKnownAreShown
  <2> QED
    BY <2>1, <2>2, <2>3 DEF IInv
<1>5. CASE Outage
  <2>1. TypeOK'
    <3>1. outages' \in 0 .. MaxOutages
      BY <1>5, MqttAssumption DEF Outage, IInv, TypeOK
    <3>2. reachable' = FALSE /\ linked' = FALSE
      BY <1>5 DEF Outage
    <3> QED
      BY <1>5, <3>1, <3>2 DEF Outage, service, threads, IInv, TypeOK
  <2>2. ThreadsSound' /\ ClientSound' /\ OnlyKnownAreShown'
    BY <1>5 DEF Outage, service, threads, IInv, ThreadsSound, ClientSound, OnlyKnownAreShown
  <2> QED
    BY <2>1, <2>2 DEF IInv
<1>6. CASE Return
  BY <1>6 DEF Return, service, threads, IInv, TypeOK, ThreadsSound, ClientSound, OnlyKnownAreShown
<1> QED
  BY <1>1, <1>2, <1>3, <1>4, <1>5, <1>6 DEF Network

LEMMA ReceiveKeeps ==
    ASSUME IInv, NEW t \in Threads, NEW r \in Robots, NEW c \in Offered, Receive(t, r, c)
    PROVE  IInv'
<1>1. /\ pc[t] = "idle" /\ left > 0 /\ left' = left - 1 /\ job' = [job EXCEPT ![t] = <<r, c>>]
      /\ pc' = [pc EXCEPT ![t] = IF c \in {"cmd_vel", "stop", "inspect_road"} THEN "call" ELSE "mode"]
      /\ UNCHANGED <<service, mode, copy, due, broker>> /\ c \in Commands
  BY MqttAssumption DEF Receive, Goto
<1>2. TypeOK'
  BY <1>1, MqttAssumption DEF service, broker, IInv, TypeOK
<1>3. ThreadsSound'
  <2>1. pc' \in [Threads -> Working \cup {"idle", "beat", "each", "stopping", "stopped"}]
    BY <1>1 DEF IInv, ThreadsSound, Working
  <2>2. /\ job' \in [Threads -> (Robots \cup {None}) \X (Commands \cup {None})]
        /\ \A u \in Threads : job'[u][1] = IF u = t THEN r ELSE job[u][1]
    BY <1>1 DEF IInv, ThreadsSound
  <2>3. \A u \in Threads : u # t => pc'[u] = pc[u]
    BY <1>1 DEF IInv, ThreadsSound
  <2> QED
    BY <1>1, <2>1, <2>2, <2>3 DEF IInv, ThreadsSound
<1>4. ClientSound'
  BY <1>1 DEF service, broker, IInv, ClientSound
<1>5. OnlyKnownAreShown'
  <2>1. /\ pc'[t] \notin {"log", "read", "send"}
        /\ \A u \in Threads : u # t => pc'[u] = pc[u] /\ job'[u] = job[u]
    BY <1>1 DEF IInv, ThreadsSound
  <2> QED
    BY <1>1, <2>1 DEF service, broker, IInv, OnlyKnownAreShown
<1> QED
  BY <1>2, <1>3, <1>4, <1>5 DEF IInv

\* A command that comes to nothing: only its thread has changed.
LEMMA GivenUp ==
    ASSUME IInv, NEW t \in Threads, Done(t), UNCHANGED <<service, due, broker, left>>
    PROVE  IInv'
<1>1. /\ ThreadsSound' /\ copy' \in [Threads -> Statuses \cup {None}]
      /\ \A u \in Threads : pc'[u] \in Working => u # t /\ pc'[u] = pc[u]
      /\ \A u \in Threads : u # t => job'[u] = job[u] /\ copy'[u] = copy[u]
  BY DoneKeeps
<1>2. TypeOK' /\ ClientSound'
  BY <1>1 DEF service, broker, IInv, TypeOK, ClientSound
<1>3. OnlyKnownAreShown'
  BY <1>1 DEF service, broker, IInv, OnlyKnownAreShown, Working
<1> QED
  BY <1>1, <1>2, <1>3 DEF IInv

LEMMA CallKeeps ==
    ASSUME IInv, NEW t \in Threads, NEW ok \in BOOLEAN, Call(t, ok)
    PROVE  IInv'
<1>1. CASE ~ok
  BY <1>1, GivenUp DEF Call
<1>2. CASE ok
  <2>1. PICK m \in Modes \cup {"same"} :
            /\ pc[t] = "call" /\ pc' = [pc EXCEPT ![t] = "update"]
            /\ mode' = [mode EXCEPT ![t] = m]
            /\ UNCHANGED <<service, job, copy, due, broker, left>>
    BY <1>2 DEF Call, Goto, Modes
  <2>2. TypeOK' /\ ClientSound'
    BY <2>1 DEF service, broker, IInv, TypeOK, ClientSound
  <2>3. ThreadsSound'
    <3>1. mode' \in [Threads -> Modes \cup {"same"}]
      BY <2>1 DEF IInv, ThreadsSound
    <3> QED
      BY <2>1, <3>1 DEF IInv, ThreadsSound, Working
  <2>4. OnlyKnownAreShown'
    BY <2>1 DEF service, broker, IInv, ThreadsSound, OnlyKnownAreShown
  <2> QED
    BY <2>2, <2>3, <2>4 DEF IInv
<1> QED
  BY <1>1, <1>2

LEMMA ReadModeKeeps ==
    ASSUME IInv, NEW t \in Threads, ReadMode(t)
    PROVE  IInv'
<1> DEFINE r == job[t][1]
           s == Known(r)
<1>1. r \in Robots /\ s \in Statuses /\ s.mode \in Modes
  BY JobFacts DEF ReadMode, Working
<1>2. PICK m \in Modes : mode' = [mode EXCEPT ![t] = m]
  BY <1>1 DEF ReadMode, Modes
<1>3. /\ pc[t] = "mode" /\ cache' = [cache EXCEPT ![r] = s] /\ pc' = [pc EXCEPT ![t] = "update"]
      /\ UNCHANGED <<client, connected, held, beating, job, copy, due, broker, left>>
  BY DEF ReadMode, Goto
<1> HIDE DEF r, s
<1>4. /\ cache' \in [Robots -> Statuses \cup {None}]
      /\ \A q \in Robots : cache[q] # None => cache'[q] # None
  BY <1>1, <1>3, CacheGrows
<1>5. TypeOK' /\ ClientSound'
  BY <1>3, <1>4 DEF broker, IInv, TypeOK, ClientSound
<1>6. ThreadsSound'
  <2>1. mode' \in [Threads -> Modes \cup {"same"}]
    BY <1>2 DEF IInv, ThreadsSound
  <2> QED
    BY <1>3, <2>1 DEF IInv, ThreadsSound, Working
<1>7. OnlyKnownAreShown'
  BY <1>3, <1>4 DEF broker, IInv, TypeOK, ThreadsSound, OnlyKnownAreShown, Working
<1> QED
  BY <1>5, <1>6, <1>7 DEF IInv

LEMMA UpdateStatusKeeps ==
    ASSUME IInv, NEW t \in Threads, UpdateStatus(t)
    PROVE  IInv'
<1> DEFINE r == job[t][1]
<1>1. r \in Robots /\ Known(r).mode \in Modes /\ mode[t] \in Modes \cup {"same"}
  BY JobFacts DEF UpdateStatus, Working, IInv, ThreadsSound
<1>2. PICK s \in Statuses : cache' = [cache EXCEPT ![r] = s]
  <2>1. PICK m \in {IF mode[t] = "same" THEN Known(r).mode ELSE mode[t]} :
            cache' = [cache EXCEPT ![r] = Status(TRUE, m)]
    BY DEF UpdateStatus
  <2>2. m \in Modes
    BY <1>1, <2>1
  <2> QED
    BY <2>1, <2>2, StatusTypes
<1>3. PICK label \in {"read", "log"} : pc' = [pc EXCEPT ![t] = label]
  BY DEF UpdateStatus, Goto
<1>4. /\ pc[t] = "update" /\ mode' = [mode EXCEPT ![t] = "idle"]
      /\ UNCHANGED <<client, connected, held, beating, job, copy, due, broker, left>>
  BY DEF UpdateStatus
<1> HIDE DEF r
<1>5. /\ cache' \in [Robots -> Statuses \cup {None}] /\ cache'[r] # None
      /\ \A q \in Robots : cache[q] # None => cache'[q] # None
  BY <1>1, <1>2, CacheGrows
<1>6. TypeOK' /\ ClientSound'
  BY <1>4, <1>5 DEF broker, IInv, TypeOK, ClientSound
<1>7. ThreadsSound'
  <2>1. mode' \in [Threads -> Modes \cup {"same"}]
    BY <1>4 DEF IInv, ThreadsSound, Modes
  <2> QED
    BY <1>3, <1>4, <2>1 DEF IInv, ThreadsSound, Working
<1>8. OnlyKnownAreShown'
  BY <1>3, <1>4, <1>5 DEF broker, IInv, TypeOK, ThreadsSound, OnlyKnownAreShown, Working, r
<1> QED
  BY <1>6, <1>7, <1>8 DEF IInv

LEMMA WriteLogKeeps ==
    ASSUME IInv, NEW t \in Threads, NEW ok \in BOOLEAN, WriteLog(t, ok)
    PROVE  IInv'
<1>1. CASE ~ok
  BY <1>1, GivenUp DEF WriteLog
<1>2. CASE ok
  <2>1. /\ pc[t] = "log" /\ pc' = [pc EXCEPT ![t] = "read"]
        /\ UNCHANGED <<service, job, mode, copy, due, broker, left>>
    BY <1>2 DEF WriteLog, Goto
  <2>2. TypeOK' /\ ClientSound'
    BY <2>1 DEF service, broker, IInv, TypeOK, ClientSound
  <2>3. ThreadsSound'
    BY <2>1 DEF IInv, ThreadsSound, Working
  <2>4. OnlyKnownAreShown'
    BY <2>1 DEF service, broker, IInv, ThreadsSound, OnlyKnownAreShown
  <2> QED
    BY <2>2, <2>3, <2>4 DEF IInv
<1> QED
  BY <1>1, <1>2

LEMMA ReadStatusKeeps ==
    ASSUME IInv, NEW t \in Threads, ReadStatus(t)
    PROVE  IInv'
<1> DEFINE r == job[t][1]
           s == Known(r)
<1>1. r \in Robots /\ s \in Statuses /\ s # None
  BY JobFacts DEF ReadStatus, Working
<1>2. /\ pc[t] = "read" /\ cache' = [cache EXCEPT ![r] = s] /\ pc' = [pc EXCEPT ![t] = "send"]
      /\ copy' = [copy EXCEPT ![t] = s]
      /\ UNCHANGED <<client, connected, held, beating, job, mode, due, broker, left>>
  BY DEF ReadStatus, Goto
<1> HIDE DEF r, s
<1>3. /\ cache' \in [Robots -> Statuses \cup {None}] /\ cache'[r] # None
      /\ \A q \in Robots : cache[q] # None => cache'[q] # None
  BY <1>1, <1>2, CacheGrows
<1>4. TypeOK' /\ ClientSound'
  BY <1>1, <1>2, <1>3 DEF broker, IInv, TypeOK, ClientSound
<1>5. ThreadsSound'
  BY <1>2 DEF IInv, ThreadsSound, Working
<1>6. OnlyKnownAreShown'
  <2>1. \A u \in Threads : pc'[u] \in {"log", "read", "send"} => cache'[job'[u][1]] # None
    BY <1>2, <1>3 DEF IInv, ThreadsSound, OnlyKnownAreShown, Working, r
  <2>2. \A u \in Threads : pc'[u] = "send" => copy'[u] # None
    BY <1>1, <1>2 DEF IInv, TypeOK, ThreadsSound, OnlyKnownAreShown
  <2>3. /\ \A q \in due' : cache'[q] # None
        /\ \A q \in Robots : retained'[q] # None \/ queued'[q] # None => cache'[q] # None
    BY <1>2, <1>3 DEF broker, IInv, TypeOK, OnlyKnownAreShown
  <2> QED
    BY <2>1, <2>2, <2>3 DEF OnlyKnownAreShown
<1> QED
  BY <1>4, <1>5, <1>6 DEF IInv

\* What is left to a client whose loop runs is the status of a known robot.
LEMMA PublishJsonKeeps ==
    ASSUME IInv, NEW t \in Threads, PublishJson(t)
    PROVE  IInv'
<1> DEFINE r == job[t][1]
           s == copy[t]
<1>1. /\ r \in Robots /\ cache[r] # None /\ s \in Statuses \cup {None} /\ pc[t] = "send"
  BY JobFacts DEF PublishJson, Working, IInv, TypeOK, OnlyKnownAreShown
<1>2. /\ Done(t) /\ UNCHANGED <<service, due, reachable, linked, outages, left>>
      /\ \/ UNCHANGED <<queued, retained>>
         \/ linked /\ connected /\ retained' = [retained EXCEPT ![r] = s] /\ UNCHANGED queued
         \/ connected /\ queued' = [queued EXCEPT ![r] = s] /\ UNCHANGED retained
  BY DEF PublishJson
<1> HIDE DEF r, s
<1>3. /\ ThreadsSound' /\ copy' \in [Threads -> Statuses \cup {None}]
      /\ \A u \in Threads : pc'[u] \in Working => u # t /\ pc'[u] = pc[u]
      /\ \A u \in Threads : u # t => job'[u] = job[u] /\ copy'[u] = copy[u]
  BY <1>2, DoneKeeps
<1>4. /\ queued' \in [Robots -> Statuses \cup {None}]
      /\ retained' \in [Robots -> Statuses \cup {None}]
      /\ \A q \in Robots : retained'[q] # None \/ queued'[q] # None => cache[q] # None
  BY <1>1, <1>2 DEF IInv, TypeOK, OnlyKnownAreShown
<1>5. TypeOK'
  BY <1>2, <1>3, <1>4 DEF service, IInv, TypeOK
<1>6. ClientSound'
  BY <1>2 DEF service, IInv, ClientSound
<1>7. OnlyKnownAreShown'
  BY <1>2, <1>3, <1>4 DEF service, IInv, OnlyKnownAreShown, Working
<1> QED
  BY <1>3, <1>5, <1>6, <1>7 DEF IInv

LEMMA HeartbeatKeeps ==
    ASSUME IInv, Beat \/ Each
    PROVE  IInv'
<1>0. "heartbeat" \in Threads
  BY DEF Threads
<1>1. CASE Beat
  <2>1. TypeOK' /\ ClientSound'
    BY <1>1 DEF Beat, service, broker, IInv, TypeOK, ClientSound
  <2>2. ThreadsSound'
    BY <1>0, <1>1 DEF Beat, Goto, IInv, ThreadsSound, Working
  <2>3. OnlyKnownAreShown'
    BY <1>0, <1>1 DEF Beat, Goto, service, broker, IInv, ThreadsSound, OnlyKnownAreShown
  <2> QED
    BY <2>1, <2>2, <2>3 DEF IInv
<1>2. CASE Each /\ due = {}
  <2>1. TypeOK' /\ ClientSound'
    BY <1>2 DEF Each, service, broker, IInv, TypeOK, ClientSound
  <2>2. ThreadsSound'
    BY <1>0, <1>2 DEF Each, Goto, IInv, ThreadsSound, Working
  <2>3. OnlyKnownAreShown'
    BY <1>0, <1>2 DEF Each, Goto, service, broker, IInv, ThreadsSound, OnlyKnownAreShown
  <2> QED
    BY <2>1, <2>2, <2>3 DEF IInv
<1>3. CASE Each /\ due # {}
  <2>1. PICK r \in due : /\ due' = due \ {r}
                         /\ job' = [job EXCEPT !["heartbeat"] = <<r, "cmd_vel">>]
                         /\ pc' = [pc EXCEPT !["heartbeat"] = "read"]
    BY <1>3 DEF Each, Goto
  <2>2. UNCHANGED <<service, mode, copy, broker, left>> /\ r \in Robots /\ cache[r] # None
    BY <1>3 DEF Each, IInv, TypeOK, OnlyKnownAreShown
  <2>3. TypeOK' /\ ClientSound'
    BY <2>1, <2>2 DEF service, broker, IInv, TypeOK, ClientSound
  <2>4. ThreadsSound'
    <3>1. pc' \in [Threads -> Working \cup {"idle", "beat", "each", "stopping", "stopped"}]
      BY <2>1 DEF IInv, ThreadsSound, Working
    <3>2. /\ job' \in [Threads -> (Robots \cup {None}) \X (Commands \cup {None})]
          /\ job'["heartbeat"][1] = r
      BY <1>0, <2>1, <2>2 DEF IInv, ThreadsSound, Commands
    <3>3. \A u \in Threads : u # "heartbeat" => pc'[u] = pc[u] /\ job'[u] = job[u]
      BY <2>1 DEF IInv, ThreadsSound
    <3> QED
      BY <2>2, <3>1, <3>2, <3>3 DEF IInv, ThreadsSound
  <2>5. OnlyKnownAreShown'
    BY <1>0, <2>1, <2>2 DEF service, broker, IInv, ThreadsSound, OnlyKnownAreShown
  <2> QED
    BY <2>3, <2>4, <2>5 DEF IInv
<1> QED
  BY <1>1, <1>2, <1>3

LEMMA StopKeeps ==
    ASSUME IInv, StopHeartbeat \/ LoopStops
    PROVE  IInv'
<1>0. "heartbeat" \in Threads
  BY DEF Threads
<1>1. CASE StopHeartbeat
  <2>1. TypeOK' /\ ClientSound'
    BY <1>1 DEF StopHeartbeat, broker, IInv, TypeOK, ClientSound
  <2>2. ThreadsSound'
    BY <1>0, <1>1 DEF StopHeartbeat, Goto, IInv, ThreadsSound, Working
  <2>3. OnlyKnownAreShown'
    BY <1>0, <1>1 DEF StopHeartbeat, Goto, broker, IInv, ThreadsSound, OnlyKnownAreShown
  <2> QED
    BY <2>1, <2>2, <2>3 DEF IInv
<1>2. CASE LoopStops
  <2>1. TypeOK' /\ ClientSound'
    BY <1>2 DEF LoopStops, IInv, TypeOK, ClientSound
  <2>2. ThreadsSound'
    BY <1>0, <1>2 DEF LoopStops, Goto, IInv, ThreadsSound, Working
  <2>3. OnlyKnownAreShown'
    BY <1>0, <1>2 DEF LoopStops, Goto, IInv, ThreadsSound, OnlyKnownAreShown
  <2> QED
    BY <2>1, <2>2, <2>3 DEF IInv
<1> QED
  BY <1>1, <1>2

LEMMA InitKeeps == Init => IInv
<1> SUFFICES ASSUME Init
             PROVE  IInv
  OBVIOUS
<1>1. Offline \in Statuses
  BY DEF Offline, Status, Statuses
<1>2. cache \in [Robots -> Statuses \cup {None}]
  BY <1>1 DEF Init
<1>3. TypeOK
  <2>1. left \in 0 .. MaxCommands /\ outages \in 0 .. MaxOutages
    BY MqttAssumption DEF Init
  <2>2. /\ client \in {"none", "unstarted", "looping"}
        /\ connected \in BOOLEAN /\ held \in BOOLEAN /\ beating \in BOOLEAN
        /\ reachable \in BOOLEAN /\ linked \in BOOLEAN /\ (linked => client = "looping")
    BY DEF Init
  <2>3. /\ copy \in [Threads -> Statuses \cup {None}] /\ queued \in [Robots -> Statuses \cup {None}]
        /\ retained \in [Robots -> Statuses \cup {None}] /\ due \subseteq Robots
    BY DEF Init
  <2> QED
    BY <1>2, <2>1, <2>2, <2>3 DEF TypeOK
<1>4. ThreadsSound
  BY DEF Init, ThreadsSound, Modes, Working
<1>5. ClientSound /\ OnlyKnownAreShown
  BY DEF Init, ClientSound, OnlyKnownAreShown
<1> QED
  BY <1>3, <1>4, <1>5 DEF IInv

LEMMA StepKeeps == IInv /\ [Next]_vars => IInv'
<1> SUFFICES ASSUME IInv, [Next]_vars
             PROVE  IInv'
  OBVIOUS
<1>1. ASSUME NEW ok \in BOOLEAN, Start(ok)
      PROVE  IInv'
  BY <1>1, StartKeeps
<1>2. CASE Network \/ Outage \/ Return
  BY <1>2, NetworkKeeps
<1>3. ASSUME NEW t \in Threads, NEW r \in Robots, NEW c \in Offered, Receive(t, r, c)
      PROVE  IInv'
  BY <1>3, ReceiveKeeps
<1>4. ASSUME NEW t \in Threads, Work(t)
      PROVE  IInv'
  BY <1>4, CallKeeps, WriteLogKeeps, ReadModeKeeps, UpdateStatusKeeps, ReadStatusKeeps,
     PublishJsonKeeps DEF Work
<1>5. CASE Beat \/ Each
  BY <1>5, HeartbeatKeeps
<1>6. CASE StopHeartbeat \/ LoopStops
  BY <1>6, StopKeeps
<1>7. CASE UNCHANGED vars
  BY <1>7 DEF vars, service, threads, broker, IInv, TypeOK, ThreadsSound, ClientSound,
              OnlyKnownAreShown
<1> QED
  BY <1>1, <1>2, <1>3, <1>4, <1>5, <1>6, <1>7 DEF Next

----------------------------------------------------------------------------
(* The theorems.                                                            *)

\* The inductive invariant.
THEOREM Invariance == Spec => []IInv
  BY InitKeeps, StepKeeps, PTL DEF Spec

\* The statuses of the cache, of the threads, of the client's queue and of the
\* broker stay statuses, and only a client whose loop runs is linked.
THEOREM TypeCorrect == Spec => []TypeOK
<1>1. IInv => TypeOK
  BY DEF IInv
<1> QED
  BY <1>1, Invariance, PTL

\* The broker shows no robot that the service does not know, not even when the
\* status was queued through an outage (publish_robot_status, publish_json).
ShownIsKnown == \A r \in Robots : retained[r] # None => cache[r] # None

THEOREM KnownIsShown == Spec => []ShownIsKnown
<1>1. IInv => ShownIsKnown
  BY DEF IInv, OnlyKnownAreShown, ShownIsKnown
<1> QED
  BY <1>1, Invariance, PTL

\* A client whose first connect failed has no loop, and a second start returns
\* at once: until the service is stopped and started again it shows nothing,
\* whatever the broker does.  Nor does a client that was stopped
\* (MqttManager.start, stop).
OnlyTheLoopShows == [][client # "looping" => UNCHANGED retained]_vars

THEOREM NoLoopShowsNothing == Spec => OnlyTheLoopShows
<1>1. ASSUME IInv, [Next]_vars, client # "looping"
      PROVE  UNCHANGED retained
  <2>0. ~connected
    BY <1>1 DEF IInv, ClientSound
  <2>1. CASE \E ok \in BOOLEAN : Start(ok)
    BY <2>1 DEF Start
  <2>2. CASE Network \/ Outage \/ Return
    BY <1>1, <2>2 DEF Network, Reconnect, OnConnect, OnDisconnect, SendQueued, NetworkFree, Outage,
                      Return
  <2>3. ASSUME NEW t \in Threads, NEW r \in Robots, NEW c \in Offered, Receive(t, r, c)
        PROVE  UNCHANGED retained
    BY <2>3 DEF Receive, broker
  <2>4. ASSUME NEW t \in Threads, Work(t)
        PROVE  UNCHANGED retained
    BY <2>0, <2>4 DEF Work, Call, WriteLog, ReadMode, UpdateStatus, ReadStatus, PublishJson, broker
  <2>5. CASE Beat \/ Each \/ StopHeartbeat \/ LoopStops \/ UNCHANGED vars
    BY <2>5 DEF Beat, Each, StopHeartbeat, LoopStops, vars, broker
  <2> QED
    BY <1>1, <2>1, <2>2, <2>3, <2>4, <2>5 DEF Next
<1>2. IInv /\ [Next]_vars => [client # "looping" => UNCHANGED retained]_vars
  BY <1>1
<1> QED
  BY <1>2, Invariance, PTL DEF Spec, OnlyTheLoopShows

\* A robot that a command was carried out for is online in the cache from then
\* on: nothing in the service ever takes it for offline (update_status).
OnlineForEver ==
    [][\A r \in Robots : cache[r] # None /\ cache[r].online => cache'[r] # None /\ cache'[r].online]_vars

LEMMA OnlineKept ==
    ASSUME IInv, [Next]_vars, NEW r \in Robots, cache[r] # None, cache[r].online
    PROVE  cache'[r] # None /\ cache'[r].online
<1>0. cache \in [Robots -> Statuses \cup {None}]
  BY DEF IInv, TypeOK
<1>1. CASE UNCHANGED cache
  BY <1>1
<1>2. ASSUME NEW t \in Threads, ReadMode(t) \/ ReadStatus(t)
      PROVE  cache'[r] # None /\ cache'[r].online
  <2>1. PICK q : cache' = [cache EXCEPT ![q] = Known(q)]
    BY <1>2 DEF ReadMode, ReadStatus
  <2>2. cache'[r] = cache[r]
    BY <1>0, <2>1 DEF Known
  <2> QED
    BY <2>2
<1>3. ASSUME NEW t \in Threads, UpdateStatus(t)
      PROVE  cache'[r] # None /\ cache'[r].online
  <2> DEFINE q == job[t][1]
  <2>1. PICK m \in Modes : cache' = [cache EXCEPT ![q] = Status(TRUE, m)]
    <3>1. q \in Robots /\ Known(q).mode \in Modes /\ mode[t] \in Modes \cup {"same"}
      BY <1>3, JobFacts DEF UpdateStatus, Working, IInv, ThreadsSound
    <3> QED
      BY <1>3, <3>1 DEF UpdateStatus
  <2>2. Status(TRUE, m).online /\ Status(TRUE, m) # None
    BY StatusTypes DEF Status
  <2> HIDE DEF q
  <2> QED
    BY <1>0, <2>1, <2>2
<1>4. \/ UNCHANGED cache
      \/ \E t \in Threads : ReadMode(t) \/ ReadStatus(t) \/ UpdateStatus(t)
  <2>1. CASE \E ok \in BOOLEAN : Start(ok)
    BY <2>1 DEF Start
  <2>2. CASE Network \/ Outage \/ Return
    BY <2>2 DEF Network, Reconnect, OnConnect, OnDisconnect, SendQueued, Outage, Return, service
  <2>3. ASSUME NEW t \in Threads, NEW q \in Robots, NEW c \in Offered, Receive(t, q, c)
        PROVE  UNCHANGED cache
    BY <2>3 DEF Receive, service
  <2>4. ASSUME NEW t \in Threads, PublishJson(t) \/ \E ok \in BOOLEAN : Call(t, ok) \/ WriteLog(t, ok)
        PROVE  UNCHANGED cache
    BY <2>4 DEF PublishJson, Call, WriteLog, service
  <2>5. CASE Beat \/ Each \/ StopHeartbeat \/ LoopStops \/ UNCHANGED vars
    BY <2>5 DEF Beat, Each, StopHeartbeat, LoopStops, vars, service
  <2> QED
    BY <2>1, <2>2, <2>3, <2>4, <2>5 DEF Next, Work
<1> QED
  BY <1>1, <1>2, <1>3, <1>4

THEOREM OnlineStays == Spec => OnlineForEver
<1>1. IInv /\ [Next]_vars =>
          [\A r \in Robots : cache[r] # None /\ cache[r].online
                                => cache'[r] # None /\ cache'[r].online]_vars
  BY OnlineKept
<1> QED
  BY <1>1, Invariance, PTL DEF Spec, OnlineForEver

\* stop() holds the lock of the client and waits for the network thread, which
\* waits for the lock to publish the status of a robot it had a message for.
\* The loop of the web API is in stop(): the heartbeat does not go on either.
Stuck == held /\ client = "looping" /\ pc["network"] = "send" /\ pc["heartbeat"] = "stopping"

\* Nothing ever ends that: the service does not stop, and no status reaches the
\* broker any more.
StopDeadlocks == [][Stuck => Stuck' /\ UNCHANGED retained]_vars

LEMMA StuckForGood ==
    ASSUME IInv, [Next]_vars, Stuck
    PROVE  Stuck' /\ UNCHANGED retained
<1>0. /\ pc["network"] = "send" /\ pc["heartbeat"] = "stopping" /\ held /\ client = "looping"
      /\ "network" \in Threads /\ "heartbeat" \in Threads
      /\ \A t \in Threads : \A label : t # "network" /\ t # "heartbeat" =>
             [pc EXCEPT ![t] = label]["network"] = pc["network"]
             /\ [pc EXCEPT ![t] = label]["heartbeat"] = pc["heartbeat"]
  BY DEF Stuck, Threads, IInv, ThreadsSound
<1>1. CASE \E ok \in BOOLEAN : Start(ok)
  BY <1>0, <1>1 DEF Start
<1>2. CASE Network
  BY <1>0, <1>2 DEF Network, NetworkFree, Reconnect, OnConnect, OnDisconnect, SendQueued
<1>3. CASE Outage \/ Return
  BY <1>3 DEF Outage, Return, service, threads, Stuck
<1>4. ASSUME NEW t \in Threads, NEW r \in Robots, NEW c \in Offered, Receive(t, r, c)
      PROVE  Stuck' /\ UNCHANGED retained
  <2>1. t # "network" /\ t # "heartbeat"
    BY <1>0, <1>4 DEF Receive
  <2>2. \E label : pc' = [pc EXCEPT ![t] = label]
    BY <1>4 DEF Receive, Goto
  <2> QED
    BY <1>0, <1>4, <2>1, <2>2 DEF Receive, service, broker, Stuck
<1>5. ASSUME NEW t \in Threads, Work(t)
      PROVE  Stuck' /\ UNCHANGED retained
  <2>1. ~PublishJson(t) /\ t # "network" /\ t # "heartbeat"
    BY <1>0, <1>5 DEF Work, Call, WriteLog, ReadMode, UpdateStatus, ReadStatus, PublishJson
  <2>2. \E label : pc' = [pc EXCEPT ![t] = label]
    BY <1>5, <2>1 DEF Work, Call, WriteLog, ReadMode, UpdateStatus, ReadStatus, Goto, Done
  <2>3. held' = held /\ client' = client /\ retained' = retained
    BY <1>5, <2>1 DEF Work, Call, WriteLog, ReadMode, UpdateStatus, ReadStatus, service, broker
  <2> QED
    BY <1>0, <2>1, <2>2, <2>3 DEF Stuck
<1>6. CASE Beat \/ Each \/ StopHeartbeat \/ LoopStops
  BY <1>0, <1>6 DEF Beat, Each, StopHeartbeat, LoopStops
<1>7. CASE UNCHANGED vars
  BY <1>7 DEF vars, service, threads, broker, Stuck
<1> QED
  BY <1>1, <1>2, <1>3, <1>4, <1>5, <1>6, <1>7 DEF Next

THEOREM StopAndMessageBlock == Spec => StopDeadlocks
<1>1. IInv /\ [Next]_vars => [Stuck => Stuck' /\ UNCHANGED retained]_vars
  BY StuckForGood
<1> QED
  BY <1>1, Invariance, PTL DEF Spec, StopDeadlocks
===============================================================================
