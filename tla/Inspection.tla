------------------------------ MODULE Inspection ------------------------------
(***************************************************************************)
(* Road inspection: the monitor that inspects a camera again and again       *)
(* (inspection_monitor_service.py), the alarms it records                    *)
(* (inspection_alarm_service.py), its calls of the AI service                 *)
(* (inspection_service.py) and that service's pipeline of detectors           *)
(* (ai_service/pipelines/inspection.py).                                      *)
(*                                                                            *)
(* An inspection is a thread.  Stopping the monitor cancels the task that     *)
(* awaits the thread, never the thread; the next start has a second one run   *)
(* beside it, and so has a request for one inspection.  The threads share     *)
(* the detectors of the AI service and the table of alarms, without a lock.   *)
(* What is only reported (counters, times, the last error) is left out.       *)
(***************************************************************************)
EXTENDS Naturals, Sequences, FiniteSets
LOCAL INSTANCE SequencesExt

CONSTANTS MaxInspections, \* bound: the inspections of a behaviour
          Loops,         \* bound: the tasks the monitor can make
          None,          \* no task, no request, no owner
          Requests,      \* requests to the monitor: [camera, models]
          Configured,    \* the one that the settings make
          ResultRequests, \* requests for the result of an inspection alone
          Finds(_),      \* what a model may find on a picture: sets of
                         \* [risk, sure, copy], where copy tells two boxes of one
                         \* kind in one cell of the grid apart
          Cases          \* pairs of settings [download, upload, deleteAfter, sameHost]
                         \* and bounds [minutes, crashes]: the minutes that pass and
                         \* the crashes of the web API

Inspections == 1 .. MaxInspections

ASSUME InspectionAssumption ==
    /\ MaxInspections \in Nat /\ None \notin Loops
    /\ Configured \in Requests
    /\ \A c \in Cases : c[2] \in [minutes : Nat, crashes : Nat]

VARIABLES
    setup, left, \* the settings, and what is left of the bounds
    task,     \* the monitor's _task
    config,   \* its _config
    loop,     \* where each task of the monitor is
    pc, by, request, \* an inspection: where it is, whose it is, what was asked
    todo,     \* the models it has not run yet
    held,     \* the detector it is about to run
    found,    \* what was detected
    minute,   \* the minute of detected_at
    path,     \* what image_path names: the robot's file or the downloaded one
    url,      \* whether image_url is set
    fresh,    \* risks it will record or has recorded, those it has published
    published,
    \* the AI service, the files, the database, the clock
    detectors, unloaded, \* _detectors, the detectors that lost their model
    loads,    \* the detectors made so far: the n-th one is called n
    files,    \* where the picture of an inspection is kept
    rows,     \* alarm_logs
    now,
    together  \* history: pairs that stood between the check for duplicates and
              \* the commit at the same time

monitor == <<task, config, loop>>
results == <<found, minute, path, url, fresh, published>>
ai == <<todo, held, detectors, unloaded, loads>>
world == <<setup, left, now>>
vars == <<setup, left, task, config, loop, pc, by, request, todo, held, found, minute, path, url,
          fresh, published, detectors, unloaded, loads, files, rows, now, together>>

Ended == {"done", "failed"}
InService == {"capture", "get", "load", "run"}
InMonitor == {"discard", "upload", "download", "check", "commit", "publish", "mark", "delete"}

NoDetector == 0

Goto(i, label) == pc' = [pc EXCEPT ![i] = label]

----------------------------------------------------------------------------
\* The models of a request: every model of the road is the unified one.
RoadAliases == {"unified", "road", "road_inspection", "crack", "puddle", "fod"}
Supported == {"unified", "crack", "puddle", "fod", "plate"}

NormalizeModels(models) ==
    LET Add(list, m) == IF m \in RoadAliases \/ Contains(list, m) THEN list ELSE Append(list, m)
        others == FoldLeft(Add, <<>>, models)
        all == IF \E m \in RoadAliases : Contains(models, m) THEN <<"unified">> \o others
                                                             ELSE others
    IN  IF all = <<>> THEN <<"unified">> ELSE all

----------------------------------------------------------------------------
\* InspectionMonitorService.
Free == {i \in Inspections : pc[i] = "new"}

\* An inspection begins: a thread posts its request to the AI service.
Begin(owner, req) ==
    \E i \in Free :
        /\ \A j \in Free : i <= j
        /\ Goto(i, "capture")
        /\ by' = [by EXCEPT ![i] = owner]
        /\ request' = [request EXCEPT ![i] = req]

\* start.  A monitor that runs takes over the request; else a new task is made.
Start(req) ==
    /\ Free # {} \* bound: there is an inspection left for it
    /\ config' = req
    /\ IF task # None /\ loop[task] # "dead"
       THEN UNCHANGED <<task, loop>>
       ELSE \E l \in Loops : /\ loop[l] = "unborn"
                             /\ task' = l
                             /\ loop' = [loop EXCEPT ![l] = "ready"]
    /\ UNCHANGED <<world, pc, by, request, results, ai, files, rows, together>>

\* stop.  The task is cancelled at whatever it awaits; the thread goes on.
Stop ==
    /\ Free # {} \* bound: as Start
    /\ task # None
    /\ loop' = [loop EXCEPT ![task] = "dead"]
    /\ task' = None
    /\ UNCHANGED <<world, config, pc, by, request, results, ai, files, rows, together>>

\* _run_loop: inspect with the configuration of this moment, wait, sleep.
LoopInspects(l) ==
    /\ loop[l] = "ready"
    /\ Begin(l, config)
    /\ loop' = [loop EXCEPT ![l] = "waiting"]
    /\ UNCHANGED <<world, task, config, results, ai, files, rows, together>>

LoopSleeps(l) ==
    /\ loop[l] = "waiting"
    /\ \A i \in Inspections : by[i] = l => pc[i] \in Ended
    /\ loop' = [loop EXCEPT ![l] = "ready"]
    /\ UNCHANGED <<world, task, config, pc, by, request, results, ai, files, rows, together>>

\* The requests inspect-once, and detect-ros-image, which only wants the result.
InspectOnce(owner, req) ==
    /\ Begin(owner, req)
    /\ UNCHANGED <<world, monitor, results, ai, files, rows, together>>

----------------------------------------------------------------------------
\* The AI service: InspectionPipeline.inspect_ros_topic and _run_detection.
\* No frame in time, or a file that cannot be written, is an error 400.
Capture(i, ok) ==
    /\ pc[i] = "capture"
    /\ files' = IF ok THEN [files EXCEPT ![i] = {"robot"}] ELSE files
    /\ todo' = [todo EXCEPT ![i] = IF ok THEN NormalizeModels(request[i].models) ELSE <<>>]
    /\ Goto(i, IF ok THEN "get" ELSE "failed")
    /\ UNCHANGED <<world, monitor, by, request, results, held, detectors, unloaded, loads, rows,
                   together>>

\* A model that fails, for whatever reason, is one that found nothing.
NextModel(i) == /\ todo' = [todo EXCEPT ![i] = Tail(@)]
                /\ held' = [held EXCEPT ![i] = NoDetector]
                /\ Goto(i, "get")

\* _switch_mode and release_model.
Others(keep) == {detectors[m] : m \in Supported \ {keep}} \ {NoDetector}

SwitchMode_MutKeepsEntries(keep) ==
    /\ unloaded' = unloaded \cup Others(keep)
    /\ UNCHANGED detectors

SwitchMode(keep) ==
    /\ unloaded' = unloaded \cup Others(keep)
    /\ detectors' = [m \in Supported |-> IF m = keep THEN detectors[m] ELSE NoDetector]

\* _get_detector.  One that is not there unloads every other, also one that
\* another thread is about to run.
GetDetector(i) ==
    /\ pc[i] = "get" /\ todo[i] # <<>>
    /\ LET m == Head(todo[i])
       IN  \/ /\ m \in Supported /\ detectors[m] # NoDetector
              /\ held' = [held EXCEPT ![i] = detectors[m]]
              /\ Goto(i, "run")
              /\ UNCHANGED <<todo, detectors, unloaded>>
           \/ /\ m \in Supported /\ detectors[m] = NoDetector
              /\ SwitchMode(m)
              /\ Goto(i, "load")
              /\ UNCHANGED <<todo, held>>
           \/ /\ m \notin Supported
              /\ NextModel(i)
              /\ UNCHANGED <<detectors, unloaded>>
    /\ UNCHANGED <<world, monitor, by, request, results, loads, files, rows, together>>

\* Loading takes long, and nothing is looked at again before it is registered.
Load(i, ok) ==
    /\ pc[i] = "load"
    /\ IF ok THEN /\ loads' = loads + 1
                  /\ detectors' = [detectors EXCEPT ![Head(todo[i])] = loads']
                  /\ held' = [held EXCEPT ![i] = loads']
                  /\ Goto(i, "run")
                  /\ UNCHANGED todo
             ELSE NextModel(i) /\ UNCHANGED <<detectors, loads>>
    /\ UNCHANGED <<world, monitor, by, request, results, unloaded, files, rows, together>>

Detect(i, what) ==
    /\ pc[i] = "run"
    /\ held[i] \in unloaded => what = {}
    /\ found' = [found EXCEPT ![i] = @ \cup what]
    /\ NextModel(i)
    /\ UNCHANGED <<world, monitor, by, request, minute, path, url, fresh, published, detectors,
                   unloaded, loads, files, rows, together>>

\* The answer of the service; it may be lost, with the thread's connection.  A
\* request for the result alone ends here, and the monitor looks at has_risk.
Answer(i, ok) ==
    /\ pc[i] = "get" /\ todo[i] = <<>>
    /\ minute' = [minute EXCEPT ![i] = now]
    /\ Goto(i, IF ~ok THEN "failed" ELSE IF by[i] = "detect" THEN "done"
               ELSE IF found[i] # {} THEN "upload" ELSE "discard")
    /\ UNCHANGED <<world, monitor, by, request, found, path, url, fresh, published, ai, files,
                   rows, together>>

----------------------------------------------------------------------------
\* InspectionMonitorService._inspect_once_sync, with the result at hand.
Without(i, places) == files' = [files EXCEPT ![i] = @ \ places]

\* What remove_frame unlinks: image_path, as a path of the web API's own host.
Unlinked(i) == IF path[i] = "local" THEN {"local"}
               ELSE IF setup.sameHost THEN {"robot"} ELSE {}

Deleted_MutAlways(force, ok) == IF ok THEN {"robot"} ELSE {}

\* _delete_remote_frame: a request that may fail, and then nobody notices.
Deleted(force, ok) == IF (force \/ setup.download) /\ ok THEN {"robot"} ELSE {}

Discard(i, ok) ==
    /\ pc[i] = "discard"
    /\ Without(i, Deleted(FALSE, ok) \cup Unlinked(i))
    /\ Goto(i, "done")
    /\ UNCHANGED <<world, monitor, by, request, results, ai, rows, together>>

\* How a transfer ends: done; not, which is passed over; or with an exception
\* that nothing catches before the thread's end.
Transfers == {"done", "not", "raised"}

\* _upload_risk_frame: fetch the file from the AI service, post it to the cloud.
\* The cloud may have it and answer with what is no JSON.
Upload(i, how) ==
    /\ pc[i] = "upload"
    /\ how # "not" => setup.upload /\ "robot" \in files[i]
    /\ url' = [url EXCEPT ![i] = (how = "done")]
    /\ files' = IF how = "not" THEN files ELSE [files EXCEPT ![i] = @ \cup {"cloud"}]
    /\ Goto(i, IF how = "raised" THEN "failed" ELSE "download")
    /\ UNCHANGED <<world, monitor, by, request, found, minute, path, fresh, published, ai, rows,
                   together>>

\* The directory or the file may not be writable.
Download(i, how) ==
    /\ pc[i] = "download"
    /\ how # "not" => setup.download
    /\ how = "done" => "robot" \in files[i]
    /\ path' = [path EXCEPT ![i] = IF how = "done" THEN "local" ELSE @]
    /\ files' = IF how = "done" THEN [files EXCEPT ![i] = @ \cup {"local"}] ELSE files
    /\ Goto(i, IF how = "raised" THEN "failed" ELSE "check")
    /\ UNCHANGED <<world, monitor, by, request, found, minute, url, fresh, published, ai, rows,
                   together>>

----------------------------------------------------------------------------
\* InspectionAlarmService.create_alarms_from_result.
\* _dedup_key: the risk, that is its type and its cell of the grid, the camera
\* and the minute.  The time of the robot's clock only grows, so that no row of
\* the same minute is older than the 60 s _has_recent_duplicate looks back.
Key(i, risk) == <<risk, request[i].camera, minute[i]>>
RowKey(r) == Key(r.of, r.risk)

HasRecentDuplicate_MutPendingOnly(i, risk) ==
    \E r \in rows : RowKey(r) = Key(i, risk) /\ ~r.closed

HasRecentDuplicate(i, risk) == \E r \in rows : RowKey(r) = Key(i, risk)

\* One alarm of each kind, of the detections that are sure enough.  The session
\* reads one snapshot of the table, however long the detections take.
Check(i) ==
    /\ pc[i] = "check"
    /\ LET sure == {d.risk : d \in {d \in found[i] : d.sure}}
           new == {risk \in sure : ~HasRecentDuplicate(i, risk)}
       IN  /\ fresh' = [fresh EXCEPT ![i] = new]
           /\ IF new = {} THEN /\ Without(i, Unlinked(i))
                               /\ Goto(i, "delete")
                               /\ UNCHANGED together
                          ELSE /\ Goto(i, "commit")
                               /\ together' = together \cup {{i, j} : j \in {j \in Inspections :
                                                                  pc[j] = "commit"}}
                               /\ UNCHANGED files
    /\ UNCHANGED <<world, monitor, by, request, found, minute, path, url, published, ai, rows>>

Row(i, risk) == [of |-> i, risk |-> risk, path |-> path[i], url |-> url[i],
                 pushed |-> FALSE, closed |-> FALSE]

Commit(i, ok) ==
    /\ pc[i] = "commit"
    /\ rows' = IF ok THEN rows \cup {Row(i, risk) : risk \in fresh[i]} ELSE rows
    /\ Goto(i, IF ok THEN "publish" ELSE "failed")
    /\ UNCHANGED <<world, monitor, by, request, results, ai, files, together>>

\* publish_alarm of each alarm; the client may refuse some.
Publish(i, taken) ==
    /\ pc[i] = "publish"
    /\ published' = [published EXCEPT ![i] = taken]
    /\ Goto(i, "mark")
    /\ UNCHANGED <<world, monitor, by, request, found, minute, path, url, fresh, ai, files, rows,
                   together>>

\* The second commit writes mqtt_pushed, and nothing else of the row.
Mark(i, ok) ==
    /\ pc[i] = "mark"
    /\ rows' = IF ok THEN {[r EXCEPT !.pushed = @ \/ (r.of = i /\ r.risk \in published[i])] :
                              r \in rows}
                     ELSE rows
    /\ Goto(i, IF ok THEN "delete" ELSE "failed")
    /\ UNCHANGED <<world, monitor, by, request, results, ai, files, together>>

\* The file of the robot goes when the picture is in the cloud, and when
\* pictures are downloaded, also when neither came through.
Delete(i, ok) ==
    /\ pc[i] = "delete"
    /\ Without(i, Deleted(url[i] /\ setup.deleteAfter, ok))
    /\ Goto(i, "done")
    /\ UNCHANGED <<world, monitor, by, request, results, ai, rows, together>>

\* mark_handled.
MarkHandled(r) ==
    /\ ~r.closed
    /\ rows' = (rows \ {r}) \cup {[r EXCEPT !.closed = TRUE]}
    /\ UNCHANGED <<world, monitor, pc, by, request, results, ai, files, together>>

----------------------------------------------------------------------------
\* The web API dies and starts again, with no monitor.  The AI service finishes
\* what it was asked; nobody waits for the answer.
Crash ==
    /\ left.crashes > 0
    /\ left' = [left EXCEPT !.crashes = @ - 1]
    /\ task' = None
    /\ loop' = [l \in Loops |-> IF loop[l] = "unborn" THEN "unborn" ELSE "dead"]
    /\ pc' = [i \in Inspections |-> IF pc[i] \in InMonitor THEN "failed" ELSE pc[i]]
    /\ by' = [i \in Inspections |-> IF pc[i] \in InService THEN "detect" ELSE by[i]]
    /\ UNCHANGED <<setup, now, config, request, results, ai, files, rows, together>>

MinutePasses ==
    /\ left.minutes > 0
    /\ left' = [left EXCEPT !.minutes = @ - 1]
    /\ now' = now + 1
    /\ UNCHANGED <<setup, monitor, pc, by, request, results, ai, files, rows, together>>

Init ==
    /\ \E c \in Cases : setup = c[1] /\ left = c[2]
    /\ task = None /\ config = Configured /\ loop = [l \in Loops |-> "unborn"]
    /\ pc = [i \in Inspections |-> "new"]
    /\ by = [i \in Inspections |-> None]
    /\ request = [i \in Inspections |-> None]
    /\ todo = [i \in Inspections |-> <<>>]
    /\ held = [i \in Inspections |-> NoDetector]
    /\ found = [i \in Inspections |-> {}]
    /\ minute = [i \in Inspections |-> 0]
    /\ path = [i \in Inspections |-> "robot"]
    /\ url = [i \in Inspections |-> FALSE]
    /\ fresh = [i \in Inspections |-> {}]
    /\ published = [i \in Inspections |-> {}]
    /\ detectors = [m \in Supported |-> NoDetector] /\ unloaded = {} /\ loads = 0
    /\ files = [i \in Inspections |-> {}]
    /\ rows = {}
    /\ now = 0
    /\ together = {}

Next ==
    \/ \E req \in Requests : Start(req)
    \/ Stop
    \/ \E l \in Loops : LoopInspects(l)
    \/ \E l \in Loops : LoopSleeps(l)
    \/ \E req \in Requests : InspectOnce("once", req)
    \/ \E req \in ResultRequests : InspectOnce("detect", req)
    \/ \E i \in Inspections, ok \in BOOLEAN : Capture(i, ok)
    \/ \E i \in Inspections : GetDetector(i)
    \/ \E i \in Inspections, ok \in BOOLEAN : Load(i, ok)
    \/ \E i \in {i \in Inspections : pc[i] = "run"} :
           \E what \in Finds(Head(todo[i])) : Detect(i, what)
    \/ \E i \in Inspections, ok \in BOOLEAN : Answer(i, ok)
    \/ \E i \in Inspections, ok \in BOOLEAN : Discard(i, ok)
    \/ \E i \in Inspections, how \in Transfers : Upload(i, how)
    \/ \E i \in Inspections, how \in Transfers : Download(i, how)
    \/ \E i \in Inspections : Check(i)
    \/ \E i \in Inspections, ok \in BOOLEAN : Commit(i, ok)
    \/ \E i \in Inspections : \E taken \in SUBSET fresh[i] : Publish(i, taken)
    \/ \E i \in Inspections, ok \in BOOLEAN : Mark(i, ok)
    \/ \E i \in Inspections, ok \in BOOLEAN : Delete(i, ok)
    \/ \E r \in rows : MarkHandled(r)
    \/ Crash
    \/ MinutePasses

Spec == Init /\ [][Next]_vars

----------------------------------------------------------------------------
Detections == UNION UNION {Finds(m) : m \in Supported}
Risks == {d.risk : d \in Detections}
Places == {"robot", "local", "cloud"}

\* The types; a task of the monitor is the one on record; a thread that is about
\* to run a detector has one; the service has no detector without its model.
TypeOK ==
    /\ setup \in {c[1] : c \in Cases}
    /\ left \in [minutes : Nat, crashes : Nat] /\ now \in Nat
    /\ task \in Loops \cup {None} /\ config \in Requests
    /\ loop \in [Loops -> {"unborn", "ready", "waiting", "dead"}]
    /\ \A l \in Loops : loop[l] \in {"ready", "waiting"} <=> task = l
    /\ pc \in [Inspections -> {"new"} \cup InService \cup InMonitor \cup Ended]
    /\ by \in [Inspections -> Loops \cup {"once", "detect", None}]
    /\ request \in [Inspections -> Requests \cup ResultRequests \cup {None}]
    /\ loads \in Nat
    /\ held \in [Inspections -> 0 .. loads]
    /\ \A i \in Inspections : (held[i] # NoDetector) <=> pc[i] = "run"
    /\ detectors \in [Supported -> 0 .. loads] /\ unloaded \subseteq 1 .. loads
    /\ \A m \in Supported : detectors[m] \notin unloaded
    /\ found \in [Inspections -> SUBSET Detections]
    /\ \A i \in Inspections : found[i] # {} \/ pc[i] \notin InMonitor \ {"discard"}
    /\ minute \in [Inspections -> 0 .. now]
    /\ path \in [Inspections -> {"robot", "local"}]
    /\ url \in [Inspections -> BOOLEAN]
    /\ fresh \in [Inspections -> SUBSET Risks] /\ published \in [Inspections -> SUBSET Risks]
    /\ \A i \in Inspections : published[i] \subseteq fresh[i]
    /\ files \in [Inspections -> SUBSET Places]
    /\ rows \subseteq [of : Inspections, risk : Risks, path : {"robot", "local"}, url : BOOLEAN,
                      pushed : BOOLEAN, closed : BOOLEAN]
    /\ \A r \in rows : r.risk \in fresh[r.of] /\ (r.pushed => r.risk \in published[r.of])
    /\ together \subseteq SUBSET Inspections

\* A risk that a finished inspection was sure of is recorded, and it is recorded
\* once a minute, "去重" (docs/scenario_requirements.md:285), unless two
\* inspections stood between the look for duplicates (line 54 of
\* inspection_alarm_service.py) and the commit (line 64) at the same time.
RiskIsAlarmedOnce ==
    /\ \A i \in Inspections :
           pc[i] = "done" /\ by[i] # "detect" =>
               \A d \in found[i] : d.sure => \E r \in rows : RowKey(r) = Key(i, d.risk)
    /\ \A r, q \in rows : RowKey(r) = RowKey(q) /\ r.of # q.of => {r.of, q.of} \in together

\* The picture of an alarm is where the alarm says: in the cloud, among the
\* downloaded ones, or at the robot; but not when pictures are downloaded and
\* neither the download nor the upload came through: line 128 of
\* inspection_monitor_service.py then deletes the only one.
AlarmKeepsItsPicture ==
    \A r \in rows :
        /\ r.url => "cloud" \in files[r.of]
        /\ r.path = "local" => "local" \in files[r.of]
        /\ ~r.url /\ r.path = "robot" /\ ~setup.download => "robot" \in files[r.of]
===============================================================================
