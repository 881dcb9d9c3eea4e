-------------------------- MODULE InspectionProofs --------------------------
(***************************************************************************)
(* Proofs about Inspection, for any number of inspections and tasks, any    *)
(* requests and settings, and whatever the models find.                      *)
(***************************************************************************)
EXTENDS Inspection, TLAPS

\* The functions that TypeOK does not type are functions of the inspections; a
\* model that is loaded or run is one the service has.
ModelsSound ==
    /\ todo = [i \in Inspections |-> todo[i]]
    /\ \A i \in Inspections : pc[i] \in {"load", "run"} => Head(todo[i]) \in Supported

\* What an inspection has to record is known by its place: nothing when its
\* picture is discarded, and nothing is published before the rows are there.
ResultsSound ==
    \A i \in Inspections :
        /\ pc[i] = "discard" => found[i] = {}
        /\ published[i] # {} => pc[i] \in {"mark", "delete", "done", "failed"}

\* The rows of an inspection are there after its commit, with the path and the
\* address of its picture; they are marked after the second one.
RowsSound ==
    \A r \in rows :
        /\ pc[r.of] \in {"publish", "mark", "delete", "done", "failed"}
        /\ r.path = path[r.of] /\ r.url = url[r.of]
        /\ r.pushed => pc[r.of] \in {"delete", "done", "failed"}

HasRow(i, risk) == \E r \in rows : RowKey(r) = Key(i, risk)

\* What an inspection is sure of is about to be committed or has its row.
SureRecorded ==
    \A i \in Inspections : \A d \in found[i] :
        d.sure => /\ pc[i] = "commit" => d.risk \in fresh[i] \/ HasRow(i, d.risk)
                  /\ pc[i] \in {"publish", "mark", "delete"} => HasRow(i, d.risk)
                  /\ pc[i] = "done" /\ by[i] # "detect" => HasRow(i, d.risk)

\* Two inspections before their commit stand there together, and a row that one
\* of them is about to repeat is of one that stood there with it.
PendingSound ==
    \A i \in Inspections : pc[i] = "commit" =>
        /\ \A j \in Inspections : pc[j] = "commit" /\ i # j => {i, j} \in together
        /\ \A risk \in fresh[i] : \A q \in rows : RowKey(q) = Key(i, risk) => {i, q.of} \in together

RowsApart ==
    \A r, q \in rows : RowKey(r) = RowKey(q) /\ r.of # q.of => {r.of, q.of} \in together

\* Where the picture is, by the place of its inspection.
FilesSound ==
    \A i \in Inspections :
        /\ url[i] => /\ "cloud" \in files[i]
                     /\ pc[i] \in (InMonitor \ {"discard", "upload"}) \cup Ended
        /\ path[i] = "local" /\ pc[i] \in {"check", "commit"} => "local" \in files[i]
        /\ pc[i] \in {"get", "load", "run", "discard", "upload", "download", "check", "commit"} =>
               "robot" \in files[i]
        /\ path[i] = "local" => pc[i] \in (InMonitor \ {"discard", "upload", "download"}) \cup Ended

Histories == ResultsSound /\ RowsSound /\ SureRecorded /\ PendingSound /\ RowsApart
             /\ FilesSound /\ AlarmKeepsItsPicture

IInv == TypeOK /\ ModelsSound /\ Histories

\* The variables the histories of the inspections speak of.
recorded == <<setup, pc, by, request, found, minute, path, url, fresh, published, files, rows,
              together>>

LEMMA InitIInv == Init => IInv
<1> SUFFICES ASSUME Init
             PROVE  IInv
  OBVIOUS
<1>1. TypeOK /\ ModelsSound
  BY InspectionAssumption DEF Init, TypeOK, ModelsSound, Inspections, InService, InMonitor, Ended,
     NoDetector
<1>2. Histories
  BY DEF Init, Histories, ResultsSound, RowsSound, SureRecorded, PendingSound, RowsApart,
     FilesSound, AlarmKeepsItsPicture
<1> QED
  BY <1>1, <1>2 DEF IInv

LEMMA HistoriesKept == ASSUME Histories, UNCHANGED recorded PROVE Histories'
  BY DEF Histories, ResultsSound, RowsSound, SureRecorded, PendingSound, RowsApart, FilesSound,
     AlarmKeepsItsPicture, HasRow, RowKey, Key, recorded

\* The tasks of the monitor, and the clock.
LEMMA MonitorSteps ==
    ASSUME IInv,
           \/ \E req \in Requests : Start(req)
           \/ Stop
           \/ \E l \in Loops : LoopSleeps(l)
           \/ MinutePasses
    PROVE  IInv'
<1>1. UNCHANGED recorded /\ UNCHANGED todo
  BY DEF Start, Stop, LoopSleeps, MinutePasses, recorded, world, results, monitor, ai
<1>2. Histories' /\ ModelsSound'
  BY <1>1, HistoriesKept DEF IInv, ModelsSound, recorded
<1>3. TypeOK'
  <2>1. ASSUME NEW req \in Requests, Start(req)
        PROVE  TypeOK'
    BY <2>1, InspectionAssumption DEF IInv, TypeOK, Start, world, results, ai
  <2>2. CASE Stop
    BY <2>2, InspectionAssumption DEF IInv, TypeOK, Stop, world, results, ai
  <2>3. ASSUME NEW l \in Loops, LoopSleeps(l)
        PROVE  TypeOK'
    BY <2>3, InspectionAssumption DEF IInv, TypeOK, LoopSleeps, world, results, ai
  <2>4. CASE MinutePasses
    BY <2>4 DEF IInv, TypeOK, MinutePasses, monitor, results, ai
  <2> QED
    BY <2>1, <2>2, <2>3, <2>4
<1> QED
  BY <1>2, <1>3 DEF IInv

\* An inspection that does not have its rows yet moves to a place before they
\* are there; it may change what it asked, found and was timed.
LEMMA BeforeRows ==
    ASSUME IInv, NEW i \in Inspections,
           pc[i] \in {"new"} \cup InService, pc'[i] \in InService \cup {"discard", "upload", "failed"}
                                             \/ (pc'[i] = "done" /\ by'[i] = "detect"),
           pc'[i] = "discard" => found'[i] = {},
           \A j \in Inspections \ {i} :
               /\ pc'[j] = pc[j] /\ by'[j] = by[j] /\ request'[j] = request[j]
               /\ found'[j] = found[j] /\ minute'[j] = minute[j] /\ files'[j] = files[j],
           pc'[i] \in {"get", "load", "run", "discard", "upload"} => "robot" \in files'[i],
           UNCHANGED <<setup, path, url, fresh, published, rows, together>>
    PROVE  Histories'
<1>1. \A r \in rows : r.of \in Inspections /\ r.of # i /\ RowKey(r)' = RowKey(r)
  BY DEF IInv, TypeOK, Histories, RowsSound, RowKey, Key, InService
<1>2. ResultsSound' /\ RowsSound'
  BY <1>1 DEF IInv, TypeOK, Histories, ResultsSound, RowsSound, InService
<1>3. SureRecorded'
  BY <1>1 DEF IInv, TypeOK, Histories, SureRecorded, HasRow, RowKey, Key, InService
<1>4. PendingSound' /\ RowsApart'
  BY <1>1 DEF IInv, TypeOK, Histories, PendingSound, RowsApart, RowKey, Key, InService
<1>5. FilesSound' /\ AlarmKeepsItsPicture'
  BY <1>1 DEF IInv, TypeOK, Histories, FilesSound, AlarmKeepsItsPicture, InService, InMonitor, Ended
<1> QED
  BY <1>2, <1>3, <1>4, <1>5 DEF Histories

\* An inspection begins.
LEMMA BeginSteps ==
    ASSUME IInv, NEW owner \in Loops \cup {"once", "detect"}, NEW req \in Requests \cup ResultRequests,
           Begin(owner, req),
           UNCHANGED <<world, task, config, results, ai, files, rows, together>>,
           \/ UNCHANGED loop
           \/ owner \in Loops /\ loop[owner] = "ready" /\ loop' = [loop EXCEPT ![owner] = "waiting"]
    PROVE  IInv'
<1>1. PICK i \in Inspections : /\ pc[i] = "new" /\ pc' = [pc EXCEPT ![i] = "capture"]
                               /\ by' = [by EXCEPT ![i] = owner]
                               /\ request' = [request EXCEPT ![i] = req]
  BY DEF Begin, Free, Goto
<1>2. TypeOK'
  BY <1>1 DEF IInv, TypeOK, world, results, ai, InService, InMonitor
<1>3. ModelsSound'
  BY <1>1 DEF IInv, TypeOK, ModelsSound, ai
<1>4. Histories'
  <2>1. /\ pc'[i] = "capture"
        /\ \A j \in Inspections \ {i} :
               /\ pc'[j] = pc[j] /\ by'[j] = by[j] /\ request'[j] = request[j]
               /\ found'[j] = found[j] /\ minute'[j] = minute[j] /\ files'[j] = files[j]
    BY <1>1 DEF IInv, TypeOK, results
  <2> QED
    BY <1>1, <2>1, BeforeRows DEF world, results, InService
<1> QED
  BY <1>2, <1>3, <1>4 DEF IInv

\* The steps of the AI service.
LEMMA ServiceSteps ==
    ASSUME IInv, NEW i \in Inspections,
           \/ GetDetector(i)
           \/ \E ok \in BOOLEAN : Capture(i, ok) \/ Load(i, ok) \/ Answer(i, ok)
           \/ pc[i] = "run" /\ \E what \in Finds(Head(todo[i])) : Detect(i, what)
    PROVE  IInv'
<1> USE DEF world, monitor, results, Goto, NoDetector
<1>1. ASSUME NEW ok \in BOOLEAN, Capture(i, ok)
      PROVE  IInv'
  <2>1. TypeOK'
    BY <1>1 DEF IInv, TypeOK, Capture, InService, InMonitor, Ended, Places
  <2>2. ModelsSound'
    BY <1>1 DEF IInv, TypeOK, ModelsSound, Capture
  <2>3. Histories'
    <3>1. /\ pc[i] = "capture" /\ pc'[i] \in {"get", "failed"}
          /\ pc'[i] = "get" => files'[i] = {"robot"}
          /\ \A j \in Inspections \ {i} : pc'[j] = pc[j] /\ files'[j] = files[j]
      BY <1>1 DEF IInv, TypeOK, Capture
    <3> QED
      BY <1>1, <3>1, BeforeRows DEF Capture, InService
  <2> QED
    BY <2>1, <2>2, <2>3 DEF IInv
<1>2. ASSUME GetDetector(i)
      PROVE  IInv'
  <2>1. TypeOK'
    <3>1. /\ pc' \in [Inspections -> {"new"} \cup InService \cup InMonitor \cup Ended]
          /\ held' \in [Inspections -> 0 .. loads]
          /\ \A j \in Inspections : (held'[j] # NoDetector) <=> pc'[j] = "run"
      <4>1. loads \in Nat /\ 0 \in 0 .. loads /\ pc[i] = "get" /\ held[i] = 0
        BY <1>2 DEF IInv, TypeOK, GetDetector
      <4>2. \E label \in {"get", "load", "run"}, d \in 0 .. loads :
                /\ pc' = [pc EXCEPT ![i] = label] /\ (d # 0 <=> label = "run")
                /\ held' = [held EXCEPT ![i] = d] \/ (held' = held /\ d = 0)
        BY <1>2, <4>1 DEF IInv, TypeOK, GetDetector, NextModel
      <4> QED
        BY <4>1, <4>2 DEF IInv, TypeOK, InService
    <3>2. /\ detectors' \in [Supported -> 0 .. loads] /\ unloaded' \subseteq 1 .. loads
          /\ \A m \in Supported : detectors'[m] \notin unloaded'
      <4>1. CASE UNCHANGED <<detectors, unloaded>>
        BY <4>1 DEF IInv, TypeOK
      <4>2. ASSUME NEW m \in Supported, detectors[m] = NoDetector, SwitchMode(m)
            PROVE  /\ detectors' \in [Supported -> 0 .. loads] /\ unloaded' \subseteq 1 .. loads
                   /\ \A k \in Supported : detectors'[k] \notin unloaded'
        <5>1. detectors' = [k \in Supported |-> NoDetector]
          BY <4>2 DEF SwitchMode
        <5>2. unloaded' \subseteq 1 .. loads
          <6>1. loads \in Nat /\ \A k \in Supported : detectors[k] \in 0 .. loads
            BY DEF IInv, TypeOK
          <6>2. \A d \in Others(m) : d \in 1 .. loads
            BY <6>1 DEF Others
          <6>3. unloaded' = unloaded \cup Others(m) /\ unloaded \subseteq 1 .. loads
            BY <4>2 DEF IInv, TypeOK, SwitchMode
          <6> QED
            BY <6>2, <6>3
        <5>3. loads \in Nat
          BY DEF IInv, TypeOK
        <5> QED
          BY <5>1, <5>2, <5>3
      <4> QED
        BY <1>2, <4>1, <4>2 DEF GetDetector
    <3>3. /\ \A j \in Inspections : pc'[j] \in InMonitor => pc[j] = pc'[j]
          /\ UNCHANGED <<setup, left, now, task, config, loop, by, request, loads, found, minute,
                         path, url, fresh, published, files, rows, together>>
      BY <1>2 DEF IInv, TypeOK, GetDetector, NextModel, InMonitor
    <3> QED
      BY <3>1, <3>2, <3>3 DEF IInv, TypeOK
  <2>2. ModelsSound'
    <3>1. todo' = [j \in Inspections |-> todo'[j]]
      BY <1>2 DEF IInv, ModelsSound, GetDetector, NextModel
    <3>2. /\ \A j \in Inspections \ {i} : pc'[j] = pc[j] /\ todo'[j] = todo[j]
          /\ pc'[i] \in {"load", "run"} => todo'[i] = todo[i] /\ Head(todo[i]) \in Supported
      BY <1>2 DEF IInv, TypeOK, ModelsSound, GetDetector, NextModel
    <3> QED
      BY <3>1, <3>2 DEF IInv, ModelsSound
  <2>3. Histories'
    <3>1. /\ pc[i] = "get" /\ pc'[i] \in {"get", "load", "run"} /\ "robot" \in files[i]
          /\ \A j \in Inspections \ {i} : pc'[j] = pc[j]
          /\ UNCHANGED <<setup, by, request, found, minute, path, url, fresh, published, files,
                         rows, together>>
      BY <1>2 DEF IInv, TypeOK, Histories, FilesSound, GetDetector, NextModel
    <3> QED
      BY <3>1, BeforeRows DEF InService
  <2> QED
    BY <2>1, <2>2, <2>3 DEF IInv
<1>3. ASSUME NEW ok \in BOOLEAN, Load(i, ok)
      PROVE  IInv'
  <2>1. TypeOK'
    <3>1. /\ loads \in Nat /\ loads' \in Nat /\ loads' \in {loads, loads + 1}
          /\ 0 .. loads \subseteq 0 .. loads' /\ 1 .. loads \subseteq 1 .. loads'
      BY <1>3 DEF IInv, TypeOK, Load
    <3>2. /\ held' \in [Inspections -> 0 .. loads']
          /\ pc' \in [Inspections -> {"new"} \cup InService \cup InMonitor \cup Ended]
          /\ \A j \in Inspections : (held'[j] # NoDetector) <=> pc'[j] = "run"
      <4>1. \E label \in {"get", "run"}, d \in {0, loads'} :
                /\ pc' = [pc EXCEPT ![i] = label] /\ (d # 0 <=> label = "run")
                /\ held' = [held EXCEPT ![i] = d]
        BY <1>3, <3>1 DEF IInv, TypeOK, Load, NextModel
      <4>2. held \in [Inspections -> 0 .. loads'] /\ 0 \in 0 .. loads' /\ loads' \in 0 .. loads'
        BY <3>1 DEF IInv, TypeOK
      <4> QED
        BY <4>1, <4>2 DEF IInv, TypeOK, InService
    <3>3. /\ detectors' \in [Supported -> 0 .. loads'] /\ unloaded' \subseteq 1 .. loads'
          /\ \A m \in Supported : detectors'[m] \notin unloaded'
      <4>1. \/ UNCHANGED detectors
            \/ loads' = loads + 1 /\ \E m \in Supported : detectors' = [detectors EXCEPT ![m] = loads']
        BY <1>3 DEF IInv, ModelsSound, Load
      <4>2. UNCHANGED unloaded
        BY <1>3 DEF Load
      <4>3. /\ detectors \in [Supported -> 0 .. loads'] /\ unloaded \subseteq 1 .. loads
            /\ loads' \in 0 .. loads' /\ loads + 1 \notin 1 .. loads
            /\ \A m \in Supported : detectors[m] \notin unloaded
        BY <3>1 DEF IInv, TypeOK
      <4>4. detectors' \in [Supported -> 0 .. loads'] /\ unloaded' \subseteq 1 .. loads'
        BY <3>1, <4>1, <4>2, <4>3
      <4>5. \A m \in Supported : detectors'[m] \notin unloaded'
        BY <4>1, <4>2, <4>3
      <4> QED
        BY <4>4, <4>5
    <3>4. /\ \A j \in Inspections : pc'[j] \in InMonitor => pc[j] = pc'[j]
          /\ UNCHANGED <<setup, left, now, task, config, loop, by, request, found, minute,
                         path, url, fresh, published, files, rows, together>>
      BY <1>3 DEF IInv, TypeOK, Load, NextModel, InMonitor
    <3> QED
      BY <3>1, <3>2, <3>3, <3>4 DEF IInv, TypeOK
  <2>2. ModelsSound'
    BY <1>3 DEF IInv, TypeOK, ModelsSound, Load, NextModel
  <2>3. Histories'
    <3>1. /\ pc[i] = "load" /\ pc'[i] \in {"get", "run"} /\ "robot" \in files[i]
          /\ \A j \in Inspections \ {i} : pc'[j] = pc[j]
          /\ UNCHANGED <<setup, by, request, found, minute, path, url, fresh, published, files,
                         rows, together>>
      BY <1>3 DEF IInv, TypeOK, Histories, FilesSound, Load, NextModel
    <3> QED
      BY <3>1, BeforeRows DEF InService
  <2> QED
    BY <2>1, <2>2, <2>3 DEF IInv
<1>4. ASSUME pc[i] = "run", NEW what \in Finds(Head(todo[i])), Detect(i, what)
      PROVE  IInv'
  <2>1. what \subseteq Detections
    BY <1>4 DEF IInv, ModelsSound, Detections
  <2>2. TypeOK'
    BY <1>4, <2>1 DEF IInv, TypeOK, Detect, NextModel, InService, InMonitor
  <2>3. ModelsSound'
    BY <1>4 DEF IInv, TypeOK, ModelsSound, Detect, NextModel
  <2>4. Histories'
    <3>1. /\ pc[i] = "run" /\ pc'[i] = "get" /\ "robot" \in files[i]
          /\ \A j \in Inspections \ {i} : pc'[j] = pc[j] /\ found'[j] = found[j]
          /\ UNCHANGED <<setup, by, request, minute, path, url, fresh, published, files,
                         rows, together>>
      BY <1>4 DEF IInv, TypeOK, Histories, FilesSound, Detect, NextModel
    <3> QED
      BY <3>1, BeforeRows DEF InService
  <2> QED
    BY <2>2, <2>3, <2>4 DEF IInv
<1>5. ASSUME NEW ok \in BOOLEAN, Answer(i, ok)
      PROVE  IInv'
  <2>1. TypeOK'
    BY <1>5 DEF IInv, TypeOK, Answer, ai, InService, InMonitor, Ended
  <2>2. ModelsSound'
    BY <1>5 DEF IInv, TypeOK, ModelsSound, Answer, ai
  <2>3. Histories'
    <3>1. /\ pc[i] = "get" /\ pc'[i] \in {"failed", "done", "upload", "discard"}
          /\ pc'[i] = "done" => by[i] = "detect"
          /\ pc'[i] = "discard" => found[i] = {}
          /\ "robot" \in files[i]
          /\ \A j \in Inspections \ {i} : pc'[j] = pc[j] /\ minute'[j] = minute[j]
          /\ UNCHANGED <<setup, by, request, found, path, url, fresh, published, files, rows,
                         together>>
      BY <1>5 DEF IInv, TypeOK, Histories, FilesSound, Answer
    <3> QED
      BY <3>1, BeforeRows DEF InService
  <2> QED
    BY <2>1, <2>2, <2>3 DEF IInv
<1> QED
  BY <1>1, <1>2, <1>3, <1>4, <1>5

\* The steps of an inspection that move pictures.
LEMMA PictureSteps ==
    ASSUME IInv, NEW i \in Inspections, NEW ok \in BOOLEAN, NEW how \in Transfers,
           Discard(i, ok) \/ Upload(i, how) \/ Download(i, how) \/ Delete(i, ok)
    PROVE  IInv'
<1> USE DEF world, monitor, results, ai, Goto
<1>1. /\ UNCHANGED <<request, found, minute, fresh, published, rows, together, by, todo, setup>>
      /\ \E label \in {"done", "download", "check", "failed"} : pc' = [pc EXCEPT ![i] = label]
      /\ \A j \in Inspections \ {i} : pc'[j] = pc[j] /\ path'[j] = path[j] /\ url'[j] = url[j]
                                      /\ files'[j] = files[j]
      /\ \/ pc[i] \in {"discard", "delete"} /\ pc'[i] = "done"
         \/ pc[i] = "upload" /\ pc'[i] \in {"download", "failed"}
         \/ pc[i] = "download" /\ pc'[i] \in {"check", "failed"}
  <2>1. CASE Discard(i, ok) \/ Delete(i, ok)
    BY <2>1 DEF IInv, TypeOK, Discard, Delete, Without
  <2>2. CASE Upload(i, how)
    BY <2>2 DEF IInv, TypeOK, Upload
  <2>3. CASE Download(i, how)
    BY <2>3 DEF IInv, TypeOK, Download
  <2> QED
    BY <2>1, <2>2, <2>3
<1>2. \A r \in rows : r.of \in Inspections /\ (pc[i] # "delete" => r.of # i) /\ RowKey(r)' = RowKey(r)
  BY <1>1 DEF IInv, TypeOK, Histories, RowsSound, RowKey, Key
<1>3. TypeOK'
  <2>1. /\ pc' \in [Inspections -> {"new"} \cup InService \cup InMonitor \cup Ended]
        /\ \A j \in Inspections : /\ pc'[j] = "run" <=> pc[j] = "run"
                                  /\ pc'[j] \in InMonitor \ {"discard"} =>
                                         pc[j] \in InMonitor \ {"discard"}
    BY <1>1 DEF IInv, TypeOK, InService, InMonitor, Ended
  <2>2. files' \in [Inspections -> SUBSET Places]
    <3>1. files \in [Inspections -> SUBSET Places]
      BY DEF IInv, TypeOK
    <3>2. \/ UNCHANGED files
          \/ \E places : files' = [files EXCEPT ![i] = @ \ places]
          \/ \E place \in {"local", "cloud"} : files' = [files EXCEPT ![i] = @ \cup {place}]
      BY DEF Discard, Upload, Download, Delete, Without
    <3> QED
      BY <3>1, <3>2 DEF Places
  <2>3. /\ path' \in [Inspections -> {"robot", "local"}] /\ url' \in [Inspections -> BOOLEAN]
        /\ UNCHANGED <<left, now, task, config, loop, held, detectors, unloaded, loads>>
    BY DEF IInv, TypeOK, Discard, Upload, Download, Delete
  <2> QED
    BY <1>1, <2>1, <2>2, <2>3 DEF IInv, TypeOK
<1>4. ModelsSound'
  BY <1>1 DEF IInv, TypeOK, ModelsSound
<1>5. ResultsSound' /\ RowsSound'
  <2>1. ResultsSound'
    BY <1>1 DEF IInv, TypeOK, Histories, ResultsSound
  <2>2. pc[i] = "delete" => UNCHANGED <<path, url>>
    BY DEF Discard, Upload, Download, Delete
  <2>3. RowsSound'
    BY <1>1, <1>2, <2>2 DEF IInv, TypeOK, Histories, RowsSound
  <2> QED
    BY <2>1, <2>3
<1>6. SureRecorded' /\ PendingSound' /\ RowsApart'
  BY <1>1, <1>2 DEF IInv, TypeOK, Histories, ResultsSound, SureRecorded, PendingSound, RowsApart,
     HasRow, RowKey, Key
<1>7. FilesSound' /\ AlarmKeepsItsPicture'
  <2>1. CASE Discard(i, ok)
    BY <1>1, <1>2, <2>1 DEF IInv, TypeOK, Histories, FilesSound, AlarmKeepsItsPicture, Discard,
       Without, Deleted, Unlinked, InMonitor, Ended
  <2>2. CASE Upload(i, how)
    BY <1>1, <1>2, <2>2 DEF IInv, TypeOK, Histories, FilesSound, AlarmKeepsItsPicture, Upload,
       InMonitor, Ended
  <2>3. CASE Download(i, how)
    BY <1>1, <1>2, <2>3 DEF IInv, TypeOK, Histories, FilesSound, AlarmKeepsItsPicture, Download,
       InMonitor, Ended
  <2>4. CASE Delete(i, ok)
    BY <1>1, <1>2, <2>4 DEF IInv, TypeOK, Histories, FilesSound, RowsSound, AlarmKeepsItsPicture,
       Delete, Without, Deleted, InMonitor, Ended
  <2> QED
    BY <2>1, <2>2, <2>3, <2>4
<1> QED
  BY <1>3, <1>4, <1>5, <1>6, <1>7 DEF IInv, Histories

\* The look for duplicates: the rows of its snapshot are those of before the
\* commit of every inspection that stands there.
LEMMA CheckStep ==
    ASSUME IInv, NEW i \in Inspections, Check(i)
    PROVE  IInv'
<1> USE DEF world, monitor, results, ai, Goto
<1> DEFINE sure == {d.risk : d \in {d \in found[i] : d.sure}}
           new == {risk \in sure : ~HasRecentDuplicate(i, risk)}
<1>1. /\ pc[i] = "check" /\ found[i] # {} /\ published[i] = {} /\ new \subseteq Risks
      /\ \A r \in rows : r.of \in Inspections /\ r.of # i
      /\ \A d \in found[i] : d.sure => d.risk \in new \/ HasRow(i, d.risk)
      /\ \A risk \in new : ~HasRow(i, risk)
  BY DEF IInv, TypeOK, Histories, ResultsSound, RowsSound, Check, InMonitor, HasRecentDuplicate,
     HasRow, Risks
<1>2. /\ fresh' = [fresh EXCEPT ![i] = new]
      /\ UNCHANGED <<setup, left, now, task, config, loop, by, request, todo, held, found, minute,
                     path, url, published, detectors, unloaded, loads, rows>>
      /\ \/ /\ new = {} /\ pc' = [pc EXCEPT ![i] = "delete"] /\ together' = together
            /\ files' = [files EXCEPT ![i] = @ \ Unlinked(i)]
         \/ /\ new # {} /\ pc' = [pc EXCEPT ![i] = "commit"] /\ files' = files
            /\ together' = together \cup {{i, j} : j \in {j \in Inspections : pc[j] = "commit"}}
  BY DEF Check, Without
<1> HIDE DEF sure, new
<1>3. TypeOK'
  <2>1. /\ fresh' \in [Inspections -> SUBSET Risks] /\ fresh'[i] = new
        /\ \A j \in Inspections \ {i} : fresh'[j] = fresh[j]
    BY <1>1, <1>2 DEF IInv, TypeOK
  <2>2. /\ \A j \in Inspections : published'[j] \subseteq fresh'[j]
        /\ \A r \in rows : r.risk \in fresh'[r.of] /\ (r.pushed => r.risk \in published'[r.of])
    BY <1>1, <1>2, <2>1 DEF IInv, TypeOK
  <2>3. /\ pc' \in [Inspections -> {"new"} \cup InService \cup InMonitor \cup Ended]
        /\ \A j \in Inspections : held[j] # NoDetector <=> pc'[j] = "run"
        /\ \A j \in Inspections : found[j] # {} \/ pc'[j] \notin InMonitor \ {"discard"}
    BY <1>1, <1>2 DEF IInv, TypeOK, InMonitor
  <2>4. files' \in [Inspections -> SUBSET Places] /\ together' \subseteq SUBSET Inspections
    BY <1>2 DEF IInv, TypeOK
  <2> QED
    BY <1>2, <2>1, <2>2, <2>3, <2>4 DEF IInv, TypeOK
<1>4. ModelsSound'
  BY <1>2 DEF IInv, TypeOK, ModelsSound
<1>5. ResultsSound' /\ RowsSound'
  BY <1>1, <1>2 DEF IInv, TypeOK, Histories, ResultsSound, RowsSound
<1>6. SureRecorded'
  <2>1. \A j \in Inspections : \A d \in found[j] : HasRow(j, d.risk)' <=> HasRow(j, d.risk)
    BY <1>2 DEF HasRow, RowKey, Key
  <2> QED
    BY <1>1, <1>2, <2>1 DEF IInv, TypeOK, Histories, SureRecorded
<1>7. PendingSound' /\ RowsApart'
  <2>1. UNCHANGED <<request, minute, rows>>
    BY <1>2
  <2>2. together \subseteq together'
    BY <1>2
  <2>3. PendingSound'
    <3> SUFFICES ASSUME NEW k \in Inspections, pc'[k] = "commit"
                 PROVE  /\ \A j \in Inspections : pc'[j] = "commit" /\ k # j =>
                                                     {k, j} \in together'
                        /\ \A risk \in fresh'[k] : \A q \in rows :
                               RowKey(q) = Key(k, risk) => {k, q.of} \in together'
      BY <2>1 DEF PendingSound, RowKey, Key
    <3>1. CASE k = i
      <4>1. together' = together \cup {{i, j} : j \in {j \in Inspections : pc[j] = "commit"}}
        BY <1>1, <1>2, <3>1 DEF IInv, TypeOK
      <4>2. fresh'[i] = new /\ \A j \in Inspections \ {i} : pc'[j] = pc[j]
        BY <1>2 DEF IInv, TypeOK
      <4> QED
        BY <1>1, <3>1, <4>1, <4>2 DEF HasRow
    <3>2. CASE k # i
      <4>1. pc[k] = "commit" /\ fresh'[k] = fresh[k]
        BY <1>2, <3>2 DEF IInv, TypeOK
      <4>2. pc'[i] = "commit" => {i, k} \in together'
        BY <1>1, <1>2, <4>1 DEF IInv, TypeOK
      <4>3. \A j \in Inspections : pc'[j] = "commit" /\ j # i => pc[j] = "commit"
        BY <1>2 DEF IInv, TypeOK
      <4>4. \A j \in Inspections : pc'[j] = "commit" /\ k # j => {k, j} \in together'
        <5> SUFFICES ASSUME NEW j \in Inspections, pc'[j] = "commit", k # j
                     PROVE  {k, j} \in together'
          OBVIOUS
        <5>1. CASE j = i
          <6>1. {k, i} = {i, k}
            OBVIOUS
          <6> QED
            BY <4>2, <5>1, <6>1
        <5>2. CASE j # i
          BY <2>2, <4>1, <4>3, <5>2 DEF IInv, Histories, PendingSound
        <5> QED
          BY <5>1, <5>2
      <4>5. \A risk \in fresh'[k] : \A q \in rows :
                RowKey(q) = Key(k, risk) => {k, q.of} \in together'
        BY <2>2, <4>1 DEF IInv, Histories, PendingSound
      <4> QED
        BY <4>4, <4>5
    <3> QED
      BY <3>1, <3>2
  <2>4. RowsApart'
    BY <1>2, <2>2 DEF IInv, Histories, RowsApart, RowKey, Key
  <2> QED
    BY <2>3, <2>4
<1>8. FilesSound' /\ AlarmKeepsItsPicture'
  <2>1. \A j \in Inspections \ {i} : pc'[j] = pc[j] /\ files'[j] = files[j]
    BY <1>2 DEF IInv, TypeOK
  <2>2. "cloud" \notin Unlinked(i)
    BY DEF Unlinked
  <2>3. FilesSound'
    BY <1>1, <1>2, <2>1, <2>2 DEF IInv, TypeOK, Histories, FilesSound, InMonitor, Ended
  <2>4. AlarmKeepsItsPicture'
    BY <1>1, <1>2, <2>1 DEF IInv, TypeOK, Histories, AlarmKeepsItsPicture
  <2> QED
    BY <2>3, <2>4
<1> QED
  BY <1>3, <1>4, <1>5, <1>6, <1>7, <1>8 DEF IInv, Histories

\* The first commit.
LEMMA CommitStep ==
    ASSUME IInv, NEW i \in Inspections, NEW ok \in BOOLEAN, Commit(i, ok)
    PROVE  IInv'
<1> USE DEF world, monitor, results, ai, Goto
<1>1. /\ pc[i] = "commit"
      /\ \A r \in rows : r.of \in Inspections /\ r.of # i
      /\ UNCHANGED <<setup, left, now, task, config, loop, by, request, todo, held, found, minute,
                     path, url, fresh, published, detectors, unloaded, loads, files, together>>
      /\ \/ rows' = rows /\ pc' = [pc EXCEPT ![i] = "failed"]
         \/ /\ rows' = rows \cup {Row(i, risk) : risk \in fresh[i]}
            /\ pc' = [pc EXCEPT ![i] = "publish"]
  BY DEF IInv, TypeOK, Histories, RowsSound, Commit
<1>2. \A r \in rows' : \/ r \in rows
                       \/ pc'[i] = "publish" /\ \E risk \in fresh[i] : r = Row(i, risk)
  BY <1>1 DEF IInv, TypeOK
<1>3. TypeOK'
  <2>1. \A risk \in fresh[i] :
            /\ Row(i, risk) \in [of : Inspections, risk : Risks, path : {"robot", "local"},
                                 url : BOOLEAN, pushed : BOOLEAN, closed : BOOLEAN]
            /\ Row(i, risk).of = i /\ Row(i, risk).risk = risk /\ ~Row(i, risk).pushed
    BY DEF IInv, TypeOK, Row
  <2>2. /\ rows' \subseteq [of : Inspections, risk : Risks, path : {"robot", "local"},
                            url : BOOLEAN, pushed : BOOLEAN, closed : BOOLEAN]
        /\ \A r \in rows' : r.risk \in fresh[r.of] /\ (r.pushed => r.risk \in published[r.of])
    BY <1>2, <2>1 DEF IInv, TypeOK
  <2>3. /\ pc' \in [Inspections -> {"new"} \cup InService \cup InMonitor \cup Ended]
        /\ \A j \in Inspections : held[j] # NoDetector <=> pc'[j] = "run"
        /\ \A j \in Inspections : found[j] # {} \/ pc'[j] \notin InMonitor \ {"discard"}
    BY <1>1 DEF IInv, TypeOK, InMonitor, Ended
  <2> QED
    BY <1>1, <2>2, <2>3 DEF IInv, TypeOK
<1>4. ModelsSound' /\ ResultsSound'
  BY <1>1 DEF IInv, TypeOK, ModelsSound, Histories, ResultsSound
<1>5. RowsSound'
  BY <1>1, <1>2 DEF IInv, TypeOK, Histories, RowsSound, Row
<1>6. SureRecorded'
  <2>1. \A j \in Inspections, risk \in Risks : HasRow(j, risk) => HasRow(j, risk)'
    BY <1>1 DEF HasRow, RowKey, Key
  <2>2. pc'[i] = "publish" => \A risk \in fresh[i] : HasRow(i, risk)'
    <3> SUFFICES ASSUME pc'[i] = "publish", NEW risk \in fresh[i]
                 PROVE  HasRow(i, risk)'
      OBVIOUS
    <3>1. Row(i, risk) \in rows'
      BY <1>1 DEF IInv, TypeOK
    <3>2. Row(i, risk).of = i /\ Row(i, risk).risk = risk
      BY DEF Row
    <3> QED
      BY <3>1, <3>2 DEF HasRow, RowKey, Key
  <2>3. \A j \in Inspections \ {i} : pc'[j] = pc[j]
    BY <1>1 DEF IInv, TypeOK
  <2>4. pc'[i] \in {"publish", "failed"}
    BY <1>1 DEF IInv, TypeOK
  <2>5. \A j \in Inspections : \A d \in found[j] : d.risk \in Risks
    BY DEF IInv, TypeOK, Risks
  <2> QED
    BY <1>1, <2>1, <2>2, <2>3, <2>4, <2>5 DEF IInv, Histories, SureRecorded
<1>7. PendingSound' /\ RowsApart'
  <2>1. \A j \in Inspections \ {i} : pc'[j] = pc[j]
    BY <1>1 DEF IInv, TypeOK
  <2>2. pc'[i] # "commit"
    BY <1>1 DEF IInv, TypeOK
  <2>3. \A risk : Row(i, risk).of = i /\ RowKey(Row(i, risk)) = Key(i, risk)
    BY DEF Row, RowKey, Key
  <2>4. UNCHANGED <<request, minute, together, fresh>>
    BY <1>1
  <2>5. PendingSound'
    <3> SUFFICES ASSUME NEW k \in Inspections, pc[k] = "commit", k # i,
                        NEW risk \in fresh[k], NEW q \in rows', RowKey(q) = Key(k, risk)
                 PROVE  {k, q.of} \in together
      <4>1. PendingSound
        BY DEF IInv, Histories
      <4> QED
        BY <2>1, <2>2, <2>4, <4>1 DEF PendingSound, RowKey, Key
    <3>1. CASE q \in rows
      BY <3>1 DEF IInv, Histories, PendingSound
    <3>2. CASE q \notin rows
      BY <1>1, <1>2, <2>3, <3>2 DEF IInv, Histories, PendingSound
    <3> QED
      BY <3>1, <3>2
  <2>6. RowsApart'
    <3> SUFFICES ASSUME NEW r \in rows', NEW q \in rows', RowKey(r) = RowKey(q), r.of # q.of
                 PROVE  {r.of, q.of} \in together
      BY <2>4 DEF RowsApart, RowKey, Key
    <3>1. ASSUME NEW x \in rows, NEW y \in rows', y \notin rows, RowKey(x) = RowKey(y)
          PROVE  {x.of, y.of} \in together
      <4>1. PICK risk \in fresh[i] : y = Row(i, risk)
        BY <1>2, <3>1
      <4>2. {i, x.of} \in together
        BY <1>1, <2>3, <3>1, <4>1 DEF IInv, Histories, PendingSound
      <4>3. {x.of, i} = {i, x.of}
        OBVIOUS
      <4> QED
        BY <2>3, <4>1, <4>2, <4>3
    <3>2. CASE r \in rows /\ q \in rows
      BY <3>2 DEF IInv, Histories, RowsApart
    <3>3. CASE r \in rows /\ q \notin rows
      BY <3>1, <3>3
    <3>4. CASE r \notin rows /\ q \in rows
      <4>1. {q.of, r.of} \in together
        BY <3>1, <3>4
      <4>2. {q.of, r.of} = {r.of, q.of}
        OBVIOUS
      <4> QED
        BY <4>1, <4>2
    <3>5. CASE r \notin rows /\ q \notin rows
      BY <1>2, <2>3, <3>5
    <3> QED
      BY <3>2, <3>3, <3>4, <3>5
  <2> QED
    BY <2>5, <2>6
<1>8. FilesSound' /\ AlarmKeepsItsPicture'
  <2>1. FilesSound'
    BY <1>1 DEF IInv, TypeOK, Histories, FilesSound, InMonitor, Ended
  <2>2. AlarmKeepsItsPicture'
    BY <1>1, <1>2 DEF IInv, TypeOK, Histories, FilesSound, AlarmKeepsItsPicture, Row
  <2> QED
    BY <2>1, <2>2
<1> QED
  BY <1>3, <1>4, <1>5, <1>6, <1>7, <1>8 DEF IInv, Histories

RowType == [of : Inspections, risk : Risks, path : {"robot", "local"}, url : BOOLEAN,
            pushed : BOOLEAN, closed : BOOLEAN]

\* x is the row y, marked as pushed or as handled.
Marks(x, y) == /\ x \in RowType
               /\ x.of = y.of /\ x.risk = y.risk /\ x.path = y.path /\ x.url = y.url

\* Rows that are marked stand for the same risks.
LEMMA RowsMarked ==
    ASSUME IInv,
           \A x \in rows' : \E y \in rows :
               /\ Marks(x, y)
               /\ x.pushed => \/ y.pushed
                              \/ /\ x.risk \in published[x.of]
                                 /\ pc'[x.of] \in {"delete", "done", "failed"},
           \A y \in rows : \E x \in rows' : Marks(x, y),
           pc' \in [Inspections -> {"new"} \cup InService \cup InMonitor \cup Ended],
           \A j \in Inspections : pc'[j] # pc[j] => pc[j] = "mark" /\ pc'[j] \in {"delete", "failed"},
           UNCHANGED <<world, monitor, by, request, results, ai, files, together>>
    PROVE  IInv'
<1> USE DEF world, monitor, results, ai
<1>1. \A x \in rows' : \E y \in rows : Marks(x, y)
  OBVIOUS
<1>2. TypeOK'
  <2>1. /\ \A j \in Inspections : held[j] # NoDetector <=> pc'[j] = "run"
        /\ \A j \in Inspections : found[j] # {} \/ pc'[j] \notin InMonitor \ {"discard"}
    BY DEF IInv, TypeOK, InMonitor
  <2>2. \A x \in rows' : x \in RowType
    BY <1>1 DEF Marks
  <2>3. \A x \in rows' : x.risk \in fresh[x.of] /\ (x.pushed => x.risk \in published[x.of])
    BY DEF IInv, TypeOK, Marks
  <2> QED
    BY <2>1, <2>2, <2>3 DEF IInv, TypeOK, RowType
<1>3. ModelsSound' /\ ResultsSound'
  BY DEF IInv, TypeOK, ModelsSound, Histories, ResultsSound
<1>4. RowsSound'
  BY DEF IInv, TypeOK, Histories, RowsSound, Marks
<1>5. SureRecorded'
  <2>1. ASSUME NEW j \in Inspections, NEW risk \in Risks, HasRow(j, risk)
        PROVE  HasRow(j, risk)'
    <3>1. PICK y \in rows : RowKey(y) = Key(j, risk)
      BY <2>1 DEF HasRow
    <3>2. PICK x \in rows' : Marks(x, y)
      OBVIOUS
    <3> QED
      BY <3>1, <3>2 DEF HasRow, RowKey, Key, Marks
  <2>2. \A j \in Inspections : \A d \in found[j] : d.risk \in Risks
    BY DEF IInv, TypeOK, Risks
  <2> QED
    BY <2>1, <2>2 DEF IInv, TypeOK, Histories, SureRecorded
<1>6. PendingSound'
  <2> SUFFICES ASSUME NEW k \in Inspections, pc[k] = "commit", NEW risk \in fresh[k],
                      NEW x \in rows', RowKey(x) = Key(k, risk)
               PROVE  {k, x.of} \in together
    BY DEF IInv, TypeOK, Histories, PendingSound, RowKey, Key
  <2>1. PICK y \in rows : Marks(x, y)
    BY <1>1
  <2> QED
    BY <2>1 DEF IInv, Histories, PendingSound, RowKey, Key, Marks
<1>7. RowsApart'
  <2> SUFFICES ASSUME NEW r \in rows', NEW q \in rows', RowKey(r) = RowKey(q), r.of # q.of
               PROVE  {r.of, q.of} \in together
    BY DEF RowsApart, RowKey, Key
  <2>1. PICK y \in rows, z \in rows : Marks(r, y) /\ Marks(q, z)
    BY <1>1
  <2>2. r.of = y.of /\ q.of = z.of /\ RowKey(y) = RowKey(z)
    BY <2>1 DEF RowKey, Key, Marks
  <2> QED
    BY <2>2 DEF IInv, Histories, RowsApart
<1>8. FilesSound' /\ AlarmKeepsItsPicture'
  <2>1. FilesSound'
    BY DEF IInv, TypeOK, Histories, FilesSound, InMonitor, Ended
  <2>2. AlarmKeepsItsPicture'
    BY <1>1 DEF IInv, Histories, AlarmKeepsItsPicture, Marks
  <2> QED
    BY <2>1, <2>2
<1> QED
  BY <1>2, <1>3, <1>4, <1>5, <1>6, <1>7, <1>8 DEF IInv, Histories

\* The alarms are published, and marked.
LEMMA AlarmSteps ==
    ASSUME IInv,
           \/ \E i \in Inspections : \E taken \in SUBSET fresh[i] : Publish(i, taken)
           \/ \E i \in Inspections, ok \in BOOLEAN : Mark(i, ok)
           \/ \E r \in rows : MarkHandled(r)
    PROVE  IInv'
<1>1. ASSUME NEW i \in Inspections, NEW taken \in SUBSET fresh[i], Publish(i, taken)
      PROVE  IInv'
  <2> USE DEF world, monitor, results, ai
  <2>1. /\ pc[i] = "publish" /\ pc' = [pc EXCEPT ![i] = "mark"]
        /\ published' = [published EXCEPT ![i] = taken]
        /\ UNCHANGED <<setup, left, now, task, config, loop, by, request, todo, held, found, minute,
                       path, url, fresh, detectors, unloaded, loads, files, rows, together>>
    BY <1>1 DEF Publish, Goto
  <2>2. TypeOK'
    <3>1. /\ published' \in [Inspections -> SUBSET Risks]
          /\ \A j \in Inspections : published'[j] \subseteq fresh[j]
          /\ \A r \in rows : r.risk \in fresh[r.of] /\ (r.pushed => r.risk \in published'[r.of])
      BY <2>1 DEF IInv, TypeOK, Histories, RowsSound
    <3>2. /\ pc' \in [Inspections -> {"new"} \cup InService \cup InMonitor \cup Ended]
          /\ \A j \in Inspections : held[j] # NoDetector <=> pc'[j] = "run"
          /\ \A j \in Inspections : found[j] # {} \/ pc'[j] \notin InMonitor \ {"discard"}
      BY <2>1 DEF IInv, TypeOK, InMonitor
    <3> QED
      BY <2>1, <3>1, <3>2 DEF IInv, TypeOK
  <2>3. ModelsSound' /\ ResultsSound' /\ RowsSound'
    <3>1. ModelsSound'
      BY <2>1 DEF IInv, TypeOK, ModelsSound
    <3>2. ResultsSound'
      BY <2>1 DEF IInv, TypeOK, Histories, ResultsSound
    <3>3. RowsSound'
      BY <2>1 DEF IInv, TypeOK, Histories, RowsSound
    <3> QED
      BY <3>1, <3>2, <3>3
  <2>4. SureRecorded' /\ PendingSound' /\ RowsApart'
    BY <2>1 DEF IInv, TypeOK, Histories, SureRecorded, PendingSound, RowsApart, HasRow, RowKey, Key
  <2>5. FilesSound' /\ AlarmKeepsItsPicture'
    BY <2>1 DEF IInv, TypeOK, Histories, FilesSound, AlarmKeepsItsPicture, InMonitor
  <2> QED
    BY <2>2, <2>3, <2>4, <2>5 DEF IInv, Histories
<1>2. ASSUME NEW i \in Inspections, NEW ok \in BOOLEAN, Mark(i, ok)
      PROVE  IInv'
  <2>1. /\ pc[i] = "mark" /\ pc' = [pc EXCEPT ![i] = IF ok THEN "delete" ELSE "failed"]
        /\ UNCHANGED <<world, monitor, by, request, results, ai, files, together>>
        /\ pc \in [Inspections -> {"new"} \cup InService \cup InMonitor \cup Ended]
        /\ rows \subseteq RowType
    BY <1>2 DEF IInv, TypeOK, RowType, Mark, Goto
  <2>2. /\ pc'[i] \in {"delete", "failed"}
        /\ \A j \in Inspections \ {i} : pc'[j] = pc[j]
        /\ pc' \in [Inspections -> {"new"} \cup InService \cup InMonitor \cup Ended]
    BY <2>1 DEF InMonitor, Ended
  <2>3. CASE ~ok
    <3>1. rows' = rows /\ \A y \in rows : Marks(y, y)
      BY <1>2, <2>1, <2>3 DEF Mark, Marks
    <3> QED
      BY <2>1, <2>2, <3>1, RowsMarked
  <2>4. CASE ok
    <3> DEFINE Marked(r) == [r EXCEPT !.pushed = @ \/ (r.of = i /\ r.risk \in published[i])]
    <3>1. rows' = {Marked(r) : r \in rows}
      BY <1>2, <2>4 DEF Mark
    <3>2. \A r \in rows : /\ Marks(Marked(r), r)
                          /\ Marked(r).pushed <=> r.pushed \/ (r.of = i /\ r.risk \in published[i])
      BY <2>1 DEF Marks, RowType
    <3> HIDE DEF Marked
    <3>3. \A x \in rows' : \E y \in rows :
               /\ Marks(x, y)
               /\ x.pushed => \/ y.pushed
                              \/ /\ x.risk \in published[x.of]
                                 /\ pc'[x.of] \in {"delete", "done", "failed"}
      BY <2>2, <3>1, <3>2 DEF Marks
    <3>4. \A y \in rows : \E x \in rows' : Marks(x, y)
      BY <3>1, <3>2
    <3> QED
      BY <2>1, <2>2, <3>3, <3>4, RowsMarked
  <2> QED
    BY <2>3, <2>4
<1>3. ASSUME NEW r \in rows, MarkHandled(r)
      PROVE  IInv'
  <2> DEFINE handled == [r EXCEPT !.closed = TRUE]
  <2>1. /\ UNCHANGED <<world, monitor, pc, by, request, results, ai, files, together>>
        /\ rows' = (rows \ {r}) \cup {handled}
        /\ pc \in [Inspections -> {"new"} \cup InService \cup InMonitor \cup Ended]
        /\ rows \subseteq RowType
    BY <1>3 DEF IInv, TypeOK, RowType, MarkHandled
  <2>2. Marks(handled, r) /\ (handled.pushed => r.pushed) /\ \A y \in rows : Marks(y, y)
    BY <2>1 DEF Marks, RowType
  <2> HIDE DEF handled
  <2>3. /\ \A x \in rows' : \E y \in rows : Marks(x, y) /\ (x.pushed => y.pushed)
        /\ \A y \in rows : \E x \in rows' : Marks(x, y)
    BY <2>1, <2>2
  <2> QED
    BY <2>1, <2>3, RowsMarked
<1> QED
  BY <1>1, <1>2, <1>3

\* A crash ends the inspections that wait for the web API, and nobody waits for
\* the others.
LEMMA CrashStep ==
    ASSUME IInv, Crash
    PROVE  IInv'
<1> USE DEF world, monitor, results, ai
<1>1. /\ pc' = [i \in Inspections |-> IF pc[i] \in InMonitor THEN "failed" ELSE pc[i]]
      /\ by' = [i \in Inspections |-> IF pc[i] \in InService THEN "detect" ELSE by[i]]
      /\ UNCHANGED <<setup, now, config, request, todo, held, found, minute, path, url, fresh,
                     published, detectors, unloaded, loads, files, rows, together>>
  BY DEF Crash
<1>2. TypeOK'
  BY <1>1, InspectionAssumption DEF IInv, TypeOK, Crash, InService, InMonitor, Ended
<1>3. ModelsSound' /\ ResultsSound' /\ RowsSound'
  BY <1>1 DEF IInv, TypeOK, ModelsSound, Histories, ResultsSound, RowsSound, InMonitor
<1>4. SureRecorded' /\ PendingSound' /\ RowsApart'
  BY <1>1 DEF IInv, TypeOK, Histories, SureRecorded, PendingSound, RowsApart, HasRow, RowKey, Key,
     InMonitor, InService
<1>5. FilesSound' /\ AlarmKeepsItsPicture'
  BY <1>1 DEF IInv, TypeOK, Histories, FilesSound, AlarmKeepsItsPicture, InMonitor, Ended
<1> QED
  BY <1>2, <1>3, <1>4, <1>5 DEF IInv, Histories

LEMMA Step == IInv /\ [Next]_vars => IInv'
<1> SUFFICES ASSUME IInv, [Next]_vars
             PROVE  IInv'
  OBVIOUS
<1>1. ASSUME NEW l \in Loops, LoopInspects(l)
      PROVE  IInv'
  <2>1. config \in Requests \cup ResultRequests
    BY DEF IInv, TypeOK
  <2> QED
    BY <1>1, <2>1, BeginSteps DEF LoopInspects
<1>2. ASSUME NEW req \in Requests, InspectOnce("once", req)
      PROVE  IInv'
  BY <1>2, BeginSteps DEF InspectOnce, monitor
<1>3. ASSUME NEW req \in ResultRequests, InspectOnce("detect", req)
      PROVE  IInv'
  BY <1>3, BeginSteps DEF InspectOnce, monitor
<1>4. CASE UNCHANGED vars
  <2>1. UNCHANGED recorded
    BY <1>4 DEF vars, recorded
  <2>2. TypeOK' /\ ModelsSound'
    BY <1>4 DEF IInv, TypeOK, ModelsSound, vars
  <2> QED
    BY <2>1, <2>2, HistoriesKept DEF IInv
<1>5. ASSUME NEW i \in Inspections, NEW ok \in BOOLEAN, Discard(i, ok) \/ Delete(i, ok)
      PROVE  IInv'
  <2>1. "done" \in Transfers
    BY DEF Transfers
  <2> QED
    BY <1>5, <2>1, PictureSteps
<1>6. ASSUME NEW i \in Inspections, NEW how \in Transfers, Upload(i, how) \/ Download(i, how)
      PROVE  IInv'
  BY <1>6, PictureSteps
<1> QED
  BY <1>1, <1>2, <1>3, <1>4, <1>5, <1>6, MonitorSteps, ServiceSteps, CheckStep, CommitStep,
     AlarmSteps, CrashStep DEF Next

THEOREM Invariance == Spec => []IInv
  BY InitIInv, Step, PTL DEF Spec

\* The variables keep their types; among them: the service has no detector
\* that lost its model, however the threads interleave.
THEOREM TypeCorrect == Spec => []TypeOK
  BY Invariance, PTL DEF IInv

\* A risk an inspection was sure of is recorded, and twice in a minute only by
\* inspections that stood together between the look for duplicates and the
\* commit.
THEOREM RiskAlarmedOnce == Spec => []RiskIsAlarmedOnce
<1>1. IInv => RiskIsAlarmedOnce
  BY DEF IInv, Histories, SureRecorded, RowsApart, RiskIsAlarmedOnce, HasRow
<1> QED
  BY <1>1, Invariance, PTL

\* The picture of an alarm is where its row says.
THEOREM PictureKept == Spec => []AlarmKeepsItsPicture
  BY Invariance, PTL DEF IInv, Histories
===============================================================================
