-------------------------------- MODULE Fleet --------------------------------
(***************************************************************************)
(* Fleet commands and formations, end to end: the registry of the web API   *)
(* (backend/apps/web_api/services/fleet_service.py), the request handlers   *)
(* that issue commands (routers/fleet.py), the MQTT broker between them and *)
(* the robots, and the agent of each robot (apps/robot_agent/main.py).      *)
(*                                                                          *)
(* A request addresses some robots in order and gives each one a command of *)
(* its own (a fresh uuid), so a command is a request and a robot.  Requests *)
(* in Formations send set_formation; the others stand for the remaining     *)
(* endpoints (batch, safety stop, corridor, rescue, escort ...), which      *)
(* differ only in payload.  Of a robot's snapshot the model keeps what      *)
(* readiness depends on; role and slot always travel with the formation id. *)
(*                                                                          *)
(* MQTT (external, QoS 1, clean sessions): each robot has a channel in each *)
(* direction.  A channel keeps the order of a single sender, loses what is  *)
(* sent while the receiver is away, and after a reconnection repeats what   *)
(* had not been acknowledged yet.  Time is not modelled: a deadline may     *)
(* have passed whenever it is compared with the clock.                      *)
(***************************************************************************)
EXTENDS Naturals, Sequences

CONSTANTS Robots,
          Requests,    \* HTTP requests that issue commands
          Formations,  \* those that create a formation
          Strict,      \* those with require_all_ready
          Members,     \* the robots of each request, in order, without repetition
          Handlers,    \* threads of the web API's pool
          None,
          MaxChannel,  \* bound: an agent reports only into a shorter channel
          MaxFaults    \* bound on the faults of each kind in a behaviour

FaultKinds == {"repeat", "outage"}

ASSUME FleetAssumption ==
    /\ Formations \subseteq Requests
    /\ Strict \subseteq Requests
    /\ None \notin Requests
    /\ Members \in [Requests -> Seq(Robots)]
    /\ \A q \in Requests :
         /\ Members[q] # <<>>
         /\ \A i, j \in 1 .. Len(Members[q]) : Members[q][i] = Members[q][j] => i = j
    /\ MaxChannel \in Nat
    /\ MaxFaults \in [FaultKinds -> Nat]

Commands == Requests \X Robots
Issuer(c) == c[1]
Target(c) == c[2]

MemberSet(q) == {Members[q][i] : i \in 1 .. Len(Members[q])}

VARIABLES
    \* the registry (FleetService), in the memory of the web API
    shown,     \* _commands[c]["status"]; "unissued" before, "forgotten" after
    ack,       \* the last answer recorded for c: ok, failed, or none
    view,      \* _robots[r]: status, whether it was seen recently, formation
    formed,    \* _formations
    \* the handlers
    pc, job, slot,
    accepted,  \* requests that were taken by a handler (fresh uuids)
    refused,   \* commands marked as not published
    \* the channels: commands on the way down, messages on the way up
    down, up,
    faults,    \* how many of each kind there were
    \* the agents
    life,      \* running, stopping (only the network thread is left), or gone
    formation, \* formation_id
    busy,      \* the command the network thread is executing
    due,       \* whether it has answered one and not yet reported
    draft,     \* the report the main loop is preparing
    \* history
    performed  \* the results that executions of c had

registry == <<shown, ack, view, formed>>
handlers == <<pc, job, slot, accepted, refused>>
channels == <<down, up, faults>>
agents == <<life, formation, busy, due, draft>>
history == <<performed>>
vars == <<registry, handlers, channels, agents, history>>

Statuses == {"unissued", "pending", "published", "acked", "failed", "timeout", "forgotten"}
FormationOrNone == Formations \cup {None}

AckMessages == [kind : {"ack"}, command : Commands, result : {"ok", "failed"}]
ReportMessages == [kind : {"report"}, online : BOOLEAN, formation : FormationOrNone]
Messages == AckMessages \cup ReportMessages
NoDraft == [kind |-> "nothing"]

View == [online : BOOLEAN, recent : BOOLEAN, formation : FormationOrNone]

RegistryType == /\ shown \in [Commands -> Statuses]
                /\ ack \in [Commands -> {"none", "ok", "failed"}]
                /\ view \in [Robots -> View]
                /\ formed \subseteq Formations

HandlerPc == {"idle", "create", "publish", "mark_sent", "mark_refused", "register"}

HandlersType == /\ pc \in [Handlers -> HandlerPc]
                /\ job \in [Handlers -> Requests \cup {None}]
                /\ slot \in [Handlers -> Nat]
                /\ accepted \subseteq Requests
                /\ refused \subseteq Commands

ChannelsType == /\ down \in [Robots -> Seq(Commands)]
                /\ up \in [Robots -> Seq(Messages)]
                /\ faults \in [FaultKinds -> Nat]

AgentsType == /\ life \in [Robots -> {"running", "stopping", "gone"}]
              /\ formation \in [Robots -> FormationOrNone]
              /\ busy \in [Robots -> Commands \cup {None}] /\ due \in [Robots -> BOOLEAN]
              /\ draft \in [Robots -> ReportMessages \cup {NoDraft}]

HistoryType == performed \in [Commands -> SUBSET {"ok", "failed"}]

TypeOK == RegistryType /\ HandlersType /\ ChannelsType /\ AgentsType /\ HistoryType

EmptyRobot == [online |-> FALSE, recent |-> FALSE, formation |-> None]

Init ==
    /\ shown = [c \in Commands |-> "unissued"]
    /\ ack = [c \in Commands |-> "none"]
    /\ view = [r \in Robots |-> EmptyRobot]
    /\ formed = {}
    /\ pc = [h \in Handlers |-> "idle"]
    /\ job = [h \in Handlers |-> None]
    /\ slot = [h \in Handlers |-> 1]
    /\ accepted = {} /\ refused = {}
    /\ down = [r \in Robots |-> <<>>]
    /\ up = [r \in Robots |-> <<>>]
    /\ faults = [k \in FaultKinds |-> 0]
    /\ life = [r \in Robots |-> "running"]
    /\ formation = [r \in Robots |-> None]
    /\ busy = [r \in Robots |-> None] /\ due = [r \in Robots |-> FALSE]
    /\ draft = [r \in Robots |-> NoDraft]
    /\ performed = [c \in Commands |-> {}]

-------------------------------------------------------------------------------
(* What the registry answers.                                              *)

\* _with_liveness
Online(r) == view[r].online /\ view[r].recent

\* _ensure_fleet_ready
AllReady(q) == \A r \in MemberSet(q) : Online(r)

\* _formation_snapshot
Ready_MutNoAck(f) ==
    /\ f \in formed
    /\ \A r \in MemberSet(f) : Online(r) /\ view[r].formation = f

Ready(f) ==
    /\ f \in formed
    /\ \A r \in MemberSet(f) : /\ Online(r)
                               /\ shown[<<f, r>>] = "acked"
                               /\ view[r].formation = f

-------------------------------------------------------------------------------
(* Request handlers.                                                       *)

Current(h) == <<job[h], Members[job[h]][slot[h]]>>

Goto(h, label) == pc' = [pc EXCEPT ![h] = label]

\* The endpoint's checks pass and its first command is next.  (A request that
\* is turned down, 409, changes nothing.)
Accept(h, q) ==
    /\ pc[h] = "idle"
    /\ q \notin accepted
    /\ q \in Strict => AllReady(q)
    /\ accepted' = accepted \cup {q}
    /\ job' = [job EXCEPT ![h] = q]
    /\ slot' = [slot EXCEPT ![h] = 1]
    /\ Goto(h, "create")
    /\ UNCHANGED <<registry, refused, channels, agents, history>>

CreateCommand(h) ==
    /\ pc[h] = "create"
    /\ shown' = [shown EXCEPT ![Current(h)] = "pending"]
    /\ Goto(h, "publish")
    /\ UNCHANGED <<ack, view, formed, job, slot, accepted, refused, channels, agents, history>>

\* publish_json returns whether the client took the message.  It may return
\* False and send it all the same: a client that lost its connection keeps a
\* QoS 1 message and sends it when it is back.
PublishJson(h, taken, sent) ==
    /\ pc[h] = "publish"
    /\ taken => sent
    /\ down' = IF sent THEN [down EXCEPT ![Target(Current(h))] = Append(@, Current(h))]
                       ELSE down
    /\ Goto(h, IF taken THEN "mark_sent" ELSE "mark_refused")
    /\ UNCHANGED <<registry, job, slot, accepted, refused, up, faults, agents, history>>

\* After a command the loop goes on to the next robot of the request; after
\* the last one a formation is registered and any other request is done.
NextCommand(h) ==
    IF slot[h] < Len(Members[job[h]])
    THEN /\ slot' = [slot EXCEPT ![h] = @ + 1]
         /\ Goto(h, "create")
    ELSE /\ Goto(h, IF job[h] \in Formations THEN "register" ELSE "idle")
         /\ UNCHANGED slot

MarkPublished_MutNoGuard(h) ==
    /\ pc[h] = "mark_sent"
    /\ shown' = [shown EXCEPT ![Current(h)] = "published"]
    /\ NextCommand(h)
    /\ UNCHANGED <<ack, view, formed, job, accepted, refused, channels, agents, history>>

\* mark_command_published(published=True): a command that is acked already
\* stays so; any other status is overwritten.
MarkPublished(h) ==
    /\ pc[h] = "mark_sent"
    /\ shown' = IF shown[Current(h)] = "acked" THEN shown
                ELSE [shown EXCEPT ![Current(h)] = "published"]
    /\ NextCommand(h)
    /\ UNCHANGED <<ack, view, formed, job, accepted, refused, channels, agents, history>>

MarkRefused_MutDropped(h) ==
    /\ pc[h] = "mark_refused"
    /\ refused' = refused \cup {Current(h)}
    /\ NextCommand(h)
    /\ UNCHANGED <<shown, ack, view, formed, job, accepted, channels, agents, history>>

\* mark_command_published(published=False)
MarkRefused(h) ==
    /\ pc[h] = "mark_refused"
    /\ shown' = [shown EXCEPT ![Current(h)] = "failed"]
    /\ refused' = refused \cup {Current(h)}
    /\ NextCommand(h)
    /\ UNCHANGED <<ack, view, formed, job, accepted, channels, agents, history>>

RegisterFormation(h) ==
    /\ pc[h] = "register"
    /\ formed' = formed \cup {job[h]}
    /\ Goto(h, "idle")
    /\ UNCHANGED <<shown, ack, view, job, slot, accepted, refused, channels, agents, history>>

-------------------------------------------------------------------------------
(* The registry's other operations.                                        *)

ExpireCommand_MutPending(c) ==
    /\ shown[c] \in {"pending", "published"}
    /\ shown' = [shown EXCEPT ![c] = "timeout"]
    /\ UNCHANGED <<ack, view, formed, handlers, channels, agents, history>>

\* Any query that looks at c evaluates its deadline (_with_command_timeout).
ExpireCommand(c) ==
    /\ shown[c] = "published"
    /\ shown' = [shown EXCEPT ![c] = "timeout"]
    /\ UNCHANGED <<ack, view, formed, handlers, channels, agents, history>>

\* fleet_robot_offline_sec pass without a message from r.
Silence(r) ==
    /\ view[r].recent
    /\ view' = [view EXCEPT ![r].recent = FALSE]
    /\ UNCHANGED <<shown, ack, formed, handlers, channels, agents, history>>

Received(r) == up' = [up EXCEPT ![r] = Tail(@)]

Seen(r) == view' = [view EXCEPT ![r].online = TRUE, ![r].recent = TRUE]

HandleAck_MutRawStatus(r) ==
    /\ up[r] # <<>> /\ Head(up[r]).kind = "ack"
    /\ Received(r) /\ Seen(r)
    /\ shown' = [shown EXCEPT ![Head(up[r]).command] = Head(up[r]).result]
    /\ UNCHANGED <<ack, formed, handlers, down, faults, agents, history>>

HandleAck_MutIgnoresLate(r) ==
    /\ up[r] # <<>> /\ Head(up[r]).kind = "ack"
    /\ Received(r) /\ Seen(r)
    /\ LET m == Head(up[r])
       IN  IF shown[m.command] \notin {"pending", "published"}
           THEN UNCHANGED <<shown, ack>>
           ELSE /\ shown' = [shown EXCEPT ![m.command] =
                                IF m.result = "ok" THEN "acked" ELSE "failed"]
                /\ ack' = [ack EXCEPT ![m.command] = m.result]
    /\ UNCHANGED <<formed, handlers, down, faults, agents, history>>

\* handle_robot_message on robot/<r>/ack, with _record_command_ack.
HandleAck(r) ==
    /\ up[r] # <<>> /\ Head(up[r]).kind = "ack"
    /\ Received(r) /\ Seen(r)
    /\ LET m == Head(up[r])
       IN  IF shown[m.command] \in {"unissued", "forgotten"} \/ Target(m.command) # r
           THEN UNCHANGED <<shown, ack>>
           ELSE /\ shown' = [shown EXCEPT ![m.command] =
                                IF m.result = "ok" THEN "acked" ELSE "failed"]
                /\ ack' = [ack EXCEPT ![m.command] = m.result]
    /\ UNCHANGED <<formed, handlers, down, faults, agents, history>>

HandleReport_MutKeepsFirst(r) ==
    /\ up[r] # <<>> /\ Head(up[r]).kind = "report"
    /\ Received(r)
    /\ LET m == Head(up[r])
       IN  view' = [view EXCEPT ![r] =
                         [online |-> m.online, recent |-> TRUE,
                          formation |-> IF @.formation = None THEN m.formation
                                                              ELSE @.formation]]
    /\ UNCHANGED <<shown, ack, formed, handlers, down, faults, agents, history>>

\* handle_robot_message on any other topic: the report's fields replace the
\* stored ones, except that an absent formation leaves the stored one.
HandleReport(r) ==
    /\ up[r] # <<>> /\ Head(up[r]).kind = "report"
    /\ Received(r)
    /\ LET m == Head(up[r])
       IN  view' = [view EXCEPT ![r] =
                         [online |-> m.online, recent |-> TRUE,
                          formation |-> IF m.formation = None THEN @.formation
                                                              ELSE m.formation]]
    /\ UNCHANGED <<shown, ack, formed, handlers, down, faults, agents, history>>

Fault(kind) == /\ faults[kind] < MaxFaults[kind]
               /\ faults' = [faults EXCEPT ![kind] = @ + 1]

\* The web API restarts: everything above was in its memory.
RestartApi ==
    /\ Fault("outage")
    /\ shown' = [c \in Commands |-> IF shown[c] = "unissued" THEN "unissued" ELSE "forgotten"]
    /\ ack' = [c \in Commands |-> "none"]
    /\ view' = [r \in Robots |-> EmptyRobot]
    /\ formed' = {}
    /\ pc' = [h \in Handlers |-> "idle"]
    /\ UNCHANGED <<job, slot, accepted, refused, down, up, agents, history>>

-------------------------------------------------------------------------------
(* MQTT.  What is on the way is lost when a connection is.                 *)

LoseDown(r) ==
    /\ Fault("outage")
    /\ down[r] # <<>>
    /\ down' = [down EXCEPT ![r] = Tail(@)]
    /\ UNCHANGED <<registry, handlers, up, agents, history>>

LoseUp(r) ==
    /\ Fault("outage")
    /\ up[r] # <<>>
    /\ Received(r)
    /\ UNCHANGED <<registry, handlers, down, agents, history>>

RepeatDown(r) ==
    /\ Fault("repeat")
    /\ down[r] # <<>>
    /\ down' = [down EXCEPT ![r] = @ \o @]
    /\ UNCHANGED <<registry, handlers, up, agents, history>>

RepeatUp(r) ==
    /\ Fault("repeat")
    /\ up[r] # <<>>
    /\ up' = [up EXCEPT ![r] = @ \o @]
    /\ UNCHANGED <<registry, handlers, down, agents, history>>

-------------------------------------------------------------------------------
(* The agent: a network thread that executes commands, a main loop that     *)
(* reports every few seconds.                                              *)

ReportOf(r) == [kind |-> "report", online |-> TRUE, formation |-> formation[r]]

\* The network thread takes a command and applies it.
TakeCommand(r) ==
    /\ life[r] # "gone" /\ busy[r] = None /\ ~due[r]
    /\ down[r] # <<>>
    /\ down' = [down EXCEPT ![r] = Tail(@)]
    /\ busy' = [busy EXCEPT ![r] = Head(down[r])]
    /\ formation' = IF Issuer(Head(down[r])) \in Formations
                    THEN [formation EXCEPT ![r] = Issuer(Head(down[r]))]
                    ELSE formation
    /\ UNCHANGED <<registry, handlers, up, faults, life, due, draft, history>>

AnswerCommand_MutAlwaysOk(r, result) ==
    /\ busy[r] # None
    /\ performed' = [performed EXCEPT ![busy[r]] = @ \cup {result}]
    /\ up' = [up EXCEPT ![r] = Append(@, [kind |-> "ack", command |-> busy[r], result |-> "ok"])]
    /\ busy' = [busy EXCEPT ![r] = None]
    /\ due' = [due EXCEPT ![r] = TRUE]
    /\ UNCHANGED <<registry, handlers, down, faults, life, formation, draft>>

\* It is executed and acknowledged.  Only motion commands, which go through
\* the robot's ROS bridge, can fail.
AnswerCommand(r, result) ==
    /\ busy[r] # None
    /\ Issuer(busy[r]) \in Formations => result = "ok"
    /\ performed' = [performed EXCEPT ![busy[r]] = @ \cup {result}]
    /\ up' = [up EXCEPT ![r] = Append(@, [kind |-> "ack", command |-> busy[r],
                                         result |-> result])]
    /\ busy' = [busy EXCEPT ![r] = None]
    /\ due' = [due EXCEPT ![r] = TRUE]
    /\ UNCHANGED <<registry, handlers, down, faults, life, formation, draft>>

\* A status report follows, which only this thread can make old.
ReportAnswered(r) ==
    /\ due[r]
    /\ up' = [up EXCEPT ![r] = Append(@, ReportOf(r))]
    /\ due' = [due EXCEPT ![r] = FALSE]
    /\ UNCHANGED <<registry, handlers, down, faults, life, formation, busy, draft, history>>

\* The main loop builds a report, asks the ROS bridge for the pose, which
\* takes a while, and then sends what it built.
DraftReport(r) ==
    /\ life[r] = "running" /\ draft[r] = NoDraft
    /\ Len(up[r]) < MaxChannel
    /\ draft' = [draft EXCEPT ![r] = ReportOf(r)]
    /\ UNCHANGED <<registry, handlers, channels, life, formation, busy, due, history>>

SendReport(r) ==
    /\ life[r] = "running" /\ draft[r] # NoDraft
    /\ up' = [up EXCEPT ![r] = Append(@, draft[r])]
    /\ draft' = [draft EXCEPT ![r] = NoDraft]
    /\ UNCHANGED <<registry, handlers, down, faults, life, formation, busy, due, history>>

\* A signal ends the main loop, which reports the robot offline and waits for
\* the network thread.
StopAgent(r) ==
    /\ life[r] = "running" /\ draft[r] = NoDraft
    /\ Fault("outage")
    /\ life' = [life EXCEPT ![r] = "stopping"]
    /\ up' = [up EXCEPT ![r] = Append(@, [ReportOf(r) EXCEPT !.online = FALSE])]
    /\ UNCHANGED <<registry, handlers, down, formation, busy, due, draft, history>>

\* The process is gone, and with it all its state.
AgentGone(r) ==
    /\ life' = [life EXCEPT ![r] = "gone"]
    /\ formation' = [formation EXCEPT ![r] = None]
    /\ busy' = [busy EXCEPT ![r] = None] /\ due' = [due EXCEPT ![r] = FALSE]
    /\ draft' = [draft EXCEPT ![r] = NoDraft]
    /\ UNCHANGED <<registry, handlers, down, up, history>>

ExitAgent(r) ==
    /\ life[r] = "stopping" /\ busy[r] = None /\ ~due[r]
    /\ AgentGone(r)
    /\ UNCHANGED faults

CrashAgent(r) ==
    /\ life[r] # "gone"
    /\ Fault("outage")
    /\ AgentGone(r)

StartAgent(r) ==
    /\ life[r] = "gone"
    /\ life' = [life EXCEPT ![r] = "running"]
    /\ UNCHANGED <<registry, handlers, channels, formation, busy, due, draft, history>>

-------------------------------------------------------------------------------
HandlerStep(h) ==
    \/ CreateCommand(h)
    \/ \E taken, sent \in BOOLEAN : PublishJson(h, taken, sent)
    \/ MarkPublished(h) \/ MarkRefused(h) \/ RegisterFormation(h)

Deliver(r) == HandleAck(r) \/ HandleReport(r)

NetworkThread(r) == \/ TakeCommand(r) \/ ReportAnswered(r) \/ ExitAgent(r)
                    \/ \E result \in {"ok", "failed"} : AnswerCommand(r, result)

MainLoop(r) == DraftReport(r) \/ SendReport(r)

RobotStep(r) ==
    \/ Deliver(r) \/ NetworkThread(r) \/ MainLoop(r)
    \/ Silence(r) \/ StopAgent(r) \/ CrashAgent(r) \/ StartAgent(r)
    \/ LoseDown(r) \/ LoseUp(r) \/ RepeatDown(r) \/ RepeatUp(r)

Next ==
    \/ \E h \in Handlers : HandlerStep(h) \/ \E q \in Requests : Accept(h, q)
    \/ \E c \in Commands : ExpireCommand(c)
    \/ \E r \in Robots : RobotStep(r)
    \/ RestartApi

Spec == Init /\ [][Next]_vars

\* Threads run, what is not lost is delivered, an agent that is gone is started
\* again (systemd), and somebody keeps looking at the commands.
Fairness ==
    /\ \A h \in Handlers : WF_vars(HandlerStep(h))
    /\ \A c \in Commands : WF_vars(ExpireCommand(c))
    /\ \A r \in Robots : /\ WF_vars(Deliver(r))
                         /\ WF_vars(NetworkThread(r))
                         /\ WF_vars(MainLoop(r))
                         /\ WF_vars(StartAgent(r))

FairSpec == Spec /\ Fairness

-------------------------------------------------------------------------------
(* Properties.                                                             *)

\* A success the registry has recorded is what it shows: no handler that marks
\* its command late, no deadline and no repeated message hides it (unless the
\* publish itself was reported as failed).
SuccessIsShown ==
    \A c \in Commands : ack[c] = "ok" => shown[c] = "acked" \/ c \in refused

\* "acked" is never shown of a command no robot has carried out.
AckedWasPerformed ==
    \A c \in Commands : shown[c] = "acked" => "ok" \in performed[c]

\* A formation is never ready before each of its robots has carried out its
\* command: a report that the main loop drafts while the network thread is
\* still at it does not make it ready.
ReadyWasFormed ==
    \A f \in Formations :
        Ready(f) => \A r \in MemberSet(f) : "ok" \in performed[<<f, r>>]

\* The status of a command moves only as the ledger allows.
Ledger == INSTANCE CommandLedger WITH reported <- performed

LedgerSpec == Ledger!Spec

\* No command stays pending or published for ever.
CommandsSettle ==
    \A c \in Commands :
        shown[c] \in {"pending", "published"} ~> shown[c] \notin {"pending", "published"}

NoFaults == [](\A k \in FaultKinds : faults[k] = 0)

\* Without faults a formation whose robots stay in it becomes ready, and ready
\* again after every interruption: handlers that mark late, deadlines, late
\* answers and stale drafts do not keep it from that (unless a publish was
\* reported as failed).
FormationBecomesReady ==
    NoFaults => \A f \in Formations :
        <>[](\A r \in MemberSet(f) : formation[r] = f /\ <<f, r>> \notin refused)
            => []<>Ready(f)

\* What the registry believes of a robot's formation catches up with the robot,
\* once the robot stays in one formation.
FormationConverges ==
    \A r \in Robots, f \in Formations :
        <>[](formation[r] = f) => <>[](view[r].formation = f)
===============================================================================
