-------------------------------- MODULE TcpCar --------------------------------
(***************************************************************************)
(* The TCP bridge of a car: backend/apps/tcp_car_bridge.                     *)
(*                                                                          *)
(* Every connection has a thread that handles its frames one after the      *)
(* other.  A handler is a sequence of steps (todo): between two of them      *)
(* the other connections, the obstacle monitor's scan thread, the thread    *)
(* that closes the bridge, the workers of the light show and of the         *)
(* headlight effects and the stop thread may run.  A step that finds more    *)
(* to do puts it in front of the rest; an exception drops the rest.         *)
(*                                                                          *)
(* Light scenes and effects are the numbers of the code.  With the serial   *)
(* port the lamps are switched by packets, without it a number is published *)
(* for the car's own driver.                                                *)
(***************************************************************************)
EXTENDS Naturals, Integers, SequencesExt

CONSTANTS Conns,     \* connections
          Frames,    \* the frames a client may send
          Scans,     \* the scans of the lidar: sets of beams
          ShowSteps, \* scenes of the light show (21 in the code)
          AudioFiles,\* the audio files the car has
          Budgets,   \* bound: [frames, scans, close] of a behaviour
          MaxFrames, \* bound: frames, warnings and the closing of a behaviour
          Gaps,      \* bound: time from one scan to the next
          Cooldown, Grace, Dwell,      \* times of the obstacle monitor
          Distance, ClearDistance, RangeMin, RangeMax, FrontAngle

ASSUME TcpAssumption ==
    /\ \A f \in Frames : f.cmd \in Nat /\ f.data \in Seq(0 .. 255) /\ f.sum \in Nat
    /\ Budgets \subseteq [frames : Nat, scans : Nat, close : BOOLEAN]
    /\ MaxFrames \in Nat
    /\ ShowSteps \in Seq(0 .. 3) /\ Gaps \subseteq Nat
    /\ Cooldown \in Nat /\ Grace \in Nat /\ Dwell \in Nat
    /\ Conns \cap {"scan", "main"} = {}

Off == 0
On == 1
Left == 2
Right == 3
Sides == {"left", "right"}
Threads == Conns \cup {"scan", "main"}
Ids == 1 .. MaxFrames
None == 0

\* LIGHT_PATTERNS
Patterns == <<<<2, 3>>, <<1, 0>>, <<1, 0>>, <<2, 1, 3, 0>>, <<2, 0, 3, 1, 0, 2, 3, 0>>>>

VARIABLES
    serial,       \* whether the serial port could be opened
    closed,       \* what close() has closed: "monitor", "serial", "publisher"
    budget,       \* frames and scans to come
    begun,        \* frames begun; a frame's number names what it starts
    todo,         \* what is left of a thread's frame
    \* lights
    show, effect, \* _thread of LightShow and of HeadlightEffectController
    worker,       \* the threads these started
    lamp,         \* the lamps that are lit, or the number last published
    \* motion, sound, tracking
    slot, motion, \* the publisher's active motion, and how each motion stands
    stopper,      \* _stop_thread
    sound,        \* what _process was last started with
    trackers,     \* trackers that run
    \* obstacle monitor
    blocked, age, sinceWarning, clearFor,
    \* history
    want,         \* what the last frame about the lights asked for
    mixed, late,  \* two threads were at the lights; a join ran out of time
    owed,         \* the motions that ran when a stop was accepted
    displaced,    \* the motions another one took the slot of
    quiet,        \* time since the last warning
    elapsed,      \* time from the last warning before it to the last scan
    firstClear,   \* time since the first clear scan after the last warning
    clearSpan     \* time from that scan to the last clear one

lights == <<show, effect, worker, lamp>>
moves == <<slot, motion, stopper, owed, displaced>>
noises == <<sound, trackers>>
past == <<quiet, elapsed, firstClear, clearSpan>>
monitor == <<blocked, age, sinceWarning, clearFor, past>>
story == <<want, mixed, late>>
frame == <<serial, closed, budget, begun>>
vars == <<frame, todo, lights, moves, noises, monitor, story>>

----------------------------------------------------------------------------
\* A frame.

\* The checksum is of the bytes the client sent, type and size with them.
Sum(bytes) == LET s[i \in 0 .. Len(bytes)] == IF i = 0 THEN 0 ELSE s[i - 1] + bytes[i]
              IN s[Len(bytes)]

ParseFrame(f) ==
    /\ f.wrapped
    /\ f.type = 1
    /\ f.size = 2 * Len(f.data) + 2
    /\ f.sum = Sum(<<f.type, f.cmd, f.size>> \o f.data) % 256

\* The number of the frame that begins.
Number == begun + 1

\* A scene on the lamps: the packets of the serial port, or one message.
Packets(scene) ==
    IF ~serial THEN <<<<"publish", scene>>>>
    ELSE CASE scene = Off -> <<<<"both", 0>>>>
           [] scene = On -> <<<<"both", 1>>>>
           [] scene = Left -> <<<<"both", 0>>, <<"left", 1>>>>
           [] scene = Right -> <<<<"both", 0>>, <<"right", 1>>>>

Lit(packet) ==
    CASE packet[1] = "publish" -> packet[2]
      [] packet = <<"both", 0>> -> {}
      [] packet = <<"both", 1>> -> Sides
      [] OTHER -> lamp \cup {packet[1]}

Scene(s) == [i \in DOMAIN Packets(s) |-> <<"light", Packets(s)[i]>>]

StopShow(turnOff) == <<<<"takeShow", 0>>>> \o IF turnOff THEN Scene(Off) ELSE <<>>
StopEffect(turnOff) ==
    IF serial THEN <<<<"takeEffect", 0>>>> \o IF turnOff THEN Scene(Off) ELSE <<>>
              ELSE <<>>
IfShow(turnOff) == <<<<"ifShow", turnOff>>>>
MotionScene(s) == IfShow(TRUE) \o StopEffect(FALSE) \o Scene(s)
Move == <<<<"cancel", 0>>, <<"move", Number>>>>
Fail == <<<<"fail", 0>>>>

DirectionScene(d) == CASE d \in {3, 5} -> Left [] d \in {4, 6} -> Right [] OTHER -> On

HandleButton(data) ==
    IF Len(data) < 1 THEN Fail
    ELSE IfShow(TRUE) \o
         CASE data[1] \in {0, 7} -> MotionScene(Off) \o <<<<"stop", 0>>>>
           [] data[1] \in 1 .. 6 -> MotionScene(DirectionScene(data[1])) \o Move
           [] OTHER -> Fail

\* Vectors and wheel speeds: what they move at is left out.
HandleVector(data) == IF Len(data) < 2 THEN Fail ELSE IfShow(TRUE) \o Move
HandleWheelSpeeds(data) == IF Len(data) < 4 THEN Fail ELSE IfShow(TRUE) \o Move

HandleLightEffect_MutAnyEffect(data) ==
    IF Len(data) < 1 THEN Fail
    ELSE IfShow(FALSE) \o
         IF ~serial THEN Scene(data[1])
         ELSE StopEffect(FALSE) \o
              CASE data[1] = 0 -> Scene(Off)
                [] data[1] \in DOMAIN Patterns ->
                       <<<<"newEffect", <<Number, data[1]>>>>, <<"launch", Number>>>>
                [] OTHER -> Fail

HandleLightEffect(data) ==
    IF Len(data) < 1 \/ data[1] > 6 THEN Fail
    ELSE IfShow(FALSE) \o
         IF ~serial THEN Scene(data[1])
         ELSE StopEffect(FALSE) \o
              CASE data[1] = 0 -> Scene(Off)
                [] data[1] \in DOMAIN Patterns ->
                       <<<<"newEffect", <<Number, data[1]>>>>, <<"launch", Number>>>>
                [] OTHER -> Fail

ShowStart == StopEffect(TRUE) \o StopShow(TRUE)
             \o <<<<"newShow", <<Number, 0>>>>, <<"launch", Number>>, <<"play", 3>>>>

HandleAudio(data) ==
    IF Len(data) >= 2 /\ data[2] > 100 THEN Fail
    ELSE <<<<"play", IF data = <<>> THEN 0 ELSE data[1]>>>>

TrackingStart == IfShow(TRUE) \o <<<<"kill", 0>>, <<"track", Number>>>>
TrackingStop == <<<<"kill", 0>>, <<"cancel", 0>>>>

\* Commands are the two characters of the frame read as a hexadecimal number.
HandleFrame(f) ==
    IF ~ParseFrame(f) THEN <<>>
    ELSE CASE f.cmd = 21 -> HandleButton(f.data)
           [] f.cmd = 16 -> HandleVector(f.data)
           [] f.cmd = 33 -> HandleWheelSpeeds(f.data)
           [] f.cmd = 48 -> HandleLightEffect(f.data)
           [] f.cmd = 49 -> ShowStart
           [] f.cmd = 50 -> StopShow(TRUE)
           [] f.cmd = 51 -> HandleAudio(f.data)
           [] f.cmd = 99 -> TrackingStart
           [] f.cmd = 100 -> TrackingStop
           [] OTHER -> <<>>

FrontWarning == MotionScene(On) \o <<<<"play", 0>>>>

Close == <<<<"close", "monitor">>, <<"silence", 0>>>> \o StopShow(TRUE) \o StopEffect(TRUE)
         \o <<<<"awaitStop", 0>>, <<"close", "serial">>, <<"cancel", 0>>, <<"close", "publisher">>>>

----------------------------------------------------------------------------
\* When close() has returned the process ends, and its threads with it.
Alive == "publisher" \notin closed

LightSteps == {"ifShow", "takeShow", "takeEffect", "join", "light", "newShow", "newEffect",
               "launch"}
OfLights(steps) == \E i \in DOMAIN steps : steps[i][1] \in LightSteps
AtLights(t) == OfLights(todo[t])

\* What a frame asks the lights to be once nothing moves them any more.
Wanted(f) ==
    IF ~ParseFrame(f) \/ (f.cmd \in {21, 48} /\ f.data = <<>>) THEN want
    ELSE CASE f.cmd = 21 /\ f.data[1] \in {0, 7} -> <<"scene", Off>>
           [] f.cmd = 21 /\ f.data[1] \in 1 .. 6 -> <<"scene", DirectionScene(f.data[1])>>
           [] f.cmd = 48 /\ f.data[1] = 0 -> <<"scene", Off>>
           [] f.cmd = 48 /\ f.data[1] \in 1 .. 5 -> <<"effect", f.data[1]>>
           [] f.cmd = 48 /\ f.data[1] = 6 -> <<IF serial THEN "any" ELSE "effect", 6>>
           [] f.cmd = 49 -> <<"scene", Off>>
           [] f.cmd = 50 /\ ~(serial /\ want[1] = "effect") -> <<"scene", Off>>
           [] OTHER -> want

\* Thread t begins the steps of a frame.
Enter(t, steps) ==
    /\ begun < MaxFrames
    /\ todo' = [todo EXCEPT ![t] = steps]
    /\ begun' = Number
    /\ mixed' = (mixed \/ (OfLights(steps) /\ \E u \in Threads \ {t} : AtLights(u)))

\* CarTcpHandler.handle: the next frame of a connection.
Receive(c) == \E f \in Frames :
    /\ Alive /\ todo[c] = <<>> /\ budget.frames > 0
    /\ budget' = [budget EXCEPT !.frames = @ - 1]
    /\ Enter(c, HandleFrame(f))
    /\ want' = Wanted(f)
    /\ UNCHANGED <<serial, closed, lights, moves, noises, monitor, late>>

\* The server has stopped: the main thread closes the bridge.
Shutdown ==
    /\ budget.close /\ todo["main"] = <<>> /\ closed = {}
    /\ Enter("main", Close)
    /\ want' = <<"scene", Off>>
    /\ UNCHANGED <<serial, closed, budget, lights, moves, noises, monitor, late>>

----------------------------------------------------------------------------
\* The steps of a thread.

Running(w) == w # None /\ worker[w].st \notin {"none", "new", "done"}
Rest(t) == Tail(todo[t])
Then(t, steps) == todo' = [todo EXCEPT ![t] = steps \o Rest(t)]
Raise(t) == todo' = [todo EXCEPT ![t] = <<>>]
At(t, name) == Alive /\ todo[t] # <<>> /\ todo[t][1][1] = name
Arg(t) == todo[t][1][2]

\* _stop_show_if_running
CheckShow(t) ==
    /\ At(t, "ifShow")
    /\ Then(t, IF Running(show) THEN StopShow(Arg(t)) ELSE <<>>)
    /\ UNCHANGED <<frame, lights, moves, noises, monitor, story>>

\* The slot is emptied and its worker told; then the worker is waited for.
Told(w) == IF w = None THEN worker ELSE [worker EXCEPT ![w].told = TRUE]

TakeShow(t) ==
    /\ At(t, "takeShow")
    /\ show' = None
    /\ worker' = Told(show)
    /\ Then(t, <<<<"join", show>>>>)
    /\ UNCHANGED <<frame, effect, lamp, moves, noises, monitor, story>>

TakeEffect(t) ==
    /\ At(t, "takeEffect")
    /\ effect' = None
    /\ worker' = Told(effect)
    /\ Then(t, <<<<"join", effect>>>>)
    /\ UNCHANGED <<frame, show, lamp, moves, noises, monitor, story>>

Join_MutNoWait(t) ==
    /\ At(t, "join")
    /\ Then(t, <<>>)
    /\ UNCHANGED <<frame, lights, moves, noises, monitor, story>>

\* A worker that has not been started cannot be joined.  Without the serial
\* port a worker may be held up in publish_int32 for longer than the second
\* the wait may last.
Join(t) ==
    /\ At(t, "join")
    /\ \/ /\ ~Running(Arg(t))
          /\ IF Arg(t) # None /\ worker[Arg(t)].st = "new" THEN Raise(t) ELSE Then(t, <<>>)
          /\ UNCHANGED story
       \/ /\ Running(Arg(t)) /\ ~serial
          /\ Then(t, <<>>)
          /\ late' = TRUE
          /\ UNCHANGED <<want, mixed>>
    /\ UNCHANGED <<frame, lights, moves, noises, monitor>>

Light(t) ==
    /\ At(t, "light")
    /\ IF serial /\ "serial" \in closed THEN Raise(t) /\ UNCHANGED lamp
                                         ELSE Then(t, <<>>) /\ lamp' = Lit(Arg(t))
    /\ UNCHANGED <<frame, show, effect, worker, moves, noises, monitor, story>>

\* The worker is registered under the lock and started after it.
Register(t) ==
    LET w == Arg(t)[1]
        isShow == At(t, "newShow")
    IN /\ isShow \/ At(t, "newEffect")
       /\ show' = IF isShow THEN w ELSE show
       /\ effect' = IF isShow THEN effect ELSE w
       /\ worker' = [worker EXCEPT ![w] =
                        [scenes |-> IF isShow THEN ShowSteps ELSE Patterns[Arg(t)[2]],
                         show |-> isShow, st |-> "new", at |-> 0, out |-> <<>>, told |-> FALSE]]
       /\ Then(t, <<>>)
       /\ UNCHANGED <<frame, lamp, moves, noises, monitor, story>>

Launch(t) ==
    /\ At(t, "launch")
    /\ worker' = [worker EXCEPT ![Arg(t)].st = "turn"]
    /\ Then(t, <<>>)
    /\ UNCHANGED <<frame, show, effect, lamp, moves, noises, monitor, story>>

\* _cancel_active_motion and the rest of publish_for_duration
Cancelled == IF slot = None THEN motion ELSE [motion EXCEPT ![slot] = "told"]

CancelMotion(t) ==
    /\ At(t, "cancel")
    /\ motion' = Cancelled
    /\ slot' = None
    /\ Then(t, <<>>)
    /\ UNCHANGED <<frame, lights, stopper, owed, displaced, noises, monitor, story>>

\* The slot is taken whoever has it: two moves that have both cancelled run both.
StartMotion(t) ==
    /\ At(t, "move")
    /\ slot' = Arg(t)
    /\ motion' = [motion EXCEPT ![Arg(t)] = "runs"]
    /\ displaced' = displaced \cup ({slot} \ {None})
    /\ Then(t, <<>>)
    /\ UNCHANGED <<frame, lights, stopper, owed, noises, monitor, story>>

\* A stop is dropped while the worker of an earlier one is alive.  Before
\* that worker has cancelled the motion it acts for the new stop as well;
\* while it publishes zeros it is too late for it.
RequestMotionStop(t) ==
    /\ At(t, "stop")
    /\ stopper' = IF stopper = "idle" THEN "begun" ELSE stopper
    /\ owed' = IF stopper = "zeroing" THEN owed ELSE owed \cup {m \in Ids : motion[m] = "runs"}
    /\ Then(t, <<>>)
    /\ UNCHANGED <<frame, lights, slot, motion, displaced, noises, monitor, story>>

\* The first file there is: of the track, then of all tracks.
TrackFiles == <<<<"alert.mp3", "danger.MP3">>, <<"reverse.mp3", "reversing.MP3">>,
                <<"scared.mp3", "startled.MP3">>, <<"sbsp.mp3">>>>
ResolveAudioFile(track) ==
    LET own == IF track + 1 \in DOMAIN TrackFiles THEN TrackFiles[track + 1] ELSE <<>>
        found == SelectSeq(own \o FlattenSeq(TrackFiles), LAMBDA f : f \in AudioFiles)
    IN IF found = <<>> THEN "tone" ELSE found[1]

\* The command is built before the sound that plays is stopped: a car that has
\* no player keeps its sound.
Play(t) ==
    /\ At(t, "play")
    /\ \/ Then(t, <<>>) /\ sound' = ResolveAudioFile(Arg(t))
       \/ Raise(t) /\ UNCHANGED sound
    /\ UNCHANGED <<frame, lights, moves, trackers, monitor, story>>

\* The stop command of the tracker ends every tracker, or runs out of time.
KillTrackers(t) ==
    /\ At(t, "kill")
    /\ \/ Then(t, <<>>) /\ trackers' = {}
       \/ Raise(t) /\ UNCHANGED trackers
    /\ UNCHANGED <<frame, lights, moves, sound, monitor, story>>

\* The command of the tracker may be empty, or not be found.
StartTracker(t) ==
    /\ At(t, "track")
    /\ \/ Then(t, <<>>) /\ trackers' = trackers \cup {Arg(t)}
       \/ Raise(t) /\ UNCHANGED trackers
    /\ UNCHANGED <<frame, lights, moves, sound, monitor, story>>

Refuse(t) ==
    /\ At(t, "fail")
    /\ Raise(t)
    /\ UNCHANGED <<frame, lights, moves, noises, monitor, story>>

\* The steps of close().
CloseStep ==
    /\ \/ At("main", "close") /\ closed' = closed \cup {Arg("main")} /\ UNCHANGED sound
       \/ At("main", "silence") /\ sound' = "none" /\ UNCHANGED closed
       \/ At("main", "awaitStop") /\ UNCHANGED <<closed, sound>>
    /\ Then("main", <<>>)
    /\ UNCHANGED <<serial, budget, begun, lights, moves, trackers, monitor, story>>

Step(t) == \/ CheckShow(t) \/ TakeShow(t) \/ TakeEffect(t) \/ Join(t) \/ Light(t)
           \/ Register(t) \/ Launch(t) \/ CancelMotion(t) \/ StartMotion(t)
           \/ RequestMotionStop(t) \/ Play(t) \/ KillTrackers(t) \/ StartTracker(t)
           \/ Refuse(t)

----------------------------------------------------------------------------
\* Workers of the lights: LightShow._run, HeadlightEffectController._run.

\* A thread that is over keeps nothing.
Over == [scenes |-> <<>>, show |-> FALSE, st |-> "done", at |-> 0, out |-> <<>>, told |-> FALSE]

Become(w, st, at, out) ==
    IF st = "done" THEN worker' = [worker EXCEPT ![w] = Over]
    ELSE worker' = [worker EXCEPT ![w].st = st, ![w].at = at, ![w].out = out]

\* A show that is told to stop, or has shown all, turns the lights off.
NextScene(w) ==
    LET over == worker[w].at = Len(worker[w].scenes)
        next == IF over THEN 1 ELSE worker[w].at + 1
    IN /\ Alive /\ worker[w].st = "turn"
       /\ CASE worker[w].show /\ (worker[w].told \/ over) ->
                   Become(w, "dark", worker[w].at, Packets(Off))
            [] ~worker[w].show /\ worker[w].told -> Become(w, "clear", worker[w].at, <<>>)
            [] OTHER -> Become(w, "write", next, Packets(worker[w].scenes[next]))
       /\ UNCHANGED <<frame, todo, show, effect, lamp, moves, noises, monitor, story>>

\* A write to the closed serial port ends a show at once, before it has
\* cleared its slot; an effect still clears it.
WritePacket(w) ==
    LET after == IF Len(worker[w].out) > 1 THEN worker[w].st
                 ELSE IF worker[w].st = "dark" THEN "clear" ELSE "turn"
    IN /\ Alive /\ worker[w].st \in {"write", "dark"}
       /\ IF serial /\ "serial" \in closed
          THEN /\ Become(w, IF worker[w].show THEN "done" ELSE "clear", worker[w].at, <<>>)
               /\ UNCHANGED lamp
          ELSE /\ Become(w, after, worker[w].at, Tail(worker[w].out))
               /\ lamp' = Lit(worker[w].out[1])
       /\ UNCHANGED <<frame, todo, show, effect, moves, noises, monitor, story>>

ClearSlot(w) ==
    /\ Alive /\ worker[w].st = "clear"
    /\ Become(w, "done", worker[w].at, <<>>)
    /\ show' = IF show = w THEN None ELSE show
    /\ effect' = IF effect = w THEN None ELSE effect
    /\ UNCHANGED <<frame, todo, lamp, moves, noises, monitor, story>>

\* A motion ends: it was told to, or its time is over.
EndMotion(m) ==
    /\ Alive /\ motion[m] \in {"runs", "told"}
    /\ motion' = [motion EXCEPT ![m] = "over"]
    /\ slot' = IF slot = m THEN None ELSE slot
    /\ UNCHANGED <<frame, todo, lights, stopper, owed, displaced, noises, monitor, story>>

StopWorker_MutZeroFirst ==
    /\ Alive
    /\ \/ /\ stopper = "begun" /\ stopper' = "zeroing"
          /\ UNCHANGED <<motion, slot>>
       \/ /\ stopper = "zeroing" /\ stopper' = "idle"
          /\ motion' = Cancelled /\ slot' = None
    /\ UNCHANGED <<frame, todo, lights, owed, displaced, noises, monitor, story>>

\* _stop_motion_worker: it cancels the motion, publishes zeros and goes.
StopWorker ==
    /\ Alive
    /\ \/ /\ stopper = "begun" /\ stopper' = "zeroing"
          /\ motion' = Cancelled /\ slot' = None
       \/ /\ stopper = "zeroing" /\ stopper' = "idle"
          /\ UNCHANGED <<motion, slot>>
    /\ UNCHANGED <<frame, todo, lights, owed, displaced, noises, monitor, story>>

----------------------------------------------------------------------------
\* The obstacle monitor.

\* nearest_front_obstacle_distance: beams are [at, angle]; 0 is no obstacle.
Nearest(scan) ==
    LET front == {b \in scan : /\ b.at >= RangeMin /\ b.at <= RangeMax
                               /\ b.angle \in -FrontAngle .. FrontAngle}
    IN IF front = {} THEN None ELSE Min({b.at : b \in front})

Capped(n, cap) == IF n > cap THEN cap ELSE n

\* The time since an event that may not have happened.
Later(n, gap, cap) == IF n = -1 THEN -1 ELSE Capped(n + gap, cap)

\* What is remembered of a scan: whether it was warned of, found the way clear.
Remember(gap, warns, clear) ==
    /\ elapsed' = Capped(quiet + gap, Cooldown)
    /\ quiet' = IF warns THEN 0 ELSE elapsed'
    /\ firstClear' = IF warns THEN -1
                     ELSE IF clear /\ firstClear = -1 THEN 0
                     ELSE Later(firstClear, gap, Dwell)
    /\ clearSpan' = IF warns THEN -1 ELSE IF clear THEN firstClear' ELSE clearSpan

\* A scan that finds the way clear counts towards the dwell.
ClearScan(gap) ==
    /\ clearFor' = IF clearFor = -1 THEN 0 ELSE Later(clearFor, gap, Dwell)
    /\ blocked' = (blocked /\ (clearFor = -1 \/ clearFor' < Dwell))
    /\ sinceWarning' = Capped(sinceWarning + gap, Cooldown)
    /\ Remember(gap, FALSE, TRUE)
    /\ UNCHANGED <<todo, begun, mixed, want>>

\* One that finds neither an obstacle nor a clear way changes nothing.
UnclearScan(gap) ==
    /\ clearFor' = Later(clearFor, gap, Dwell)
    /\ sinceWarning' = Capped(sinceWarning + gap, Cooldown)
    /\ Remember(gap, FALSE, FALSE)
    /\ UNCHANGED <<blocked, todo, begun, mixed, want>>

BlockedScan_MutKeepsDwell(gap) ==
    LET since == Capped(sinceWarning + gap, Cooldown)
        open == "monitor" \notin closed
        new == open /\ (age' < Grace \/ ~blocked)
        warns == new /\ age' >= Grace /\ since >= Cooldown
    IN /\ blocked' = (blocked \/ open)
       /\ clearFor' = Later(clearFor, gap, Dwell)
       /\ sinceWarning' = IF warns THEN 0 ELSE since
       /\ Remember(gap, warns, FALSE)
       /\ IF warns THEN Enter("scan", FrontWarning) /\ want' = <<"scene", On>>
                   ELSE UNCHANGED <<todo, begun, mixed, want>>

\* An obstacle is warned of when it is new, after the time of grace and not
\* too soon after the last warning.  One that is not new leaves the dwell as
\* it is.
BlockedScan(gap) ==
    LET since == Capped(sinceWarning + gap, Cooldown)
        open == "monitor" \notin closed
        new == open /\ (age' < Grace \/ ~blocked)
        warns == new /\ age' >= Grace /\ since >= Cooldown
    IN /\ blocked' = (blocked \/ open)
       /\ clearFor' = IF new THEN -1 ELSE Later(clearFor, gap, Dwell)
       /\ sinceWarning' = IF warns THEN 0 ELSE since
       /\ Remember(gap, warns, FALSE)
       /\ IF warns THEN Enter("scan", FrontWarning) /\ want' = <<"scene", On>>
                   ELSE UNCHANGED <<todo, begun, mixed, want>>

OnScan == \E scan \in Scans, gap \in Gaps :
    /\ Alive /\ todo["scan"] = <<>> /\ budget.scans > 0
    /\ budget' = [budget EXCEPT !.scans = @ - 1]
    /\ age' = Capped(age + gap, Grace)
    /\ IF Nearest(scan) = None \/ Nearest(scan) >= ClearDistance THEN ClearScan(gap)
       ELSE IF Nearest(scan) <= Distance THEN BlockedScan(gap)
       ELSE UnclearScan(gap)
    /\ UNCHANGED <<serial, closed, lights, moves, noises, late>>

----------------------------------------------------------------------------
Init ==
    /\ serial \in BOOLEAN
    /\ closed = {} /\ budget \in Budgets /\ begun = 0
    /\ todo = [t \in Threads |-> <<>>]
    /\ show = None /\ effect = None
    /\ worker = [w \in Ids |-> [Over EXCEPT !.st = "none"]]
    /\ lamp = IF serial THEN {} ELSE Off
    /\ slot = None /\ motion = [m \in Ids |-> "none"] /\ stopper = "idle"
    /\ sound = "none" /\ trackers = {}
    /\ blocked = TRUE /\ age = 0 /\ sinceWarning = Cooldown /\ clearFor = -1
    /\ want = <<"scene", Off>> /\ mixed = FALSE /\ late = FALSE
    /\ owed = {} /\ displaced = {}
    /\ quiet = Cooldown /\ elapsed = Cooldown /\ firstClear = -1 /\ clearSpan = -1

Next ==
    \/ \E c \in Conns : Receive(c)
    \/ Shutdown \/ CloseStep
    \/ \E t \in Threads : Step(t)
    \/ \E w \in Ids : NextScene(w) \/ WritePacket(w) \/ ClearSlot(w)
    \/ \E m \in Ids : EndMotion(m)
    \/ StopWorker \/ OnScan

Spec == Init /\ [][Next]_vars

----------------------------------------------------------------------------
Parts == {"monitor", "serial", "publisher"}
PacketsOfLamps == IF serial THEN ({"both"} \X {0, 1}) \cup (Sides \X {1})
                            ELSE {"publish"} \X (0 .. 6)

\* What the steps of a handler may be.
Steps ==
    ({"takeShow", "takeEffect", "cancel", "stop", "kill", "fail", "silence", "awaitStop"} \X {0})
    \cup ({"ifShow"} \X BOOLEAN) \cup ({"join"} \X (0 .. MaxFrames))
    \cup ({"light"} \X PacketsOfLamps)
    \cup ({"newShow"} \X (Ids \X {0})) \cup ({"newEffect"} \X (Ids \X DOMAIN Patterns))
    \cup ({"launch", "move", "track"} \X Ids)
    \cup ({"play"} \X (0 .. 255)) \cup ({"close"} \X Parts)

States == {"none", "new", "turn", "write", "dark", "clear", "done"}

FrameTypes ==
    /\ serial \in BOOLEAN /\ closed \subseteq Parts
    /\ budget \in [frames : Nat, scans : Nat, close : BOOLEAN]
    /\ begun \in 0 .. MaxFrames
    /\ todo \in [Threads -> Seq(Steps)]

LightTypes ==
    /\ show \in 0 .. MaxFrames /\ effect \in 0 .. MaxFrames
    /\ worker \in [Ids -> [scenes : Seq(0 .. 3), show : BOOLEAN, st : States, at : Nat,
                           out : Seq(PacketsOfLamps), told : BOOLEAN]]
    /\ \A w \in Ids : /\ worker[w].at <= Len(worker[w].scenes)
                      /\ worker[w].out # <<>> <=> worker[w].st \in {"write", "dark"}
    /\ IF serial THEN lamp \subseteq Sides ELSE lamp \in 0 .. 6
    /\ want \in {"scene", "effect", "any"} \X (0 .. 6) /\ mixed \in BOOLEAN /\ late \in BOOLEAN

OtherTypes ==
    /\ slot \in 0 .. MaxFrames /\ owed \subseteq Ids /\ displaced \subseteq Ids
    /\ motion \in [Ids -> {"none", "runs", "told", "over"}]
    /\ stopper \in {"idle", "begun", "zeroing"}
    /\ trackers \subseteq Ids
    /\ blocked \in BOOLEAN /\ age \in 0 .. Grace /\ sinceWarning \in 0 .. Cooldown
    /\ clearFor \in -1 .. Dwell
    /\ quiet \in 0 .. Cooldown /\ elapsed \in 0 .. Cooldown
    /\ firstClear \in -1 .. Dwell /\ clearSpan \in -1 .. Dwell

\* The types; a worker has packets to write only while it writes.
TypeOK == FrameTypes /\ LightTypes /\ OtherTypes

\* The lamps that a scene lights.
LampsOf(s) ==
    IF ~serial THEN s
    ELSE CASE s = Off -> {} [] s = On -> Sides [] s = Left -> {"left"} [] s = Right -> {"right"}

\* The frames about the lights come from many threads and are carried out by
\* workers that outlive them (light_show.py, serial_hardware.py).  As long as
\* no two threads are at the lights at once and no wait for a worker runs out
\* of time, what the lights do between frames is what the last frame asked
\* for: a show or an effect that runs is in its slot, where the next frame
\* finds it, an effect that was asked for runs and no other, and when nothing
\* runs the lamps show the last scene and not the end of an earlier show.
LightsFollowTheLastFrame ==
    LET shows == {w \in Ids : worker[w].show /\ Running(w)}
        effects == {w \in Ids : ~worker[w].show /\ Running(w)}
    IN ("serial" \notin closed /\ ~mixed /\ ~late /\ ~\E t \in Threads : AtLights(t)) =>
           /\ shows \subseteq {show} /\ effects \subseteq {effect}
           /\ want[1] = "scene" => effects = {}
           /\ want[1] = "effect" /\ serial => effects = {effect}
           /\ want[1] = "scene" /\ shows = {} => lamp = LampsOf(want[2])

\* A stop frame answers at once and leaves the stop to a thread
\* (_request_motion_stop).  Of all motions that run when a stop is accepted,
\* each that still runs is in the slot while a stop thread that has not come
\* to it is on its way.  There are two exceptions.  A stop that comes while an
\* earlier one publishes its zeros is dropped: it is not accepted.  And of two
\* moves that have both cancelled before either registers, the second takes
\* the slot of the first: a displaced motion no stop reaches, only its own
\* duration ends it.
StopIsHeard ==
    \A m \in owed : motion[m] = "runs" => \/ slot = m /\ stopper = "begun"
                                         \/ m \in displaced

\* The monitor does not repeat itself (_on_scan): since the last warning at
\* least the cooldown has passed, and in that time the front was reported
\* clear twice, the second time the dwell or more after the first.  It need
\* not have been clear all the while: an obstacle that is seen between the two
\* while the front counts as blocked does not start the dwell again, so that a
\* flickering obstacle may be warned of a second time, but not within the
\* cooldown and not without two such scans.
WarningsAreApart ==
    [][\A t \in Threads :
          (t = "scan" /\ todo[t] = <<>> /\ todo'[t] # <<>>)
             => clearSpan >= Dwell /\ elapsed' >= Cooldown]_vars
============================================================================
